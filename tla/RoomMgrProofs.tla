--------------------------- MODULE RoomMgrProofs ---------------------------
(***************************************************************************)
(* Type correctness of RoomMgr, and the agreement of its tables: rooms_,   *)
(* the links and the session at the AVS, for every number of connections,  *)
(* sockets, clients, rooms and waiting tasks.                              *)
(***************************************************************************)
EXTENDS RoomMgr, TLAPS

USE IdsAreNumbers, SentinelsAreFresh

\* What pc says of the running task and of the lists it works through.
SyncThreadOK ==
  /\ pc = "idle" <=> task = NoTask
  /\ pc \in {"login", "sendLogin"} =>
       task.type = "LINK_ROOM" /\ rooms[task.room] # "available"
  /\ pc = "inform" => task.type \in {"LINK_ROOM", "USERS_INFO"}
  /\ logoutTodo # {} => pc = "logout"

\* The windows RoomExistsIffLinked leaves open: a room on its way to be logged in
\* is linked, and one on its way to be logged out exists without a link.
RoomsInTransit ==
  /\ pc = "login" => Linked(task.room)
  /\ \A r \in logoutTodo : ~ Linked(r) /\ rooms[r] # "none"

\* A Room exists by the time its LOGIN is sent.
LoginIsForRoom == pc = "sendLogin" => rooms[task.room] # "none"

TypeInv == TypeOK /\ SyncThreadOK

\* Why a task always finds its Termination: the DISCONNECT of a connection is
\* scheduled once, when the event thread takes no more requests from it.
DisconnectsAreLast ==
  \A i \in Pending : TaskAt(i).type = "DISCONNECT" => life[TaskAt(i).conn] = "closing"

TerminationsHaveSockets == \A k \in Conns : life[k] # "free" => tcp_socket[k] \in Fds

LiveInv ==
  TypeInv /\ NoTaskOutlivesItsTermination /\ DisconnectsAreLast /\ TerminationsHaveSockets

RoomInv == RoomsInTransit /\ LoginIsForRoom /\ RoomExistsIffLinked /\ AvsSessionMatchesRoom
IInv == LiveInv /\ RoomInv
-----------------------------------------------------------------------------
\* The initial values have their types, and the sync thread is idle.
LEMMA InitTypeInv == Init => TypeInv
BY DEF Init, TypeInv, TypeOK, SyncThreadOK, Pcs, ClientIds, NoTask

\* Every step keeps the types and the place of the sync thread.
LEMMA NextTypeInv == TypeInv /\ [Next]_vars => TypeInv'
<1> SUFFICES ASSUME TypeInv, [Next]_vars PROVE TypeInv'
  OBVIOUS
<1> USE DEF TypeInv, TypeOK, SyncThreadOK, Pcs, Tasks, NoTask, connVars, roomVars, memberVars, syncVars
<1>1. ASSUME NEW f \in Fds, NEW k \in Conns, NEW c \in Clients, AddTermination(f, k, c)
      PROVE  TypeInv'
  BY <1>1 DEF AddTermination, ClientIds
<1>2. ASSUME NEW k \in Conns, DelTermination(k) PROVE TypeInv'
  <2>1. DisconnectTask(k) \in Tasks
    BY DEF DisconnectTask
  <2>2. queue' \in Seq(Tasks)
    BY <1>2, <2>1 DEF DelTermination, Schedule
  <2>3. QED
    BY <1>2, <2>2 DEF DelTermination, Schedule
<1>3. ASSUME NEW k \in Conns, TcpParamScene(k) PROVE TypeInv'
  BY <1>3 DEF TcpParamScene, Schedule, TcpRequests
<1>4. ASSUME NEW r \in Rooms, UdpParamScene(r) PROVE TypeInv'
  BY <1>4 DEF UdpParamScene, Schedule
<1>5. CASE TakeTask
  BY <1>5 DEF TakeTask
<1>6. CASE LoginScene
  BY <1>6 DEF LoginScene, OnLogin, Starts, Finish
<1>7. CASE LinkUnknownRoom
  BY <1>7 DEF LinkUnknownRoom, Starts, Finish
<1>8. CASE LinkRoomByLogin
  BY <1>8 DEF LinkRoomByLogin, RegisterLink, UpdateRoomClientList, UpdateClientRoomList,
              RecordedSocket, Starts, Goto, GetRoom
<1>9. CASE LinkAvailableRoom
  BY <1>9 DEF LinkAvailableRoom, RegisterLink, UpdateRoomClientList, UpdateClientRoomList,
              RecordedSocket, ClientsIn, Starts, Goto
<1>10. CASE Login
  BY <1>10 DEF Login, Goto
<1>11. CASE SendLogin
  BY <1>11 DEF SendLogin, Finish
<1>12. CASE DropUsersInfo
  BY <1>12 DEF DropUsersInfo, Starts, Finish
<1>13. CASE UsersInfoScene
  BY <1>13 DEF UsersInfoScene, ClientsIn, Starts, Goto
<1>14. ASSUME NEW c \in ClientIds, SendRoomUserInfo(c) PROVE TypeInv'
  BY <1>14 DEF SendRoomUserInfo, Finish, Goto
<1>15. CASE UnLinkRoomScene
  BY <1>15 DEF UnLinkRoomScene, DeleteClientRoom, DropLinks, RoomsEmptied, Starts, Finish, Goto
<1>16. CASE DisconnectScene
  BY <1>16 DEF DisconnectScene, DeleteClientRoom, DropLinks, RoomsEmptied, Starts, Finish, Goto, ClientIds
<1>17. ASSUME NEW r \in Rooms, Logout(r) PROVE TypeInv'
  BY <1>17 DEF Logout, Finish, Goto
<1>18. CASE SendKeepalivePacketToAllAvs
  BY <1>18 DEF SendKeepalivePacketToAllAvs
<1>19. CASE UNCHANGED vars
  BY <1>19 DEF vars
<1>20. QED
  BY <1>1, <1>2, <1>3, <1>4, <1>5, <1>6, <1>7, <1>8, <1>9, <1>10, <1>11, <1>12, <1>13,
     <1>14, <1>15, <1>16, <1>17, <1>18, <1>19 DEF Next, EventThread, SyncThread

\* Every variable keeps its type: in particular every task the sync thread runs
\* carries the Termination and the room its scene needs.
THEOREM TypeCorrect == Spec => []TypeOK
<1>1. TypeInv => TypeOK
  BY DEF TypeInv
<1>2. QED
  BY InitTypeInv, NextTypeInv, <1>1, PTL DEF Spec
-----------------------------------------------------------------------------
\* Nothing is pending at first.
LEMMA InitLiveInv == Init => LiveInv
BY InitTypeInv DEF Init, LiveInv, NoTaskOutlivesItsTermination, DisconnectsAreLast,
                   TerminationsHaveSockets, Pending

\* What is pending is a task, never NoTask.
LEMMA PendingTasksAreTyped ==
  ASSUME TypeInv, NEW i \in Pending
  PROVE  TaskAt(i) \in Tasks
BY DEF TypeInv, TypeOK, SyncThreadOK, Pending, TaskAt

\* Scheduling puts the task at the end and moves no other.
LEMMA ScheduledTaskIsLast ==
  ASSUME TypeInv, NEW t \in Tasks, Schedule(t), NEW n \in Nat, n = Len(queue) + 1
  PROVE  /\ Pending' = Pending \cup {n} /\ n \notin Pending
         /\ TaskAt(n)' = t
         /\ \A i \in Pending : TaskAt(i)' = TaskAt(i) /\ i < n
<1> USE DEF TypeInv, TypeOK
<1>1. queue \in Seq(Tasks) /\ queue' = Append(queue, t) /\ pc' = pc /\ task' = task
  BY DEF Schedule
<1>2. /\ Len(queue) \in Nat /\ Len(queue') = n
      /\ queue'[n] = t
      /\ \A i \in 1 .. Len(queue) : queue'[i] = queue[i]
  BY <1>1
<1>3. Pending \subseteq 0 .. Len(queue) /\ \A i \in Pending : i # 0 => i \in 1 .. Len(queue)
  BY <1>2 DEF Pending
<1>4. Pending' = Pending \cup {n} /\ n \notin Pending
  BY <1>1, <1>2 DEF Pending
<1>5. TaskAt(n)' = t
  BY <1>2 DEF TaskAt
<1>6. ASSUME NEW i \in Pending PROVE TaskAt(i)' = TaskAt(i) /\ i < n
  <2>1. i = 0 \/ i \in 1 .. Len(queue)
    BY <1>3
  <2>2. TaskAt(i)' = TaskAt(i)
    BY <2>1, <1>1, <1>2 DEF TaskAt
  <2>3. QED
    BY <2>1, <2>2, <1>2
<1>7. QED
  BY <1>4, <1>5, <1>6

\* A task may be scheduled for a Termination that is not deleted and has no
\* DISCONNECT pending; the DISCONNECT itself, when the connection closes.
LEMMA ScheduleKeepsLive ==
  ASSUME LiveInv, NEW t \in Tasks, Schedule(t), TypeInv',
         t.conn # NoConn => life[t.conn] = "open",
         tcp_socket' = tcp_socket,
         life' = IF t.type = "DISCONNECT" THEN [life EXCEPT ![t.conn] = "closing"] ELSE life
  PROVE  LiveInv'
<1> DEFINE n == Len(queue) + 1
<1> USE DEF LiveInv
<1>0. n \in Nat
  BY DEF TypeInv, TypeOK
<1>1. PICK m \in Nat : m = n
  BY <1>0
<1>2. /\ Pending' = Pending \cup {m} /\ m \notin Pending
      /\ TaskAt(m)' = t
      /\ \A i \in Pending : TaskAt(i)' = TaskAt(i) /\ i < m
  BY <1>1, ScheduledTaskIsLast
<1>3. \A i \in Pending : TaskAt(i) \in Tasks
  BY PendingTasksAreTyped
<1>4. \A i \in Pending : /\ TaskAt(i).type = "DISCONNECT" => TaskAt(i).conn \in Conns
                         /\ TaskAt(i).conn # NoConn => TaskAt(i).conn \in Conns
  BY <1>3 DEF Tasks
<1>5. t.conn # NoConn => t.conn \in Conns
  BY DEF Tasks
<1>6. t.type = "DISCONNECT" => t.conn \in Conns
  BY DEF Tasks
<1>7. /\ \A c \in Conns :
            life'[c] = life[c] \/ (c = t.conn /\ life[c] = "open" /\ life'[c] = "closing")
      /\ t.type = "DISCONNECT" => life'[t.conn] = "closing"
      /\ Pending \subseteq Nat
  BY <1>6 DEF TypeInv, TypeOK, Pending
<1>8. NoTaskOutlivesItsTermination'
  <2> SUFFICES ASSUME NEW j \in Pending', TaskAt(j)'.conn # NoConn,
                      NEW i \in Pending'
               PROVE  /\ life'[TaskAt(j)'.conn] # "free"
                      /\ i < j => ~ IsDisconnect(i, TaskAt(j).conn)'
    BY <1>2 DEF NoTaskOutlivesItsTermination
  <2>1. CASE j \in Pending
    BY <2>1, <1>2, <1>4, <1>7 DEF NoTaskOutlivesItsTermination, IsDisconnect
  <2>2. CASE j = m
    BY <2>2, <1>2, <1>4, <1>7, <1>5 DEF DisconnectsAreLast, IsDisconnect
  <2>3. QED
    BY <1>2, <2>1, <2>2
<1>9. DisconnectsAreLast'
  BY <1>2, <1>4, <1>7 DEF DisconnectsAreLast
<1>10. TerminationsHaveSockets'
  BY <1>7 DEF TerminationsHaveSockets
<1>11. QED
  BY <1>8, <1>9, <1>10

\* Once a task has started, nothing is pending but the queue.
LEMMA StartedTaskKeepsLive ==
  ASSUME LiveInv, TypeInv', queue' = queue, pc' # "start",
         life' = life, tcp_socket' = tcp_socket
  PROVE  LiveInv'
<1>1. Pending' \subseteq Pending /\ \A i \in Pending' : TaskAt(i)' = TaskAt(i)
  BY DEF Pending, TaskAt
<1>2. QED
  BY <1>1 DEF LiveInv, NoTaskOutlivesItsTermination, DisconnectsAreLast,
              TerminationsHaveSockets, IsDisconnect

\* The task that starts is the head of the queue; the others move up by one.
LEMMA TakeTaskKeepsLive ==
  ASSUME LiveInv, TypeInv', TakeTask
  PROVE  LiveInv'
<1>1. queue \in Seq(Tasks) /\ queue # <<>> /\ pc = "idle"
  BY DEF LiveInv, TypeInv, TypeOK, TakeTask
<1>2. /\ Len(queue) \in Nat \ {0} /\ Len(queue') = Len(queue) - 1
      /\ task' = queue[1]
      /\ \A i \in 1 .. Len(queue) - 1 : queue'[i] = queue[i + 1]
  BY <1>1 DEF TakeTask
<1>3. Pending = 1 .. Len(queue) /\ Pending' = 0 .. Len(queue) - 1
  BY <1>1, <1>2 DEF Pending, TakeTask
<1>4. ASSUME NEW i \in Pending' PROVE i + 1 \in Pending /\ TaskAt(i)' = TaskAt(i + 1)
  BY <1>2, <1>3 DEF TaskAt
<1>5. life' = life /\ tcp_socket' = tcp_socket
  BY DEF TakeTask, connVars
<1>6. NoTaskOutlivesItsTermination'
  <2> SUFFICES ASSUME NEW j \in Pending', TaskAt(j)'.conn # NoConn, NEW i \in Pending'
               PROVE  /\ life'[TaskAt(j)'.conn] # "free"
                      /\ i < j => ~ IsDisconnect(i, TaskAt(j).conn)'
    BY <1>3, <1>2 DEF NoTaskOutlivesItsTermination
  <2>1. i < j => i + 1 < j + 1
    BY <1>2, <1>3
  <2>2. QED
    BY <2>1, <1>4, <1>5 DEF LiveInv, NoTaskOutlivesItsTermination, IsDisconnect
<1>7. DisconnectsAreLast'
  BY <1>4, <1>5 DEF LiveInv, DisconnectsAreLast
<1>8. QED
  BY <1>5, <1>6, <1>7 DEF LiveInv, TerminationsHaveSockets

\* A running scene has its Termination, and no other task of it waits behind a
\* DISCONNECT that runs.
LEMMA RunningTaskIsLive ==
  ASSUME LiveInv, pc = "start", task.conn # NoConn
  PROVE  /\ task.conn \in Conns /\ life[task.conn] # "free"
         /\ task.type = "DISCONNECT" =>
              \A j \in Pending : j # 0 => TaskAt(j).conn # task.conn
<1>1. 0 \in Pending /\ TaskAt(0) = task
  BY DEF LiveInv, TypeInv, TypeOK, Pending, TaskAt
<1>2. task \in Tasks
  BY DEF LiveInv, TypeInv, TypeOK, SyncThreadOK
<1>3. \A j \in Pending : j # 0 => 0 < j
  BY DEF LiveInv, TypeInv, TypeOK, Pending
<1>4. QED
  BY <1>1, <1>2, <1>3 DEF LiveInv, NoTaskOutlivesItsTermination, IsDisconnect, Tasks

\* Deleting a Termination leaves no pending task with a pointer to it.
LEMMA DisconnectKeepsLive ==
  ASSUME LiveInv, TypeInv', DisconnectScene
  PROVE  LiveInv'
<1>1. /\ pc = "start" /\ task.type = "DISCONNECT" /\ task \in Tasks /\ task.conn \in Conns
      /\ pc' # "start" /\ queue' = queue
      /\ life' = [life EXCEPT ![task.conn] = "free"]
      /\ tcp_socket' = [tcp_socket EXCEPT ![task.conn] = NoFd]
  BY DEF DisconnectScene, Starts, DropLinks, Finish, Goto, LiveInv, TypeInv, TypeOK,
         SyncThreadOK, NoTask, Tasks
<1>2. \A j \in Pending : j # 0 => TaskAt(j).conn # task.conn
  BY <1>1, RunningTaskIsLive
<1>3. Pending' = Pending \ {0} /\ \A i \in Pending' : TaskAt(i)' = TaskAt(i)
  BY <1>1 DEF Pending, TaskAt
<1>4. \A i \in Pending' : TaskAt(i).conn # task.conn /\ TaskAt(i) \in Tasks
  BY <1>2, <1>3, PendingTasksAreTyped DEF LiveInv
<1>5. \A c \in Conns : c # task.conn => life'[c] = life[c] /\ tcp_socket'[c] = tcp_socket[c]
  BY <1>1 DEF LiveInv, TypeInv, TypeOK
<1>6. life'[task.conn] = "free"
  BY <1>1 DEF LiveInv, TypeInv, TypeOK
<1>7. \A i \in Pending' : TaskAt(i).conn # NoConn => TaskAt(i).conn \in Conns
  BY <1>4 DEF Tasks
<1>8. \A i \in Pending' : TaskAt(i).type = "DISCONNECT" => TaskAt(i).conn \in Conns
  BY <1>4 DEF Tasks
<1>9. NoTaskOutlivesItsTermination'
  BY <1>3, <1>4, <1>5, <1>7 DEF LiveInv, NoTaskOutlivesItsTermination, IsDisconnect
<1>10. DisconnectsAreLast'
  BY <1>3, <1>4, <1>5, <1>8 DEF LiveInv, DisconnectsAreLast
<1>11. TerminationsHaveSockets'
  BY <1>5, <1>6 DEF LiveInv, TerminationsHaveSockets
<1>12. QED
  BY <1>9, <1>10, <1>11 DEF LiveInv

\* A new connection takes an object no pending task points to.
LEMMA AddTerminationKeepsLive ==
  ASSUME LiveInv, TypeInv', NEW f \in Fds, NEW k \in Conns, NEW c \in Clients,
         AddTermination(f, k, c)
  PROVE  LiveInv'
<1>1. /\ life[k] = "free" /\ life'[k] = "open" /\ tcp_socket'[k] = f
      /\ \A d \in Conns : d # k => life'[d] = life[d] /\ tcp_socket'[d] = tcp_socket[d]
      /\ queue' = queue /\ pc' = pc /\ task' = task
  BY DEF AddTermination, syncVars, LiveInv, TypeInv, TypeOK
<1>2. Pending' = Pending /\ \A i \in Pending : TaskAt(i)' = TaskAt(i)
  BY <1>1 DEF Pending, TaskAt
<1>3. \A i \in Pending : TaskAt(i) \in Tasks
  BY PendingTasksAreTyped DEF LiveInv
<1>4. \A i \in Pending : TaskAt(i).conn # k
  BY <1>1 DEF LiveInv, NoTaskOutlivesItsTermination
<1>5. \A i \in Pending : /\ TaskAt(i).conn # NoConn => TaskAt(i).conn \in Conns
                         /\ TaskAt(i).type = "DISCONNECT" => TaskAt(i).conn \in Conns
  BY <1>3 DEF Tasks
<1>6. NoTaskOutlivesItsTermination'
  BY <1>1, <1>2, <1>4, <1>5 DEF LiveInv, NoTaskOutlivesItsTermination, IsDisconnect
<1>7. DisconnectsAreLast'
  BY <1>1, <1>2, <1>4, <1>5 DEF LiveInv, DisconnectsAreLast
<1>8. TerminationsHaveSockets'
  BY <1>1 DEF LiveInv, TerminationsHaveSockets
<1>9. QED
  BY <1>6, <1>7, <1>8 DEF LiveInv

\* The inductive step of LiveInv, one action after the other.
LEMMA NextLiveInv == LiveInv /\ [Next]_vars => LiveInv'
<1> SUFFICES ASSUME LiveInv, [Next]_vars PROVE LiveInv'
  OBVIOUS
<1>0. TypeInv'
  BY NextTypeInv DEF LiveInv
<1> USE DEF Tasks
<1>1. ASSUME NEW f \in Fds, NEW k \in Conns, NEW c \in Clients, AddTermination(f, k, c)
      PROVE  LiveInv'
  BY <1>0, <1>1, AddTerminationKeepsLive
<1>2. ASSUME NEW k \in Conns, DelTermination(k) PROVE LiveInv'
  <2>1. DisconnectTask(k) \in Tasks
    BY DEF DisconnectTask
  <2>2. QED
    BY <1>0, <1>2, <2>1, ScheduleKeepsLive DEF DelTermination, DisconnectTask
<1>3. ASSUME NEW k \in Conns, TcpParamScene(k) PROVE LiveInv'
  <2>1. PICK t \in TcpRequests(k) : Schedule(t)
    BY <1>3 DEF TcpParamScene
  <2>2. t \in Tasks /\ t.conn = k /\ t.type # "DISCONNECT"
    BY DEF TcpRequests
  <2>3. QED
    BY <1>0, <1>3, <2>1, <2>2, ScheduleKeepsLive DEF TcpParamScene, connVars
<1>4. ASSUME NEW r \in Rooms, UdpParamScene(r) PROVE LiveInv'
  <2> DEFINE t == [type |-> "USERS_INFO", conn |-> NoConn, room |-> r]
  <2>1. t \in Tasks /\ t.conn = NoConn /\ t.type # "DISCONNECT"
    OBVIOUS
  <2>2. Schedule(t) /\ life' = life /\ tcp_socket' = tcp_socket
    BY <1>4 DEF UdpParamScene, connVars
  <2> HIDE DEF t
  <2>3. QED
    BY <1>0, <2>1, <2>2, ScheduleKeepsLive
<1>5. CASE TakeTask
  BY <1>0, <1>5, TakeTaskKeepsLive
<1>6. CASE DisconnectScene
  BY <1>0, <1>6, DisconnectKeepsLive
<1>7. CASE LoginScene \/ LinkUnknownRoom \/ LinkRoomByLogin \/ LinkAvailableRoom
  BY <1>0, <1>7, StartedTaskKeepsLive
     DEF LoginScene, LinkUnknownRoom, LinkRoomByLogin, LinkAvailableRoom, Finish, Goto, connVars
<1>8. CASE Login \/ SendLogin \/ DropUsersInfo \/ UsersInfoScene \/ UnLinkRoomScene
  BY <1>0, <1>8, StartedTaskKeepsLive
     DEF Login, SendLogin, DropUsersInfo, UsersInfoScene, UnLinkRoomScene, DropLinks,
         Finish, Goto, connVars
<1>9. ASSUME NEW c \in ClientIds, SendRoomUserInfo(c) PROVE LiveInv'
  BY <1>0, <1>9, StartedTaskKeepsLive DEF SendRoomUserInfo, Finish, Goto, connVars
<1>10. ASSUME NEW r \in Rooms, Logout(r) PROVE LiveInv'
  BY <1>0, <1>10, StartedTaskKeepsLive DEF Logout, Finish, Goto, connVars
<1>11. CASE SendKeepalivePacketToAllAvs \/ UNCHANGED vars
  BY <1>0, <1>11 DEF SendKeepalivePacketToAllAvs, vars, connVars, syncVars, LiveInv, Pending,
     TaskAt, NoTaskOutlivesItsTermination, DisconnectsAreLast, TerminationsHaveSockets,
     IsDisconnect
<1>12. QED
  BY <1>1, <1>2, <1>3, <1>4, <1>5, <1>6, <1>7, <1>8, <1>9, <1>10, <1>11
     DEF Next, EventThread, SyncThread

\* No task of the sync pool is left behind the DISCONNECT that deletes the
\* Termination it points to.
THEOREM NoUseAfterDelete == Spec => []NoTaskOutlivesItsTermination
<1>1. LiveInv => NoTaskOutlivesItsTermination
  BY DEF LiveInv
<1>2. QED
  BY InitLiveInv, NextLiveInv, <1>1, PTL DEF Spec
-----------------------------------------------------------------------------
\* At first there is neither a room nor a link.
LEMMA InitIInv == Init => IInv
BY InitLiveInv DEF Init, IInv, RoomInv, RoomsInTransit, LoginIsForRoom, RoomExistsIffLinked,
                   AvsSessionMatchesRoom, Linked

\* Steps that leave the links, the rooms and the sync thread's place alone.
LEMMA RoomsUntouched ==
  ASSUME RoomInv, UNCHANGED <<rooms, roomClients, avsSent, logoutTodo, pc, task>>
  PROVE  RoomInv'
BY DEF RoomInv, RoomsInTransit, LoginIsForRoom, RoomExistsIffLinked, AvsSessionMatchesRoom, Linked

\* Steps of a task that change neither the links nor the rooms, and that do not
\* stand between a link and the room's login or logout.
LEMMA TaskElsewhere ==
  ASSUME RoomInv, UNCHANGED <<rooms, roomClients, avsSent, logoutTodo>>,
         pc \notin {"login", "sendLogin"}, pc' \notin {"login", "sendLogin"}
  PROVE  RoomInv'
BY DEF RoomInv, RoomsInTransit, LoginIsForRoom, RoomExistsIffLinked, AvsSessionMatchesRoom, Linked

\* Making a link leaves its room linked and every other room as it was.
LEMMA LinkedAfterRegister ==
  ASSUME TypeInv, NEW k \in Conns, NEW r \in Rooms, RegisterLink(k, r),
         tcp_socket[k] # NoFd
  PROVE  /\ \E c \in ClientIds : roomClients'[r][c] # NoFd
         /\ \A s \in Rooms : s # r => roomClients'[s] = roomClients[s]
BY DEF TypeInv, TypeOK, RegisterLink, UpdateRoomClientList, RecordedSocket

\* Dropping links empties the rooms that are to be logged out, and no other.
LEMMA LinkedAfterDrop ==
  ASSUME TypeInv, NEW gone, DropLinks(gone), NEW r \in Rooms
  PROVE  /\ (\E c \in ClientIds : roomClients'[r][c] # NoFd) <=> Linked(r) /\ r \notin logoutTodo'
         /\ r \in logoutTodo' => Linked(r)
BY DEF TypeInv, TypeOK, DropLinks, RoomsEmptied, Linked

\* UNLINK_ROOM and DISCONNECT: the rooms that lose their last link are those that
\* are then logged out.
LEMMA DropLinksKeepsRooms ==
  ASSUME TypeInv, TypeInv', RoomInv, pc = "start", NEW gone, DropLinks(gone),
         rooms' = rooms, avsSent' = avsSent
  PROVE  RoomInv'
<1>1. logoutTodo = {} /\ pc' \notin {"login", "sendLogin"}
  BY DEF TypeInv, SyncThreadOK, DropLinks, Finish, Goto
<1>2. \A r \in Rooms : /\ Linked(r)' <=> Linked(r) /\ r \notin logoutTodo'
                       /\ r \in logoutTodo' => Linked(r)
  BY LinkedAfterDrop DEF Linked
<1>3. \A r \in Rooms : rooms[r] # "none" <=> Linked(r)
  BY <1>1 DEF RoomInv, RoomExistsIffLinked
<1>4. logoutTodo' \subseteq Rooms
  BY DEF TypeInv, TypeOK
<1>5. RoomsInTransit' /\ RoomExistsIffLinked'
  BY <1>1, <1>2, <1>3, <1>4 DEF RoomsInTransit, RoomExistsIffLinked
<1>6. LoginIsForRoom' /\ AvsSessionMatchesRoom'
  BY <1>1 DEF RoomInv, LoginIsForRoom, AvsSessionMatchesRoom
<1>7. QED
  BY <1>5, <1>6 DEF RoomInv

\* What a LINK_ROOM task records of its Termination.
LEMMA RunningLinkIsTyped ==
  ASSUME LiveInv, Starts("LINK_ROOM")
  PROVE  /\ task.conn \in Conns /\ task.room \in Rooms /\ tcp_socket[task.conn] # NoFd
         /\ logoutTodo = {}
<1>1. task \in Tasks /\ pc = "start" /\ task.type = "LINK_ROOM"
  BY DEF Starts, LiveInv, TypeInv, TypeOK, SyncThreadOK
<1>2. task.conn \in Conns /\ task.room \in Rooms /\ task.conn # NoConn
  BY <1>1 DEF Tasks
<1>3. life[task.conn] # "free"
  BY <1>1, <1>2, RunningTaskIsLive
<1>4. QED
  BY <1>1, <1>2, <1>3 DEF LiveInv, TerminationsHaveSockets, TypeInv, SyncThreadOK

\* A link to a room that is not available: its login is next.
LEMMA LinkByLoginKeepsRooms ==
  ASSUME LiveInv, TypeInv', RoomInv, LinkRoomByLogin
  PROVE  RoomInv'
<1>1. /\ task.conn \in Conns /\ task.room \in Rooms /\ tcp_socket[task.conn] # NoFd
      /\ logoutTodo = {}
  BY RunningLinkIsTyped DEF LinkRoomByLogin
<1>2. /\ pc = "start" /\ pc' = "login" /\ task' = task
      /\ UNCHANGED <<rooms, avsSent, logoutTodo>>
      /\ RegisterLink(task.conn, task.room)
  BY DEF LinkRoomByLogin, Starts, Goto, roomVars
<1>3. /\ \E c \in ClientIds : roomClients'[task.room][c] # NoFd
      /\ \A s \in Rooms : s # task.room => roomClients'[s] = roomClients[s]
  BY <1>1, <1>2, LinkedAfterRegister DEF LiveInv
<1>4. QED
  BY <1>1, <1>2, <1>3 DEF RoomInv, RoomsInTransit, LoginIsForRoom, RoomExistsIffLinked,
                          AvsSessionMatchesRoom, Linked

\* A link to an available room needs no login.
LEMMA LinkAvailableKeepsRooms ==
  ASSUME LiveInv, TypeInv', RoomInv, LinkAvailableRoom
  PROVE  RoomInv'
<1>1. /\ task.conn \in Conns /\ task.room \in Rooms /\ tcp_socket[task.conn] # NoFd
      /\ logoutTodo = {}
  BY RunningLinkIsTyped DEF LinkAvailableRoom
<1>2. /\ pc = "start" /\ pc' = "inform" /\ task' = task /\ rooms[task.room] = "available"
      /\ UNCHANGED <<rooms, avsSent, logoutTodo>>
      /\ RegisterLink(task.conn, task.room)
  BY DEF LinkAvailableRoom, Starts, Goto, GetRoom, roomVars
<1>3. /\ \E c \in ClientIds : roomClients'[task.room][c] # NoFd
      /\ \A s \in Rooms : s # task.room => roomClients'[s] = roomClients[s]
  BY <1>1, <1>2, LinkedAfterRegister DEF LiveInv
<1>4. QED
  BY <1>1, <1>2, <1>3 DEF RoomInv, RoomsInTransit, LoginIsForRoom, RoomExistsIffLinked,
                          AvsSessionMatchesRoom, Linked

\* Login creates the Room its link waits for, then tells the AVS.
LEMMA LoginKeepsRooms ==
  ASSUME TypeInv, RoomInv, Login \/ SendLogin
  PROVE  RoomInv'
<1>1. logoutTodo = {} /\ task \in Tasks /\ task.type = "LINK_ROOM"
  BY DEF TypeInv, TypeOK, SyncThreadOK, Login, SendLogin
<1>2. task.room \in Rooms
  BY <1>1 DEF Tasks
<1>3. CASE Login
  <2>1. /\ pc = "login" /\ pc' = "sendLogin" /\ task' = task
        /\ UNCHANGED <<roomClients, avsSent, logoutTodo>>
        /\ rooms'[task.room] # "none"
        /\ \A r \in Rooms : r # task.room => rooms'[r] = rooms[r]
    BY <1>2, <1>3 DEF Login, Goto, memberVars, TypeInv, TypeOK
  <2>2. QED
    BY <1>1, <1>2, <2>1 DEF RoomInv, RoomsInTransit, LoginIsForRoom, RoomExistsIffLinked,
                            AvsSessionMatchesRoom, Linked
<1>4. CASE SendLogin
  <2>1. /\ pc = "sendLogin" /\ pc' = "idle"
        /\ UNCHANGED <<roomClients, rooms, logoutTodo>>
        /\ avsSent'[task.room] = "login"
        /\ \A r \in Rooms : r # task.room => avsSent'[r] = avsSent[r]
    BY <1>2, <1>4 DEF SendLogin, Finish, memberVars, TypeInv, TypeOK
  <2>2. QED
    BY <1>1, <1>2, <2>1 DEF RoomInv, RoomsInTransit, LoginIsForRoom, RoomExistsIffLinked,
                            AvsSessionMatchesRoom, Linked
<1>5. QED
  BY <1>3, <1>4

\* USERS_INFO makes a Room available only if it exists.
LEMMA UsersInfoKeepsRooms ==
  ASSUME TypeInv, RoomInv, UsersInfoScene
  PROVE  RoomInv'
<1>1. /\ pc = "start" /\ pc' = "inform" /\ UNCHANGED <<roomClients, avsSent, logoutTodo>>
      /\ \A r \in Rooms : rooms'[r] # "none" <=> rooms[r] # "none"
  BY DEF UsersInfoScene, Starts, Goto, GetRoom, memberVars, TypeInv, TypeOK
<1>2. QED
  BY <1>1 DEF RoomInv, RoomsInTransit, LoginIsForRoom, RoomExistsIffLinked,
              AvsSessionMatchesRoom, Linked, TypeInv, TypeOK

\* Logout takes away the Room and the session together.
LEMMA LogoutKeepsRooms ==
  ASSUME TypeInv, RoomInv, NEW r \in Rooms, Logout(r)
  PROVE  RoomInv'
<1>1. /\ pc = "logout" /\ pc' \in {"logout", "idle"} /\ r \in logoutTodo
      /\ logoutTodo' = logoutTodo \ {r} /\ roomClients' = roomClients
  BY DEF Logout, Finish, Goto, memberVars
<1>2. /\ rooms'[r] = "none" /\ avsSent'[r] \notin {"login", "keepalive"}
      /\ \A s \in Rooms : s # r => rooms'[s] = rooms[s] /\ avsSent'[s] = avsSent[s]
  BY <1>1 DEF Logout, roomVars, RoomInv, RoomsInTransit, TypeInv, TypeOK
<1>3. QED
  BY <1>1, <1>2 DEF RoomInv, RoomsInTransit, LoginIsForRoom, RoomExistsIffLinked,
                    AvsSessionMatchesRoom, Linked, TypeInv, TypeOK

\* The keepalive thread writes to rooms that exist.
LEMMA KeepaliveKeepsRooms ==
  ASSUME TypeInv, RoomInv, SendKeepalivePacketToAllAvs
  PROVE  RoomInv'
<1>1. /\ UNCHANGED <<rooms, roomClients, logoutTodo, pc, task>>
      /\ \A r \in Rooms : avsSent'[r] = IF rooms[r] = "available" THEN "keepalive" ELSE avsSent[r]
  BY DEF SendKeepalivePacketToAllAvs, RoomsToKeepAlive, syncVars, memberVars
<1>2. QED
  BY <1>1 DEF RoomInv, RoomsInTransit, LoginIsForRoom, RoomExistsIffLinked,
              AvsSessionMatchesRoom, Linked, TypeInv, TypeOK

\* The inductive step of IInv, one action after the other.
LEMMA NextIInv == IInv /\ [Next]_vars => IInv'
<1> SUFFICES ASSUME IInv, [Next]_vars PROVE IInv'
  OBVIOUS
<1>0. LiveInv' /\ TypeInv' /\ TypeInv /\ LiveInv /\ RoomInv
  BY NextLiveInv DEF IInv, LiveInv
<1> SUFFICES RoomInv'
  BY <1>0 DEF IInv
<1>1. ASSUME NEW f \in Fds, NEW k \in Conns, NEW c \in Clients, AddTermination(f, k, c)
      PROVE  RoomInv'
  BY <1>0, <1>1, RoomsUntouched DEF AddTermination, syncVars, roomVars, memberVars
<1>2. ASSUME NEW k \in Conns, DelTermination(k) \/ TcpParamScene(k) PROVE RoomInv'
  BY <1>0, <1>2, RoomsUntouched
     DEF DelTermination, TcpParamScene, Schedule, roomVars, memberVars
<1>3. ASSUME NEW r \in Rooms, UdpParamScene(r) PROVE RoomInv'
  BY <1>0, <1>3, RoomsUntouched DEF UdpParamScene, Schedule, roomVars, memberVars
<1>4. CASE TakeTask \/ LoginScene \/ LinkUnknownRoom \/ DropUsersInfo
  BY <1>0, <1>4, TaskElsewhere
     DEF TakeTask, LoginScene, LinkUnknownRoom, DropUsersInfo, Starts, Finish, roomVars, memberVars
<1>5. CASE LinkRoomByLogin
  BY <1>0, <1>5, LinkByLoginKeepsRooms
<1>6. CASE LinkAvailableRoom
  BY <1>0, <1>6, LinkAvailableKeepsRooms
<1>7. CASE Login \/ SendLogin
  BY <1>0, <1>7, LoginKeepsRooms
<1>8. CASE UsersInfoScene
  BY <1>0, <1>8, UsersInfoKeepsRooms
<1>9. ASSUME NEW c \in ClientIds, SendRoomUserInfo(c) PROVE RoomInv'
  BY <1>0, <1>9, TaskElsewhere DEF SendRoomUserInfo, Finish, Goto, roomVars
<1>10. CASE UnLinkRoomScene
  BY <1>0, <1>10, DropLinksKeepsRooms DEF UnLinkRoomScene, Starts, roomVars
<1>11. CASE DisconnectScene
  BY <1>0, <1>11, DropLinksKeepsRooms DEF DisconnectScene, Starts, roomVars
<1>12. ASSUME NEW r \in Rooms, Logout(r) PROVE RoomInv'
  BY <1>0, <1>12, LogoutKeepsRooms
<1>13. CASE SendKeepalivePacketToAllAvs
  BY <1>0, <1>13, KeepaliveKeepsRooms
<1>14. CASE UNCHANGED vars
  BY <1>0, <1>14, RoomsUntouched DEF vars, syncVars, roomVars, memberVars
<1>15. QED
  BY <1>1, <1>2, <1>3, <1>4, <1>5, <1>6, <1>7, <1>8, <1>9, <1>10, <1>11, <1>12, <1>13, <1>14
     DEF Next, EventThread, SyncThread

\* The proxy keeps a Room exactly while a client is linked to it.
THEOREM RoomsFollowLinks == Spec => []RoomExistsIffLinked
<1>1. IInv => RoomExistsIffLinked
  BY DEF IInv, RoomInv
<1>2. QED
  BY InitIInv, NextIInv, <1>1, PTL DEF Spec

\* The AVS has been told of a session exactly while the Room exists.
THEOREM SessionsFollowRooms == Spec => []AvsSessionMatchesRoom
<1>1. IInv => AvsSessionMatchesRoom
  BY DEF IInv, RoomInv
<1>2. QED
  BY InitIInv, NextIInv, <1>1, PTL DEF Spec
-----------------------------------------------------------------------------
\* LOGIN comes before every keepalive and every LOGOUT.
LEMMA StepKeepsSessionOrder ==
  ASSUME IInv, [Next]_vars, NEW r \in Rooms,
         avsSent'[r] \in {"keepalive", "logout"}, avsSent'[r] # avsSent[r]
  PROVE  avsSent[r] \in {"login", "keepalive"}
<1> USE DEF IInv, LiveInv, TypeInv, TypeOK, RoomInv
<1>1. CASE SendKeepalivePacketToAllAvs
  <2>1. rooms[r] = "available"
    BY <1>1 DEF SendKeepalivePacketToAllAvs, RoomsToKeepAlive
  <2>2. ~ (pc = "sendLogin" /\ r = task.room)
    BY <2>1 DEF SyncThreadOK
  <2>3. QED
    BY <2>1, <2>2 DEF AvsSessionMatchesRoom
<1>2. ASSUME NEW s \in Rooms, Logout(s) PROVE avsSent[r] \in {"login", "keepalive"}
  <2>1. pc = "logout" /\ r = s /\ rooms[r] # "none"
    BY <1>2 DEF Logout, roomVars
  <2>2. QED
    BY <2>1 DEF AvsSessionMatchesRoom
<1>3. CASE SendLogin
  BY <1>3 DEF SendLogin
<1>4. CASE avsSent' = avsSent
  BY <1>4
<1>5. QED
  BY <1>1, <1>2, <1>3, <1>4
     DEF Next, EventThread, SyncThread, AddTermination, DelTermination, TcpParamScene,
         UdpParamScene, TakeTask, LoginScene, LinkUnknownRoom, LinkRoomByLogin,
         LinkAvailableRoom, Login, DropUsersInfo, UsersInfoScene, SendRoomUserInfo,
         UnLinkRoomScene, DisconnectScene, roomVars, vars

\* The AVS sees LOGIN, then keepalives, then LOGOUT.
THEOREM SessionsAreOrdered == Spec => AvsSessionOrder
<1>1. IInv /\ [Next]_vars =>
        [\A r \in Rooms : avsSent'[r] \in {"keepalive", "logout"} /\ avsSent'[r] # avsSent[r]
           => avsSent[r] \in {"login", "keepalive"}]_vars
  BY StepKeepsSessionOrder
<1>2. QED
  BY InitIInv, NextIInv, <1>1, PTL DEF Spec, AvsSessionOrder
-----------------------------------------------------------------------------
\* The Terminations that tasks have: the state TerminationLife calls held.
Held ==
  {k \in Conns : \/ task.conn = k /\ task.type # "DISCONNECT"
                 \/ \E i \in 1 .. Len(queue) :
                      queue[i].conn = k /\ queue[i].type # "DISCONNECT"}

\* A task that is scheduled has its Termination from then on, but for DISCONNECT,
\* which is there to delete it.
LEMMA ScheduleHolds ==
  ASSUME TypeInv, NEW t \in Tasks, Schedule(t)
  PROVE  Held' = Held \cup {k \in Conns : t.conn = k /\ t.type # "DISCONNECT"}
<1>1. queue \in Seq(Tasks) /\ queue' = Append(queue, t) /\ task' = task
  BY DEF Schedule, TypeInv, TypeOK
<1>2. /\ Len(queue) \in Nat /\ Len(queue') = Len(queue) + 1
      /\ queue'[Len(queue) + 1] = t
      /\ \A i \in 1 .. Len(queue) : queue'[i] = queue[i]
  BY <1>1
<1>3. \A k \in Conns :
        (\E i \in 1 .. Len(queue') : queue'[i].conn = k /\ queue'[i].type # "DISCONNECT")
        <=> \/ \E i \in 1 .. Len(queue) : queue[i].conn = k /\ queue[i].type # "DISCONNECT"
            \/ t.conn = k /\ t.type # "DISCONNECT"
  <2> SUFFICES ASSUME NEW k \in Conns
               PROVE  (\E i \in 1 .. Len(queue') : queue'[i].conn = k /\ queue'[i].type # "DISCONNECT")
                      <=> \/ \E i \in 1 .. Len(queue) : queue[i].conn = k /\ queue[i].type # "DISCONNECT"
                          \/ t.conn = k /\ t.type # "DISCONNECT"
    OBVIOUS
  <2>1. 1 .. Len(queue') = 1 .. Len(queue) \cup {Len(queue) + 1}
    BY <1>2
  <2>2. QED
    BY <1>2, <2>1
<1>4. QED
  BY <1>1, <1>3 DEF Held

\* A task that begins has the Termination it had while it waited.
LEMMA TakeTaskHolds ==
  ASSUME TypeInv, TakeTask
  PROVE  Held' = Held
<1>1. /\ queue \in Seq(Tasks) /\ queue # <<>> /\ task = NoTask
      /\ task' = Head(queue) /\ queue' = Tail(queue)
  BY DEF TakeTask, TypeInv, TypeOK, SyncThreadOK
<1>2. /\ Len(queue) \in Nat \ {0} /\ Len(queue') = Len(queue) - 1
      /\ task' = queue[1]
      /\ \A i \in 1 .. Len(queue) - 1 : queue'[i] = queue[i + 1]
  BY <1>1
<1>3. task.conn \notin Conns
  BY <1>1 DEF NoTask
<1>4. ASSUME NEW k \in Held PROVE k \in Held'
  <2>1. PICK i \in 1 .. Len(queue) : queue[i].conn = k /\ queue[i].type # "DISCONNECT"
    BY <1>3, <1>4 DEF Held
  <2>2. i = 1 \/ (i - 1 \in 1 .. Len(queue) - 1 /\ queue'[i - 1] = queue[i])
    BY <1>2
  <2>3. QED
    BY <1>2, <1>4, <2>1, <2>2 DEF Held
<1>5. ASSUME NEW k \in Held' PROVE k \in Held
  <2>1. CASE task'.conn = k /\ task'.type # "DISCONNECT"
    BY <1>2, <1>5, <2>1 DEF Held
  <2>2. CASE ~ (task'.conn = k /\ task'.type # "DISCONNECT")
    <3>1. PICK i \in 1 .. Len(queue') : queue'[i].conn = k /\ queue'[i].type # "DISCONNECT"
      BY <1>5, <2>2 DEF Held
    <3>2. i + 1 \in 1 .. Len(queue) /\ queue'[i] = queue[i + 1]
      BY <1>2
    <3>3. QED
      BY <1>5, <3>1, <3>2 DEF Held
  <2>3. QED
    BY <2>1, <2>2
<1>6. QED
  BY <1>4, <1>5

\* A step of the sync thread takes no Termination but the head of its queue's.
LEMMA TaskStepHolds ==
  ASSUME queue' = queue, task' = task \/ task' = NoTask
  PROVE  Held' \subseteq Held
BY DEF Held, NoTask

\* DISCONNECT deletes a Termination that awaits it and that no other task has.
LEMMA DisconnectDeletesUnheld ==
  ASSUME LiveInv, DisconnectScene
  PROVE  /\ task.conn \in Conns /\ life[task.conn] = "closing" /\ task.conn \notin Held
         /\ life' = [life EXCEPT ![task.conn] = "free"]
         /\ Held' = Held
<1>1. /\ pc = "start" /\ task.type = "DISCONNECT" /\ task \in Tasks
      /\ queue' = queue /\ (task' = task \/ task' = NoTask)
      /\ life' = [life EXCEPT ![task.conn] = "free"]
  BY DEF DisconnectScene, Starts, DropLinks, Finish, Goto, LiveInv, TypeInv, TypeOK, SyncThreadOK
<1>2. task.conn \in Conns /\ task.conn # NoConn
  BY <1>1 DEF Tasks
<1>3. 0 \in Pending /\ TaskAt(0) = task
  BY <1>1 DEF LiveInv, TypeInv, TypeOK, Pending, TaskAt
<1>4. life[task.conn] = "closing"
  BY <1>1, <1>3 DEF LiveInv, DisconnectsAreLast
<1>5. \A j \in Pending : j # 0 => TaskAt(j).conn # task.conn
  BY <1>1, <1>2, RunningTaskIsLive
<1>6. \A i \in 1 .. Len(queue) : i \in Pending /\ i # 0 /\ TaskAt(i) = queue[i]
  BY DEF Pending, TaskAt, LiveInv, TypeInv, TypeOK
<1>7. task.conn \notin Held
  BY <1>1, <1>5, <1>6 DEF Held
<1>8. task'.type = "DISCONNECT" \/ task'.conn \notin Conns
  BY <1>1 DEF NoTask
<1>9. Held' = Held
  BY <1>1, <1>8 DEF Held
<1>10. QED
  BY <1>1, <1>2, <1>4, <1>7, <1>9

\* Every step is one the life of the Terminations allows.
LEMMA StepLivesOn ==
  ASSUME LiveInv, [Next]_vars
  PROVE  \/ UNCHANGED <<life, Held>>
         \/ AbstractTerminations!Next
<1> USE DEF AbstractTerminations!Next
<1>0. TypeInv
  BY DEF LiveInv
<1>1. ASSUME NEW f \in Fds, NEW k \in Conns, NEW c \in Clients, AddTermination(f, k, c)
      PROVE  AbstractTerminations!Accept(k)
  BY <1>1 DEF AddTermination, syncVars, AbstractTerminations!Accept
<1>2. ASSUME NEW k \in Conns, DelTermination(k) PROVE AbstractTerminations!Close(k)
  <2>1. DisconnectTask(k) \in Tasks /\ Schedule(DisconnectTask(k))
    BY <1>2 DEF DisconnectTask, Tasks, DelTermination
  <2>2. Held' = Held
    BY <1>0, <2>1, ScheduleHolds DEF DisconnectTask
  <2>3. QED
    BY <1>2, <2>2 DEF DelTermination, AbstractTerminations!Close, Held
<1>3. ASSUME NEW k \in Conns, TcpParamScene(k) PROVE AbstractTerminations!Request(k)
  <2>1. PICK t \in TcpRequests(k) : Schedule(t)
    BY <1>3 DEF TcpParamScene
  <2>2. t \in Tasks /\ t.conn = k /\ t.type # "DISCONNECT"
    BY DEF TcpRequests, Tasks
  <2>3. Held' = Held \cup {k}
    BY <1>0, <2>1, <2>2, ScheduleHolds
  <2>4. QED
    BY <1>3, <2>3 DEF TcpParamScene, connVars, AbstractTerminations!Request, Held
<1>4. ASSUME NEW r \in Rooms, UdpParamScene(r) PROVE UNCHANGED <<life, Held>>
  <2> DEFINE t == [type |-> "USERS_INFO", conn |-> NoConn, room |-> r]
  <2>1. t \in Tasks /\ Schedule(t)
    BY <1>4 DEF UdpParamScene, Tasks
  <2>2. t.conn \notin Conns
    OBVIOUS
  <2> HIDE DEF t
  <2>3. Held' = Held
    BY <1>0, <2>1, <2>2, ScheduleHolds
  <2>4. QED
    BY <1>4, <2>3 DEF UdpParamScene, connVars
<1>5. CASE TakeTask
  BY <1>0, <1>5, TakeTaskHolds DEF TakeTask, connVars
<1>6. CASE DisconnectScene
  <2>1. AbstractTerminations!Delete(task.conn)
    BY <1>6, DisconnectDeletesUnheld DEF AbstractTerminations!Delete, Held
  <2>2. QED
    BY <1>6, <2>1, DisconnectDeletesUnheld
<1>7. CASE SyncThread /\ ~ TakeTask /\ ~ DisconnectScene
  <2>1. life' = life /\ queue' = queue /\ (task' = task \/ task' = NoTask)
    BY <1>7
       DEF SyncThread, LoginScene, LinkUnknownRoom, LinkRoomByLogin, LinkAvailableRoom, Login,
           SendLogin, DropUsersInfo, UsersInfoScene, SendRoomUserInfo, UnLinkRoomScene,
           DropLinks, Logout, Starts, Finish, Goto, connVars
  <2>2. AbstractTerminations!Release
    BY <2>1, TaskStepHolds DEF AbstractTerminations!Release, Held
  <2>3. QED
    BY <2>2
<1>8. CASE SendKeepalivePacketToAllAvs \/ UNCHANGED vars
  BY <1>8 DEF SendKeepalivePacketToAllAvs, vars, connVars, syncVars, Held
<1>9. QED
  BY <1>1, <1>2, <1>3, <1>4, <1>5, <1>6, <1>7, <1>8 DEF Next, EventThread

\* A Termination lives as the tasks that are handed its address need it to: it is
\* deleted by the last of them, and only then given to another connection.
THEOREM TerminationsOutliveTheirTasks == Spec => ImplementsTerminationLife
<1>1. Init => AbstractTerminations!Init
  BY DEF Init, AbstractTerminations!Init, NoTask
<1>2. ASSUME LiveInv, [Next]_vars
      PROVE  AbstractTerminations!Next \/ UNCHANGED <<life, Held>>
  BY <1>2, StepLivesOn
<1>3. LiveInv /\ [Next]_vars => [AbstractTerminations!Next]_<<life, Held>>
  BY <1>2
<1>4. QED
  BY <1>1, <1>3, InitLiveInv, NextLiveInv, PTL
     DEF Spec, ImplementsTerminationLife, AbstractTerminations!Spec, Held
=============================================================================
