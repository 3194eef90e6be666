-------------------------- MODULE RoomMediaProofs --------------------------
(***************************************************************************)
(* What holds of the media side for every number of connections, blocks,   *)
(* users, proxy ids, media threads and waiting tasks: the types, whose the *)
(* addresses are, where media goes, when the AVS streams, which pointers   *)
(* can be stale, and what stays while a packet is forwarded.               *)
(***************************************************************************)
EXTENDS RoomMedia, TLAPS

USE MediaSentinels
USE DEF connVars, avsVars, roomVars, taskVars, syncVars, mediaVars

\* How the sync thread's position goes with the object it deletes.
DoomedOK ==
  /\ pc \in Closing => doomed \in RoomObjs
  /\ pc = "deleting" => doomed \in UserObjs

TypeInv == TypeOK /\ DoomedOK

\* Who may still use a Termination: a task given one, a follower with its address.
TasksHaveConns ==
  \A i \in 1 .. Len(queue) : queue[i].conn \in Conns => life[queue[i].conn] # "free"
\* The DISCONNECT that waits is of a closed connection, and the last task of it.
DisconnectsAreLast ==
  \A i \in 1 .. Len(queue) :
    queue[i].type = "DISCONNECT" =>
      /\ life[queue[i].conn] = "closing"
      /\ \A j \in i + 1 .. Len(queue) : queue[j].conn # queue[i].conn
FollowersCopy ==
  \A x \in UserObjs, p \in ProxyIds :
    follows[x][p] # NoFollower /\ follows[x][p].of # NoConn =>
      life[follows[x][p].of] # "free" /\ follows[x][p].ip = ip[follows[x][p].of]

\* A new Termination has not logged in, and one that is online has an address.
StatusOK ==
  \A k \in Conns : /\ life[k] = "free" => status[k] = "INIT"
                   /\ status[k] = "ONLINE" => ip[k] \in Addrs

AddressInv ==
  /\ TypeInv /\ StatusOK /\ AddressesAreOwned
  /\ TasksHaveConns /\ DisconnectsAreLast /\ FollowersCopy

\* Each RoomUser is in one place: under one user id, or being deleted.
UsersApart ==
  /\ \A u, v \in Users : online[u] = online[v] /\ online[u] # NoUser => u = v
  /\ pc = "deleting" => \A u \in Users : online[u] # doomed

\* What AvsStreamsWhileFollowed says of one user.
Streams(u) ==
  /\ u \in linkSent <=> (online[u] # NoUser /\ Followed(online[u])) \/ u \in vanished
  /\ ~ (online[u] # NoUser /\ Followed(online[u]) /\ u \in vanished)

\* The user whose user_lock_ a media thread holds exists.
ForwardedLive == \A w \in Workers : at[w].pc = "forward" => at[w].user \in LiveUsers

UserInv == TypeInv /\ UsersApart /\ ForwardedLive /\ AvsStreamsWhileFollowed

\* While a Room is being deleted, every media thread that is on its way is outrun.
PointerInv ==
  /\ UserInv /\ OnlyOutrunPointersAreStale
  /\ pc \in Closing => room = NoRoom
-----------------------------------------------------------------------------
\* A user without followers has none under any proxy id.
LEMMA NoFollowsType == NoFollows \in [ProxyIds -> Followers \cup {NoFollower}]
BY DEF NoFollows

\* The initial values have their types.
LEMMA InitTypeInv == Init => TypeInv
<1> SUFFICES ASSUME Init PROVE TypeInv
  OBVIOUS
<1> USE DEF Init
<1>1. follows \in [UserObjs -> [ProxyIds -> Followers \cup {NoFollower}]]
  BY NoFollowsType
<1>2. Idle \in Positions
  BY DEF Positions
<1>3. at \in [Workers -> Positions]
  BY <1>2
<1>4. life \in [Conns -> {"free", "open", "closing"}] /\ status \in [Conns -> {"INIT", "ONLINE", "OFFLINE"}]
  OBVIOUS
<1>5. ip \in [Conns -> Pointers] /\ text \in [Addrs -> Conns \cup {Freed}]
  BY DEF Pointers
<1>6. queue \in Seq(Tasks) /\ online \in [Users -> UserObjs \cup {NoUser}]
  OBVIOUS
<1>7. QED
  BY <1>1, <1>3, <1>4, <1>5, <1>6 DEF TypeInv, TypeOK, DoomedOK, Closing

\* A client that gives its pointer up changes whose a follower is, nothing else.
LEMMA LeftType ==
  ASSUME TypeOK, NEW k \in Conns
  PROVE  /\ Left(k) \in [UserObjs -> [ProxyIds -> Followers \cup {NoFollower}]]
         /\ \A x \in UserObjs, p \in ProxyIds :
              /\ follows[x][p] = NoFollower => Left(k)[x][p] = NoFollower
              /\ follows[x][p] # NoFollower =>
                   /\ Left(k)[x][p] \in Followers
                   /\ Left(k)[x][p].of # k
                   /\ Left(k)[x][p].of # NoConn => Left(k)[x][p] = follows[x][p]
<1>1. ASSUME NEW x \in UserObjs, NEW p \in ProxyIds, follows[x][p] # NoFollower
      PROVE  follows[x][p] \in Followers /\ Dangling \in Followers /\ Dangling.of = NoConn
  BY <1>1 DEF TypeOK, Followers, Dangling, Pointers
<1>2. \A x \in UserObjs, p \in ProxyIds :
        Left(k)[x][p] = IF follows[x][p] # NoFollower /\ follows[x][p].of = k
                          THEN Dangling ELSE follows[x][p]
  BY DEF Left
<1>3. \A x \in UserObjs, p \in ProxyIds :
        /\ Left(k)[x][p] \in Followers \cup {NoFollower}
        /\ follows[x][p] = NoFollower => Left(k)[x][p] = NoFollower
        /\ follows[x][p] # NoFollower =>
             /\ Left(k)[x][p] \in Followers
             /\ Left(k)[x][p].of # k
             /\ Left(k)[x][p].of # NoConn => Left(k)[x][p] = follows[x][p]
  <2> SUFFICES ASSUME NEW x \in UserObjs, NEW p \in ProxyIds
               PROVE  /\ Left(k)[x][p] \in Followers \cup {NoFollower}
                      /\ follows[x][p] = NoFollower => Left(k)[x][p] = NoFollower
                      /\ follows[x][p] # NoFollower =>
                           /\ Left(k)[x][p] \in Followers
                           /\ Left(k)[x][p].of # k
                           /\ Left(k)[x][p].of # NoConn => Left(k)[x][p] = follows[x][p]
    OBVIOUS
  <2>1. Left(k)[x][p] = IF follows[x][p] # NoFollower /\ follows[x][p].of = k
                          THEN Dangling ELSE follows[x][p]
    BY <1>2
  <2>2. CASE follows[x][p] = NoFollower
    BY <2>1, <2>2
  <2>3. CASE follows[x][p] # NoFollower /\ follows[x][p].of = k
    BY <1>1, <2>1, <2>3
  <2>4. CASE follows[x][p] # NoFollower /\ follows[x][p].of # k
    BY <1>1, <2>1, <2>4
  <2>5. QED
    BY <2>2, <2>3, <2>4
<1>4. Left(k) \in [UserObjs -> [ProxyIds -> Followers \cup {NoFollower}]]
  <2>1. Left(k) = [x \in UserObjs |-> Left(k)[x]]
    BY DEF Left
  <2>2. ASSUME NEW x \in UserObjs PROVE Left(k)[x] = [p \in ProxyIds |-> Left(k)[x][p]]
    BY DEF Left
  <2>3. ASSUME NEW x \in UserObjs PROVE Left(k)[x] \in [ProxyIds -> Followers \cup {NoFollower}]
    BY <1>3, <2>2
  <2>4. QED
    BY <2>1, <2>3
<1>5. QED
  BY <1>3, <1>4

\* Every step keeps the types.
LEMMA NextTypeInv == TypeInv /\ [Next]_vars => TypeInv'
<1> SUFFICES ASSUME TypeInv, [Next]_vars PROVE TypeInv'
  OBVIOUS
<1> USE DEF TypeInv, TypeOK, DoomedOK, Closing
<1>0. ASSUME NEW how \in {"address", "room", "map", "user"}, Breaks(how) PROVE TypeInv'
  BY <1>0 DEF Breaks
<1>1. ASSUME NEW k \in Conns, AddTermination(k) \/ DelTermination(k) PROVE TypeInv'
  <2>1. CASE AddTermination(k)
    BY <1>1, <2>1 DEF AddTermination, Pointers
  <2>2. CASE DelTermination(k)
    <3>1. [type |-> "DISCONNECT", user |-> NoUser, room |-> NoRoom, conn |-> k, id |-> NoId] \in Tasks
      BY DEF Tasks
    <3>2. QED
      BY <2>2, <3>1 DEF DelTermination, Scheduled
  <2>3. QED
    BY <1>1, <2>1, <2>2
<1>2. ASSUME NEW k \in Conns, LoginScene(k) PROVE TypeInv'
  BY <1>2, LeftType DEF LoginScene, Pointers
<1>3. ASSUME NEW k \in Conns, LogoutScene(k) PROVE TypeInv'
  <2>1. Left(k) \in [UserObjs -> [ProxyIds -> Followers \cup {NoFollower}]]
    BY LeftType
  <2>2. Released(k) \in [Addrs -> Conns \cup {Freed}]
    BY DEF Released
  <2>3. CASE MayFree(k)
    BY <1>3, <2>1, <2>2, <2>3 DEF LogoutScene, StatusAfterLogout, Pointers
  <2>4. CASE ~ MayFree(k)
    BY <1>3, <1>0, <2>4 DEF LogoutScene
  <2>5. QED
    BY <2>3, <2>4
<1>4. ASSUME NEW k \in Conns, UpdateTerminationUdpPort(k) PROVE TypeInv'
  <2>1. Left(k) \in [UserObjs -> [ProxyIds -> Followers \cup {NoFollower}]]
    BY LeftType
  <2>2. Released(k) \in [Addrs -> Conns \cup {Freed}]
    BY DEF Released
  <2>3. CASE MayFree(k)
    <3>1. PICK a \in Addrs : text' = [Released(k) EXCEPT ![a] = k] /\ ip' = Readdressed(k, a)
      BY <1>4, <2>3 DEF UpdateTerminationUdpPort
    <3>2. text' \in [Addrs -> Conns \cup {Freed}] /\ ip' \in [Conns -> Pointers]
      BY <2>2, <3>1 DEF Readdressed, Pointers
    <3>3. QED
      BY <1>4, <2>1, <2>3, <3>2 DEF UpdateTerminationUdpPort
  <2>4. CASE ~ MayFree(k)
    BY <1>4, <1>0, <2>4 DEF UpdateTerminationUdpPort
  <2>5. QED
    BY <2>3, <2>4
<1>6. ASSUME NEW t \in Tasks, Schedule(t) PROVE TypeInv'
  BY <1>6 DEF Schedule, Scheduled
<1>7. ASSUME NEW u \in Users, UdpParamScene(u) PROVE TypeInv'
  BY <1>7, <1>6 DEF UdpParamScene, Tasks, Schedule
<1>8. ASSUME NEW k \in Conns, NEW u \in Users, NEW p \in ProxyIds, TcpParamScene(k, u, p)
      PROVE  TypeInv'
  BY <1>8, <1>6 DEF TcpParamScene, Tasks, Schedule
<1>9. ASSUME NEW r \in RoomObjs, Login(r) PROVE TypeInv'
  BY <1>9 DEF Login
<1>10. ASSUME NEW us \in SUBSET Users, OnAddUser(us)
       PROVE  /\ online' \in [Users -> UserObjs \cup {NoUser}]
              /\ follows' \in [UserObjs -> [ProxyIds -> Followers \cup {NoFollower}]]
  BY <1>10, NoFollowsType DEF OnAddUser
<1>11. CASE UsersInfoScene
  BY <1>11, <1>10 DEF UsersInfoScene
<1>12. ASSUME queue # <<>>
       PROVE  /\ Task \in Tasks /\ (Task.type # "DISCONNECT" => Task.user \in Users)
              /\ Tail(queue) \in Seq(Tasks) /\ (IF behind = 0 THEN 0 ELSE behind - 1) \in Nat
  BY <1>12 DEF Task, Tasks
<1>12a. ASSUME NEW k \in Conns, DisconnectScene(k) PROVE TypeInv'
  <2>1. Left(k) \in [UserObjs -> [ProxyIds -> Followers \cup {NoFollower}]]
    BY LeftType
  <2>2. Released(k) \in [Addrs -> Conns \cup {Freed}]
    BY DEF Released
  <2>3. CASE MayFree(k)
    BY <1>12a, <1>12, <2>1, <2>2, <2>3 DEF DisconnectScene, Starts, Finish, Taken, Pointers
  <2>4. CASE ~ MayFree(k)
    BY <1>12a, <1>0, <2>4 DEF DisconnectScene
  <2>5. QED
    BY <2>3, <2>4
<1>13. CASE UseDeletedRoom
  BY <1>13, <1>0 DEF UseDeletedRoom
<1>14. CASE AddUserScene
  BY <1>14, <1>10, <1>12 DEF AddUserScene, Starts, Finish, Taken
<1>15. CASE ModUserMediaScene \/ DelUnknownUser \/ LinkRefused \/ UnlinkRefused
  BY <1>15, <1>12 DEF ModUserMediaScene, DelUnknownUser, LinkRefused, UnlinkRefused, Starts, Finish, Taken
<1>16. CASE DelUserScene
  BY <1>16, <1>12 DEF DelUserScene, Starts, Taken, Erased, TheUser
<1>17. CASE EraseWhileSearched \/ UnlinkWithoutRoom
  BY <1>17, <1>0 DEF EraseWhileSearched, UnlinkWithoutRoom
<1>18. CASE LinkRoomUserScene
  <2>1. /\ Task \in Tasks /\ Tail(queue) \in Seq(Tasks) /\ Task.user \in Users
        /\ Task.conn \in Conns /\ Task.id \in ProxyIds
    BY <1>18, <1>12 DEF LinkRoomUserScene, Starts, Tasks, Task
  <2>2. Follower(Task.conn) \in Followers
    BY <2>1 DEF Follower, Followers
  <2>3. follows' \in [UserObjs -> [ProxyIds -> Followers \cup {NoFollower}]]
    BY <1>18, <2>1, <2>2 DEF LinkRoomUserScene, TheUser
  <2>4. QED
    BY <1>18, <2>1, <2>3 DEF LinkRoomUserScene, Starts, Finish, Taken, Continues, SendLinkUser
<1>19. CASE UnlinkRoomUserScene
  <2>1. Tail(queue) \in Seq(Tasks) /\ Task.user \in Users /\ Task.id \in ProxyIds
    BY <1>19, <1>12 DEF UnlinkRoomUserScene, Starts, Tasks, Task
  <2>2. follows' \in [UserObjs -> [ProxyIds -> Followers \cup {NoFollower}]]
    BY <1>19, <2>1 DEF UnlinkRoomUserScene, TheUser
  <2>3. QED
    BY <1>19, <2>1, <2>2 DEF UnlinkRoomUserScene, Starts, Finish, Taken, SendUnlinkUser
<1>20. CASE DeleteUser
  BY <1>20, <1>0 DEF DeleteUser
<1>21. ASSUME NEW x \in UserObjs, DestoryUser(x) PROVE TypeInv'
  BY <1>21, NoFollowsType DEF DestoryUser, IsDying
<1>22. CASE Logout \/ StartDestory \/ EndDestory
  BY <1>22 DEF Logout, StartDestory, EndDestory
<1>23. ASSUME NEW u \in Users, DeleteUserOfRoom(u) PROVE TypeInv'
  BY <1>23, <1>0 DEF DeleteUserOfRoom
<1>24. CASE DeleteRoom
  BY <1>24, <1>0 DEF DeleteRoom
<1>25. ASSUME NEW w \in Workers, NEW pos \in Positions, Moves(w, pos) PROVE TypeInv'
  BY <1>25 DEF Moves
<1>26. ASSUME NEW w \in Workers, GetRoom(w) \/ MediaGoesOn(w) PROVE TypeInv'
  <2>1. at[w] \in Positions
    OBVIOUS
  <2>2. CASE GetRoom(w)
    BY <2>2, <1>25 DEF GetRoom, Positions
  <2>3. CASE EnterGetUser(w)
    <3>1. [at[w] EXCEPT !.pc = "find"] \in Positions
      BY <2>1, <2>3 DEF EnterGetUser, Positions, Idle
    <3>2. Moves(w, [at[w] EXCEPT !.pc = "find"]) \/ Breaks("room")
      BY <2>3 DEF EnterGetUser
    <3>3. QED
      BY <3>1, <3>2, <1>0, <1>25
  <2>4. CASE GetUser(w)
    BY <2>1, <2>4, <1>25 DEF GetUser, Positions, Idle
  <2>5. CASE OnRxRtp(w)
    <3>0. at[w] \in [pc: {"user", "forward"}, room: RoomObjs, user: UserObjs]
      BY <2>1, <2>5 DEF OnRxRtp, Positions, Idle
    <3>1. [at[w] EXCEPT !.pc = "forward"] \in Positions
      BY <3>0 DEF Positions
    <3>2. Moves(w, [at[w] EXCEPT !.pc = "forward"]) \/ Breaks("user")
      BY <2>5 DEF OnRxRtp
    <3>3. QED
      BY <3>1, <3>2, <1>0, <1>25
  <2>6. CASE Forward(w)
    BY <2>6, <1>25 DEF Forward, Positions
  <2>7. QED
    BY <1>26, <2>2, <2>3, <2>4, <2>5, <2>6 DEF MediaGoesOn
<1>27. CASE UNCHANGED vars
  BY <1>27 DEF vars
<1>28. QED
  BY <1>1, <1>2, <1>3, <1>4, <1>7, <1>8, <1>9, <1>11, <1>12a, <1>13, <1>14, <1>15, <1>16, <1>17,
     <1>18, <1>19, <1>20, <1>21, <1>22, <1>23, <1>24, <1>26, <1>27
     DEF Next, EventThread, ConnTask, RoomTask, SyncGoesOn, Undefined

\* Whatever the order of requests, connections, media packets and deletions, the
\* variables keep their types; after a misuse nothing more is said.
THEOREM TypeCorrect == Spec => []TypeOK
<1>1. Init => TypeInv
  BY InitTypeInv
<1>2. TypeInv /\ [Next]_vars => TypeInv'
  BY NextTypeInv
<1>3. TypeInv => TypeOK
  BY DEF TypeInv
<1>4. QED
  BY <1>1, <1>2, <1>3, PTL DEF Spec
-----------------------------------------------------------------------------
\* There is no address at first.
LEMMA InitAddressInv == Init => AddressInv
<1> SUFFICES ASSUME Init PROVE AddressInv
  OBVIOUS
<1>1. FollowersCopy
  BY DEF Init, FollowersCopy, NoFollows
<1>2. StatusOK /\ AddressesAreOwned
  BY DEF Init, StatusOK, AddressesAreOwned
<1>3. TasksHaveConns /\ DisconnectsAreLast
  BY DEF Init, TasksHaveConns, DisconnectsAreLast
<1>4. QED
  BY <1>1, <1>2, <1>3, InitTypeInv DEF AddressInv

\* The tasks that are left when the first is taken.
LEMMA TailTasks ==
  ASSUME TypeOK, queue # <<>>
  PROVE  /\ Len(queue) \in Nat \ {0} /\ Task = queue[1] /\ Task \in Tasks
         /\ Len(Tail(queue)) = Len(queue) - 1
         /\ \A i \in 1 .. Len(Tail(queue)) :
              i + 1 \in 1 .. Len(queue) /\ Tail(queue)[i] = queue[i + 1]
<1>1. queue \in Seq(Tasks)
  BY DEF TypeOK
<1>2. QED
  BY <1>1 DEF Task

\* A DISCONNECT is still the last task of its connection when the first task is taken.
LEMMA TailDisconnects ==
  ASSUME TypeOK, DisconnectsAreLast, queue # <<>>, queue' = Tail(queue),
         \A i \in 2 .. Len(queue) :
           queue[i].type = "DISCONNECT" => life'[queue[i].conn] = life[queue[i].conn]
  PROVE  DisconnectsAreLast'
<1> SUFFICES ASSUME NEW i \in 1 .. Len(queue'), queue'[i].type = "DISCONNECT"
             PROVE  /\ life'[queue'[i].conn] = "closing"
                    /\ \A j \in i + 1 .. Len(queue') : queue'[j].conn # queue'[i].conn
  BY DEF DisconnectsAreLast
<1>1. i + 1 \in 2 .. Len(queue) /\ i + 1 \in 1 .. Len(queue) /\ queue'[i] = queue[i + 1]
  BY TailTasks
<1>2. life[queue[i + 1].conn] = "closing" /\ life'[queue[i + 1].conn] = "closing"
  BY <1>1 DEF DisconnectsAreLast
<1>3. ASSUME NEW j \in i + 1 .. Len(queue') PROVE queue'[j].conn # queue'[i].conn
  <2>1. j + 1 \in (i + 1) + 1 .. Len(queue) /\ queue'[j] = queue[j + 1]
    BY TailTasks
  <2>2. QED
    BY <1>1, <2>1 DEF DisconnectsAreLast
<1>4. QED
  BY <1>1, <1>2, <1>3

\* So it is when a task of an open connection, or of none, is put behind it.
LEMMA AppendDisconnects ==
  ASSUME TypeOK, DisconnectsAreLast, NEW t \in Tasks, queue' = Append(queue, t),
         t.conn \in Conns => life[t.conn] = "open",
         \A k \in Conns : k # t.conn => life'[k] = life[k],
         t.type = "DISCONNECT" => life'[t.conn] = "closing"
  PROVE  DisconnectsAreLast'
<1>1. queue \in Seq(Tasks) /\ Len(queue) \in Nat
  BY DEF TypeOK
<1>2. /\ Len(queue') = Len(queue) + 1 /\ queue'[Len(queue) + 1] = t
      /\ \A i \in 1 .. Len(queue) : queue'[i] = queue[i] /\ queue[i] \in Tasks
  BY <1>1
<1>3. ASSUME NEW i \in 1 .. Len(queue), queue[i].type = "DISCONNECT"
      PROVE  /\ life'[queue[i].conn] = "closing" /\ queue[i].conn # t.conn
             /\ \A j \in i + 1 .. Len(queue) : queue[j].conn # queue[i].conn
  <2>1. queue[i].conn \in Conns
    BY <1>2, <1>3 DEF Tasks
  <2>2. QED
    BY <1>3, <2>1 DEF DisconnectsAreLast
<1>4. ASSUME NEW i \in 1 .. Len(queue'), queue'[i].type = "DISCONNECT"
      PROVE  /\ life'[queue'[i].conn] = "closing"
             /\ \A j \in i + 1 .. Len(queue') : queue'[j].conn # queue'[i].conn
  <2>1. CASE i = Len(queue) + 1
    BY <1>1, <1>2, <1>4, <2>1
  <2>2. CASE i \in 1 .. Len(queue)
    <3>1. queue'[i] = queue[i] /\ queue[i].type = "DISCONNECT"
      BY <1>2, <1>4, <2>2
    <3>2. ASSUME NEW j \in i + 1 .. Len(queue') PROVE queue'[j].conn # queue'[i].conn
      <4>1. CASE j = Len(queue) + 1
        BY <1>2, <1>3, <2>2, <3>1, <4>1
      <4>2. CASE j \in i + 1 .. Len(queue)
        BY <1>2, <1>3, <2>2, <3>1, <4>2
      <4>3. QED
        BY <1>1, <1>2, <2>2, <4>1, <4>2
    <3>3. QED
      BY <1>3, <2>2, <3>1, <3>2
  <2>3. QED
    BY <1>1, <1>2, <2>1, <2>2
<1>5. QED
  BY <1>4 DEF DisconnectsAreLast

\* A step that leaves Terminations and addresses alone, and makes no follower.
LEMMA AddressFrame ==
  ASSUME AddressInv, TypeInv', UNCHANGED connVars,
         \A x \in UserObjs, p \in ProxyIds : follows'[x][p] \in {NoFollower, follows[x][p]},
         queue' = queue \/ (queue # <<>> /\ queue' = Tail(queue))
  PROVE  AddressInv'
<1> USE DEF connVars
<1>1. StatusOK' /\ AddressesAreOwned'
  BY DEF AddressInv, StatusOK, AddressesAreOwned
<1>2. FollowersCopy'
  BY DEF AddressInv, FollowersCopy
<1>3. TasksHaveConns'
  <2>1. queue \in Seq(Tasks)
    BY DEF AddressInv, TypeInv, TypeOK
  <2>2. ASSUME queue # <<>> PROVE \A i \in 1 .. Len(Tail(queue)) : i + 1 \in 1 .. Len(queue) /\ Tail(queue)[i] = queue[i + 1]
    BY <2>1, <2>2
  <2>3. QED
    BY <2>1, <2>2 DEF AddressInv, TasksHaveConns
<1>4. DisconnectsAreLast'
  <2>1. TypeOK /\ DisconnectsAreLast /\ life' = life
    BY DEF AddressInv, TypeInv
  <2>2. CASE queue' = queue
    BY <2>1, <2>2 DEF DisconnectsAreLast
  <2>3. CASE queue # <<>> /\ queue' = Tail(queue)
    BY <2>1, <2>3, TailDisconnects
  <2>4. QED
    BY <2>2, <2>3
<1>5. QED
  BY <1>1, <1>2, <1>3, <1>4 DEF AddressInv

\* A client that gives its address up, or gets another, is followed nowhere.
LEMMA LeftFollowersCopy ==
  ASSUME TypeOK, FollowersCopy, NEW k \in Conns, follows' = Left(k),
         \A j \in Conns \ {k} : life'[j] = life[j] /\ ip'[j] = ip[j]
  PROVE  FollowersCopy'
<1> SUFFICES ASSUME NEW x \in UserObjs, NEW p \in ProxyIds,
                    follows'[x][p] # NoFollower, follows'[x][p].of # NoConn
             PROVE  /\ life'[follows'[x][p].of] # "free"
                    /\ follows'[x][p].ip = ip'[follows'[x][p].of]
  BY DEF FollowersCopy
<1>1. /\ follows[x][p] # NoFollower
      /\ follows'[x][p] \in Followers
      /\ follows'[x][p].ip = follows[x][p].ip
      /\ follows'[x][p].of # k
      /\ follows'[x][p].of = follows[x][p].of
  BY LeftType
<1>2. follows'[x][p].of \in Conns \ {k}
  BY <1>1 DEF Followers
<1>3. QED
  BY <1>1, <1>2 DEF FollowersCopy

\* Every step keeps whose the addresses are.
LEMMA NextAddressInv == AddressInv /\ [Next]_vars => AddressInv'
<1> SUFFICES ASSUME AddressInv, [Next]_vars PROVE AddressInv'
  OBVIOUS
<1>t. TypeInv /\ TypeOK /\ TypeInv' /\ TypeOK'
  BY NextTypeInv DEF AddressInv, TypeInv
<1>b. ASSUME NEW how \in {"address", "room", "map", "user"}, Breaks(how) PROVE AddressInv'
  BY <1>b, <1>t, AddressFrame DEF Breaks, syncVars
<1>1. ASSUME NEW k \in Conns, AddTermination(k) PROVE AddressInv'
  <2>1. life[k] = "free" /\ status[k] = "INIT" /\ ip'[k] \notin Addrs
    BY <1>1, <1>t DEF AddTermination, AddressInv, StatusOK, TypeOK
  <2>2. StatusOK' /\ AddressesAreOwned'
    BY <1>1, <1>t, <2>1 DEF AddTermination, AddressInv, StatusOK, AddressesAreOwned, TypeOK
  <2>3. TasksHaveConns' /\ DisconnectsAreLast'
    BY <1>1, <1>t, <2>1 DEF AddTermination, AddressInv, TasksHaveConns, DisconnectsAreLast, TypeOK
  <2>4. FollowersCopy'
    BY <1>1, <1>t, <2>1 DEF AddTermination, AddressInv, FollowersCopy, TypeOK, Followers
  <2>5. QED
    BY <1>t, <2>2, <2>3, <2>4 DEF AddressInv
<1>2. ASSUME NEW k \in Conns, DelTermination(k) PROVE AddressInv'
  <2>1. StatusOK' /\ AddressesAreOwned'
    BY <1>2, <1>t DEF DelTermination, AddressInv, StatusOK, AddressesAreOwned, TypeOK
  <2>2. FollowersCopy'
    BY <1>2, <1>t DEF DelTermination, AddressInv, FollowersCopy, TypeOK, Followers
  <2> DEFINE t == [type |-> "DISCONNECT", user |-> NoUser, room |-> NoRoom, conn |-> k, id |-> NoId]
  <2>3. t \in Tasks /\ t.conn = k
    BY DEF Tasks
  <2>4. /\ life[k] = "open" /\ life' = [life EXCEPT ![k] = "closing"]
        /\ queue' = Append(queue, t)
    BY <1>2 DEF DelTermination, Scheduled
  <2> HIDE DEF t
  <2>5. /\ \A j \in Conns : j # t.conn => life'[j] = life[j]
        /\ life'[t.conn] = "closing"
    BY <2>3, <2>4, <1>t DEF TypeOK
  <2>6. DisconnectsAreLast'
    BY <1>t, <2>3, <2>4, <2>5, AppendDisconnects DEF AddressInv
  <2>7. \A i \in 1 .. Len(queue') : queue'[i] = t \/ (i \in 1 .. Len(queue) /\ queue'[i] = queue[i])
    BY <2>4, <1>t DEF TypeOK
  <2>8. TasksHaveConns'
    BY <2>3, <2>5, <2>7 DEF AddressInv, TasksHaveConns
  <2>9. QED
    BY <1>t, <2>1, <2>2, <2>6, <2>8 DEF AddressInv
<1>3. ASSUME NEW k \in Conns, LoginScene(k) PROVE AddressInv'
  <2>1. PICK a \in Addrs : text[a] = Freed /\ text' = [text EXCEPT ![a] = k]
                           /\ ip' = [ip EXCEPT ![k] = a]
    BY <1>3 DEF LoginScene
  <2>2. \A j \in Conns : status[j] # "OFFLINE" => ip[j] # a
    BY <2>1 DEF AddressInv, AddressesAreOwned
  <2>3. AddressesAreOwned' /\ StatusOK'
    BY <1>3, <1>t, <2>1, <2>2 DEF LoginScene, AddressInv, StatusOK, AddressesAreOwned, TypeOK
  <2>4. TasksHaveConns' /\ DisconnectsAreLast'
    BY <1>3 DEF LoginScene, AddressInv, TasksHaveConns, DisconnectsAreLast
  <2>5. FollowersCopy'
    BY <1>3, <1>t, LeftFollowersCopy DEF LoginScene, AddressInv, TypeOK
  <2>6. QED
    BY <1>t, <2>3, <2>4, <2>5 DEF AddressInv
<1>4. ASSUME NEW k \in Conns, LogoutScene(k), MayFree(k) PROVE AddressInv'
  <2>1. /\ text' = Released(k) /\ follows' = Left(k)
        /\ status' = [status EXCEPT ![k] = "OFFLINE"]
        /\ UNCHANGED <<life, ip, queue>>
    BY <1>4 DEF LogoutScene, StatusAfterLogout, syncVars
  <2>2. \A j \in Conns \ {k} : status[j] # "OFFLINE" /\ ip[j] \in Addrs => ip[j] # ip[k]
    BY <1>4 DEF MayFree, AddressInv, AddressesAreOwned
  <2>3. \A j \in Conns \ {k} : status[j] # "OFFLINE" /\ ip[j] \in Addrs =>
          Released(k)[ip[j]] = text[ip[j]]
    BY <2>2 DEF Released
  <2>4. AddressesAreOwned' /\ StatusOK'
    BY <1>4, <1>t, <2>1, <2>3 DEF LogoutScene, AddressInv, StatusOK, AddressesAreOwned, TypeOK
  <2>5. TasksHaveConns' /\ DisconnectsAreLast'
    BY <2>1 DEF AddressInv, TasksHaveConns, DisconnectsAreLast
  <2>6. FollowersCopy'
    BY <1>t, <2>1, LeftFollowersCopy DEF AddressInv
  <2>7. QED
    BY <1>t, <2>4, <2>5, <2>6 DEF AddressInv
<1>5. ASSUME NEW k \in Conns, UpdateTerminationUdpPort(k), MayFree(k) PROVE AddressInv'
  <2>1. PICK a \in Addrs : /\ Released(k)[a] = Freed
                           /\ text' = [Released(k) EXCEPT ![a] = k]
                           /\ ip' = [ip EXCEPT ![k] = a]
    BY <1>5 DEF UpdateTerminationUdpPort, Readdressed
  <2>2. UNCHANGED <<life, status, queue>> /\ follows' = Left(k)
    BY <1>5 DEF UpdateTerminationUdpPort, syncVars
  <2>3. \A j \in Conns \ {k} : status[j] # "OFFLINE" /\ ip[j] \in Addrs => ip[j] # ip[k]
    BY <1>5 DEF MayFree, AddressInv, AddressesAreOwned
  <2>4. \A j \in Conns \ {k} : status[j] # "OFFLINE" /\ ip[j] \in Addrs =>
          Released(k)[ip[j]] = text[ip[j]] /\ text[ip[j]] = j
    BY <2>3 DEF Released, AddressInv, AddressesAreOwned
  <2>5. \A j \in Conns \ {k} : status[j] # "OFFLINE" /\ ip[j] \in Addrs => ip[j] # a
    BY <2>1, <2>4
  <2>6. text' = [text' EXCEPT ![a] = k] /\ text'[a] = k
    BY <2>1, <1>t DEF TypeOK, Released
  <2>7. \A j \in Conns \ {k} : status[j] # "OFFLINE" /\ ip[j] \in Addrs => text'[ip[j]] = j
    BY <2>1, <2>4, <2>5 DEF Released
  <2>8. AddressesAreOwned' /\ StatusOK'
    BY <1>t, <2>1, <2>2, <2>6, <2>7 DEF AddressInv, StatusOK, AddressesAreOwned, TypeOK
  <2>9. TasksHaveConns' /\ DisconnectsAreLast'
    BY <2>2 DEF AddressInv, TasksHaveConns, DisconnectsAreLast
  <2>10. FollowersCopy'
    BY <1>t, <2>1, <2>2, LeftFollowersCopy DEF AddressInv, TypeOK
  <2>11. QED
    BY <1>t, <2>8, <2>9, <2>10 DEF AddressInv
<1>6. ASSUME NEW k \in Conns, DisconnectScene(k), MayFree(k) PROVE AddressInv'
  <2>1. /\ text' = Released(k) /\ follows' = Left(k)
        /\ life' = [life EXCEPT ![k] = "free"]
        /\ status' = [status EXCEPT ![k] = "INIT"]
        /\ ip' = [ip EXCEPT ![k] = Null]
        /\ queue # <<>> /\ queue' = Tail(queue) /\ Task.type = "DISCONNECT" /\ Task.conn = k
    BY <1>6 DEF DisconnectScene, Starts, Finish, Taken
  <2>2. \A j \in Conns \ {k} : status[j] # "OFFLINE" /\ ip[j] \in Addrs => ip[j] # ip[k]
    BY <1>6 DEF MayFree, AddressInv, AddressesAreOwned
  <2>3. \A j \in Conns \ {k} : status[j] # "OFFLINE" /\ ip[j] \in Addrs =>
          Released(k)[ip[j]] = text[ip[j]]
    BY <2>2 DEF Released
  <2>4. AddressesAreOwned' /\ StatusOK'
    BY <1>t, <2>1, <2>3 DEF AddressInv, StatusOK, AddressesAreOwned, TypeOK
  <2>5. \A i \in 2 .. Len(queue) : i \in 1 .. Len(queue) /\ queue[i].conn # k
    <3>1. queue[1].type = "DISCONNECT" /\ queue[1].conn = k /\ Len(queue) \in Nat \ {0}
      BY <1>t, <2>1, TailTasks
    <3>2. 1 \in 1 .. Len(queue) /\ 1 + 1 = 2
      BY <3>1
    <3>3. \A i \in 1 + 1 .. Len(queue) : queue[i].conn # k
      BY <3>1, <3>2 DEF AddressInv, DisconnectsAreLast
    <3>4. QED
      BY <3>1, <3>2, <3>3
  <2>6. \A j \in Conns \ {k} : life'[j] = life[j]
    BY <2>1, <1>t DEF TypeOK
  <2>7. \A i \in 2 .. Len(queue) : queue[i].conn \in Conns => life'[queue[i].conn] = life[queue[i].conn]
    BY <2>5, <2>6
  <2>8. \A i \in 1 .. Len(queue') : i + 1 \in 2 .. Len(queue) /\ queue'[i] = queue[i + 1]
    BY <1>t, <2>1, TailTasks
  <2>9. TasksHaveConns'
    BY <2>5, <2>7, <2>8 DEF AddressInv, TasksHaveConns
  <2>10. \A i \in 2 .. Len(queue) : queue[i].type = "DISCONNECT" => queue[i].conn \in Conns
    <3>1. \A i \in 1 .. Len(queue) : queue[i] \in Tasks
      BY <1>t DEF TypeOK
    <3>2. \A t \in Tasks : t.type = "DISCONNECT" => t.conn \in Conns
      BY DEF Tasks
    <3>3. QED
      BY <2>5, <3>1, <3>2
  <2>11. DisconnectsAreLast'
    BY <1>t, <2>1, <2>7, <2>10, TailDisconnects DEF AddressInv
  <2>12. FollowersCopy'
    BY <1>t, <2>1, LeftFollowersCopy DEF AddressInv, TypeOK
  <2>13. QED
    BY <1>t, <2>4, <2>9, <2>11, <2>12 DEF AddressInv
<1>7. ASSUME NEW k \in Conns, LogoutScene(k) \/ UpdateTerminationUdpPort(k) \/ DisconnectScene(k),
             ~ MayFree(k)
      PROVE  AddressInv'
  BY <1>7, <1>b DEF LogoutScene, UpdateTerminationUdpPort, DisconnectScene
<1>8. ASSUME NEW t \in Tasks, Schedule(t), t.conn \in Conns => life[t.conn] = "open",
             t.type # "DISCONNECT"
      PROVE  AddressInv'
  <2>1. UNCHANGED <<life, status, ip, text, follows>> /\ queue' = Append(queue, t)
    BY <1>8 DEF Schedule, Scheduled
  <2>2. queue \in Seq(Tasks)
    BY <1>t DEF TypeOK
  <2>3. \A i \in 1 .. Len(queue') : queue'[i] = t \/ (i \in 1 .. Len(queue) /\ queue'[i] = queue[i])
    BY <1>8, <2>1, <2>2
  <2>4. TasksHaveConns'
    BY <1>8, <2>1, <2>3 DEF AddressInv, TasksHaveConns
  <2>5. StatusOK' /\ AddressesAreOwned' /\ FollowersCopy'
    BY <2>1 DEF AddressInv, StatusOK, AddressesAreOwned, FollowersCopy
  <2>6. DisconnectsAreLast'
    BY <1>8, <1>t, <2>1, AppendDisconnects DEF AddressInv
  <2>7. QED
    BY <1>t, <2>4, <2>5, <2>6 DEF AddressInv
<1>9. ASSUME NEW u \in Users, UdpParamScene(u) PROVE AddressInv'
  <2>1. PICK type \in {"ADD_USER", "DEL_USER", "MOD_USER"} :
          Schedule([type |-> type, user |-> u, room |-> room, conn |-> NoConn, id |-> NoId])
    BY <1>9 DEF UdpParamScene
  <2>2. [type |-> type, user |-> u, room |-> room, conn |-> NoConn, id |-> NoId] \in Tasks
    BY <2>1, <1>t DEF Schedule, Tasks, TypeOK
  <2>3. QED
    BY <2>1, <2>2, <1>8
<1>10. ASSUME NEW k \in Conns, NEW u \in Users, NEW p \in ProxyIds, TcpParamScene(k, u, p)
       PROVE  AddressInv'
  <2> DEFINE link == [type |-> "LINK_USER", user |-> u, room |-> room, conn |-> k, id |-> p]
             unlink == [type |-> "UNLINK_USER", user |-> u, room |-> NoRoom, conn |-> k, id |-> p]
  <2>1. life[k] = "open" /\ (Schedule(link) \/ Schedule(unlink))
    BY <1>10 DEF TcpParamScene
  <2>2. Schedule(link) => link \in Tasks
    BY <1>t DEF Schedule, Tasks, TypeOK
  <2>3. unlink \in Tasks
    BY DEF Tasks
  <2>4. QED
    BY <2>1, <2>2, <2>3, <1>8
<1>11. CASE LinkRoomUserScene
  <2>1. /\ queue # <<>> /\ queue' = Tail(queue) /\ UNCHANGED connVars
        /\ follows' = [follows EXCEPT ![TheUser][Task.id] = Follower(Task.conn)]
        /\ TheUser # NoUser /\ Task.type = "LINK_USER"
    BY <1>11 DEF LinkRoomUserScene, Starts, Finish, Taken
  <2>2. Task \in Tasks /\ Task = queue[1] /\ 1 \in 1 .. Len(queue)
    BY <2>1, <1>t DEF TypeOK, Task
  <2>3. Task.conn \in Conns /\ Task.id \in ProxyIds /\ TheUser \in UserObjs
    BY <2>1, <2>2, <1>t DEF Tasks, TheUser, TypeOK
  <2>4. life[Task.conn] # "free"
    BY <2>2, <2>3 DEF AddressInv, TasksHaveConns
  <2>5. \A x \in UserObjs, p \in ProxyIds : follows'[x][p] \in {follows[x][p], Follower(Task.conn)}
    BY <2>1, <2>3, <1>t DEF TypeOK
  <2>6. FollowersCopy'
    BY <2>1, <2>4, <2>5 DEF AddressInv, FollowersCopy, Follower, connVars
  <2>7. \A i \in 1 .. Len(Tail(queue)) : i + 1 \in 1 .. Len(queue) /\ Tail(queue)[i] = queue[i + 1]
    BY <2>1, <1>t DEF TypeOK
  <2>8. TasksHaveConns'
    BY <2>1, <2>7 DEF AddressInv, TasksHaveConns, connVars
  <2>9. StatusOK' /\ AddressesAreOwned'
    BY <2>1 DEF AddressInv, StatusOK, AddressesAreOwned, connVars
  <2>10. DisconnectsAreLast'
    BY <1>t, <2>1, TailDisconnects DEF AddressInv
  <2>11. QED
    BY <1>t, <2>6, <2>8, <2>9, <2>10 DEF AddressInv
<1>12. ASSUME NEW us, OnAddUser(us)
       PROVE  \A x \in UserObjs, p \in ProxyIds : follows'[x][p] \in {NoFollower, follows[x][p]}
  BY <1>12 DEF OnAddUser, NoFollows
<1>13. CASE AddUserScene \/ UsersInfoScene
  BY <1>13, <1>12, <1>t, AddressFrame DEF AddUserScene, UsersInfoScene, Starts, Finish, Taken, syncVars
<1>14. CASE UnlinkRoomUserScene
  <2>1. \A x \in UserObjs, p \in ProxyIds : follows'[x][p] \in {NoFollower, follows[x][p]}
    BY <1>14, <1>t DEF UnlinkRoomUserScene, TypeOK
  <2>2. QED
    BY <1>14, <1>t, <2>1, AddressFrame DEF UnlinkRoomUserScene, Starts, Finish, Taken
<1>15. ASSUME NEW x \in UserObjs, DestoryUser(x) PROVE AddressInv'
  <2>1. \A y \in UserObjs, p \in ProxyIds : follows'[y][p] \in {NoFollower, follows[y][p]}
    BY <1>15, <1>t DEF DestoryUser, NoFollows, TypeOK
  <2>2. QED
    BY <1>15, <1>t, <2>1, AddressFrame DEF DestoryUser, syncVars
<1>16. CASE ModUserMediaScene \/ DelUnknownUser \/ DelUserScene \/ LinkRefused \/ UnlinkRefused
  BY <1>16, <1>t, AddressFrame
     DEF ModUserMediaScene, DelUnknownUser, DelUserScene, LinkRefused, UnlinkRefused, Starts, Finish, Taken
<1>17. CASE UseDeletedRoom \/ EraseWhileSearched \/ UnlinkWithoutRoom
  BY <1>17, <1>b DEF UseDeletedRoom, EraseWhileSearched, UnlinkWithoutRoom
<1>18. CASE Logout \/ StartDestory \/ EndDestory
  BY <1>18, <1>t, AddressFrame DEF Logout, StartDestory, EndDestory
<1>19. CASE DeleteUser \/ DeleteRoom
  BY <1>19, <1>b, <1>t, AddressFrame DEF DeleteUser, DeleteRoom
<1>20. ASSUME NEW u \in Users, DeleteUserOfRoom(u) PROVE AddressInv'
  BY <1>20, <1>b, <1>t, AddressFrame DEF DeleteUserOfRoom, syncVars
<1>21. ASSUME NEW r \in RoomObjs, Login(r) PROVE AddressInv'
  BY <1>21, <1>t, AddressFrame DEF Login, syncVars
<1>22. ASSUME NEW w \in Workers, NEW pos, Moves(w, pos) PROVE AddressInv'
  BY <1>22, <1>t, AddressFrame DEF Moves, syncVars
<1>23. ASSUME NEW w \in Workers, GetRoom(w) \/ MediaGoesOn(w) PROVE AddressInv'
  BY <1>23, <1>22, <1>b DEF GetRoom, MediaGoesOn, EnterGetUser, GetUser, OnRxRtp, Forward
<1>24. CASE UNCHANGED vars
  BY <1>24, <1>t, AddressFrame DEF vars, syncVars
<1>25. QED
  BY <1>1, <1>2, <1>3, <1>4, <1>5, <1>6, <1>7, <1>9, <1>10, <1>11, <1>13, <1>14, <1>15, <1>16,
     <1>17, <1>18, <1>19, <1>20, <1>21, <1>23, <1>24
     DEF Next, EventThread, ConnTask, RoomTask, SyncGoesOn, Undefined

\* Until LOGOUT, the address of a Termination is an allocated block of its own,
\* whatever other connections do: it is freed once, by its owner.
THEOREM AddressOwnership == Spec => []AddressesAreOwned
<1>1. AddressInv => AddressesAreOwned
  BY DEF AddressInv
<1>2. QED
  BY <1>1, InitAddressInv, NextAddressInv, PTL DEF Spec

\* The copy a follower has of its client's address is that address until the client
\* gives another, logs out or disconnects.
THEOREM MediaAddressing == Spec => []MediaGoesToItsClient
<1>1. AddressInv => MediaGoesToItsClient
  <2> SUFFICES ASSUME AddressInv, NEW x \in LiveUsers, NEW p \in ProxyIds,
                      follows[x][p] # NoFollower, follows[x][p].of # NoConn,
                      status[follows[x][p].of] = "ONLINE"
               PROVE  follows[x][p].ip \in Addrs /\ text[follows[x][p].ip] = follows[x][p].of
    BY DEF MediaGoesToItsClient
  <2>1. x \in UserObjs
    BY DEF LiveUsers, AddressInv, TypeInv, TypeOK, DoomedOK
  <2>2. follows[x][p].of \in Conns /\ follows[x][p].ip = ip[follows[x][p].of]
    BY <2>1 DEF AddressInv, FollowersCopy, TypeInv, TypeOK, Followers
  <2>3. ip[follows[x][p].of] \in Addrs
    BY <2>2 DEF AddressInv, StatusOK
  <2>4. QED
    BY <2>2, <2>3 DEF AddressInv, AddressesAreOwned
<1>2. QED
  BY <1>1, InitAddressInv, NextAddressInv, PTL DEF Spec
-----------------------------------------------------------------------------
\* There is no user at first.
LEMMA InitUserInv == Init => UserInv
<1> SUFFICES ASSUME Init PROVE UserInv
  OBVIOUS
<1>1. UsersApart /\ AvsStreamsWhileFollowed
  BY DEF Init, UsersApart, AvsStreamsWhileFollowed
<1>2. ForwardedLive
  BY DEF Init, ForwardedLive, Idle
<1>3. QED
  BY <1>1, <1>2, InitTypeInv DEF UserInv

\* A step that leaves alone who is online, who is followed and who forwards.
LEMMA UserFrame ==
  ASSUME UserInv, TypeInv', UNCHANGED <<online, avsVars, at>>,
         \A x \in UserObjs, p \in ProxyIds : follows'[x][p] = NoFollower <=> follows[x][p] = NoFollower,
         pc' = "deleting" <=> pc = "deleting",
         pc = "deleting" => doomed' = doomed
  PROVE  UserInv'
<1>1. UsersApart'
  BY DEF UserInv, UsersApart
<1>2. LiveUsers' = LiveUsers
  BY DEF LiveUsers
<1>3. ForwardedLive'
  BY <1>2 DEF UserInv, ForwardedLive
<1>4. \A u \in Users : online[u] # NoUser => (Followed(online[u])' <=> Followed(online[u]))
  BY DEF Followed, UserInv, TypeInv, TypeOK
<1>5. AvsStreamsWhileFollowed'
  BY <1>4 DEF UserInv, AvsStreamsWhileFollowed, Followed
<1>6. QED
  BY <1>1, <1>3, <1>5 DEF UserInv

\* New users have no followers.
LEMMA AddUserInv ==
  ASSUME UserInv, TypeInv', NEW us \in SUBSET Users, OnAddUser(us),
         \A u \in us : online[u] = NoUser, UNCHANGED <<avsVars, at, pc, doomed>>
  PROVE  UserInv'
<1>1. PICK new \in [us -> UserObjs \ LiveUsers] :
        /\ \A u, v \in us : new[u] = new[v] => u = v
        /\ online' = [u \in Users |-> IF u \in us THEN new[u] ELSE online[u]]
        /\ follows' = [x \in UserObjs |->
                         IF \E u \in us : new[u] = x THEN NoFollows ELSE follows[x]]
  BY DEF OnAddUser
<1>2. \A u \in Users : online[u] # NoUser => online'[u] = online[u]
  BY <1>1 DEF UserInv, TypeInv, TypeOK
<1>3. \A u \in Users : online[u] # NoUser => online[u] \in LiveUsers
  BY DEF LiveUsers
<1>4. pc = "deleting" => doomed \in LiveUsers
  BY DEF LiveUsers
<1>5. \A u \in us : online'[u] = new[u] /\ new[u] \in UserObjs /\ new[u] \notin LiveUsers
  BY <1>1
<1>6. UsersApart'
  BY <1>1, <1>3, <1>4, <1>5 DEF UserInv, UsersApart
<1>7. LiveUsers \subseteq LiveUsers'
  BY <1>2 DEF LiveUsers
<1>8. ForwardedLive'
  BY <1>7 DEF UserInv, ForwardedLive
<1>9. ASSUME NEW u \in us
      PROVE  ~ Followed(online[u])' /\ (u \in linkSent' <=> u \in vanished')
  <2>1. u \in linkSent <=> u \in vanished
    BY <1>9 DEF UserInv, AvsStreamsWhileFollowed
  <2>2. follows'[new[u]] = NoFollows
    BY <1>1, <1>5
  <2>3. QED
    BY <2>1, <2>2, <1>5 DEF Followed, NoFollows
<1>10. ASSUME NEW u \in Users, u \notin us
       PROVE  (online[u] # NoUser /\ Followed(online[u]))' <=> (online[u] # NoUser /\ Followed(online[u]))
  <2>1. online'[u] = online[u]
    BY <1>1, <1>10
  <2>2. online[u] # NoUser => follows'[online[u]] = follows[online[u]]
    BY <1>1, <1>3, <1>5 DEF UserInv, TypeInv, TypeOK
  <2>3. QED
    BY <2>1, <2>2 DEF Followed
<1>11. AvsStreamsWhileFollowed'
  <2>1. UNCHANGED <<linkSent, vanished>>
    OBVIOUS
  <2>2. \A u \in Users : /\ u \in linkSent <=> (online[u] # NoUser /\ Followed(online[u])) \/ u \in vanished
                         /\ ~ (online[u] # NoUser /\ Followed(online[u]) /\ u \in vanished)
    BY DEF UserInv, AvsStreamsWhileFollowed
  <2>3. QED
    BY <1>9, <1>10, <2>1, <2>2 DEF AvsStreamsWhileFollowed
<1>12. QED
  BY <1>6, <1>8, <1>11 DEF UserInv

\* Every step keeps users apart, and the AVS streaming for those who are followed.
LEMMA NextUserInv == UserInv /\ [Next]_vars => UserInv'
<1> SUFFICES ASSUME UserInv, [Next]_vars PROVE UserInv'
  OBVIOUS
<1>t. TypeInv /\ TypeOK /\ TypeInv' /\ TypeOK'
  BY NextTypeInv DEF UserInv, TypeInv
<1>b. ASSUME NEW how \in {"address", "room", "map", "user"}, Breaks(how) PROVE UserInv'
  BY <1>b, <1>t, UserFrame DEF Breaks, syncVars, roomVars
<1>1. ASSUME NEW k \in Conns, AddTermination(k) \/ DelTermination(k) PROVE UserInv'
  BY <1>1, <1>t, UserFrame DEF AddTermination, DelTermination, syncVars, roomVars
<1>2. ASSUME NEW k \in Conns, follows' = Left(k), UNCHANGED <<roomVars, pc, doomed, at>> PROVE UserInv'
  <2>1. \A x \in UserObjs, p \in ProxyIds : follows'[x][p] = NoFollower <=> follows[x][p] = NoFollower
    BY <1>2, <1>t, LeftType
  <2>2. QED
    BY <1>2, <1>t, <2>1, UserFrame DEF syncVars, roomVars
<1>3. ASSUME NEW k \in Conns, LoginScene(k) \/ LogoutScene(k) \/ UpdateTerminationUdpPort(k)
                                \/ DisconnectScene(k)
      PROVE  UserInv'
  BY <1>3, <1>2, <1>b DEF LoginScene, LogoutScene, UpdateTerminationUdpPort, DisconnectScene, Finish
<1>4. ASSUME NEW t, Schedule(t) PROVE UserInv'
  BY <1>4, <1>t, UserFrame DEF Schedule, roomVars
<1>5. ASSUME NEW u \in Users, UdpParamScene(u) PROVE UserInv'
  BY <1>5, <1>4 DEF UdpParamScene
<1>6. ASSUME NEW k \in Conns, NEW u \in Users, NEW p \in ProxyIds, TcpParamScene(k, u, p)
      PROVE  UserInv'
  BY <1>6, <1>4 DEF TcpParamScene
<1>7. ASSUME NEW r \in RoomObjs, Login(r) PROVE UserInv'
  BY <1>7, <1>t, UserFrame DEF Login, syncVars
<1>8. CASE UsersInfoScene
  BY <1>8, <1>t, AddUserInv DEF UsersInfoScene, syncVars
<1>9. ASSUME queue # <<>>
      PROVE  Task \in Tasks /\ (Task.type # "DISCONNECT" => Task.user \in Users)
  BY <1>9, <1>t DEF Task, Tasks, TypeOK
<1>10. CASE AddUserScene
  <2>1. CASE TheUser = NoUser
    BY <1>9, <1>10, <1>t, <2>1, AddUserInv DEF AddUserScene, Starts, TheUser, Finish
  <2>2. CASE TheUser # NoUser
    BY <1>10, <1>t, <2>2, UserFrame DEF AddUserScene, Finish
  <2>3. QED
    BY <2>1, <2>2
<1>11. CASE ModUserMediaScene \/ DelUnknownUser \/ LinkRefused \/ UnlinkRefused
  BY <1>11, <1>t, UserFrame DEF ModUserMediaScene, DelUnknownUser, LinkRefused, UnlinkRefused, Finish, roomVars
<1>12. CASE DelUserScene
  <2> DEFINE d == Task.user
  <2>1. /\ pc = "idle" /\ pc' = "deleting" /\ doomed' = online[d] /\ d \in Users /\ online[d] # NoUser
        /\ online' = [online EXCEPT ![d] = NoUser]
        /\ vanished' = IF Followed(online[d]) THEN vanished \cup {d} ELSE vanished
        /\ UNCHANGED <<linkSent, follows, at>>
    BY <1>12, <1>9 DEF DelUserScene, Starts, Erased, TheUser
  <2> HIDE DEF d
  <2>2. UsersApart'
    BY <2>1, <1>t DEF UserInv, UsersApart, TypeOK
  <2>3. LiveUsers' = LiveUsers
    <3>1. LiveUsers = {online[u] : u \in Users} \ {NoUser}
      BY <2>1 DEF LiveUsers
    <3>2. LiveUsers' = ({online'[u] : u \in Users} \ {NoUser}) \cup {online[d]}
      BY <2>1 DEF LiveUsers
    <3>3. \A u \in Users : online'[u] = IF u = d THEN NoUser ELSE online[u]
      BY <2>1, <1>t DEF TypeOK
    <3>4. QED
      BY <2>1, <3>1, <3>2, <3>3
  <2>4. ForwardedLive'
    BY <2>1, <2>3 DEF UserInv, ForwardedLive
  <2>5. AvsStreamsWhileFollowed'
    BY <2>1, <1>t DEF UserInv, AvsStreamsWhileFollowed, Followed, TypeOK
  <2>6. QED
    BY <1>t, <2>2, <2>4, <2>5 DEF UserInv
<1>13. CASE DeleteUser /\ UserLockFree(doomed)
  <2>1. /\ pc = "deleting" /\ pc' = "idle" /\ UNCHANGED <<online, avsVars, follows, at>>
        /\ \A w \in Workers : at[w].pc = "forward" => at[w].user # doomed
    BY <1>13 DEF DeleteUser, UserLockFree, roomVars
  <2>2. ForwardedLive'
    BY <2>1 DEF UserInv, ForwardedLive, LiveUsers
  <2>3. UsersApart' /\ AvsStreamsWhileFollowed'
    BY <2>1 DEF UserInv, UsersApart, AvsStreamsWhileFollowed, Followed
  <2>4. QED
    BY <1>t, <2>2, <2>3 DEF UserInv
<1>14. ASSUME NEW x \in UserObjs, DestoryUser(x) PROVE UserInv'
  <2>1. /\ follows' = [follows EXCEPT ![x] = NoFollows]
        /\ vanished' = vanished \cup {u \in Users : online[u] = x}
        /\ UNCHANGED <<online, linkSent, pc, doomed, at>> /\ Followed(x) /\ x # NoUser
    BY <1>14 DEF DestoryUser
  <2>2. UsersApart' /\ ForwardedLive'
    BY <2>1 DEF UserInv, UsersApart, ForwardedLive, LiveUsers
  <2>3. ASSUME NEW u \in Users PROVE Streams(u)'
    <3>1. CASE online[u] = x
      <4>1. u \in linkSent /\ u \in vanished'
        BY <2>1, <3>1 DEF UserInv, AvsStreamsWhileFollowed
      <4>2. ~ Followed(online[u])'
        BY <2>1, <3>1, <1>t DEF Followed, NoFollows, TypeOK
      <4>3. QED
        BY <2>1, <4>1, <4>2 DEF Streams
    <3>2. CASE online[u] # x
      <4>1. online[u] # NoUser => follows'[online[u]] = follows[online[u]]
        BY <2>1, <3>2, <1>t DEF TypeOK
      <4>2. QED
        BY <2>1, <3>2, <4>1 DEF UserInv, AvsStreamsWhileFollowed, Streams, Followed
    <3>3. QED
      BY <3>1, <3>2
  <2>4. QED
    BY <1>t, <2>2, <2>3 DEF UserInv, AvsStreamsWhileFollowed, Streams
<1>15. ASSUME NEW u \in Users, DeleteUserOfRoom(u), UserLockFree(online[u]) PROVE UserInv'
  <2>1. /\ pc = "destroying" /\ online[u] # NoUser /\ ~ Followed(online[u])
        /\ online' = [online EXCEPT ![u] = NoUser] /\ UNCHANGED <<avsVars, follows, pc, doomed, at>>
        /\ \A w \in Workers : at[w].pc = "forward" => at[w].user # online[u]
    BY <1>15 DEF DeleteUserOfRoom, UserLockFree, syncVars
  <2>2. UsersApart'
    BY <2>1, <1>t DEF UserInv, UsersApart, TypeOK
  <2>3. LiveUsers \ {online[u]} \subseteq LiveUsers'
    BY <2>1, <1>t DEF LiveUsers, TypeOK
  <2>4. ForwardedLive'
    BY <2>1, <2>3 DEF UserInv, ForwardedLive
  <2>5. AvsStreamsWhileFollowed'
    BY <2>1, <1>t DEF UserInv, AvsStreamsWhileFollowed, Followed, TypeOK
  <2>6. QED
    BY <1>t, <2>2, <2>4, <2>5 DEF UserInv
<1>16. CASE LinkRoomUserScene
  <2> DEFINE x == TheUser
             q == Task.id
             f == Follower(Task.conn)
  <2>1. /\ follows' = [follows EXCEPT ![x][q] = f] /\ x # NoUser /\ x = online[Task.user]
        /\ linkSent' = IF ~ Followed(x) THEN linkSent \cup {Task.user} ELSE linkSent
        /\ vanished' = IF ~ Followed(x) THEN vanished \ {Task.user} ELSE vanished
        /\ UNCHANGED <<online, pc, doomed, at>> /\ queue # <<>> /\ Task.type = "LINK_USER"
    BY <1>16 DEF LinkRoomUserScene, Continues, SendLinkUser, Finish, Starts, TheUser
  <2>2. Task.user \in Users /\ q \in ProxyIds /\ x \in UserObjs /\ Task.conn \in Conns
    BY <1>9, <2>1, <1>t DEF TypeOK, Tasks
  <2>3. f # NoFollower
    BY <2>2, <1>t DEF Follower, Followers, TypeOK
  <2> HIDE DEF x, q, f
  <2>4. UsersApart' /\ ForwardedLive'
    BY <2>1 DEF UserInv, UsersApart, ForwardedLive, LiveUsers
  <2>5. \E p \in ProxyIds : follows'[x][p] # NoFollower
    BY <2>1, <2>2, <2>3, <1>t DEF TypeOK
  <2>6. ASSUME NEW u \in Users PROVE Streams(u)'
    <3>1. CASE online[u] = x
      <4>1. u = Task.user
        BY <2>1, <2>2, <3>1 DEF UserInv, UsersApart
      <4>2. online'[u] = x /\ Followed(online[u])'
        BY <2>1, <2>5, <3>1 DEF Followed
      <4>3. u \in linkSent' /\ u \notin vanished'
        BY <2>1, <2>2, <3>1, <4>1 DEF UserInv, AvsStreamsWhileFollowed
      <4>4. QED
        BY <2>1, <3>1, <4>2, <4>3 DEF Streams
    <3>2. CASE online[u] # x
      <4>1. online[u] # NoUser => follows'[online[u]] = follows[online[u]]
        BY <2>1, <2>2, <3>2, <1>t DEF TypeOK
      <4>2. u # Task.user
        BY <2>1, <3>2
      <4>3. QED
        BY <2>1, <4>1, <4>2 DEF UserInv, AvsStreamsWhileFollowed, Streams, Followed
    <3>3. QED
      BY <3>1, <3>2
  <2>7. QED
    BY <1>t, <2>4, <2>6 DEF UserInv, AvsStreamsWhileFollowed, Streams
<1>17. CASE UnlinkRoomUserScene
  <2> DEFINE x == TheUser
             q == Task.id
             last == \A p \in ProxyIds \ {q} : follows[x][p] = NoFollower
  <2>1. /\ follows' = [follows EXCEPT ![x][q] = NoFollower] /\ x # NoUser /\ x = online[Task.user]
        /\ follows[x][q] # NoFollower
        /\ linkSent' = IF last THEN linkSent \ {Task.user} ELSE linkSent
        /\ vanished' = IF last THEN vanished \ {Task.user} ELSE vanished
        /\ UNCHANGED <<online, pc, doomed, at>> /\ queue # <<>> /\ Task.type = "UNLINK_USER"
    BY <1>17 DEF UnlinkRoomUserScene, SendUnlinkUser, Finish, Starts, TheUser
  <2>2. Task.user \in Users /\ q \in ProxyIds /\ x \in UserObjs
    BY <1>9, <2>1, <1>t DEF TypeOK, Tasks
  <2>3. \A p \in ProxyIds : follows'[x][p] = IF p = q THEN NoFollower ELSE follows[x][p]
    BY <2>1, <2>2, <1>t DEF TypeOK
  <2>4. Followed(x) /\ ((\E p \in ProxyIds : follows'[x][p] # NoFollower) <=> ~ last)
    BY <2>1, <2>2, <2>3 DEF Followed
  <2> HIDE DEF x, q, last
  <2>5. UsersApart' /\ ForwardedLive'
    BY <2>1 DEF UserInv, UsersApart, ForwardedLive, LiveUsers
  <2>6. ASSUME NEW u \in Users PROVE Streams(u)'
    <3>1. CASE online[u] = x
      <4>1. u = Task.user
        BY <2>1, <2>2, <3>1 DEF UserInv, UsersApart
      <4>2. online'[u] = x /\ (Followed(online[u])' <=> ~ last)
        BY <2>1, <2>4, <3>1 DEF Followed
      <4>3. u \in linkSent /\ u \notin vanished
        BY <2>1, <2>2, <2>4, <3>1, <4>1 DEF UserInv, AvsStreamsWhileFollowed
      <4>4. QED
        BY <2>1, <3>1, <4>1, <4>2, <4>3 DEF Streams
    <3>2. CASE online[u] # x
      <4>1. online[u] # NoUser => follows'[online[u]] = follows[online[u]]
        BY <2>1, <2>2, <3>2, <1>t DEF TypeOK
      <4>2. u # Task.user
        BY <2>1, <3>2
      <4>3. QED
        BY <2>1, <4>1, <4>2 DEF UserInv, AvsStreamsWhileFollowed, Streams, Followed
    <3>3. QED
      BY <3>1, <3>2
  <2>7. QED
    BY <1>t, <2>5, <2>6 DEF UserInv, AvsStreamsWhileFollowed, Streams
<1>18. CASE UseDeletedRoom \/ EraseWhileSearched \/ UnlinkWithoutRoom
  BY <1>18, <1>b DEF UseDeletedRoom, EraseWhileSearched, UnlinkWithoutRoom
<1>19. CASE Logout \/ StartDestory \/ EndDestory
  BY <1>19, <1>t, UserFrame DEF Logout, StartDestory, EndDestory, roomVars
<1>20. CASE DeleteRoom
  BY <1>20, <1>b, <1>t, UserFrame DEF DeleteRoom, roomVars
<1>21. CASE DeleteUser /\ ~ UserLockFree(doomed)
  BY <1>21, <1>b DEF DeleteUser
<1>22. ASSUME NEW u \in Users, DeleteUserOfRoom(u), ~ UserLockFree(online[u]) PROVE UserInv'
  BY <1>22, <1>b DEF DeleteUserOfRoom
<1>23. ASSUME NEW w \in Workers, NEW pos \in Positions, Moves(w, pos), pos.pc = "forward" => pos.user \in LiveUsers
       PROVE  UserInv'
  <2>1. /\ UNCHANGED <<online, avsVars, follows, pc, doomed>> /\ at' = [at EXCEPT ![w] = pos]
    BY <1>23 DEF Moves, roomVars, syncVars
  <2>2. UsersApart' /\ AvsStreamsWhileFollowed' /\ LiveUsers' = LiveUsers
    BY <2>1 DEF UserInv, UsersApart, AvsStreamsWhileFollowed, Followed, LiveUsers
  <2>3. ForwardedLive'
    BY <2>1, <2>2, <1>23, <1>t DEF UserInv, ForwardedLive, TypeOK
  <2>4. QED
    BY <1>t, <2>2, <2>3 DEF UserInv
<1>24. ASSUME NEW w \in Workers, GetRoom(w) \/ MediaGoesOn(w) PROVE UserInv'
  <2>0. at[w] \in Positions
    BY <1>t DEF TypeOK
  <2>1. CASE GetRoom(w)
    <3>1. [pc |-> "room", room |-> room, user |-> NoUser] \in Positions
      BY <2>1, <1>t DEF GetRoom, Positions, TypeOK
    <3>2. QED
      BY <2>1, <3>1, <1>23 DEF GetRoom
  <2>2. CASE EnterGetUser(w)
    <3>0. at[w] \in [pc: {"room", "find"}, room: RoomObjs, user: {NoUser}]
      BY <2>0, <2>2 DEF EnterGetUser, Positions, Idle
    <3>1. [at[w] EXCEPT !.pc = "find"] \in Positions /\ [at[w] EXCEPT !.pc = "find"].pc = "find"
      BY <3>0 DEF Positions
    <3>2. Moves(w, [at[w] EXCEPT !.pc = "find"]) \/ Breaks("room")
      BY <2>2 DEF EnterGetUser
    <3>3. QED
      BY <3>1, <3>2, <1>23, <1>b
  <2>3. CASE GetUser(w)
    <3>0. at[w] \in [pc: {"room", "find"}, room: RoomObjs, user: {NoUser}]
      BY <2>0, <2>3 DEF GetUser, Positions, Idle
    <3>1. PICK u \in Users : Moves(w, IF online[u] = NoUser THEN Idle
                                     ELSE [pc |-> "user", room |-> at[w].room, user |-> online[u]])
      BY <2>3 DEF GetUser
    <3>2. Idle \in Positions /\ Idle.pc = "idle"
      BY DEF Positions, Idle
    <3>3. online[u] # NoUser => [pc |-> "user", room |-> at[w].room, user |-> online[u]] \in Positions
      BY <3>0, <1>t DEF TypeOK, Positions
    <3>4. CASE online[u] = NoUser
      BY <3>1, <3>2, <3>4, <1>23
    <3>5. CASE online[u] # NoUser
      BY <3>1, <3>3, <3>5, <1>23
    <3>6. QED
      BY <3>4, <3>5
  <2>4. CASE OnRxRtp(w)
    <3>0. at[w] \in [pc: {"user", "forward"}, room: RoomObjs, user: UserObjs]
      BY <2>0, <2>4 DEF OnRxRtp, Positions, Idle
    <3>1. [at[w] EXCEPT !.pc = "forward"] \in Positions /\ [at[w] EXCEPT !.pc = "forward"].user = at[w].user
      BY <3>0 DEF Positions
    <3>2. (at[w].user \in LiveUsers /\ Moves(w, [at[w] EXCEPT !.pc = "forward"])) \/ Breaks("user")
      BY <2>4 DEF OnRxRtp
    <3>3. QED
      BY <3>1, <3>2, <1>23, <1>b
  <2>5. CASE Forward(w)
    BY <2>5, <1>23 DEF Forward, Positions, Idle
  <2>6. QED
    BY <1>24, <2>1, <2>2, <2>3, <2>4, <2>5 DEF MediaGoesOn
<1>25. CASE UNCHANGED vars
  BY <1>25, <1>t, UserFrame DEF vars, syncVars, roomVars
<1>26. QED
  BY <1>1, <1>3, <1>5, <1>6, <1>7, <1>8, <1>10, <1>11, <1>12, <1>13, <1>14, <1>15, <1>16, <1>17,
     <1>18, <1>19, <1>20, <1>21, <1>22, <1>24, <1>25
     DEF Next, EventThread, ConnTask, RoomTask, SyncGoesOn, Undefined

\* The AVS was last sent LINK_USER exactly of the users someone follows, and of those
\* that vanished with their followers.
THEOREM AvsStreaming == Spec => []AvsStreamsWhileFollowed
<1>1. UserInv => AvsStreamsWhileFollowed
  BY DEF UserInv
<1>2. QED
  BY <1>1, InitUserInv, NextUserInv, PTL DEF Spec

\* A step that changes the followers of a user finds the user_lock_ free, or
\* makes the user; one that changes an address keeps the followers' number.
LEMMA StepKeepsForwarded ==
  ASSUME UserInv, [Next]_vars, NEW w \in Workers, at[w].pc = "forward", NEW p \in ProxyIds
  PROVE  follows[at[w].user][p] = NoFollower <=> follows'[at[w].user][p] = NoFollower
<1> DEFINE x == at[w].user
           Kept == follows[x][p] = NoFollower <=> follows'[x][p] = NoFollower
<1> USE DEF syncVars
<1>t. TypeOK /\ x \in LiveUsers
  BY DEF UserInv, ForwardedLive, TypeInv
<1>u. x \in UserObjs
  <2>1. LiveUsers \subseteq UserObjs
    BY <1>t DEF UserInv, TypeInv, DoomedOK, LiveUsers, TypeOK
  <2>2. QED
    BY <1>t, <2>1
<1>1. CASE UNCHANGED follows
  BY <1>1
<1>2. ASSUME NEW k \in Conns, follows' = Left(k) PROVE Kept
  BY <1>2, <1>t, <1>u, LeftType
<1>3. ASSUME NEW us, OnAddUser(us) PROVE Kept
  <2>1. PICK new \in [us -> UserObjs \ LiveUsers] :
          follows' = [y \in UserObjs |-> IF \E u \in us : new[u] = y THEN NoFollows ELSE follows[y]]
    BY <1>3 DEF OnAddUser
  <2>2. \A u \in us : new[u] # x
    BY <1>t
  <2>3. QED
    BY <1>u, <2>1, <2>2
<1>4. ASSUME NEW y, UserLockFree(y), NEW g, follows' = [follows EXCEPT ![y] = g] PROVE Kept
  <2>1. x # y
    BY <1>4 DEF UserLockFree
  <2>2. QED
    BY <1>4, <1>u, <1>t, <2>1 DEF TypeOK
<1>5. ASSUME NEW how, Breaks(how) PROVE Kept
  BY <1>1, <1>5 DEF Breaks
<1>6. ASSUME NEW k \in Conns, AddTermination(k) \/ DelTermination(k) PROVE Kept
  BY <1>1, <1>6 DEF AddTermination, DelTermination
<1>7. ASSUME NEW k \in Conns, LoginScene(k) \/ LogoutScene(k) \/ UpdateTerminationUdpPort(k)
                                \/ DisconnectScene(k)
      PROVE  Kept
  BY <1>2, <1>5, <1>7 DEF LoginScene, LogoutScene, UpdateTerminationUdpPort, DisconnectScene
<1>8. ASSUME NEW u \in Users, UdpParamScene(u) PROVE Kept
  BY <1>1, <1>8 DEF UdpParamScene, Schedule
<1>9. ASSUME NEW k \in Conns, NEW u \in Users, NEW q \in ProxyIds, TcpParamScene(k, u, q) PROVE Kept
  BY <1>1, <1>9 DEF TcpParamScene, Schedule
<1>10. CASE UsersInfoScene \/ AddUserScene
  BY <1>1, <1>3, <1>10 DEF UsersInfoScene, AddUserScene
<1>11. CASE LinkRoomUserScene \/ UnlinkRoomUserScene
  <2>1. UserLockFree(TheUser)
    BY <1>11 DEF LinkRoomUserScene, UnlinkRoomUserScene
  <2>2. \E g : follows' = [follows EXCEPT ![TheUser] = g]
    BY <1>11 DEF LinkRoomUserScene, UnlinkRoomUserScene
  <2>3. QED
    BY <1>4, <2>1, <2>2
<1>12. ASSUME NEW y \in UserObjs, DestoryUser(y) PROVE Kept
  BY <1>4, <1>12 DEF DestoryUser
<1>13. CASE ModUserMediaScene \/ DelUnknownUser \/ DelUserScene \/ LinkRefused \/ UnlinkRefused
  BY <1>1, <1>13 DEF ModUserMediaScene, DelUnknownUser, DelUserScene, LinkRefused, UnlinkRefused
<1>14. CASE UseDeletedRoom \/ EraseWhileSearched \/ UnlinkWithoutRoom
  BY <1>5, <1>14 DEF UseDeletedRoom, EraseWhileSearched, UnlinkWithoutRoom
<1>15. CASE Logout \/ StartDestory \/ EndDestory \/ DeleteUser \/ DeleteRoom
  BY <1>1, <1>5, <1>15 DEF Logout, StartDestory, EndDestory, DeleteUser, DeleteRoom
<1>16. ASSUME NEW u \in Users, DeleteUserOfRoom(u) PROVE Kept
  BY <1>1, <1>5, <1>16 DEF DeleteUserOfRoom
<1>17. ASSUME NEW r \in RoomObjs, Login(r) PROVE Kept
  BY <1>1, <1>17 DEF Login
<1>18. ASSUME NEW v \in Workers, GetRoom(v) \/ MediaGoesOn(v) PROVE Kept
  BY <1>1, <1>5, <1>18 DEF GetRoom, MediaGoesOn, EnterGetUser, GetUser, OnRxRtp, Forward, Moves
<1>19. CASE UNCHANGED vars
  BY <1>1, <1>19 DEF vars
<1>20. QED
  BY <1>6, <1>7, <1>8, <1>9, <1>10, <1>11, <1>12, <1>13, <1>14, <1>15, <1>16, <1>17, <1>18, <1>19
     DEF Next, EventThread, ConnTask, RoomTask, SyncGoesOn, Undefined

\* The followers of a user stay while a packet is forwarded to them.
THEOREM ForwardingIsUndisturbed == Spec => FollowersStayWhileForwarding
<1>1. UserInv /\ [Next]_vars =>
        [\A w \in Workers :
           at[w].pc = "forward" =>
             \A p \in ProxyIds :
               follows[at[w].user][p] = NoFollower <=> follows'[at[w].user][p] = NoFollower]_vars
  BY StepKeepsForwarded
<1>2. QED
  BY <1>1, InitUserInv, NextUserInv, PTL DEF Spec, FollowersStayWhileForwarding
-----------------------------------------------------------------------------
\* Nothing is held at first.
LEMMA InitPointerInv == Init => PointerInv
<1> SUFFICES ASSUME Init PROVE PointerInv
  OBVIOUS
<1>1. queue = <<>> /\ behind = 0 /\ pc = "idle" /\ broken = "no" /\ Len(queue) = 0
  BY DEF Init
<1>2. \A w \in Workers : at[w].pc = "idle"
  BY DEF Init, Idle
<1>3. TasksAreCurrent /\ MediaIsCurrent
  BY <1>1, <1>2 DEF TasksAreCurrent, MediaIsCurrent
<1>4. QED
  BY <1>1, <1>3, InitUserInv DEF PointerInv, OnlyOutrunPointersAreStale, Closing

\* The tasks behind the one that is taken stay as current as they were.
LEMMA TakenTasksCurrent ==
  ASSUME TypeOK, TasksAreCurrent, room' = room, queue # <<>>, Taken
  PROVE  TasksAreCurrent'
<1>1. behind \in Nat /\ behind' = (IF behind = 0 THEN 0 ELSE behind - 1) /\ queue' = Tail(queue)
  BY DEF TypeOK, Taken
<1>2. ASSUME NEW i \in behind' + 1 .. Len(queue')
      PROVE  i + 1 \in behind + 1 .. Len(queue) /\ queue'[i] = queue[i + 1]
  <2>1. i \in 1 .. Len(queue') /\ Len(queue') \in Nat
    BY <1>1, TailTasks
  <2>2. i + 1 \in 1 .. Len(queue) /\ queue'[i] = queue[i + 1]
    BY <1>1, <2>1, TailTasks
  <2>3. i + 1 >= behind + 1
    BY <1>1, <2>1
  <2>4. QED
    BY <1>1, <2>2, <2>3
<1>3. QED
  BY <1>2 DEF TasksAreCurrent

\* So do all tasks when one that is bound to the Room is put behind them.
LEMMA ScheduledTasksCurrent ==
  ASSUME TypeOK, TasksAreCurrent, UNCHANGED <<room, behind>>, NEW t \in Tasks,
         queue' = Scheduled(t),
         t.type # "DISCONNECT" => room # NoRoom /\ t.room \in {NoRoom, room}
  PROVE  TasksAreCurrent'
<1>1. queue \in Seq(Tasks) /\ Len(queue) \in Nat /\ behind \in Nat /\ queue' = Append(queue, t)
  BY DEF TypeOK, Scheduled
<1>2. ASSUME NEW i \in behind + 1 .. Len(queue')
      PROVE  queue'[i] = t \/ (i \in behind + 1 .. Len(queue) /\ queue'[i] = queue[i])
  BY <1>1
<1>3. QED
  BY <1>2 DEF TasksAreCurrent

\* A step that leaves the Room, its users and the media threads alone.
LEMMA PointerFrame ==
  ASSUME PointerInv, UserInv', UNCHANGED <<room, at, outrun>>, TasksAreCurrent',
         broken' \notin {"room", "user"}, pc' \in Closing => pc \in Closing,
         \A u \in Users : online[u] # NoUser => online'[u] = online[u]
  PROVE  PointerInv'
<1>1. ASSUME NEW w \in Workers, at[w].user \in {online[u] : u \in Users} \cup {NoUser}
      PROVE  at[w].user \in {online'[u] : u \in Users} \cup {NoUser}
  BY <1>1
<1>2. MediaIsCurrent'
  BY <1>1 DEF PointerInv, OnlyOutrunPointersAreStale, MediaIsCurrent
<1>3. QED
  BY <1>2 DEF PointerInv, OnlyOutrunPointersAreStale

\* Every step keeps all pointers good but those it has outrun.
LEMMA NextPointerInv == PointerInv /\ [Next]_vars => PointerInv'
<1> SUFFICES ASSUME PointerInv, [Next]_vars PROVE PointerInv'
  OBVIOUS
<1>t. TypeInv /\ TypeOK /\ UserInv /\ UserInv' /\ TypeOK'
  BY NextUserInv DEF PointerInv, UserInv, TypeInv
<1>p. /\ TasksAreCurrent /\ MediaIsCurrent /\ (pc \in Closing => room = NoRoom)
      /\ (broken = "room" => behind > 0 \/ outrun # {}) /\ (broken = "user" => outrun # {})
  BY DEF PointerInv, OnlyOutrunPointersAreStale
<1>q. UNCHANGED <<queue, behind, room>> => TasksAreCurrent'
  BY <1>p DEF TasksAreCurrent
<1>u. CASE UNCHANGED vars
  <2>1. TasksAreCurrent' /\ MediaIsCurrent'
    BY <1>u, <1>p DEF vars, TasksAreCurrent, MediaIsCurrent
  <2>2. UNCHANGED <<room, pc, outrun, behind, broken>>
    BY <1>u DEF vars
  <2>3. QED
    BY <1>t, <1>p, <2>1, <2>2 DEF PointerInv, OnlyOutrunPointersAreStale
<1> SUFFICES ASSUME broken = "no",
                    \/ EventThread \/ ConnTask \/ RoomTask \/ SyncGoesOn
                    \/ \E w \in Workers : GetRoom(w) \/ MediaGoesOn(w)
             PROVE  PointerInv'
  BY <1>u DEF Next, Undefined
<1>k. \A u \in Users : online[u] # NoUser /\ online' = online => online'[u] = online[u]
  OBVIOUS
<1>b. ASSUME NEW how, Breaks(how), how = "room" => behind > 0 \/ outrun # {},
             how = "user" => outrun # {}
      PROVE  PointerInv'
  <2>1. UNCHANGED <<room, online, queue, behind, pc, at, outrun>> /\ broken' = how
    BY <1>b DEF Breaks
  <2>2. TasksAreCurrent' /\ MediaIsCurrent'
    BY <1>p, <2>1 DEF TasksAreCurrent, MediaIsCurrent
  <2>3. QED
    BY <1>b, <1>t, <1>p, <2>1, <2>2 DEF PointerInv, OnlyOutrunPointersAreStale
<1>1. ASSUME NEW k \in Conns, AddTermination(k) PROVE PointerInv'
  BY <1>1, <1>t, <1>q, PointerFrame DEF AddTermination
<1>2. ASSUME NEW k \in Conns, DelTermination(k) PROVE PointerInv'
  <2> DEFINE t == [type |-> "DISCONNECT", user |-> NoUser, room |-> NoRoom, conn |-> k, id |-> NoId]
  <2>1. t \in Tasks /\ t.type = "DISCONNECT"
    BY DEF Tasks
  <2>2. queue' = Scheduled(t) /\ UNCHANGED <<room, online, behind, pc, at, outrun, broken>>
    BY <1>2 DEF DelTermination
  <2> HIDE DEF t
  <2>3. TasksAreCurrent'
    BY <1>t, <1>p, <2>1, <2>2, ScheduledTasksCurrent
  <2>4. QED
    BY <1>t, <2>2, <2>3, PointerFrame
<1>3. ASSUME NEW k \in Conns, LoginScene(k) \/ LogoutScene(k) \/ UpdateTerminationUdpPort(k)
      PROVE  PointerInv'
  <2>1. CASE Breaks("address")
    BY <1>b, <2>1
  <2>2. CASE UNCHANGED <<room, online, queue, behind, pc, at, outrun, broken>>
    BY <1>t, <1>q, <2>2, PointerFrame
  <2>3. QED
    BY <1>3, <2>1, <2>2 DEF LoginScene, LogoutScene, UpdateTerminationUdpPort
<1>4. ASSUME NEW k \in Conns, DisconnectScene(k) PROVE PointerInv'
  <2>1. CASE Breaks("address")
    BY <1>b, <2>1
  <2>2. CASE queue # <<>> /\ Taken /\ UNCHANGED <<room, online, pc, at, outrun, broken>>
    BY <1>t, <1>p, <2>2, TakenTasksCurrent, PointerFrame
  <2>3. QED
    BY <1>4, <2>1, <2>2 DEF DisconnectScene, Starts, Finish
<1>5. ASSUME NEW t \in Tasks, t.room \in {room, NoRoom}, Schedule(t) PROVE PointerInv'
  <2>1. /\ UNCHANGED <<room, online, behind, pc, at, outrun, broken>> /\ room # NoRoom
        /\ queue' = Scheduled(t)
    BY <1>5 DEF Schedule
  <2>2. TasksAreCurrent'
    BY <1>5, <1>t, <1>p, <2>1, ScheduledTasksCurrent
  <2>3. QED
    BY <1>t, <2>1, <2>2, PointerFrame
<1>6. ASSUME NEW u \in Users, UdpParamScene(u) PROVE PointerInv'
  <2>1. PICK type \in {"ADD_USER", "DEL_USER", "MOD_USER"} :
          Schedule([type |-> type, user |-> u, room |-> room, conn |-> NoConn, id |-> NoId])
    BY <1>6 DEF UdpParamScene
  <2>2. [type |-> type, user |-> u, room |-> room, conn |-> NoConn, id |-> NoId] \in Tasks
    BY <2>1, <1>t DEF Schedule, Tasks, TypeOK
  <2>3. QED
    BY <2>1, <2>2, <1>5
<1>7. ASSUME NEW k \in Conns, NEW u \in Users, NEW p \in ProxyIds, TcpParamScene(k, u, p)
      PROVE  PointerInv'
  <2> DEFINE link == [type |-> "LINK_USER", user |-> u, room |-> room, conn |-> k, id |-> p]
             unlink == [type |-> "UNLINK_USER", user |-> u, room |-> NoRoom, conn |-> k, id |-> p]
  <2>1. Schedule(link) \/ Schedule(unlink)
    BY <1>7 DEF TcpParamScene
  <2>2. Schedule(link) => link \in Tasks
    BY <1>t DEF Schedule, Tasks, TypeOK
  <2>3. unlink \in Tasks
    BY DEF Tasks
  <2>4. QED
    BY <2>1, <2>2, <2>3, <1>5
<1>8. ASSUME NEW r \in RoomObjs, Login(r) PROVE PointerInv'
  <2>1. /\ room = NoRoom /\ pc = "idle"
        /\ UNCHANGED <<online, queue, behind, pc, at, outrun, broken>>
    BY <1>8 DEF Login
  <2>2. TasksAreCurrent' /\ MediaIsCurrent'
    BY <1>p, <2>1 DEF TasksAreCurrent, MediaIsCurrent
  <2>3. QED
    BY <1>t, <1>p, <2>1, <2>2 DEF PointerInv, OnlyOutrunPointersAreStale, Closing
<1>9. ASSUME NEW us, OnAddUser(us), \A u \in us : online[u] = NoUser
      PROVE  \A u \in Users : online[u] # NoUser => online'[u] = online[u]
  BY <1>9 DEF OnAddUser
<1>10. CASE UsersInfoScene
  <2>1. \A u \in Users : online[u] # NoUser => online'[u] = online[u]
    BY <1>9, <1>10 DEF UsersInfoScene
  <2>2. UNCHANGED <<room, queue, behind, pc, at, outrun, broken>>
    BY <1>10 DEF UsersInfoScene
  <2>3. QED
    BY <1>t, <1>q, <2>1, <2>2, PointerFrame
<1>11. ASSUME queue # <<>>, Taken, UNCHANGED <<room, pc, at, outrun, broken>>,
              \A u \in Users : online[u] # NoUser => online'[u] = online[u]
       PROVE  PointerInv'
  BY <1>11, <1>t, <1>p, TakenTasksCurrent, PointerFrame
<1>12. CASE AddUserScene
  <2>1. \A u \in Users : online[u] # NoUser => online'[u] = online[u]
    BY <1>9, <1>12 DEF AddUserScene, TheUser
  <2>2. QED
    BY <1>11, <1>12, <2>1 DEF AddUserScene, Finish, Starts
<1>13. CASE ModUserMediaScene \/ DelUnknownUser \/ LinkRefused \/ UnlinkRefused
            \/ LinkRoomUserScene \/ UnlinkRoomUserScene
  BY <1>11, <1>13
     DEF ModUserMediaScene, DelUnknownUser, LinkRefused, UnlinkRefused, LinkRoomUserScene,
         UnlinkRoomUserScene, Starts, Finish
<1>14. ASSUME queue # <<>>, behind = 0, Task.type # "DISCONNECT"
       PROVE  room # NoRoom /\ Task.room \in {NoRoom, room}
  <2>1. Task = queue[1] /\ 1 \in behind + 1 .. Len(queue)
    BY <1>14, <1>t, TailTasks
  <2>2. QED
    BY <1>14, <1>p, <2>1 DEF TasksAreCurrent
<1>15. CASE UseDeletedRoom
  <2>1. queue # <<>> /\ Task \in Tasks
    BY <1>15, <1>t, TailTasks DEF UseDeletedRoom, Starts
  <2>2. /\ Task.room # room /\ Task.type \in {"ADD_USER", "DEL_USER", "MOD_USER", "LINK_USER"}
        /\ Breaks("room")
    BY <1>15 DEF UseDeletedRoom, BoundTo, Starts
  <2>3. Task.room \in RoomObjs
    BY <2>1, <2>2 DEF Tasks
  <2>4. behind # 0 /\ behind \in Nat
    BY <1>14, <1>t, <2>1, <2>2, <2>3 DEF TypeOK
  <2>5. QED
    BY <1>b, <2>2, <2>4
<1>16. CASE UnlinkWithoutRoom
  <2>1. queue # <<>> /\ Task.type = "UNLINK_USER" /\ room = NoRoom /\ Breaks("room")
    BY <1>16 DEF UnlinkWithoutRoom, Starts
  <2>2. behind # 0 /\ behind \in Nat
    BY <1>14, <1>t, <2>1 DEF TypeOK
  <2>3. QED
    BY <1>b, <2>1, <2>2
<1>17. CASE EraseWhileSearched
  BY <1>17, <1>b DEF EraseWhileSearched
<1>18. CASE DelUserScene
  <2>1. /\ queue # <<>> /\ Taken /\ pc' = "deleting" /\ Task.user \in Users
        /\ online' = [online EXCEPT ![Task.user] = NoUser]
        /\ outrun' = outrun \cup {w \in Workers : at[w].user = online[Task.user]}
        /\ UNCHANGED <<room, at, broken>>
    <3>1. queue # <<>> /\ Task.type = "DEL_USER"
      BY <1>18 DEF DelUserScene, Starts
    <3>2. Task \in Tasks
      BY <1>t, <3>1, TailTasks
    <3>3. QED
      BY <1>18, <3>1, <3>2 DEF DelUserScene, Erased, TheUser, Tasks
  <2>2. TasksAreCurrent'
    BY <1>t, <1>p, <2>1, TakenTasksCurrent
  <2>3. ASSUME NEW w \in Workers, w \notin outrun', at[w].user \in {online[u] : u \in Users} \cup {NoUser}
        PROVE  at[w].user \in {online'[u] : u \in Users} \cup {NoUser}
    <3>1. at[w].user # online[Task.user]
      BY <2>1, <2>3
    <3>2. \A u \in Users : online[u] # online[Task.user] => online'[u] = online[u]
      BY <1>t, <2>1 DEF TypeOK
    <3>3. QED
      BY <2>3, <3>1, <3>2
  <2>4. MediaIsCurrent'
    BY <1>p, <2>1, <2>3 DEF MediaIsCurrent
  <2>5. QED
    BY <1>t, <2>1, <2>2, <2>4 DEF PointerInv, OnlyOutrunPointersAreStale, Closing
<1>19. CASE Logout
  <2>1. /\ room' = NoRoom /\ behind' = Len(queue) /\ queue' = queue /\ UNCHANGED <<at, broken>>
        /\ outrun' = {w \in Workers : at[w].pc # "idle"}
    BY <1>19 DEF Logout
  <2>2. TasksAreCurrent'
    <3>1. Len(queue') \in Nat
      BY <1>t DEF TypeOK
    <3>2. QED
      BY <2>1, <3>1 DEF TasksAreCurrent
  <2>3. MediaIsCurrent'
    BY <2>1 DEF MediaIsCurrent
  <2>4. QED
    BY <1>t, <2>1, <2>2, <2>3 DEF PointerInv, OnlyOutrunPointersAreStale
<1>20. ASSUME NEW w \in Workers, at[w].pc # "idle", pc \in Closing PROVE outrun # {}
  BY <1>20, <1>p DEF MediaIsCurrent
<1>21. CASE DeleteUser
  <2>1. CASE UserLockFree(doomed)
    BY <1>21, <1>t, <1>q, <2>1, PointerFrame DEF DeleteUser, Closing
  <2>2. CASE ~ UserLockFree(doomed)
    <3>1. Breaks("user") /\ pc = "deleting"
      BY <1>21, <2>2 DEF DeleteUser
    <3>2. PICK w \in Workers : at[w].pc = "forward" /\ at[w].user = doomed
      BY <2>2 DEF UserLockFree
    <3>3. doomed \in UserObjs /\ \A u \in Users : online[u] # doomed
      BY <1>t, <3>1 DEF UserInv, UsersApart, TypeInv, DoomedOK
    <3>4. w \in outrun
      BY <1>p, <3>2, <3>3 DEF MediaIsCurrent
    <3>5. QED
      BY <1>b, <3>1, <3>4
  <2>3. QED
    BY <2>1, <2>2
<1>22. ASSUME NEW x \in UserObjs, DestoryUser(x) PROVE PointerInv'
  BY <1>22, <1>t, <1>q, PointerFrame DEF DestoryUser
<1>23. CASE StartDestory \/ EndDestory
  BY <1>23, <1>t, <1>q, PointerFrame DEF StartDestory, EndDestory, Closing
<1>24. ASSUME NEW u \in Users, DeleteUserOfRoom(u) PROVE PointerInv'
  <2>1. CASE UserLockFree(online[u])
    <3>1. pc \in Closing /\ UNCHANGED <<room, queue, behind, pc, at, outrun, broken>>
      BY <1>24, <2>1 DEF DeleteUserOfRoom, Closing
    <3>2. TasksAreCurrent' /\ MediaIsCurrent'
      BY <1>p, <1>q, <3>1 DEF MediaIsCurrent
    <3>3. QED
      BY <1>t, <1>p, <3>1, <3>2 DEF PointerInv, OnlyOutrunPointersAreStale
  <2>2. CASE ~ UserLockFree(online[u])
    <3>1. Breaks("user") /\ pc \in Closing
      BY <1>24, <2>2 DEF DeleteUserOfRoom, Closing
    <3>2. outrun # {}
      BY <1>20, <2>2, <3>1 DEF UserLockFree
    <3>3. QED
      BY <1>b, <3>1, <3>2
  <2>3. QED
    BY <2>1, <2>2
<1>25. CASE DeleteRoom
  <2>1. CASE RoomLockFree(doomed)
    BY <1>25, <1>t, <1>q, <2>1, PointerFrame DEF DeleteRoom, Closing
  <2>2. CASE ~ RoomLockFree(doomed)
    <3>1. Breaks("room") /\ pc = "destroyed" /\ pc \in Closing
      BY <1>25, <2>2 DEF DeleteRoom, Closing
    <3>2. outrun # {}
      BY <1>20, <2>2, <3>1 DEF RoomLockFree
    <3>3. QED
      BY <1>b, <3>1, <3>2
  <2>3. QED
    BY <2>1, <2>2
<1>26. ASSUME NEW w \in Workers, NEW pos, Moves(w, pos),
              w \notin outrun /\ pos.pc # "idle" =>
                /\ room # NoRoom /\ pos.room = room
                /\ pos.user \in {online[u] : u \in Users} \cup {NoUser}
       PROVE  PointerInv'
  <2>1. /\ at' = [at EXCEPT ![w] = pos]
        /\ outrun' = IF pos.pc = "idle" THEN outrun \ {w} ELSE outrun
        /\ UNCHANGED <<room, online, queue, behind, pc, broken>>
    BY <1>26 DEF Moves
  <2>2. \A v \in Workers : at'[v] = IF v = w THEN pos ELSE at[v]
    BY <2>1, <1>t DEF TypeOK
  <2>3. \A v \in Workers \ outrun' : at'[v].pc # "idle" => v \notin outrun
    BY <2>1, <2>2
  <2>4. MediaIsCurrent'
    BY <1>26, <1>p, <2>1, <2>2, <2>3 DEF MediaIsCurrent
  <2>5. QED
    BY <1>t, <1>p, <1>q, <2>1, <2>4 DEF PointerInv, OnlyOutrunPointersAreStale
<1>27. ASSUME NEW w \in Workers, GetRoom(w) PROVE PointerInv'
  BY <1>26, <1>27 DEF GetRoom
<1>28. ASSUME NEW w \in Workers, at[w].pc # "idle", w \notin outrun
       PROVE  /\ room # NoRoom /\ at[w].room = room /\ TheRoom = room
              /\ at[w].user \in {online[u] : u \in Users} \cup {NoUser}
  BY <1>28, <1>p DEF MediaIsCurrent, TheRoom
<1>29. ASSUME NEW w \in Workers, EnterGetUser(w) PROVE PointerInv'
  <2>1. at[w].pc = "room" /\ at[w] \in [pc: {"room", "find"}, room: RoomObjs, user: {NoUser}]
    <3>1. at[w] \in Positions
      BY <1>t DEF TypeOK
    <3>2. QED
      BY <1>29, <3>1 DEF EnterGetUser, Positions, Idle
  <2> DEFINE pos == [at[w] EXCEPT !.pc = "find"]
  <2>2. pos.room = at[w].room /\ pos.user = at[w].user
    BY <2>1
  <2>3. (Breaks("room") /\ at[w].room # TheRoom) \/ Moves(w, pos)
    BY <1>29 DEF EnterGetUser
  <2> HIDE DEF pos
  <2>4. CASE Moves(w, pos)
    BY <1>26, <1>28, <2>1, <2>2, <2>4
  <2>5. CASE Breaks("room") /\ at[w].room # TheRoom
    <3>1. w \in outrun
      BY <1>28, <2>1, <2>5
    <3>2. QED
      BY <1>b, <2>5, <3>1
  <2>6. QED
    BY <2>3, <2>4, <2>5
<1>30. ASSUME NEW w \in Workers, GetUser(w) PROVE PointerInv'
  <2>1. at[w].pc = "find"
    BY <1>30 DEF GetUser
  <2>2. PICK u \in Users : Moves(w, IF online[u] = NoUser THEN Idle
                                   ELSE [pc |-> "user", room |-> at[w].room, user |-> online[u]])
    BY <1>30 DEF GetUser
  <2>3. CASE online[u] = NoUser
    BY <1>26, <2>2, <2>3 DEF Idle
  <2>4. CASE online[u] # NoUser
    BY <1>26, <1>28, <2>1, <2>2, <2>4
  <2>5. QED
    BY <2>3, <2>4
<1>31. ASSUME NEW w \in Workers, OnRxRtp(w) PROVE PointerInv'
  <2>1. at[w].pc = "user" /\ at[w] \in [pc: {"user", "forward"}, room: RoomObjs, user: UserObjs]
    <3>1. at[w] \in Positions
      BY <1>t DEF TypeOK
    <3>2. QED
      BY <1>31, <3>1 DEF OnRxRtp, Positions, Idle
  <2> DEFINE pos == [at[w] EXCEPT !.pc = "forward"]
  <2>2. pos.room = at[w].room /\ pos.user = at[w].user
    BY <2>1
  <2>3. (Breaks("user") /\ at[w].user \notin LiveUsers) \/ Moves(w, pos)
    BY <1>31 DEF OnRxRtp
  <2> HIDE DEF pos
  <2>4. CASE Moves(w, pos)
    BY <1>26, <1>28, <2>1, <2>2, <2>4
  <2>5. CASE Breaks("user") /\ at[w].user \notin LiveUsers
    <3>1. at[w].user # NoUser
      BY <2>1
    <3>2. at[w].user \notin {online[u] : u \in Users}
      BY <2>5, <3>1 DEF LiveUsers
    <3>3. w \in outrun
      BY <1>28, <2>1, <3>1, <3>2
    <3>4. QED
      BY <1>b, <2>5, <3>3
  <2>6. QED
    BY <2>3, <2>4, <2>5
<1>32. ASSUME NEW w \in Workers, Forward(w) PROVE PointerInv'
  BY <1>26, <1>32 DEF Forward, Idle
<1>33. QED
  BY <1>1, <1>2, <1>3, <1>4, <1>6, <1>7, <1>8, <1>10, <1>12, <1>13, <1>15, <1>16, <1>17, <1>18,
     <1>19, <1>21, <1>22, <1>23, <1>24, <1>25, <1>27, <1>29, <1>30, <1>31, <1>32
     DEF EventThread, ConnTask, RoomTask, SyncGoesOn, MediaGoesOn

\* However many Rooms and users come and go, only what was looked up before a deletion
\* and used after it is stale: tasks older than the last Logout, packets on their way.
THEOREM StalePointersAreOutrun == Spec => []OnlyOutrunPointersAreStale
<1>1. PointerInv => OnlyOutrunPointersAreStale
  BY DEF PointerInv
<1>2. QED
  BY <1>1, InitPointerInv, NextPointerInv, PTL DEF Spec
-----------------------------------------------------------------------------
\* The action in which free is handed something else is the last of the program.
FreeInv == AddressInv /\ FreesAreOwnUnlessUnset

\* What free may be handed, for a Termination that has not logged out.
LEMMA MayFreeIfOwned ==
  ASSUME AddressInv, NEW k \in Conns, ~ MayFree(k)
  PROVE  status[k] = "OFFLINE" \/ (status[k] = "INIT" /\ ip[k] = Wild)
<1>1. ip[k] \in Addrs \cup {Null, Wild} /\ status[k] \in {"INIT", "ONLINE", "OFFLINE"}
  BY DEF AddressInv, TypeInv, TypeOK, Pointers
<1>2. CASE ip[k] \in Addrs
  BY <1>2 DEF MayFree, AddressInv, AddressesAreOwned
<1>3. CASE ip[k] = Wild
  BY <1>1, <1>3 DEF AddressInv, StatusOK
<1>4. QED
  BY <1>1, <1>2, <1>3 DEF MayFree

\* The steps after which an address has been misused, and the Termination it was of.
LEMMA AddressMisuse ==
  ASSUME AddressInv, [Next]_vars, broken # "address", broken' = "address"
  PROVE  /\ \E k \in Conns : life[k] # "free" /\ ~ MayFree(k)
         /\ UNCHANGED connVars
<1>1. ASSUME NEW k \in Conns, LogoutScene(k) \/ UpdateTerminationUdpPort(k) \/ DisconnectScene(k)
      PROVE  life[k] # "free" /\ ~ MayFree(k) /\ UNCHANGED connVars
  <2>1. DisconnectScene(k) => life[k] # "free"
    <3> SUFFICES ASSUME queue # <<>>, Task.conn = k PROVE life[k] # "free"
      BY DEF DisconnectScene, Starts
    <3>1. TypeOK /\ TasksHaveConns
      BY DEF AddressInv, TypeInv
    <3>2. queue[1].conn = k /\ 1 \in 1 .. Len(queue)
      BY <3>1, TailTasks
    <3>3. QED
      BY <3>1, <3>2 DEF TasksHaveConns
  <2>2. QED
    BY <1>1, <2>1 DEF LogoutScene, UpdateTerminationUdpPort, DisconnectScene, Breaks
<1>2. ~ (EventThread \/ UNCHANGED vars)
  BY DEF EventThread, AddTermination, DelTermination, UdpParamScene, TcpParamScene, Schedule, vars
<1>3. ~ (\E k \in Conns : LoginScene(k))
  BY DEF LoginScene
<1>4. ~ RoomTask
  BY DEF RoomTask, Login, UsersInfoScene, AddUserScene, ModUserMediaScene, DelUnknownUser,
         DelUserScene, EraseWhileSearched, LinkRefused, LinkRoomUserScene, UnlinkRefused,
         UnlinkRoomUserScene, UnlinkWithoutRoom, UseDeletedRoom, Logout, Breaks
<1>5. ~ SyncGoesOn
  BY DEF SyncGoesOn, DeleteUser, StartDestory, EndDestory, DeleteRoom, DestoryUser,
         DeleteUserOfRoom, Breaks
<1>6. ~ (\E w \in Workers : GetRoom(w) \/ MediaGoesOn(w))
  BY DEF GetRoom, MediaGoesOn, EnterGetUser, GetUser, OnRxRtp, Forward, Moves, Breaks
<1>7. QED
  BY <1>1, <1>2, <1>3, <1>4, <1>5, <1>6 DEF Next, ConnTask, Undefined

\* Nothing happens after a misuse.
LEMMA NextFreeInv == FreeInv /\ [Next]_vars => FreeInv'
<1> SUFFICES ASSUME FreeInv, [Next]_vars PROVE FreeInv'
  OBVIOUS
<1>1. AddressInv'
  BY NextAddressInv DEF FreeInv
<1>2. CASE broken = "address"
  <2>1. UNCHANGED vars
    BY <1>2 DEF Next, Undefined
  <2>2. QED
    BY <1>1, <2>1 DEF FreeInv, FreesAreOwnUnlessUnset, vars, connVars
<1>3. CASE broken # "address" /\ broken' = "address"
  <2>1. PICK k \in Conns : life[k] # "free" /\ ~ MayFree(k)
    BY <1>3, AddressMisuse DEF FreeInv
  <2>2. status[k] = "OFFLINE" \/ (status[k] = "INIT" /\ ip[k] = Wild)
    BY <2>1, MayFreeIfOwned DEF FreeInv
  <2>3. UNCHANGED connVars
    BY <1>3, AddressMisuse DEF FreeInv
  <2>4. QED
    BY <1>1, <2>1, <2>2, <2>3 DEF FreeInv, FreesAreOwnUnlessUnset, connVars
<1>4. CASE broken' # "address"
  BY <1>1, <1>4 DEF FreeInv, FreesAreOwnUnlessUnset
<1>5. QED
  BY <1>2, <1>3, <1>4

\* A wrong free takes a client that has logged out, or one whose pointer was never
\* set: with any number of connections and blocks, reuse alone cannot lead to it.
THEOREM WrongFreesAreOfUnset == Spec => []FreesAreOwnUnlessUnset
<1>1. Init => FreeInv
  BY InitAddressInv DEF FreeInv, FreesAreOwnUnlessUnset, Init
<1>2. FreeInv => FreesAreOwnUnlessUnset
  BY DEF FreeInv
<1>3. QED
  BY <1>1, <1>2, NextFreeInv, PTL DEF Spec
-----------------------------------------------------------------------------
\* The Terminations that requests have: the state TerminationLife calls held.
Held == {k \in Conns : \E i \in 1 .. Len(queue) :
                         queue[i].type # "DISCONNECT" /\ queue[i].conn = k}

\* A task that is scheduled has its Termination, unless it is given none or deletes it.
LEMMA ScheduleHolds ==
  ASSUME TypeOK, NEW t, queue' = Scheduled(t)
  PROVE  Held' = Held \cup {k \in Conns : t.type # "DISCONNECT" /\ t.conn = k}
<1>1. queue \in Seq(Tasks) /\ Len(queue) \in Nat /\ queue' = Append(queue, t)
  BY DEF TypeOK, Scheduled
<1>2. /\ Len(queue') = Len(queue) + 1
      /\ queue'[Len(queue) + 1] = t
      /\ \A i \in 1 .. Len(queue) : queue'[i] = queue[i]
      /\ 1 .. Len(queue') = 1 .. Len(queue) \cup {Len(queue) + 1}
  BY <1>1
<1>3. \A k \in Conns :
        (\E i \in 1 .. Len(queue') : queue'[i].type # "DISCONNECT" /\ queue'[i].conn = k)
        <=> \/ \E i \in 1 .. Len(queue) : queue[i].type # "DISCONNECT" /\ queue[i].conn = k
            \/ t.type # "DISCONNECT" /\ t.conn = k
  BY <1>2
<1>4. QED
  BY <1>3 DEF Held

\* A task that is over gives its Termination back; DISCONNECT had none to give.
LEMMA TailReleases ==
  ASSUME TypeOK, queue # <<>>, queue' = Tail(queue)
  PROVE  /\ Held' \subseteq Held
         /\ Task.type = "DISCONNECT" => Held' = Held
<1>1. \A i \in 1 .. Len(queue') : i + 1 \in 1 .. Len(queue) /\ queue'[i] = queue[i + 1]
  BY TailTasks
<1>2. Held' \subseteq Held
  BY <1>1 DEF Held
<1>3. ASSUME Task.type = "DISCONNECT", NEW k \in Held PROVE k \in Held'
  <2>1. PICK i \in 1 .. Len(queue) : queue[i].type # "DISCONNECT" /\ queue[i].conn = k
    BY DEF Held
  <2>2. i # 1 /\ Len(queue) \in Nat
    BY <1>3, <2>1, TailTasks
  <2>3. i - 1 \in 1 .. Len(queue')
    BY <2>1, <2>2, TailTasks
  <2>4. queue'[i - 1] = queue[(i - 1) + 1] /\ (i - 1) + 1 = i
    BY <1>1, <2>1, <2>3
  <2>5. QED
    BY <2>1, <2>3, <2>4 DEF Held
<1>4. QED
  BY <1>2, <1>3

\* DISCONNECT deletes the Termination of a closed connection no request has.
LEMMA DisconnectIsLast ==
  ASSUME TypeOK, DisconnectsAreLast, NEW k \in Conns, queue # <<>>,
         Task.type = "DISCONNECT", Task.conn = k
  PROVE  life[k] = "closing" /\ k \notin Held
<1>1. /\ queue[1].type = "DISCONNECT" /\ queue[1].conn = k
      /\ Len(queue) \in Nat \ {0} /\ 1 \in 1 .. Len(queue) /\ 1 + 1 = 2
  BY TailTasks
<1>2. life[k] = "closing" /\ \A j \in 2 .. Len(queue) : queue[j].conn # k
  BY <1>1 DEF DisconnectsAreLast
<1>3. \A i \in 1 .. Len(queue) : i = 1 \/ i \in 2 .. Len(queue)
  BY <1>1
<1>4. QED
  BY <1>1, <1>2, <1>3 DEF Held

\* What the sync and the media threads do besides deleting a Termination.
LEMMA TaskSteps ==
  ASSUME \/ RoomTask \/ SyncGoesOn
         \/ \E w \in Workers : GetRoom(w) \/ MediaGoesOn(w)
         \/ \E k \in Conns : LoginScene(k) \/ LogoutScene(k) \/ UpdateTerminationUdpPort(k)
         \/ \E k \in Conns : DisconnectScene(k) /\ ~ MayFree(k)
  PROVE  life' = life /\ (queue' = queue \/ (queue # <<>> /\ queue' = Tail(queue)))
<1> USE DEF Breaks, Taken
<1>1. CASE RoomTask
  BY <1>1
     DEF RoomTask, Login, UsersInfoScene, AddUserScene, ModUserMediaScene, DelUnknownUser,
         DelUserScene, EraseWhileSearched, LinkRefused, LinkRoomUserScene, UnlinkRefused,
         UnlinkRoomUserScene, UnlinkWithoutRoom, UseDeletedRoom, Logout, Starts, Finish
<1>2. CASE SyncGoesOn
  BY <1>2 DEF SyncGoesOn, DeleteUser, StartDestory, EndDestory, DeleteRoom, DestoryUser,
              DeleteUserOfRoom
<1>3. CASE \E w \in Workers : GetRoom(w) \/ MediaGoesOn(w)
  BY <1>3 DEF GetRoom, MediaGoesOn, EnterGetUser, GetUser, OnRxRtp, Forward, Moves
<1>4. CASE \E k \in Conns : LoginScene(k) \/ LogoutScene(k) \/ UpdateTerminationUdpPort(k)
  BY <1>4 DEF LoginScene, LogoutScene, UpdateTerminationUdpPort
<1>5. CASE \E k \in Conns : DisconnectScene(k) /\ ~ MayFree(k)
  BY <1>5 DEF DisconnectScene
<1>6. QED
  BY <1>1, <1>2, <1>3, <1>4, <1>5

\* Every step is one the life of the Terminations allows.
LEMMA StepLivesOn ==
  ASSUME TypeOK, DisconnectsAreLast, [Next]_vars
  PROVE  \/ UNCHANGED <<life, Held>>
         \/ AbstractTerminations!Next
<1> USE DEF AbstractTerminations!Next
<1>1. ASSUME NEW k \in Conns, AddTermination(k) PROVE AbstractTerminations!Accept(k)
  BY <1>1 DEF AddTermination, AbstractTerminations!Accept
<1>2. ASSUME NEW k \in Conns, DelTermination(k) PROVE AbstractTerminations!Close(k)
  <2> DEFINE t == [type |-> "DISCONNECT", user |-> NoUser, room |-> NoRoom, conn |-> k, id |-> NoId]
  <2>1. /\ life[k] = "open" /\ life' = [life EXCEPT ![k] = "closing"] /\ queue' = Scheduled(t)
        /\ t.type = "DISCONNECT"
    BY <1>2 DEF DelTermination
  <2> HIDE DEF t
  <2>2. Held' = Held \cup {j \in Conns : t.type # "DISCONNECT" /\ t.conn = j}
    BY <2>1, ScheduleHolds
  <2>3. Held' = Held
    BY <2>1, <2>2
  <2>4. QED
    BY <2>1, <2>3 DEF AbstractTerminations!Close, Held
<1>3. ASSUME NEW u \in Users, UdpParamScene(u) PROVE UNCHANGED <<life, Held>>
  <2>1. PICK type \in {"ADD_USER", "DEL_USER", "MOD_USER"} :
          Schedule([type |-> type, user |-> u, room |-> room, conn |-> NoConn, id |-> NoId])
    BY <1>3 DEF UdpParamScene
  <2> DEFINE t == [type |-> type, user |-> u, room |-> room, conn |-> NoConn, id |-> NoId]
  <2>2. queue' = Scheduled(t) /\ life' = life /\ t.conn \notin Conns
    BY <2>1 DEF Schedule
  <2> HIDE DEF t
  <2>3. QED
    BY <2>2, ScheduleHolds
<1>4. ASSUME NEW k \in Conns, NEW u \in Users, NEW p \in ProxyIds, TcpParamScene(k, u, p)
      PROVE  AbstractTerminations!Request(k)
  <2> DEFINE link == [type |-> "LINK_USER", user |-> u, room |-> room, conn |-> k, id |-> p]
             unlink == [type |-> "UNLINK_USER", user |-> u, room |-> NoRoom, conn |-> k, id |-> p]
  <2>1. life[k] = "open" /\ (Schedule(link) \/ Schedule(unlink))
    BY <1>4 DEF TcpParamScene
  <2>2. /\ link.conn = k /\ link.type # "DISCONNECT"
        /\ unlink.conn = k /\ unlink.type # "DISCONNECT"
    OBVIOUS
  <2> HIDE DEF link, unlink
  <2>3. life' = life /\ (queue' = Scheduled(link) \/ queue' = Scheduled(unlink))
    BY <2>1 DEF Schedule
  <2>4. Held' = Held \cup {k}
    BY <2>2, <2>3, ScheduleHolds
  <2>5. QED
    BY <2>1, <2>3, <2>4 DEF AbstractTerminations!Request, Held
<1>5. ASSUME NEW k \in Conns, DisconnectScene(k), MayFree(k) PROVE AbstractTerminations!Delete(k)
  <2>1. /\ queue # <<>> /\ queue' = Tail(queue) /\ Task.type = "DISCONNECT" /\ Task.conn = k
        /\ life' = [life EXCEPT ![k] = "free"]
    BY <1>5 DEF DisconnectScene, Starts, Finish, Taken
  <2>2. life[k] = "closing" /\ k \notin Held
    BY <2>1, DisconnectIsLast
  <2>3. Held' = Held
    BY <2>1, TailReleases
  <2>4. QED
    BY <2>1, <2>2, <2>3 DEF AbstractTerminations!Delete, Held
<1>6. CASE \/ RoomTask \/ SyncGoesOn
           \/ \E w \in Workers : GetRoom(w) \/ MediaGoesOn(w)
           \/ \E k \in Conns : LoginScene(k) \/ LogoutScene(k) \/ UpdateTerminationUdpPort(k)
           \/ \E k \in Conns : DisconnectScene(k) /\ ~ MayFree(k)
  <2>1. life' = life /\ (queue' = queue \/ (queue # <<>> /\ queue' = Tail(queue)))
    BY <1>6, TaskSteps
  <2>2. Held' \subseteq Held
    <3>1. CASE queue' = queue
      BY <3>1 DEF Held
    <3>2. CASE queue # <<>> /\ queue' = Tail(queue)
      BY <3>2, TailReleases
    <3>3. QED
      BY <2>1, <3>1, <3>2
  <2>3. AbstractTerminations!Release
    BY <2>1, <2>2 DEF AbstractTerminations!Release, Held
  <2>4. QED
    BY <2>3
<1>7. CASE UNCHANGED vars
  BY <1>7 DEF vars, Held
<1>8. QED
  BY <1>1, <1>2, <1>3, <1>4, <1>5, <1>6, <1>7 DEF Next, EventThread, ConnTask, Undefined

\* The media side takes Terminations as RoomMgr is proved to give them: DISCONNECT, behind
\* whatever waits, finds no request that still has the Termination it deletes.
THEOREM TerminationsOutliveTheirTasks == Spec => ImplementsTerminationLife
<1>1. Init => AbstractTerminations!Init
  BY DEF Init, AbstractTerminations!Init
<1>2. TypeOK /\ DisconnectsAreLast /\ [Next]_vars => [AbstractTerminations!Next]_<<life, Held>>
  BY StepLivesOn
<1>3. AddressInv => TypeOK /\ DisconnectsAreLast
  BY DEF AddressInv, TypeInv
<1>4. QED
  BY <1>1, <1>2, <1>3, InitAddressInv, NextAddressInv, PTL
     DEF Spec, ImplementsTerminationLife, AbstractTerminations!Spec, Held

\* TerminationLife keeps what it is for, in each of its steps.
LEMMA HeldStayAllocated ==
  ASSUME life \in [Conns -> {"free", "open", "closing"}],
         AbstractTerminations!HeldAreAllocated, [AbstractTerminations!Next]_<<life, Held>>
  PROVE  AbstractTerminations!HeldAreAllocated'
<1> USE DEF AbstractTerminations!HeldAreAllocated, Held
<1>1. ASSUME NEW k \in Conns, AbstractTerminations!Accept(k)
      PROVE  AbstractTerminations!HeldAreAllocated'
  BY <1>1 DEF AbstractTerminations!Accept
<1>2. ASSUME NEW k \in Conns, AbstractTerminations!Request(k)
      PROVE  AbstractTerminations!HeldAreAllocated'
  BY <1>2 DEF AbstractTerminations!Request
<1>3. ASSUME NEW k \in Conns, AbstractTerminations!Close(k)
      PROVE  AbstractTerminations!HeldAreAllocated'
  BY <1>3 DEF AbstractTerminations!Close
<1>4. ASSUME NEW k \in Conns, AbstractTerminations!Delete(k)
      PROVE  AbstractTerminations!HeldAreAllocated'
  BY <1>4 DEF AbstractTerminations!Delete
<1>5. ASSUME AbstractTerminations!Release PROVE AbstractTerminations!HeldAreAllocated'
  BY <1>5 DEF AbstractTerminations!Release
<1>6. CASE UNCHANGED <<life, Held>>
  BY <1>6
<1>7. QED
  BY <1>1, <1>2, <1>3, <1>4, <1>5, <1>6 DEF AbstractTerminations!Next

\* A LINK_USER or UNLINK_USER that waits has a Termination that is not deleted, and not
\* yet another client's, although the connection may be closed and its DISCONNECT due.
THEOREM WaitingTasksHaveTheirTermination == Spec => []AbstractTerminations!HeldAreAllocated
<1>1. Init => AbstractTerminations!HeldAreAllocated
  <2>1. Init => queue = <<>> /\ Len(queue) = 0
    BY DEF Init
  <2>2. QED
    BY <2>1 DEF AbstractTerminations!HeldAreAllocated
<1>2. TypeOK => life \in [Conns -> {"free", "open", "closing"}]
  BY DEF TypeOK
<1>3. /\ AddressInv /\ AbstractTerminations!HeldAreAllocated /\ [Next]_vars
      => AbstractTerminations!HeldAreAllocated'
  <2> SUFFICES ASSUME AddressInv, AbstractTerminations!HeldAreAllocated, [Next]_vars
               PROVE  AbstractTerminations!HeldAreAllocated'
    OBVIOUS
  <2>1. TypeOK /\ DisconnectsAreLast
    BY DEF AddressInv, TypeInv
  <2>2. [AbstractTerminations!Next]_<<life, Held>>
    BY <2>1, StepLivesOn
  <2>3. QED
    BY <1>2, <2>1, <2>2, HeldStayAllocated
<1>4. QED
  BY <1>1, <1>3, InitAddressInv, NextAddressInv, PTL DEF Spec
=============================================================================
