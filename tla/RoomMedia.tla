----------------------------- MODULE RoomMedia -----------------------------
(***************************************************************************)
(* The media side of one room: the users its AVS has announced, the        *)
(* followers each user's media is forwarded to, and the addresses they are *)
(* forwarded to.  Everything here is reached through bare pointers.        *)
(*                                                                         *)
(*   - The event thread looks the Room up and binds the pointer to a task  *)
(*     of the sync pool.                                                   *)
(*   - The sync thread runs these tasks, creates and deletes the Room, its *)
(*     users and the Terminations.                                         *)
(*   - The threads of the async pool look the Room and then the user up,   *)
(*     lock by lock, and forward one packet to the followers.              *)
(*   - A follower holds a COPY of the pointer to its client's address; the *)
(*     Termination frees the address.                                      *)
(*                                                                         *)
(* queue holds the requests that are bound to the Room or copy an address, *)
(* and DISCONNECT. The others need no place in it: one that runs while     *)
(* these wait arrived before they did.                                     *)
(***************************************************************************)
EXTENDS Naturals, Sequences, FiniteSets

CONSTANTS
  Conns,      \* Termination objects, reused once deleted
  Addrs,      \* blocks strdup can return, reused once freed
  RoomObjs,   \* Room objects for the one room id, reused once deleted
  Users,      \* user ids
  UserObjs,   \* RoomUser objects, reused once deleted
  ProxyIds,   \* the proxy id of a request, which is the key of a follower
  Workers,    \* threads of the async pool
  NoRoom, NoUser, NoFollower, NoConn, NoId,
  Freed,      \* contents of a block that is not allocated
  Null, Wild, \* ip_.ptr: NULL; left as the memory of the new object had it
  MaxQueue,   \* bound: tasks that wait in the sync pool
  MaxRequests \* bound: those of them that are requests

Pointers  == Addrs \cup {Null, Wild}
\* A copy of ip_.ptr and, as history, whose it is: NoConn once its client has given
\* that pointer up.
Followers == [ip: Pointers, of: Conns \cup {NoConn}]
Dangling  == [ip |-> Wild, of |-> NoConn]

ASSUME MediaSentinels ==
  /\ NoRoom \notin RoomObjs \cup UserObjs
  /\ NoUser \notin UserObjs /\ NoFollower \notin Followers /\ NoConn \notin Conns
  /\ Freed \notin Conns /\ Null \notin Addrs /\ Wild \notin Addrs /\ Null # Wild

VARIABLES
  life,      \* of a Termination: not allocated, registered, awaiting deletion
  status,    \* Termination::status_
  ip,        \* Termination::ip_.ptr
  text,      \* of a block: the client whose address it holds, or Freed
  room,      \* rooms_[id]
  online,    \* Room::online_users_ of that Room: user id -> RoomUser
  follows,   \* RoomUser::follows_: proxy id -> follower
  linkSent,  \* history: users of whom the AVS was last sent LINK_USER
  vanished,  \* history: users deleted with their followers, of whom the AVS was
             \* sent nothing since
  queue,     \* the tasks waiting in the sync pool
  behind,    \* history: how many of them are older than the last Logout
  pc, doomed,\* the sync thread between two locks, and the object it deletes
  at,        \* per media thread: where it is, and the pointers it holds
  outrun,    \* history: media threads whose Room or user was taken out of its map
             \* while they were on their way
  broken     \* undefined behaviour: "no", or what was misused

connVars  == <<life, status, ip, text>>
avsVars   == <<linkSent, vanished>>
roomVars  == <<room, online, avsVars>>
taskVars  == <<queue, behind>>
mediaVars == <<at, outrun>>
syncVars  == <<taskVars, pc, doomed>>
vars      == <<connVars, roomVars, follows, syncVars, mediaVars, broken>>

Tasks ==
  [type: {"ADD_USER", "DEL_USER", "MOD_USER"}, user: Users, room: RoomObjs,
   conn: {NoConn}, id: {NoId}] \cup
  [type: {"LINK_USER"}, user: Users, room: RoomObjs, conn: Conns, id: ProxyIds] \cup
  [type: {"UNLINK_USER"}, user: Users, room: {NoRoom}, conn: Conns, id: ProxyIds] \cup
  [type: {"DISCONNECT"}, user: {NoUser}, room: {NoRoom}, conn: Conns, id: {NoId}]
Idle == [pc |-> "idle", room |-> NoRoom, user |-> NoUser]
Positions == {Idle} \cup
  [pc: {"room", "find"}, room: RoomObjs, user: {NoUser}] \cup
  [pc: {"user", "forward"}, room: RoomObjs, user: UserObjs]
NoFollows == [p \in ProxyIds |-> NoFollower]
Followed(x) == \E p \in ProxyIds : follows[x][p] # NoFollower

\* Logout, from the erase on: LOGOUT sent; Room::Destory; before the delete.
Closing == {"closing", "destroying", "destroyed"}

\* The Room that exists: in rooms_, or taken out of it by a Logout under way.
TheRoom == IF pc \in Closing THEN doomed ELSE room

\* The RoomUsers that exist: those online, and one that DEL_USER has erased.
LiveUsers == ({online[u] : u \in Users} \ {NoUser})
               \cup (IF pc = "deleting" THEN {doomed} ELSE {})

Init ==
  /\ life = [k \in Conns |-> "free"]
  /\ status = [k \in Conns |-> "INIT"]
  /\ ip = [k \in Conns |-> Null]
  /\ text = [a \in Addrs |-> Freed]
  /\ room = NoRoom /\ online = [u \in Users |-> NoUser]
  /\ follows = [x \in UserObjs |-> NoFollows]
  /\ queue = <<>> /\ behind = 0 /\ pc = "idle" /\ doomed = NoRoom
  /\ at = [w \in Workers |-> Idle] /\ outrun = {}
  /\ linkSent = {} /\ vanished = {} /\ broken = "no"
-----------------------------------------------------------------------------
(* The locks. *)

\* Logout holds rooms_lock_ from the erase to the delete, and room_lock_ and one
\* user_lock_ after the other in Destory. A media thread holds room_lock_ in
\* GetUser and user_lock_ while it forwards.
RoomsLockFree == pc \notin Closing

RoomLockFree(r) ==
  /\ pc # "destroying"
  /\ \A w \in Workers : at[w].pc = "find" => at[w].room # r

\* Mutant: Destory does not take user_lock_.
UserLockIgnored(x) == TRUE

UserLockFree(x) == \A w \in Workers : at[w].pc = "forward" => at[w].user # x

\* Undefined behaviour: nothing is said of what follows.
Breaks(how) ==
  /\ broken' = how
  /\ UNCHANGED <<connVars, roomVars, follows, syncVars, mediaVars>>
-----------------------------------------------------------------------------
(* The queue of the sync pool. *)

\* Mutant: a task is put in front of those that wait.
ScheduledInFront(t) == <<t>> \o queue

Scheduled(t) == Append(queue, t)

\* The sync thread, with its task: it runs one to its end before it takes another.
Task == Head(queue)
Starts(type) == pc = "idle" /\ queue # <<>> /\ Task.type = type
Taken == queue' = Tail(queue) /\ behind' = IF behind = 0 THEN 0 ELSE behind - 1
Finish == Taken /\ UNCHANGED pc
-----------------------------------------------------------------------------
(* The address of a Termination. *)

\* The followers, when k has given up the pointer they copied. They keep it, but
\* where it points is told apart no more.
Left(k) ==
  [x \in UserObjs |-> [p \in ProxyIds |->
     LET f == follows[x][p] IN IF f # NoFollower /\ f.of = k THEN Dangling ELSE f]]

\* free(ip_.ptr) is in order for NULL and for a block that is still its own.
MayFree(k) == ip[k] = Null \/ (ip[k] \in Addrs /\ text[ip[k]] = k)
Released(k) == [a \in Addrs |-> IF a = ip[k] THEN Freed ELSE text[a]]

\* A client connects: ip_ has no initial value.
AddTermination(k) ==
  /\ life[k] = "free"
  /\ life' = [life EXCEPT ![k] = "open"]
  /\ \E p \in {Null, Wild} : ip' = [ip EXCEPT ![k] = p]
  /\ UNCHANGED <<status, text, roomVars, follows, syncVars, mediaVars, broken>>

\* The event thread closes the connection and schedules DISCONNECT.
DelTermination(k) ==
  /\ life[k] = "open"
  /\ life' = [life EXCEPT ![k] = "closing"]
  /\ queue' = Scheduled([type |-> "DISCONNECT", user |-> NoUser, room |-> NoRoom,
                         conn |-> k, id |-> NoId])
  /\ UNCHANGED <<status, ip, text, roomVars, follows, behind, pc, doomed, mediaVars, broken>>

\* OnLogin overwrites the pointer: a block it held is leaked.
LoginScene(k) ==
  /\ pc = "idle" /\ life[k] # "free"
  /\ \E a \in Addrs :
       /\ text[a] = Freed
       /\ text' = [text EXCEPT ![a] = k]
       /\ ip' = [ip EXCEPT ![k] = a]
  /\ status' = [status EXCEPT ![k] = "ONLINE"]
  /\ follows' = Left(k)
  /\ UNCHANGED <<life, roomVars, syncVars, mediaVars, broken>>

\* Mutant: status_ is left alone.
StatusLeft(k) == status[k]

StatusAfterLogout(k) == "OFFLINE"

\* OnLogout frees the block and leaves the pointer.
LogoutScene(k) ==
  /\ pc = "idle" /\ life[k] # "free"
  /\ IF MayFree(k)
       THEN /\ text' = Released(k)
            /\ status' = [status EXCEPT ![k] = StatusAfterLogout(k)]
            /\ follows' = Left(k)
            /\ UNCHANGED <<life, ip, roomVars, syncVars, mediaVars, broken>>
       ELSE Breaks("address")

\* Mutant: the new address is not stored.
PointerKept(k, a) == ip

Readdressed(k, a) == [ip EXCEPT ![k] = a]

\* NAT, for a registered Termination that has the client id of the request.
UpdateTerminationUdpPort(k) ==
  /\ pc = "idle" /\ life[k] = "open"
  /\ IF MayFree(k)
       THEN /\ \E a \in Addrs :
                 /\ Released(k)[a] = Freed
                 /\ text' = [Released(k) EXCEPT ![a] = k]
                 /\ ip' = Readdressed(k, a)
            /\ follows' = Left(k)
            /\ UNCHANGED <<life, status, roomVars, syncVars, mediaVars, broken>>
       ELSE Breaks("address")

\* DISCONNECT deletes the Termination it was bound to. (The Logout of a room it leaves
\* without clients is the action Logout below.)
DisconnectScene(k) ==
  /\ Starts("DISCONNECT") /\ Task.conn = k
  /\ IF MayFree(k)
       THEN /\ Finish
            /\ text' = Released(k)
            /\ life' = [life EXCEPT ![k] = "free"]
            /\ status' = [status EXCEPT ![k] = "INIT"]
            /\ ip' = [ip EXCEPT ![k] = Null]
            /\ follows' = Left(k)
            /\ UNCHANGED <<roomVars, doomed, mediaVars, broken>>
       ELSE Breaks("address")
-----------------------------------------------------------------------------
(* The event thread looks the Room up. *)

Schedule(t) ==
  /\ RoomsLockFree /\ room # NoRoom
  /\ queue' = Scheduled(t)
  /\ UNCHANGED <<connVars, roomVars, follows, behind, pc, doomed, mediaVars, broken>>

UdpParamScene(u) ==
  \E type \in {"ADD_USER", "DEL_USER", "MOD_USER"} :
    Schedule([type |-> type, user |-> u, room |-> room, conn |-> NoConn, id |-> NoId])

\* LINK_USER is bound to the Room, UNLINK_USER will look it up again.
TcpParamScene(k, u, p) ==
  /\ life[k] = "open"
  /\ \/ Schedule([type |-> "LINK_USER", user |-> u, room |-> room, conn |-> k, id |-> p])
     \/ Schedule([type |-> "UNLINK_USER", user |-> u, room |-> NoRoom, conn |-> k, id |-> p])
-----------------------------------------------------------------------------
(* The sync thread: users and followers. *)

\* LINK_ROOM of a room that does not exist.
Login(r) ==
  /\ pc = "idle" /\ room = NoRoom
  /\ room' = r
  /\ UNCHANGED <<connVars, online, avsVars, follows, syncVars, mediaVars, broken>>

\* Room::OnAddUser, for user ids that are not online.
OnAddUser(us) ==
  /\ RoomLockFree(room)
  /\ \E new \in [us -> UserObjs \ LiveUsers] :
       /\ \A u, v \in us : new[u] = new[v] => u = v
       /\ online' = [u \in Users |-> IF u \in us THEN new[u] ELSE online[u]]
       /\ follows' = [x \in UserObjs |->
                        IF \E u \in us : new[u] = x THEN NoFollows ELSE follows[x]]

\* USERS_INFO adds the users that are new. The Room is looked up by this task.
UsersInfoScene ==
  /\ pc = "idle" /\ room # NoRoom
  /\ \E us \in SUBSET {u \in Users : online[u] = NoUser} : us # {} /\ OnAddUser(us)
  /\ UNCHANGED <<connVars, room, avsVars, syncVars, mediaVars, broken>>

BoundTo(r) == Task.room = r
TheUser == online[Task.user]

\* The Room a task was bound to has been deleted.
UseDeletedRoom ==
  /\ \E type \in {"ADD_USER", "DEL_USER", "MOD_USER", "LINK_USER"} : Starts(type)
  /\ ~ BoundTo(room)
  /\ Breaks("room")

AddUserScene ==
  /\ Starts("ADD_USER") /\ BoundTo(room) /\ Finish
  /\ IF TheUser = NoUser
       THEN OnAddUser({Task.user})
       ELSE RoomLockFree(room) /\ UNCHANGED <<online, follows>>
  /\ UNCHANGED <<connVars, room, avsVars, doomed, mediaVars, broken>>

\* OnModUser searches without room_lock_, and sets the SSRCs under user_lock_.
ModUserMediaScene ==
  /\ Starts("MOD_USER") /\ BoundTo(room) /\ Finish
  /\ UserLockFree(TheUser)
  /\ UNCHANGED <<connVars, roomVars, follows, doomed, mediaVars, broken>>

\* OnDelUser of a user that is not there. The element end() has none of is read
\* (within the Room, in a std::map) and not used.
DelUnknownUser ==
  /\ Starts("DEL_USER") /\ BoundTo(room) /\ TheUser = NoUser /\ Finish
  /\ UNCHANGED <<connVars, roomVars, follows, doomed, mediaVars, broken>>

\* Mutant: the user is left in the map.
NotErased(u) == online

Erased(u) == [online EXCEPT ![u] = NoUser]

\* OnDelUser erases without room_lock_, and the AVS is sent nothing ...
DelUserScene ==
  /\ Starts("DEL_USER") /\ BoundTo(room) /\ TheUser # NoUser
  /\ RoomLockFree(room)
  /\ Taken /\ pc' = "deleting" /\ doomed' = TheUser
  /\ online' = Erased(Task.user)
  /\ vanished' = IF Followed(TheUser) THEN vanished \cup {Task.user} ELSE vanished
  /\ outrun' = outrun \cup {w \in Workers : at[w].user = TheUser}
  /\ UNCHANGED <<connVars, room, linkSent, follows, at, broken>>

\* ... which is undefined while GetUser searches the same map ...
EraseWhileSearched ==
  /\ Starts("DEL_USER") /\ BoundTo(room) /\ TheUser # NoUser
  /\ ~ RoomLockFree(room)
  /\ Breaks("map")

\* ... then RoomUser::Destory clears the followers, holding user_lock_, and the
\* user is deleted: undefined if a media thread has taken the lock in between.
\* (A user without followers may pass for one already destroyed.)
DeleteUser ==
  /\ pc = "deleting" /\ ~ Followed(doomed)
  /\ IF UserLockFree(doomed)
       THEN /\ pc' = "idle" /\ doomed' = NoRoom
            /\ UNCHANGED <<connVars, roomVars, follows, taskVars, mediaVars, broken>>
       ELSE Breaks("user")

IsDying(x) ==
  \/ pc = "deleting" /\ doomed = x
  \/ pc = "destroying" /\ \E u \in Users : online[u] = x

DestoryUser(x) ==
  /\ IsDying(x) /\ Followed(x) /\ UserLockFree(x)
  /\ follows' = [follows EXCEPT ![x] = NoFollows]
  /\ vanished' = vanished \cup {u \in Users : online[u] = x}
  /\ UNCHANGED <<connVars, room, online, linkSent, syncVars, mediaVars, broken>>

\* Mutant: the new follower's ip is not set.
FollowerWithoutIp(k) == [ip |-> Wild, of |-> k]

Follower(k) == [ip |-> ip[k], of |-> k]

\* Mutant: is_continue for any follower but the first.
ContinuesLater(x) == Followed(x)

\* is_continue: the first follower, the AVS is sent LINK_USER.
Continues(x) == ~ Followed(x)

SendLinkUser(u)   == linkSent' = linkSent \cup {u} /\ vanished' = vanished \ {u}
SendUnlinkUser(u) == linkSent' = linkSent \ {u} /\ vanished' = vanished \ {u}

\* Nothing is done if the user is gone, or if the proxy id has a follower.
LinkRefused ==
  /\ Starts("LINK_USER") /\ BoundTo(room) /\ RoomLockFree(room) /\ Finish
  /\ TheUser # NoUser => UserLockFree(TheUser) /\ follows[TheUser][Task.id] # NoFollower
  /\ UNCHANGED <<connVars, roomVars, follows, doomed, mediaVars, broken>>

LinkRoomUserScene ==
  /\ Starts("LINK_USER") /\ BoundTo(room) /\ RoomLockFree(room) /\ Finish
  /\ TheUser # NoUser /\ UserLockFree(TheUser)
  /\ follows[TheUser][Task.id] = NoFollower
  /\ follows' = [follows EXCEPT ![TheUser][Task.id] = Follower(Task.conn)]
  /\ IF Continues(TheUser) THEN SendLinkUser(Task.user) ELSE UNCHANGED avsVars
  /\ UNCHANGED <<connVars, room, online, doomed, mediaVars, broken>>

UnlinkRefused ==
  /\ Starts("UNLINK_USER") /\ room # NoRoom /\ RoomLockFree(room) /\ Finish
  /\ TheUser # NoUser => UserLockFree(TheUser) /\ follows[TheUser][Task.id] = NoFollower
  /\ UNCHANGED <<connVars, roomVars, follows, doomed, mediaVars, broken>>

\* OnUnlinkUser; after the last follower the AVS is sent UNLINK_USER.
UnlinkRoomUserScene ==
  /\ Starts("UNLINK_USER") /\ room # NoRoom /\ RoomLockFree(room) /\ Finish
  /\ TheUser # NoUser /\ UserLockFree(TheUser)
  /\ follows[TheUser][Task.id] # NoFollower
  /\ follows' = [follows EXCEPT ![TheUser][Task.id] = NoFollower]
  /\ IF \A p \in ProxyIds \ {Task.id} : follows[TheUser][p] = NoFollower
       THEN SendUnlinkUser(Task.user) ELSE UNCHANGED avsVars
  /\ UNCHANGED <<connVars, room, online, doomed, mediaVars, broken>>

\* The Room has gone since the request arrived: Maintain reads a packet type out
\* of a buffer the scene has left empty.
UnlinkWithoutRoom ==
  /\ Starts("UNLINK_USER") /\ room = NoRoom
  /\ Breaks("room")
-----------------------------------------------------------------------------
(* The sync thread: RoomMgr::Logout, with rooms_lock_ held throughout. *)

Logout ==
  /\ pc = "idle" /\ room # NoRoom
  /\ pc' = "closing" /\ doomed' = room /\ room' = NoRoom
  /\ behind' = Len(queue)
  /\ outrun' = {w \in Workers : at[w].pc # "idle"}
  /\ UNCHANGED <<connVars, online, avsVars, follows, queue, at, broken>>

\* Room::Destory takes room_lock_, ...
StartDestory ==
  /\ pc = "closing" /\ RoomLockFree(doomed)
  /\ pc' = "destroying"
  /\ UNCHANGED <<connVars, roomVars, follows, taskVars, doomed, mediaVars, broken>>

\* ... deletes each user it has destroyed, ...
DeleteUserOfRoom(u) ==
  /\ pc = "destroying" /\ online[u] # NoUser /\ ~ Followed(online[u])
  /\ IF UserLockFree(online[u])
       THEN /\ online' = [online EXCEPT ![u] = NoUser]
            /\ UNCHANGED <<connVars, room, avsVars, follows, syncVars, mediaVars, broken>>
       ELSE Breaks("user")

\* ... and releases room_lock_. Then the Room is deleted: undefined if a media
\* thread has taken the lock in between.
EndDestory ==
  /\ pc = "destroying" /\ \A u \in Users : online[u] = NoUser
  /\ pc' = "destroyed"
  /\ UNCHANGED <<connVars, roomVars, follows, taskVars, doomed, mediaVars, broken>>

DeleteRoom ==
  /\ pc = "destroyed"
  /\ IF RoomLockFree(doomed)
       THEN /\ pc' = "idle" /\ doomed' = NoRoom
            /\ UNCHANGED <<connVars, roomVars, follows, taskVars, mediaVars, broken>>
       ELSE Breaks("room")
-----------------------------------------------------------------------------
(* A thread of the async pool: RTPScene::Maintain. *)

Moves(w, pos) ==
  /\ at' = [at EXCEPT ![w] = pos]
  /\ outrun' = IF pos.pc = "idle" THEN outrun \ {w} ELSE outrun
  /\ UNCHANGED <<connVars, roomVars, follows, syncVars, broken>>

\* MEDIA_STREAM has arrived for the room.
GetRoom(w) ==
  /\ at[w].pc = "idle" /\ RoomsLockFree /\ room # NoRoom
  /\ Moves(w, [pc |-> "room", room |-> room, user |-> NoUser])

EnterGetUser(w) ==
  /\ at[w].pc = "room"
  /\ IF at[w].room = TheRoom
       THEN RoomLockFree(TheRoom) /\ Moves(w, [at[w] EXCEPT !.pc = "find"])
       ELSE Breaks("room")

GetUser(w) ==
  /\ at[w].pc = "find"
  /\ \E u \in Users :
       Moves(w, IF online[u] = NoUser THEN Idle
                ELSE [pc |-> "user", room |-> at[w].room, user |-> online[u]])

\* OnRxAudio, OnRxVideo: user_lock_ is taken ...
OnRxRtp(w) ==
  /\ at[w].pc = "user"
  /\ IF at[w].user \in LiveUsers
       THEN UserLockFree(at[w].user) /\ Moves(w, [at[w] EXCEPT !.pc = "forward"])
       ELSE Breaks("user")

\* ... and kept until the packet has been sent to each follower.
Forward(w) ==
  /\ at[w].pc = "forward"
  /\ Moves(w, Idle)
-----------------------------------------------------------------------------
Requests == Cardinality({i \in 1 .. Len(queue) : queue[i].type # "DISCONNECT"})

EventThread ==
  \/ \E k \in Conns : AddTermination(k)
  \/ /\ Len(queue) < MaxQueue
     /\ \E k \in Conns : DelTermination(k)
  \/ /\ Len(queue) < MaxQueue /\ Requests < MaxRequests
     /\ \/ \E u \in Users : UdpParamScene(u)
        \/ \E k \in Conns, u \in Users, p \in ProxyIds : TcpParamScene(k, u, p)

ConnTask ==
  \E k \in Conns : \/ LoginScene(k) \/ LogoutScene(k)
                   \/ UpdateTerminationUdpPort(k) \/ DisconnectScene(k)
RoomTask ==
  \/ \E r \in RoomObjs : Login(r)
  \/ UsersInfoScene \/ AddUserScene \/ ModUserMediaScene
  \/ DelUnknownUser \/ DelUserScene \/ EraseWhileSearched
  \/ LinkRefused \/ LinkRoomUserScene
  \/ UnlinkRefused \/ UnlinkRoomUserScene \/ UnlinkWithoutRoom
  \/ UseDeletedRoom \/ Logout

\* What the sync thread does in the middle of a task.
SyncGoesOn ==
  \/ DeleteUser
  \/ StartDestory \/ EndDestory \/ DeleteRoom
  \/ \E x \in UserObjs : DestoryUser(x)
  \/ \E u \in Users : DeleteUserOfRoom(u)

MediaGoesOn(w) == EnterGetUser(w) \/ GetUser(w) \/ OnRxRtp(w) \/ Forward(w)

Undefined == broken # "no" /\ UNCHANGED vars

Next ==
  \/ /\ broken = "no"
     /\ \/ EventThread \/ ConnTask \/ RoomTask \/ SyncGoesOn
        \/ \E w \in Workers : GetRoom(w) \/ MediaGoesOn(w)
  \/ Undefined

Spec == Init /\ [][Next]_vars
-----------------------------------------------------------------------------
(* What must hold of every state. *)

TypeOK ==
  /\ life \in [Conns -> {"free", "open", "closing"}]
  /\ status \in [Conns -> {"INIT", "ONLINE", "OFFLINE"}]
  /\ ip \in [Conns -> Pointers]
  /\ text \in [Addrs -> Conns \cup {Freed}]
  /\ room \in RoomObjs \cup {NoRoom}
  /\ online \in [Users -> UserObjs \cup {NoUser}]
  /\ follows \in [UserObjs -> [ProxyIds -> Followers \cup {NoFollower}]]
  /\ queue \in Seq(Tasks)
  /\ pc \in Closing \cup {"idle", "deleting"}
  /\ doomed \in RoomObjs \cup UserObjs \cup {NoRoom}
  /\ at \in [Workers -> Positions]
  /\ linkSent \subseteq Users /\ vanished \subseteq Users
  /\ behind \in Nat /\ outrun \subseteq Workers
  /\ broken \in {"no", "address", "room", "map", "user"}

\* The address a Termination points to is its own, allocated block, from LOGIN or
\* NAT until LOGOUT, whatever other connections log in, out or are deleted. LOGOUT
\* frees it and leaves the pointer.
AddressesAreOwned ==
  \A k \in Conns : status[k] # "OFFLINE" /\ ip[k] \in Addrs => text[ip[k]] = k

\* A follower holds a copy of a pointer that others free. Until its client gives
\* another address, logs out or disconnects, what it points to stays that
\* client's address: media is not sent to where another client is.
MediaGoesToItsClient ==
  \A x \in LiveUsers, p \in ProxyIds :
    LET f == follows[x][p]
    IN  f # NoFollower /\ f.of # NoConn /\ status[f.of] = "ONLINE" =>
          f.ip \in Addrs /\ text[f.ip] = f.of

\* The tasks scheduled since the last Logout are bound to the Room that is there.
TasksAreCurrent ==
  \A i \in behind + 1 .. Len(queue) :
    queue[i].type # "DISCONNECT" => room # NoRoom /\ queue[i].room \in {NoRoom, room}

\* A media thread that was not outrun has that Room, and a user who is online.
MediaIsCurrent ==
  \A w \in Workers \ outrun :
    at[w].pc # "idle" =>
      /\ room # NoRoom /\ at[w].room = room
      /\ at[w].user \in {online[u] : u \in Users} \cup {NoUser}

\* The pointers to the Room and to its users are bare, and nobody waits for those who
\* hold one. They are bad only where a deletion has outrun their holder: for a task,
\* that it waits since before the last Logout; for a media thread, that its Room or its
\* user was erased after it had looked it up. All other pointers are those of the maps,
\* whatever was deleted, created anew and reused meanwhile.
OnlyOutrunPointersAreStale ==
  /\ broken = "room" => behind > 0 \/ outrun # {}
  /\ broken = "user" => outrun # {}
  /\ TasksAreCurrent
  /\ MediaIsCurrent

\* The last packet about a user that the AVS was sent is LINK_USER while some client
\* follows the user, and UNLINK_USER, or none, once nobody does; but the AVS is sent
\* nothing when a user goes together with its followers, by DEL_USER or by Logout.
\* Should that user come back, its first follower is announced again.
AvsStreamsWhileFollowed ==
  \A u \in Users :
    LET followed == online[u] # NoUser /\ Followed(online[u])
    IN  /\ u \in linkSent <=> followed \/ u \in vanished
        /\ ~ (followed /\ u \in vanished)

\* free is handed a block that is not the Termination's own only for a client that
\* has logged out, whose pointer stays, or one that never got an address: blocks that
\* are freed and reused by LOGIN, NAT and DISCONNECT of others are never confused.
FreesAreOwnUnlessUnset ==
  broken = "address" =>
    \E k \in Conns : /\ life[k] # "free"
                     /\ status[k] = "OFFLINE" \/ (status[k] = "INIT" /\ ip[k] = Wild)
-----------------------------------------------------------------------------
(* What a step may do. *)

\* While a media thread goes through the followers of a user, no follower comes
\* or goes, although LINK_USER, UNLINK_USER, DEL_USER and Logout run on another
\* thread.
FollowersStayWhileForwarding ==
  [][\A w \in Workers :
       at[w].pc = "forward" =>
         \A p \in ProxyIds :
           follows[at[w].user][p] = NoFollower <=> follows'[at[w].user][p] = NoFollower]_vars

\* LINK_USER and UNLINK_USER get their Termination, and give it back, as RoomMgr
\* promises: no task here outlives the object it copies an address from.
AbstractTerminations ==
  INSTANCE TerminationLife WITH
    held <- {k \in Conns : \E i \in 1 .. Len(queue) :
                             queue[i].type # "DISCONNECT" /\ queue[i].conn = k}
ImplementsTerminationLife == AbstractTerminations!Spec
=============================================================================
