----------------------------- MODULE LockOrder -----------------------------
(***************************************************************************)
(* The mutexes of the process, and the RTP session that one of them        *)
(* protects.                                                               *)
(*                                                                         *)
(* An operation is the sequence of the points it goes through: the mutexes *)
(* it holds there, innermost last, and whether it is using the session. It *)
(* is put together the way the code nests its lock_guards: Under(l, body)  *)
(* holds l while body runs. A loop over rooms, users or clients is gone    *)
(* through once, since each turn comes by the same points; and one room    *)
(* and one user stand for all, since nobody holds two of a kind.           *)
(***************************************************************************)
EXTENDS Naturals, Sequences

CONSTANTS
  Event, Sync, Keepalive, Mainloop, Main,  \* the threads of which there is one
  Media,                                   \* the threads of the async pool
  Stray,                                   \* an encode without the lock
  Nobody, NoMutex

Workers == Media \cup {Sync}
Threads == Workers \cup {Event, Keepalive, Mainloop, Main}

\* Each thread of a pool has a queue of its own, with two mutexes.
Locks ==
  {"links", "terminations", "clientRooms", "avsStatus", "syncPool", "asyncPool",
   "rooms", "room", "watchers", "rtp", "user", "protection"} \X {Nobody}
    \cup {"wait", "proc"} \X Workers
Mutex(name) == <<name, Nobody>>

ASSUME LockSentinels ==
  Stray \notin Threads /\ Nobody \notin Threads \cup {Stray} /\ NoMutex \notin Locks

VARIABLES
  todo,    \* per thread: the points still to go through, the first is where it is
  header   \* whose header the RTP session holds

vars == <<todo, header>>

\* A point: the mutexes held there, the one taken on the way to it, and what is done.
Point(held, takes, does) == [held |-> held, takes |-> takes, does |-> does]
Free == Point(<<>>, NoMutex, "nothing")
Does(what) == <<Point(<<>>, NoMutex, what)>>
Within(l, body) == [i \in 1 .. Len(body) |-> [body[i] EXCEPT !.held = <<l>> \o @]]
Under(l, body) == <<Point(<<l>>, l, "nothing")>> \o Within(l, body) \o <<Free>>

\* Taken and released with nothing in between: a single step.
Brief(l) == <<Point(<<>>, l, "nothing")>>
-----------------------------------------------------------------------------
(* The operations of the code. *)

GetRoom == Brief(Mutex("rooms"))

\* Mutant: without ref_rtp_sess_lock_.
SendRTPPacketBare == Does("encodes") \o <<Free>>

\* Room::SendRTPPacket: the header is made, then copied from the session and sent.
SendRTPPacket == Under(Mutex("rtp"), Does("encodes"))

\* RoomMgr::SendRTPPacket uses the same session without the lock.
SendUnlocked == Does("encodes unlocked") \o Brief(Mutex("protection"))

RoomState == Brief(Mutex("rtp"))
GetRoomInfo == Under(Mutex("rtp"), Brief(Mutex("user")))
OnAddUser == Under(Mutex("room"), Brief(Mutex("watchers")))
OnLinkUser == Under(Mutex("room"), Brief(Mutex("user")))
Destory == Under(Mutex("room"), Brief(Mutex("user")))

SendTCPPacketToAllClient == Brief(Mutex("terminations"))
SendRTPPacketToAllAvs == Under(Mutex("rooms"), SendRTPPacket)

SendRoomUserInfo ==
  GetRoom \o GetRoomInfo \o Under(Mutex("links"), Brief(Mutex("terminations")))

RegisterLink == Brief(Mutex("links")) \o Brief(Mutex("clientRooms"))
LoginNew == Under(Mutex("rooms"), RoomState) \o SendRTPPacket
LoginAgain == Brief(Mutex("rooms")) \o SendRTPPacket

\* Mutant: the Room is looked up again before it is destroyed.
LogoutLooksUp == Under(Mutex("rooms"), SendRTPPacket \o GetRoom \o Destory)

Logout == Under(Mutex("rooms"), SendRTPPacket \o Destory)

SendKeepalivePacketToAllAvs == Under(Mutex("rooms"), RoomState \o SendRTPPacket)

\* The tasks of the sync pool, longest way through; one without a lock is <<>>.
SyncTasks ==
  { <<>>,
    GetRoom \o Brief(Mutex("avsStatus")) \o RegisterLink \o LoginNew,         \* LINK_ROOM
    GetRoom \o RoomState \o RegisterLink \o SendRoomUserInfo,
    GetRoom \o RoomState \o RoomState \o RegisterLink \o LoginAgain,
    Brief(Mutex("clientRooms")) \o Brief(Mutex("links")) \o Logout,           \* UNLINK_ROOM
    Brief(Mutex("links")) \o Brief(Mutex("clientRooms")) \o Logout,           \* DISCONNECT
    GetRoom \o OnAddUser \o RoomState \o SendRoomUserInfo,                    \* USERS_INFO
    OnAddUser \o SendTCPPacketToAllClient,                                    \* ADD_USER
    Brief(Mutex("user")) \o SendTCPPacketToAllClient,                         \* MOD_, DEL_USER
    OnLinkUser \o SendRTPPacketToAllAvs,                                      \* LINK_USER
    GetRoom \o OnLinkUser \o SendRTPPacketToAllAvs,                           \* UNLINK_USER
    Brief(Mutex("terminations")) \o SendUnlocked,                             \* NAT
    Brief(Mutex("avsStatus")) }                                               \* REPORT

MediaTasks == {GetRoom \o Brief(Mutex("room")) \o Under(Mutex("user"), Brief(Mutex("protection")))}

\* A thread of a pool waits, and then pops a task, runs it and looks for the next.
Pool(w, tasks) ==
  {Brief(<<"wait", w>>)} \cup {Brief(<<"proc", w>>) \o t \o Brief(<<"proc", w>>) : t \in tasks}

Push(w) == Brief(<<"wait", w>>)
Load(w) == Under(<<"wait", w>>, Brief(<<"proc", w>>))

\* PoolThread::Schedule. Rebuilding the heap compares the loads of two threads at a
\* time, if there are two.
ScheduleSync == Under(Mutex("syncPool"), Push(Sync))
ScheduleAsync(w, v) == Under(Mutex("asyncPool"), Push(w) \o Load(v) \o Load(w))

EventHandlers ==
  { Brief(Mutex("terminations")),                           \* accept
    Under(Mutex("terminations"), ScheduleSync),             \* the connection is gone
    GetRoom \o ScheduleSync,                                \* a request
    ScheduleSync } \cup
  {ScheduleAsync(w, v) : w, v \in Media}                    \* MEDIA_STREAM

OnConsole == Brief(Mutex("terminations")) \o Brief(Mutex("rooms"))

Operations(t) ==
  CASE t = Event     -> EventHandlers
    [] t = Sync      -> Pool(Sync, SyncTasks)
    [] t \in Media   -> Pool(t, MediaTasks)
    [] t = Keepalive -> {SendKeepalivePacketToAllAvs}
    [] t = Mainloop  -> {Brief(Mutex("avsStatus"))}
    [] t = Main      -> {OnConsole, SendUnlocked}
OperationsOf == [t \in Threads |-> Operations(t)]
-----------------------------------------------------------------------------
Here(t) == todo[t][1]
Idle(t) == Len(todo[t]) = 1
Holds(t, l) == \E i \in 1 .. Len(Here(t).held) : Here(t).held[i] = l

\* In the middle of an operation, the way to the next point takes a mutex that
\* another thread, or t itself, holds.
Wants(t) == todo[t][2].takes
WaitsFor(t, u) == ~ Idle(t) /\ Holds(u, Wants(t))

Init ==
  /\ todo = [t \in Threads |-> <<Free>>]
  /\ header = Nobody

\* To the first point of s: a mutex is taken or released, or the session used.
GoesTo(t, s) ==
  /\ \A u \in Threads : ~ Holds(u, s[1].takes)
  /\ todo' = [todo EXCEPT ![t] = <<[s[1] EXCEPT !.takes = NoMutex]>> \o Tail(s)]
  /\ header' = CASE s[1].does = "encodes"          -> t
                 [] s[1].does = "encodes unlocked" -> Stray
                 [] OTHER                          -> header

\* Any operation of the thread begins.
Begin(t) == Idle(t) /\ \E op \in OperationsOf[t] : GoesTo(t, op)

GoOn(t) == ~ Idle(t) /\ GoesTo(t, Tail(todo[t]))

\* An operation may end early, on conditions the model leaves out, where it holds
\* nothing.
ReturnEarly(t) ==
  /\ ~ Idle(t) /\ Here(t).held = <<>>
  /\ todo' = [todo EXCEPT ![t] = <<Free>>]
  /\ UNCHANGED header

Next == \E t \in Threads : Begin(t) \/ GoOn(t) \/ ReturnEarly(t)

Spec == Init /\ [][Next]_vars
-----------------------------------------------------------------------------
(* What must hold of every state. *)

\* Points and locks are what they should be, and a thread that has ended its
\* operation holds nothing, also where the code locks and unlocks by hand (Login,
\* Logout and MessageQueue::Size).
TypeOK ==
  /\ \A t \in Threads :
       /\ Len(todo[t]) > 0
       /\ Idle(t) => Here(t).held = <<>>
       /\ \A i \in 1 .. Len(todo[t]) :
            /\ todo[t][i].held \in Seq(Locks)
            /\ todo[t][i].takes \in Locks \cup {NoMutex}
            /\ todo[t][i].does \in {"nothing", "encodes", "encodes unlocked"}
  /\ header \in Threads \cup {Stray, Nobody}

\* There is no circle of threads each of which waits for a mutex that the next
\* one holds, nor a thread that waits for itself.
NoCircularWait ==
  \A C \in SUBSET {t \in Threads : \E u \in Threads : WaitsFor(t, u)} :
    C # {} => \E t \in C : \A u \in C : ~ WaitsFor(t, u)

\* The packet a room sends carries the header made for it, whichever threads send
\* at the same time, but for those that do not take the lock.
HeaderIsOwn ==
  \A t \in Threads : Here(t).does = "encodes" => header \in {t, Stray}
=============================================================================
