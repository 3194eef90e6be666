# TLA+ verification of the AVS proxy

The repository is a proxy between clients (TCP for requests, UDP for media) and
audio/video servers (AVS), one AVS per room. This directory holds TLA+ models of
the parts of it in which threads, connections and messages meet, the TLC
configurations that check them, and TLAPS proofs of what matters most.

Paths below are relative to `src/AvsProxy/`.

## The system

| Component | State | Operations | Talks to |
|---|---|---|---|
| `RoomMgr` | `terminations_`, `rooms_`, `moRoomIDtoClientidwfdlist` (links), `moClientidtoRoomList`, `moAvsStatusInfo` | accept, read and close connections; one scene per request; AVS login, logout, keepalive | everything below |
| `Termination` | socket number, client id, media address, receive buffer | `OnLogin`, `OnLogout`, `SendTCPPacket` | bare pointers in tasks, `terminations_` |
| Scenes (`*Scene.cpp`) | none | one `Maintain` per request, run as a task of a pool | `RoomMgr`, `Room` |
| `PoolThread` | `threads_`, a heap by load | `Start`, `Stop`, `Schedule` | main and event thread |
| `InternalThread`, `MessageQueue` | two lists, `active_`, condition variable | `Push`, `Wait`, `Pop`, `Stop`, `Join` | the event thread pushes, the worker pops |
| `Room`, `RoomUser` | users of the room, followers of a user, `_room_stat` | add, modify, delete, link, unlink users; forward RTP | AVS over UDP, followers over UDP |
| AVS status table | time of the last report per room and AVS | report, expiry, lookup | reports over UDP, the main-loop thread, LINK_ROOM |
| TCP framing (`EventOnTcpRead`) | `tcp_storage_`, `tcp_storage_offset_` | length-prefixed requests out of a stream | `TcpParamScene` |
| MongoDB client | connection, `_acnamespace` | upsert, check of the connection, reconnect | a database, from the main-loop thread |
| Configuration, console, wire structs, pugixml | settings | read XML; print; layout of packets | I/O only |

Threads: the *event thread* (libevent: accept, TCP and UDP reads), the *sync pool*
with exactly one thread (`sync_thread_pool_(1)`, all requests but media), the
*async pool* (media), the *main-loop thread* (expiry, MongoDB) and the *keepalive
thread*. The main thread starts and stops them.

What makes it correct, component by component, and what is hard about it:

* **Links and rooms.** A `Room` is kept, and its AVS told of a session, exactly
  while some client is linked to it. Clients leave by UNLINK_ROOM, by a lost
  connection or by linking again from elsewhere, and links are recorded under a
  *socket number* that the kernel reuses.
* **Lifetime of a Termination.** The event thread closes the socket at once; tasks
  with a bare pointer to the object are still waiting in the sync pool.
* **Queue.** `Wait` blocks without a predicate and `Push` notifies after the
  unlock, so notifications can be lost, late or spurious.
* **Expiry.** Two threads read the clock before they take the lock of the table,
  and subtract unsigned times.
* **Report.** The table is copied under its lock and written to a database after it;
  the database may be away when the proxy starts, and at any time later.
* **Media.** The media threads use `Room`s and followers that the sync thread
  deletes; a follower keeps a copy of a pointer the Termination frees.
* **Framing.** 16-bit lengths, a fixed buffer, any split of the stream.
* **Mutexes.** Fourteen kinds of them, taken inside one another by six kinds of
  threads, some by hand; one of them protects an RTP session that two callers use
  without it.
* **Pools.** `Start` and `Stop` walk through `threads_` without the mutex under which
  `Schedule` reorders it, and the event thread is launched before the pools and joined
  after them.

## The modules

| Module | What it is |
|---|---|
| `RoomMgr` | connections, links, rooms and AVS sessions; event, sync and keepalive threads |
| `LinkService` | abstract specification of linking: links by connection, sessions while someone is linked |
| `TerminationLife` | abstract specification of what tasks may rely on: a Termination is deleted after the last task that has its address |
| `RoomMgrProofs` | theorems about the lifetime of Terminations, rooms and sessions; that `RoomMgr` implements `TerminationLife` |
| `RoomLinksProofs` | theorems about the links; that `RoomMgr` implements `LinkService` |
| `MCRoomMgr` | its small instances |
| `TaskQueue` | abstract specification of a pool thread: a FIFO queue and one running task |
| `MessageQueue` | `MessageQueue<T>` with the loop of `InternalThread`; implements `TaskQueue` |
| `MessageQueueProofs`, `MCMessageQueue` | its theorems and small instances |
| `AvsStatusInfo` | `moAvsStatusInfo`, reports and expiry |
| `Mainloop` | `AvsStatusInfo` with the rounds of `MainloopThread`: check, report to MongoDB, connection |
| `AvsStatusInfoProofs` | theorems of both |
| `MCAvsStatusInfo`, `MCMainloop` | their small instances |
| `TcpFraming` | `EventOnTcpRead` on one connection: packets out of a stream |
| `TcpFramingProofs`, `MCTcpFraming` | its theorems and small instances |
| `RoomMedia` | media addresses, users, followers, AVS streams; event, sync and media threads |
| `RoomMediaProofs`, `MCRoomMedia` | its theorems and small instance |
| `LockOrder` | every operation of every thread as the mutexes it goes through; the RTP session |
| `LockOrderProofs` | its theorems |
| `PoolThread` | `Start`, `Stop` and `Schedule` on a pool of several threads |
| `PoolThreadProofs` | its theorems |
| `MCProcess` | a small instance of `PoolThread` and `LockOrder` |

The modules meet in two abstract specifications:

    MessageQueue              implements  TaskQueue
    RoomMgr  and  RoomMedia   implement   TerminationLife

`RoomMgr` and `RoomMedia` have a FIFO queue with one consumer for the sync pool, by definition;
that the two lists and two locks of the code are one is what `MessageQueue` is shown to do. That
a Termination outlives the requests bound to it is nobody's definition: in both modules the
DISCONNECT that deletes it is a task in the queue, appended like the others, and that it
comes last is checked and proved of each.

Operators with a comment that begins with "Mutant" are used by no definition. Each is
a plausible mistake in the definition that follows it, and shows, put in its
place, that a property can fail.

### RoomMgr

A step is one stretch of code between two points where another thread can see or
change what it works on. The tables of links and the client id of a Termination are
written by the sync thread alone, so what one task does to them is one step;
`rooms_` and `terminations_` are shared, so each critical section on them is a step
of its own.

* `terminations` is `terminations_`; `life` says whether an object is allocated
  (`AddTermination`), registered (`open`) or waits for its DISCONNECT (`closing`).
  Objects and socket numbers are drawn from small sets and reused freely.
* `queue`, `task`, `pc`, `informTodo`, `logoutTodo` are the sync pool: the tasks
  waiting, the one that runs, where it is, and the clients or rooms its loop has
  still to visit. That the pool is a FIFO queue with one consumer is what
  `MessageQueue` is shown to implement.
* `roomClients` and `clientRooms` are the two tables; `rooms` joins `rooms_` with
  the state of each Room; `avsSent` is the last control packet its AVS was sent.
* `owner` and `informed` are history: which Termination made a link, and whether
  it got ROOMS_INFO since. They are written and never read by the code's actions.
* `peer` is the client at the other end of a connection. LOGIN puts it into
  `client_id`; UNLINK_ROOM uses it directly, because the code takes the client id of
  the request there and the one of the Termination in LINK_ROOM.

Two details are kept on purpose. `DeleteRoomClient_Sockfd` hands back the *room* id
as "client id" (`ClientIdHandedBack`), so rooms and clients share a number space
here too. `RoomMgr::Login` sends LOGIN after it releases `rooms_lock_`
(`SendLogin`). `GetAvsStatusInfo` is a free choice, since any entry may come and go
between two requests. A Room in state `_enUnavalible` does not exist: `Login` sets the
state before the Room is in the map.

The requests of a connection carry one client id. LOGOUT, NAT and the requests about
the users of a room are in `RoomMedia`; KEEP_ALIVE is answered and changes nothing.

`LinkService` says the same without socket numbers: the link of a client to a room
belongs to the connection that made it last, `Disconnect` takes exactly the links of
one connection, and a session begins while someone is linked (`LogIn`) and ends when
nobody is (`LogOut`). `RoomMgr` maps onto it by `AbstractLinks`: a link that is recorded
is a link by its `owner`, and a room has a session while the last packet its AVS was sent
is a LOGIN or a keepalive.

### MessageQueue

`Push` and `Notify` are the two halves of `MessageQueue::Push`; `Wait`, `Splice`,
`Pop` and `Run` are the worker between two locks. A worker that is in `wait` is
`blocked`; a notification or a spurious return makes it `woken`. The event thread
pushes tasks, the main thread the stop lambda once. `RunEmpty` is `package()` on an
empty function: the exception leaves the thread and ends the process, so
afterwards nothing moves. A pool has one event-thread pusher, because every
`Schedule` runs on the event thread and under `lock_`.

### AvsStatusInfo

Times are kept as ages, which saturate at the gap plus the longest delay: above it
no comparison changes. `ReadReportTime` / `UpdateAvsStatusInfo` and
`ReadCheckTime` / `CheckAvsStatusInfo` are a look at the clock and the critical
section after it. A difference of two times is a difference of two ages modulo
`Wrap`, which stands for 2^64. `MaxDelay` bounds the time between the look and the lock.

### Mainloop

Extends `AvsStatusInfo` with the thread that runs the check. `loop` is where it is in
its round, `copy` is `loavsstatusinfo`, `row` the `room_list` of this proxy's document,
which an earlier run may have left. `reachable` is the database itself, `connected` what
the driver has of it, `namespaced` whether `startup` has stored `_acnamespace`. An upsert
changes the document only with a connection and a namespace. Of an upsert that reports
success although the bytes were lost, and of one that fails, nothing is left in
the proxy, so they are one case. That a report or a look at the connection is due is a
free choice made fair: their cycles, 110 s and 60 s, are not related to anything else
that is modelled. `startup` is called after the thread is launched; it is taken to
have returned when the first cycle is over.

### TcpFraming

A byte is known by its position in what the client has sent, so `storage`, the
bytes below `tcp_storage_offset_`, is a sequence of positions. `Receive` is a recv of
any length; then each turn of the loop is a step, `TooShort` or `CutNext`, the
latter with the three branches `Discard`, `Incomplete` and `Cut`. The first two bytes
are a length field where they are the first two of a packet; any other two bytes may
be any number. `total_len` is computed modulo `Wrap`, which stands for 2^16.

`Cut` moves what follows the packet with memcpy. If that is longer than the packet,
source and destination overlap and the behaviour is undefined: the model lets the
copy run from either end and records it in `overlapped`. `ReceiveNothing` stands for
recv returning 0 or an error; errors are taken to come from a connection that has
ended. `taken` and `garbled` are history of what `TcpParamScene` was given; `RoomMgr`
takes over from there with whole requests.

### RoomMedia

The media side of the same tables. A Termination's `ip_` is a pointer to a block that
LOGIN and NAT allocate and LOGOUT, NAT and the destructor free; `ip` starts as
*any* value, since the constructor leaves it uninitialised, and `status_` tells whether
the Termination is logged out. Blocks are reused as the allocator may reuse them. A
follower is what `RoomUser::OnLink` stores: the copied pointer, under the proxy id of
the request, whichever client sends it.

Users and Rooms are deleted in the steps of the code: erased from the map, their
followers deleted under `user_lock_`, then freed. A media thread takes the Room
(`GetRoom`), the user (`GetUser`), and the lock of the user (`Forward`), with steps of
the sync thread in between. Tasks carry a bare Room pointer from `Schedule` on.
Of the sync pool the requests about users, which are bound to a Room or a
Termination, and DISCONNECT wait in `queue`, in the order in which they were scheduled. The others
(LOGIN, LOGOUT, NAT, USERS_INFO, the Logins and Logouts of the Room) run whenever the sync thread is
idle: one that runs while these wait has arrived before them.

Four variables are history and are read by no guard. `linkSent` holds the users of whom the last
packet the AVS was sent is LINK_USER; only `SendLinkUser` and `SendUnlinkUser` change it, since
DEL_USER and Logout send the AVS nothing about a user. `vanished` holds those that were deleted
with followers by one of the two and of whom nothing was sent since. `behind` counts the waiting
tasks that are older than the last Logout. `outrun` holds the media threads whose Room or user was
erased while they were on their way. A follower whose client has given up the address it copied
is `Dangling`: it stays a follower, as in the code, but where it points is forgotten, so that
nothing is said of where its media goes.

Misuse of a pointer ends a behaviour with `broken`. The code can do it, and the model does: what
`OnlyOutrunPointersAreStale` states is who may. A task can be bound to a Room that is gone if it
waits since before the last Logout, a media thread can hold a Room or a user that is gone if it
was outrun, and nobody else.

Left out: SSRCs, names, what a packet contains, and other clients than those that
follow (the mask of a follower only filters). `OnDelUser` and `OnModUser` read the
entry of `end()` when the user is unknown; the model takes the branch the test after
it means. A USERS_INFO after ADD_USER finds the user there and keeps its SSRCs.

### LockOrder

An operation is the sequence of the points it goes through, each with the mutexes held
there; `Under(l, body)` is a `lock_guard` around `body`, so an operation reads like the
nesting of the code. A thread at a point steps to the next if the mutex on the way is
free. `ReturnEarly` ends an operation wherever it holds nothing, for the conditions that
are left out; under a `lock_guard` a return comes out at the same place. One room and one
user stand for all: no operation holds two of a kind, and loops over them take and
release one after the other. `header` is whose header is in the RTP session:
`pjmedia_rtp_encode_rtp` returns a pointer into the session, and the caller copies from it.
`Stray` are the two callers that encode without the lock, the answer to NAT and the LOGOUTs
that `main` sends at the start.

### PoolThread

`threads` is an order of the workers; `MakeHeap` leaves any other order, because the
loads that are compared change meanwhile. While the heap is made (`heaping`), an element
read by index may be any of the workers (`Read`). `Start` and `Stop` go turn by turn;
`Stop` reads the element twice, once to stop it and once to join it. To start a
`std::thread` that runs, or join one twice, ends the process (`Terminate`). What a worker
does between two tasks, and the notifications it may miss, are in `MessageQueue`; here a
task in a queue may run at any later time.

`MCProcess` extends `LockOrder` and `PoolThread` and checks both in one run. They share no
variable and no property; each moves only while the other is in its initial state, so that the
run explores the states of the one and then of the other, not their product.

## What the runs check

| Run | Instance | Shows |
|---|---|---|
| `rooms` | 2 connections on 1 socket number, 1 client, 2 rooms, 2 waiting tasks | `RoomExistsIffLinked`, `AvsSessionMatchesRoom`, `NoTaskOutlivesItsTermination`, `AvsSessionOrder`, `ImplementsTerminationLife` |
| `links` | 2 connections, 2 socket numbers, 2 clients, 1 room, 2 waiting tasks | `LinksBelongToTheirSocket`, `LinkedClientsAreInformed`, `ClientRoomsCoverLinks`, `LinksEndWithTheirOwner`, `ImplementsLinkService` |
| `login_answer` | 1 socket number | `LoginAnswersItsSender` fails |
| `queue_safety` | 4 tasks and the stop task | `NothingLostOrReordered`, `IdleWorkerOwesNothing`, `ExitedAfterAllBeforeStop`, `ImplementsTaskQueue`, `WokenWorkerRunsAllWaiting` (fair threads) |
| `queue_lost_wakeup` | 2 tasks, fair threads, no spurious wake-ups | `PushedWorkIsRun` fails |
| `queue_empty_pop` | 2 tasks, no spurious wake-ups | `PopFindsATask` fails |
| `expiry` | 2 entries of 1 room, gap 2, cycle 2, delay up to 1, MongoDB failing and returning, fair threads | `RemovedIfSilentOrOvertaken`, `SilentAvsIsRemovedByCheck`, `DeadAvsIsRemoved`, `ReportsOnlyListed`, `ReportFollowsTable` |
| `expiry_overtaken` | 1 entry, gap 4, cycle 2, delay up to 2 | `RemovedOnTimeOutOnly` fails |
| `expiry_quick_check` | 1 entry, gap 5, cycle 2 | `DeadAvsIsRemoved` fails |
| `framing` | 3 packets, storage of 5, lengths of 3 bits; packets that are short, just fit, just do not, or wrap around | `DeletedOnlyIfPeerClosed`, `PacketsAreTakenWhole`, `EachTurnShortensStorage`, `HandlerReturns`, `SentPacketsAreTaken` |
| `media` | 2 connections, 2 addresses, 1 room, 1 user, 1 media thread, 2 waiting tasks, 1 of them a request | `OnlyOutrunPointersAreStale`, `AddressesAreOwned`, `MediaGoesToItsClient`, `AvsStreamsWhileFollowed`, `FreesAreOwnUnlessUnset`, `FollowersStayWhileForwarding`, `ImplementsTerminationLife` |
| `process` | 1 media thread and the five others; a pool of 3 threads, 2 tasks | `NoCircularWait`, `HeaderIsOwn`; `AllStarted`, `DrainedWhenStopped`, `UndisturbedIsOrderly` |

Bounds. `MaxQueue = 2` waiting tasks, with the one that runs, is enough for the
patterns that matter: a request behind a request behind a DISCONNECT, and the
requests of a reused socket number behind the DISCONNECT of its last owner. Two
Terminations are enough for an old and a new owner of one number. Two rooms let one
disconnect log out several rooms; client ids that equal room ids make the wrong
id handed back take effect. The theorems do without these bounds. Four tasks make
batches of more than one and tasks on both sides of the stop task. For expiry only
the order of gap, cycle and delay matters; each run has another.
Two connections let a block be given up by one and reused by the other.
In `media` two tasks wait, of which one is a request (`MaxRequests`) and the other a DISCONNECT,
before or behind it, of the same or the other connection: the order of the two is what
`TerminationLife` is about there.
Three pool threads are the least with which one can be passed over, one started twice
and one as it should be; deadlock needs the six kinds of threads once each.
For framing the sizes only matter relative to each other: three packets put two and
a piece of a third into the storage, so that a remainder can be longer than the
packet before it. The proofs do without these bounds.

`HandlerReturns` names its exception: a length field of 2^16 - 2 makes `total_len` 0,
the packet of no bytes is cut again and again, and the event thread never leaves
the handler. No packet of the protocol is that long.

`ReportFollowsTable` names one too: a proxy that cannot reach MongoDB when it starts keeps an
empty `_acnamespace`; it reconnects later, but its upserts go to no collection.

Others have an exception that is a hazard of the code itself, which they delimit and do not
exclude: `PacketsAreTakenWhole` ends with a memcpy that overlaps itself, `HeaderIsOwn` allows for the
two callers that take no lock, `MediaGoesToItsClient` ends where a client gives up its address,
`FreesAreOwnUnlessUnset` where one has logged out or never had any, `OnlyOutrunPointersAreStale` at
the holders of pointers a deletion has outrun. `AllStarted` and `DrainedWhenStopped` are about a
`Start` and a `Stop` that return: a `Start` may end the process and a `Stop` wait for ever, if a task is
scheduled meanwhile, and `UndisturbedIsOrderly` says only that it takes that. The hazards of
`PROJECT.json` list these cases apart, with a note instead of a property.

Deadlock is checked for `RoomMgr`, `AvsStatusInfo` and `Mainloop`, which never stop.
`TcpFraming` may stop: the connection is deleted. `MessageQueue` may stop: its thread exits, or the process ends.
`process` may stop too: a `Stop` that races with `Schedule` may join a thread it has not
told to stop, and then waits for ever. That the mutexes let nobody wait for ever is
the invariant `NoCircularWait`, which would see a deadlock of two threads while others
move on. `std::mutex` is not fair, so nothing is claimed about how long a thread waits.

Fairness. `MessageQueue!FairSpec` makes the worker fair and has a pusher notify
once it has pushed: the threads of the process are scheduled. Nobody is obliged to
push. `AvsStatusInfo!FairSpec` lets time pass, has the main loop come round (it
sleeps 100 ms) and a report be stored once its time is read. Whether an AVS reports is
up to the AVS. `MainloopFairSpec` has the rounds go on and, since their cycles
pass again and again, asks strong fairness of the report and of the look at the connection.
MongoDB owes nothing: `ReportFollowsTable` is about runs in which it is reachable from some
time on. `TcpFraming!FairSpec` has the event loop call the handler while there is
something to read, and the handler go on; clients owe nothing.
`rooms`, `links`, `media` and `process` assume no fairness.

### Disagreements between the code and what it says of itself

1. `LoginAnswersItsSender` (`LoginScene.cpp:24`): the connection closes while its
   LOGIN waits, its number is reused, and the answer goes to the new connection.
2. `PushedWorkIsRun` (`MessageQueue.hpp:24`): a push between the worker's last look
   at its batch and its next `wait` is notified to nobody.
3. `PopFindsATask` (`PoolThread.hpp:52`): the worker takes a task before its
   notification arrives; the late notification finds nothing, and `package()` throws.
4. `RemovedOnTimeOutOnly` (`RoomMgr.cpp:1021`): a report overtakes a check that has
   read the clock; the unsigned difference wraps and the entry is removed.
5. `DeadAvsIsRemoved` (`RoomMgr.cpp:1033`): every check renews the entries it keeps.
   With the times of `config.xml` (cycle 121, gap 300) no entry ever expires.

## What is proved

TLAPS checks every theorem below, for all values of the constants that satisfy the
named assumptions: client and room ids are numbers and clients do not use 0
(`IdsAreNumbers`), the sentinels are no members of the sets (`SentinelsAreFresh`,
`TasksAreDistinct`, `NoEntryIsNoAge`, `MediaSentinels`, `LockSentinels`, `StopIsNoTask`), times are
positive and `Wrap` is at least twice the largest age (`TimesArePositive`, `WrapIsLarge`), the
storage is longer than a length field and shorter than the numbers of its width
(`SizesArePositive`, `LengthsFitTheirField`), a pool has finitely many threads (`PoolIsFinite`).
TLC evaluates each of them for the instances it runs.

Each module has one type invariant, which its `TypeCorrect` proves; the runs repeat
only those of `RoomMgr` and `Mainloop`. That of `TcpFraming` bounds the storage, that of
`PoolThread` the index into `threads_`.

**RoomMgrProofs.** The inductive invariant `IInv` has two layers.

* `LiveInv`: the types; what `pc` says of the running task (`SyncThreadOK`); a
  DISCONNECT that is pending is of a connection that is `closing`
  (`DisconnectsAreLast`); a Termination in use has a socket number. The last but one is
  what makes `NoTaskOutlivesItsTermination` inductive: a request is scheduled only
  while its connection is `open`, so never behind its DISCONNECT, and tasks are
  only added at the end and taken at the front.
* `RoomInv`: the two windows in which `RoomExistsIffLinked` makes an exception, made
  precise by `RoomsInTransit` (a room about to be logged in is linked; one about to
  be logged out exists and has no link) and `LoginIsForRoom`.

`TypeCorrect`, `NoUseAfterDelete`, `RoomsFollowLinks` and `SessionsFollowRooms` are
invariants; `SessionsAreOrdered` is the action property `AvsSessionOrder`.
`TerminationsOutliveTheirTasks` is the refinement of `TerminationLife`: what
is held are the requests that wait or run, and by `LiveInv` a DISCONNECT is behind all of
its connection, so that `Delete` finds its Termination with nobody.

**RoomLinksProofs.** `LinkInv` explains why a link by socket number is as good as a
link by connection. A number is given to a new connection only after the old one has been
closed, so after its DISCONNECT was scheduled; and tasks run in order. Hence of two
connections that have had the same number the older one's DISCONNECT comes before every
task of the younger one, which has no link until then (`SocketsInTurn`). So DISCONNECT,
which searches by number, finds exactly the links of its own connection
(`FoundLinksAreOwn`). From `LinkInv` follow `LinksStayWithTheirSocket`, `LinksGoWithTheirOwner`,
`ClientsAreInformed` (the number of a link whose connection is open leads to that
connection, so ROOMS_INFO goes to whom it is meant for) and, with `IInv`, the refinement
`ImplementsLinks`: LOGIN is sent only to the AVS of a room that is linked, LOGOUT only to that
of a room that is not. `ClientRoomsCover` needs the types alone: what is taken out of
`moClientidtoRoomList`, under whatever id, is a room that has lost its last link.

**MessageQueueProofs.** `IInv` says that history, popped task and the two lists
concatenate to what was pushed (`NothingLostOrReordered`), that the batch is empty
wherever the worker may wait or leave, that `package` is set only while it runs,
that tasks are pushed once and that only the stop task clears `active_`. From it
follow `TypeCorrect`, `TasksKeepTheirOrder`, `StopIsOrderly`, and the refinement
`MessageQueueIsAQueue`: a push is a push at the end of the concatenated lists, `Pop`
takes the head of them, `Run` ends the running task, and every wake-up is a stutter.
`IdleWorkerRanItsBatch` follows too: a worker that waits owes at most what is in the list the
next notification hands over, which is the part of `WokenWorkerRunsAllWaiting` that needs no
fairness.

**AvsStatusInfoProofs.** `AgeFollowsReports` says that a stored time is never older
than the last report, and equals it if it is younger than the time of the running
check. Hence an expired entry is silent for the gap, or its unsigned difference
wrapped because a report overtook the check (`RemovalIsExplained`). A check renews what it
keeps, so it might keep a dead entry for ever. `StoredByReportOrCheck` says that a stored time is the
last report's or no younger than the last check's; two checks are a cycle apart
(`CheckInv`), hence with a cycle not below the gap whatever was silent for the gap goes at the
next check (`ChecksRemoveTheSilent`). Every step of
`Mainloop` is a step of `AvsStatusInfo` or leaves it alone (`MainloopIsAvsStatusInfo`). Only the
check removes entries, and it is on the thread of the report, so what was copied is still in
the table when it is written (`ReportInv`, `ReportsNeverRevive`).

**TcpFramingProofs.** `IInv` bounds the storage and leaves room in it whenever the
handler has returned: either less than a length field is there, or less than a
packet that would fit (`NeverDeletedInVain`, for any bytes at all). `StreamInv` adds
that packets lie in a row in the stream, and, as long as all that were sent fit
(`SentFit`) and no memcpy overlapped itself, that the storage holds exactly the bytes from the start of the
next packet to where the stream has been received. So the length field in front is
the next packet's, and what is cut is that packet (`PacketsStayWhole`). `LoopShortensStorage` needs
the bound alone: `total_len` is positive unless it wraps to 0, so a turn of the loop leaves less
than it found. The storage is a variant of the loop, and only that a fair loop then ends is
left to TLC.

**RoomMediaProofs.** The properties of `media` for any number of connections, blocks,
users and media threads. `AddressesAreOwned` makes `ip_` of a Termination that is not
logged out a block of its own; on it rests that a follower's pointer is good while its
client keeps its address (`MediaAddressing`). `AvsStreaming` pairs the first and the last
follower with what the AVS is sent: the last packet about a user is LINK_USER exactly if the user
is followed or vanished with its followers, and never both. `ForwardingIsUndisturbed` is the action
property that `user_lock_` is for. `StalePointersAreOutrun` is `OnlyOutrunPointersAreStale`: with the
Room erased from the map first, `GetRoom` gives it to nobody new, so all who have it are behind
that Logout in the queue or on their way (`PointerInv`); the proof goes through any number of Rooms
and users that are created and deleted while old pointers are still about.
By the same ownership a Termination that has neither logged out nor an address left unset
may free what it points to (`MayFreeIfOwned`), and a free that is in error changes nothing else
(`AddressMisuse`); whence `WrongFreesAreOfUnset`. `TerminationsOutliveTheirTasks` maps `RoomMedia` to
`TerminationLife`: a DISCONNECT that waits is of a `closing` connection and no task of that
connection is behind it (`DisconnectsAreLast`), so that when it is the head, nothing is left. From the steps of that abstract specification follows what it is for
(`WaitingTasksHaveTheirTermination`): the Termination of a request that waits is still the same
client's, although its connection may be closed.

**LockOrderProofs.** The mutexes have an order: links, terminations, sync pool,
async pool, a queue's wait list, its batch, rooms, room, watchers, RTP session, user, the
client socket, client rooms, AVS status. Lemmas say that an operation put together with
`Under` and `Brief` climbs it, so every operation of every thread does. With mutual
exclusion (nobody holds what another holds) a waiting thread waits for a higher mutex than
it holds, and of a set of waiting threads the one that wants the highest waits for nobody
in it (`LocksAreOrdered`). `HeadersAreOwn` follows from mutual exclusion on the RTP lock.

**PoolThreadProofs.** For any finite set of workers. `StartIsComplete` rests on
a count: after `idx - 1` turns without a double start, `idx - 1` distinct workers run, so at
the end all of them do. `StopIsComplete` adds that a worker has left only behind its stop
task, which is behind everything pushed before `Stop` (`NothingDropped`). If
nobody schedules meanwhile, the workers started, told and joined are those at the
indices passed (`Orderly`), whence `QuietStartAndStop`.

Only model-checked is what rests on fairness, which the prover does not treat. Of each such
property the part that is safety is proved:

| Model-checked | Proved part of it |
|---|---|
| `WokenWorkerRunsAllWaiting` | `IdleWorkerOwesNothing`, `ImplementsTaskQueue` |
| `DeadAvsIsRemoved` | `SilentAvsIsRemovedByCheck` |
| `ReportFollowsTable` | `ReportsOnlyListed` |
| `HandlerReturns` | `EachTurnShortensStorage` |
| `SentPacketsAreTaken` | `PacketsAreTakenWhole`, `DeletedOnlyIfPeerClosed` |

The five properties of the runs that expect a violation are false, so there is nothing to prove.

## What is not modelled

* `Prepare` and the end of `Destroy`: sockets, libevent's loop, the deletion of the
  callbacks' functions before the event thread is joined. On EOF `main` returns without
  `Destroy`.
* The contents of packets: SSRCs, masks beyond filtering, byte order. `OnRxAudio` sends the
  bytes of the `vector` object (`RoomUser.cpp:191`), `OnRxVideo` those it holds: both are one
  forward here.
* Configuration, console, the layout of packets: I/O and formatting, no state of the proxy.
* The main loop before `startup` has returned: it would use a driver handle that is not
  initialised, if connecting takes longer than the shortest cycle.
* Code without a caller: `UpdateClientRoomFollows`, `Termination::OnLink` and `OnUnlink`,
  `Room::OnWatched`, `OnUnwatch` and `OnKeepAlive`; `insert`, `update`, `remove` and `find` of
  `CMongoClientBase`.
* pugixml: vendored. It is 11 971 of the 16 851 lines of the repository, so that most source
  lines have no counterpart here.
