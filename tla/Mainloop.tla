------------------------------ MODULE Mainloop ------------------------------
(***************************************************************************)
(* The rounds of MainloopThread: it checks moAvsStatusInfo, reports the    *)
(* rooms in it to the MongoDB document of this proxy, and renews the       *)
(* connection to the database if it is lost. Everything on one thread, so  *)
(* that a report is never written over by an older one, while reports of   *)
(* AVS keep coming in on the sync thread.                                  *)
(*                                                                         *)
(* Which of the three is due in a round is a matter of the clock. For the   *)
(* check it is modelled by AvsStatusInfo; report and connection are due     *)
(* again and again, which is all that is said of them.                      *)
(***************************************************************************)
EXTENDS AvsStatusInfo

CONSTANTS
  RoomOf,  \* entry -> its room, the key of the outer map
  NoRow    \* there is no document of this proxy

VARIABLES
  loop,       \* where MainloopThread is in its round
  copy,       \* loavsstatusinfo: the rooms of the report that is under way
  row,        \* external: the room_list of the document
  reachable,  \* external: MongoDB runs and the network leads to it
  connected,  \* external: the driver has a working connection
  namespaced  \* _acnamespace names the collection

reportVars == <<loop, copy, row, reachable, connected, namespaced>>
allVars == <<vars, reportVars>>

RoomIds == {RoomOf[e] : e \in Entries}
ListedRooms == {RoomOf[e] : e \in {d \in Entries : Listed(d)}}

\* CMongoClientBase::startup keeps the namespace if it connects, or if it reaches a
\* server that is not the master, and forgets it otherwise. It has returned when the
\* first report is due, a whole cycle after the thread was started.
Startup ==
  /\ reachable \in BOOLEAN /\ connected \in BOOLEAN /\ namespaced \in BOOLEAN
  /\ connected => reachable /\ namespaced
  /\ namespaced => reachable

\* The document may be left from an earlier run of the proxy.
MainloopInit ==
  /\ Init
  /\ Startup
  /\ loop = "check" /\ copy = {} /\ row \in {NoRow} \cup SUBSET RoomIds
-----------------------------------------------------------------------------
Goto(label) == loop' = label

\* Mutant: the check has a thread of its own.
CheckAnytime ==
  /\ \/ (ReadCheckTime \/ CheckAvsStatusInfo) /\ Goto(loop)
     \/ loop = "check" /\ Goto("report") /\ UNCHANGED vars
  /\ UNCHANGED <<copy, row, reachable, connected, namespaced>>

\* The check of a round, in two steps, or a round in which it is not due.
Check ==
  /\ loop = "check"
  /\ \/ ReadCheckTime /\ Goto("check")
     \/ CheckAvsStatusInfo /\ Goto("report")
     \/ ~ checking /\ sinceCheck < Cycle /\ Goto("report") /\ UNCHANGED vars
  /\ UNCHANGED <<copy, row, reachable, connected, namespaced>>

\* ReportToMongoDB takes a copy of the map under its lock ...
CopyAvsStatusInfo ==
  /\ loop = "report" /\ Goto("upsert")
  /\ copy' = ListedRooms
  /\ UNCHANGED <<vars, row, reachable, connected, namespaced>>

NoReportDue ==
  /\ loop = "report" /\ Goto("connection")
  /\ UNCHANGED <<vars, copy, row, reachable, connected, namespaced>>

\* ... and upserts it without the lock: $set writes the whole list. A failure is
\* logged, and the next report is due after a whole cycle.
Upsert ==
  /\ loop = "upsert" /\ Goto("connection")
  /\ row' = IF connected /\ namespaced THEN copy ELSE row
  /\ copy' = {}
  /\ UNCHANGED <<vars, reachable, connected, namespaced>>

\* Mutant: looks at the sign the wrong way round.
LostIfConnected == connected

\* checkconnection() < 0
ConnectionLost == ~ connected

CheckConnection ==
  /\ loop = "connection"
  /\ Goto(IF ConnectionLost THEN "reconnect" ELSE "check")
  /\ UNCHANGED <<vars, copy, row, reachable, connected, namespaced>>

NoConnectionDue ==
  /\ loop = "connection" /\ Goto("check")
  /\ UNCHANGED <<vars, copy, row, reachable, connected, namespaced>>

\* reconnect() says nothing of the namespace.
Reconnect ==
  /\ loop = "reconnect" /\ Goto("check")
  /\ connected' = reachable
  /\ UNCHANGED <<vars, copy, row, reachable, namespaced>>

\* The server or the network goes away, for however short a time, and returns.
MongoDBFails ==
  /\ reachable /\ reachable' = FALSE /\ connected' = FALSE
  /\ UNCHANGED <<vars, loop, copy, row, namespaced>>

MongoDBReturns ==
  /\ ~ reachable /\ reachable' = TRUE
  /\ UNCHANGED <<vars, loop, copy, row, connected, namespaced>>

Round ==
  \/ Check
  \/ CopyAvsStatusInfo \/ NoReportDue \/ Upsert
  \/ CheckConnection \/ NoConnectionDue \/ Reconnect

Elsewhere ==
  /\ Tick \/ (\E e \in Entries : AvsDies(e)) \/ SyncThread
  /\ UNCHANGED reportVars

MainloopNext == Round \/ Elsewhere \/ MongoDBFails \/ MongoDBReturns

MainloopSpec == MainloopInit /\ [][MainloopNext]_allVars

\* The loop goes round, and its cycles pass: reports and looks at the connection are
\* due again and again. MongoDB owes nothing.
MainloopFairSpec ==
  /\ MainloopSpec
  /\ WF_allVars(Tick /\ UNCHANGED reportVars)
  /\ WF_allVars(UpdateAvsStatusInfo /\ UNCHANGED reportVars)
  /\ WF_allVars(Round) /\ SF_allVars(CopyAvsStatusInfo) /\ SF_allVars(CheckConnection)
-----------------------------------------------------------------------------
MainloopTypeOK ==
  /\ TypeOK
  /\ loop \in {"check", "report", "upsert", "connection", "reconnect"}
  /\ copy \subseteq RoomIds /\ row \in {NoRow} \cup SUBSET RoomIds
  /\ reachable \in BOOLEAN /\ connected \in BOOLEAN /\ namespaced \in BOOLEAN

\* A report never brings back a room that has been removed: although it is written
\* after the lock is released, and entries come meanwhile from another thread,
\* every room it writes is still in moAvsStatusInfo.
ReportsOnlyListed == [][row' # row => row' \subseteq ListedRooms]_allVars

\* Whatever outages there have been, once MongoDB stays reachable its document comes
\* to show a room that stays in moAvsStatusInfo and to lose one that stays out of it,
\* if startup has kept the namespace. (If it has not, "MongoDB reconnecting success",
\* RoomMgr.cpp:704, changes nothing: every upsert goes to the empty namespace.)
ReportFollowsTable ==
  namespaced /\ <>[]reachable =>
    \A r \in RoomIds :
      /\ <>[](r \in ListedRooms) => <>[](row # NoRow /\ r \in row)
      /\ <>[](r \notin ListedRooms) => <>[](row # NoRow /\ r \notin row)
=============================================================================
