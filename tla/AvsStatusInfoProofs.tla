------------------------ MODULE AvsStatusInfoProofs ------------------------
(***************************************************************************)
(* Why CheckAvsStatusInfo removes an entry, for every gap, cycle and delay *)
(* between a look at the clock and the lock of the table; and that the     *)
(* report to MongoDB, which shares the thread of the check, keeps to it.   *)
(***************************************************************************)
EXTENDS Mainloop, TLAPS

USE TimesArePositive, WrapIsLarge, NoEntryIsNoAge DEF MaxAge, Ages, Listed

\* The stored time is never older than the last report, and is that of the last
\* report when it is younger than the time the running check has read.
AgeFollowsReports ==
  \A e \in Entries : Listed(e) =>
    /\ age[e] <= silent[e]
    /\ age[e] < curAge => age[e] = silent[e]

IInv == TypeOK /\ AgeFollowsReports
-----------------------------------------------------------------------------
\* Ages grow by one and stop at their limit.
LEMMA OlderIsBounded ==
  ASSUME NEW m \in Nat, NEW n \in 0 .. m
  PROVE  Older(n, m) \in 0 .. m /\ n <= Older(n, m) /\ (n < m => Older(n, m) = n + 1)
BY DEF Older, Lesser

\* The check acts on unsigned differences; those of an older time are exact.
LEMMA ExpiredWhenOlder ==
  ASSUME NEW a \in Ages, NEW c \in 0 .. MaxDelay, c <= a
  PROVE  Expired(a, c) <=> a - c >= Gap
<1>1. a - c \in 0 .. Wrap - 1
  OBVIOUS
<1>2. \A n \in 0 .. Wrap - 1 : n % Wrap = n
  OBVIOUS
<1>3. QED
  BY <1>1, <1>2 DEF Expired

\* Time passes for the table, the reports and the two threads at once.
LEMMA TickKeepsIInv == IInv /\ Tick => IInv'
<1> SUFFICES ASSUME IInv, Tick PROVE IInv'
  OBVIOUS
<1> USE DEF IInv, TypeOK, Tick
<1>1. \A e \in Entries : /\ Listed(e) => age'[e] = Older(age[e], MaxAge)
                         /\ ~ Listed(e) => age'[e] = NoEntry
                         /\ silent'[e] = Older(silent[e], MaxAge)
  OBVIOUS
<1>2. \A n \in Ages : Older(n, MaxAge) \in Ages
  BY DEF Older, Lesser
<1>3. TypeOK'
  <2>1. age' \in [Entries -> Ages \cup {NoEntry}] /\ silent' \in [Entries -> Ages]
    BY <1>2
  <2>2. sinceCheck' \in 0 .. Cycle + MaxDelay
    BY OlderIsBounded
  <2>3. stampAge' \in 0 .. MaxDelay /\ curAge' \in 0 .. MaxDelay
    OBVIOUS
  <2>4. QED
    BY <2>1, <2>2, <2>3
<1>4. ASSUME NEW e \in Entries, Listed(e)'
      PROVE  age'[e] <= silent'[e] /\ (age'[e] < curAge' => age'[e] = silent'[e])
  <2>1. Listed(e) /\ age[e] \in Ages /\ silent[e] \in Ages
    BY <1>1, <1>4
  <2>2. age[e] <= silent[e] /\ (age[e] < curAge => age[e] = silent[e])
    BY <2>1 DEF AgeFollowsReports
  <2>3. curAge' = IF checking THEN curAge + 1 ELSE 0
    OBVIOUS
  <2>4. checking => curAge < MaxDelay
    OBVIOUS
  <2>5. QED
    BY <1>1, <2>1, <2>2, <2>3, <2>4 DEF Older, Lesser
<1>5. QED
  BY <1>3, <1>4 DEF AgeFollowsReports

\* The inductive step of IInv.
LEMMA NextKeepsIInv == IInv /\ [Next]_vars => IInv'
<1> SUFFICES ASSUME IInv, [Next]_vars PROVE IInv'
  OBVIOUS
<1> USE DEF IInv, TypeOK, AgeFollowsReports
<1>1. CASE Tick
  BY <1>1, TickKeepsIInv
<1>2. ASSUME NEW e \in Entries, AvsDies(e) PROVE IInv'
  <2>1. alive' \in [Entries -> BOOLEAN]
    BY <1>2, Zenon DEF AvsDies
  <2>2. QED
    BY <1>2, <2>1 DEF AvsDies
<1>2a. ASSUME NEW e \in Entries, ReadReportTime(e) PROVE IInv'
  BY <1>2a DEF ReadReportTime
<1>3. CASE UpdateAvsStatusInfo
  <2>1. reporting \in Entries /\ stampAge \in Ages
    BY <1>3 DEF UpdateAvsStatusInfo
  <2>2. QED
    BY <1>3, <2>1 DEF UpdateAvsStatusInfo
<1>4. CASE ReadCheckTime
  BY <1>4 DEF ReadCheckTime
<1>5. CASE CheckAvsStatusInfo
  <2>1. TypeOK'
    <3>1. age' \in [Entries -> Ages \cup {NoEntry}]
      <4>1. curAge \in Ages
        OBVIOUS
      <4>2. QED
        BY <1>5, <4>1 DEF CheckAvsStatusInfo, Refreshed
    <3>2. UNCHANGED <<alive, reporting, stampAge, sinceCheck, silent>>
      BY <1>5 DEF CheckAvsStatusInfo
    <3>3. checking' = FALSE /\ curAge' = 0
      BY <1>5 DEF CheckAvsStatusInfo
    <3>4. alive' \in [Entries -> BOOLEAN] /\ checking' \in BOOLEAN
      BY <3>2, <3>3, Zenon
    <3>5. /\ reporting' \in Entries \cup {NoEntry} /\ stampAge' \in 0 .. MaxDelay
          /\ curAge' \in 0 .. MaxDelay /\ sinceCheck' \in 0 .. Cycle + MaxDelay
          /\ silent' \in [Entries -> Ages]
      BY <3>2, <3>3
    <3>6. QED
      BY <3>1, <3>4, <3>5, Zenon
  <2>2. ASSUME NEW e \in Entries, Listed(e)' PROVE age'[e] <= silent'[e] /\ curAge' = 0
    <3>1. /\ Listed(e) /\ ~ Expired(age[e], curAge) /\ age'[e] = curAge
          /\ silent'[e] = silent[e] /\ curAge' = 0
      BY <1>5, <2>2 DEF CheckAvsStatusInfo, Refreshed
    <3>2. age[e] \in Ages /\ silent[e] \in Ages /\ curAge \in 0 .. MaxDelay
      BY <3>1
    <3>3. age[e] <= silent[e] /\ (age[e] < curAge => age[e] = silent[e])
      BY <3>1
    <3>4. CASE curAge <= age[e]
      BY <3>1, <3>2, <3>3, <3>4
    <3>5. CASE age[e] < curAge
      <4>1. (age[e] - curAge) % Wrap = age[e] - curAge + Wrap
        <5>1. age[e] - curAge \in -Wrap .. -1
          BY <3>2, <3>5
        <5>2. \A n \in -Wrap .. -1 : n % Wrap = n + Wrap
          OBVIOUS
        <5>3. QED
          BY <5>1, <5>2
      <4>2. QED
        BY <3>1, <3>2, <3>5, <4>1 DEF Expired
    <3>6. QED
      BY <3>2, <3>4, <3>5
  <2>3. QED
    BY <2>1, <2>2
<1>6. CASE UNCHANGED vars
  BY <1>6 DEF vars
<1>7. QED
  BY <1>1, <1>2, <1>2a, <1>3, <1>4, <1>5, <1>6 DEF Next, SyncThread, MainloopThread

\* Nothing is in the table at first.
LEMMA InitKeepsIInv == Init => IInv
<1> SUFFICES ASSUME Init PROVE IInv
  OBVIOUS
<1>1. alive \in [Entries -> BOOLEAN]
  BY Zenon DEF Init
<1>2. age \in [Entries -> Ages \cup {NoEntry}] /\ silent \in [Entries -> Ages]
  BY DEF Init
<1>3. QED
  BY <1>1, <1>2 DEF Init, IInv, TypeOK, AgeFollowsReports

\* IInv holds in every reachable state.
THEOREM Invariance == Spec => []IInv
BY InitKeepsIInv, NextKeepsIInv, PTL DEF Spec

\* moAvsStatusInfo and the times the two threads hold keep their types.
THEOREM TypeCorrect == Spec => []TypeOK
<1>1. IInv => TypeOK
  BY DEF IInv
<1>2. QED
  BY <1>1, Invariance, PTL

\* CheckAvsStatusInfo removes the entry of an AVS that has reported within the gap
\* only when the report was stored while the check was waiting for the lock.
THEOREM RemovalIsExplained == Spec => RemovedIfSilentOrOvertaken
<1> DEFINE Explained == \A e \in Entries :
             Listed(e) /\ age'[e] = NoEntry => silent[e] >= Gap \/ silent[e] < curAge
<1>1. ASSUME IInv, [Next]_vars PROVE [Explained]_vars
  <2> USE <1>1 DEF IInv, TypeOK
  <2>1. CASE CheckAvsStatusInfo
    <3> SUFFICES ASSUME NEW e \in Entries, Listed(e), age'[e] = NoEntry
                 PROVE  silent[e] >= Gap \/ silent[e] < curAge
      OBVIOUS
    <3>1. Expired(age[e], curAge)
      BY <2>1 DEF CheckAvsStatusInfo, Refreshed
    <3>2. age[e] <= silent[e] /\ (age[e] < curAge => age[e] = silent[e])
      BY DEF AgeFollowsReports
    <3>3. age[e] \in Ages /\ silent[e] \in Ages /\ curAge \in 0 .. MaxDelay
      OBVIOUS
    <3>4. CASE curAge <= age[e]
      BY <3>1, <3>2, <3>3, <3>4, ExpiredWhenOlder
    <3>5. QED
      BY <3>2, <3>3, <3>4
  <2>2. CASE Tick
    <3>1. \A e \in Entries : Listed(e) => age'[e] = Older(age[e], MaxAge)
      BY <2>2 DEF Tick
    <3>2. \A e \in Entries : Listed(e) => age'[e] \in Ages
      BY <3>1, OlderIsBounded
    <3>3. QED
      BY <3>2
  <2>3. CASE UpdateAvsStatusInfo
    BY <2>3 DEF UpdateAvsStatusInfo
  <2>4. CASE UNCHANGED age
    BY <2>4
  <2>5. QED
    BY <2>1, <2>2, <2>3, <2>4
       DEF Next, SyncThread, MainloopThread, AvsDies, ReadReportTime, ReadCheckTime, vars
<1>2. QED
  BY <1>1, Invariance, PTL DEF Spec, RemovedIfSilentOrOvertaken
-----------------------------------------------------------------------------
\* The time stored for an entry is that of its last report, or else that of a check
\* that is over, which the check under way has let the whole cycle pass after.
StoredByReportOrCheck ==
  /\ checking => sinceCheck = curAge
  /\ \A e \in Entries : Listed(e) =>
       \/ age[e] = silent[e]
       \/ age[e] >= Lesser(IF checking THEN Cycle + curAge ELSE sinceCheck, MaxAge)

CheckInv == IInv /\ StoredByReportOrCheck

\* Time passes for the stored time and for the time since the last check alike.
LEMMA TickKeepsStored == CheckInv /\ Tick => StoredByReportOrCheck'
<1> SUFFICES ASSUME CheckInv, Tick PROVE StoredByReportOrCheck'
  OBVIOUS
<1> USE DEF CheckInv, IInv, TypeOK, StoredByReportOrCheck
<1>1. /\ \A e \in Entries : /\ Listed(e) => age'[e] = Older(age[e], MaxAge)
                            /\ ~ Listed(e) => age'[e] = NoEntry
                            /\ silent'[e] = Older(silent[e], MaxAge)
      /\ checking' = checking /\ sinceCheck' = Older(sinceCheck, Cycle + MaxDelay)
      /\ curAge' = IF checking THEN curAge + 1 ELSE 0
      /\ checking => curAge < MaxDelay
  BY DEF Tick
<1>2. checking' => sinceCheck' = curAge'
  BY <1>1 DEF Older, Lesser
<1>3. ASSUME NEW e \in Entries, Listed(e)'
      PROVE  \/ age'[e] = silent'[e]
             \/ age'[e] >= Lesser(IF checking' THEN Cycle + curAge' ELSE sinceCheck', MaxAge)
  <2>1. Listed(e) /\ age[e] \in Ages /\ age'[e] = Older(age[e], MaxAge)
    BY <1>1, <1>3
  <2>2. CASE age[e] = silent[e]
    BY <1>1, <2>1, <2>2
  <2>3. CASE checking /\ age[e] >= Lesser(Cycle + curAge, MaxAge)
    BY <1>1, <2>1, <2>3 DEF Older, Lesser
  <2>4. CASE ~ checking /\ age[e] >= Lesser(sinceCheck, MaxAge)
    BY <1>1, <2>1, <2>4 DEF Older, Lesser
  <2>5. QED
    BY <2>1, <2>2, <2>3, <2>4
<1>4. QED
  BY <1>2, <1>3

\* The inductive step of CheckInv.
LEMMA NextKeepsCheckInv == CheckInv /\ [Next]_vars => CheckInv'
<1> SUFFICES ASSUME CheckInv, [Next]_vars PROVE CheckInv'
  OBVIOUS
<1>0. IInv'
  BY NextKeepsIInv DEF CheckInv
<1> SUFFICES StoredByReportOrCheck'
  BY <1>0 DEF CheckInv
<1> USE DEF CheckInv, IInv, TypeOK, StoredByReportOrCheck
<1>1. CASE Tick
  BY <1>1, TickKeepsStored
<1>2. CASE UpdateAvsStatusInfo
  <2>1. \A e \in Entries : \/ age'[e] = age[e] /\ silent'[e] = silent[e]
                           \/ age'[e] = silent'[e]
    BY <1>2 DEF UpdateAvsStatusInfo
  <2>2. UNCHANGED <<checking, curAge, sinceCheck>>
    BY <1>2 DEF UpdateAvsStatusInfo
  <2>3. QED
    BY <2>1, <2>2
<1>3. CASE ReadCheckTime
  <2>1. /\ ~ checking /\ sinceCheck >= Cycle /\ checking' /\ curAge' = 0 /\ sinceCheck' = 0
        /\ age' = age /\ silent' = silent
    BY <1>3 DEF ReadCheckTime
  <2>2. QED
    BY <2>1 DEF Lesser
<1>4. CASE CheckAvsStatusInfo
  <2>1. /\ checking /\ ~ checking' /\ sinceCheck' = curAge
        /\ \A e \in Entries : age'[e] \in {NoEntry, curAge}
    BY <1>4 DEF CheckAvsStatusInfo, Refreshed
  <2>2. QED
    BY <2>1 DEF Lesser
<1>5. CASE UNCHANGED <<age, checking, curAge, sinceCheck, silent>>
  BY <1>5
<1>6. QED
  BY <1>1, <1>2, <1>3, <1>4, <1>5
     DEF Next, SyncThread, MainloopThread, AvsDies, ReadReportTime, vars

\* With a cycle that is no shorter than the gap, each check removes the AVS that had
\* been silent for the gap when the check read the clock, whatever the delays.
THEOREM ChecksRemoveTheSilent == Spec => SilentAvsIsRemovedByCheck
<1> DEFINE Removed ==
             Cycle >= Gap /\ checking /\ ~ checking' =>
               \A e \in Entries : silent[e] - curAge >= Gap => ~ Listed(e)'
<1>1. Init => CheckInv
  BY InitKeepsIInv DEF Init, CheckInv, StoredByReportOrCheck
<1>2. ASSUME CheckInv, [Next]_vars PROVE [Removed]_vars
  <2> SUFFICES ASSUME Cycle >= Gap, checking, ~ checking',
                      NEW e \in Entries, silent[e] - curAge >= Gap, Listed(e)
               PROVE  age'[e] = NoEntry
    <3>1. CheckAvsStatusInfo \/ checking' = checking \/ checking'
      BY <1>2 DEF Next, SyncThread, MainloopThread, Tick, AvsDies, ReadReportTime,
                  UpdateAvsStatusInfo, ReadCheckTime, vars
    <3>2. CheckAvsStatusInfo => \A e \in Entries : ~ Listed(e) => ~ Listed(e)'
      BY DEF CheckAvsStatusInfo
    <3>3. QED
      BY <3>1, <3>2
  <2>1. CheckAvsStatusInfo
    BY <1>2 DEF Next, SyncThread, MainloopThread, Tick, AvsDies, ReadReportTime,
                UpdateAvsStatusInfo, ReadCheckTime, vars
  <2>2. /\ age[e] \in Ages /\ silent[e] \in Ages /\ curAge \in 0 .. MaxDelay
        /\ age[e] = silent[e] \/ age[e] >= Lesser(Cycle + curAge, MaxAge)
    BY <1>2 DEF CheckInv, IInv, TypeOK, StoredByReportOrCheck
  <2>3. age[e] - curAge >= Gap
    BY <2>2 DEF Lesser
  <2>4. Expired(age[e], curAge)
    BY <2>2, <2>3, ExpiredWhenOlder
  <2>5. QED
    BY <2>1, <2>4 DEF CheckAvsStatusInfo
<1>3. QED
  BY <1>1, <1>2, NextKeepsCheckInv, PTL DEF Spec, SilentAvsIsRemovedByCheck
-----------------------------------------------------------------------------
\* The main loop checks nothing while it reports, so the report under way has only
\* rooms that are in the table.
ReportInv ==
  /\ MainloopTypeOK
  /\ checking => loop = "check"
  /\ loop = "upsert" => copy \subseteq ListedRooms

\* To moAvsStatusInfo a step of the main loop is a step of its own, or none.
LEMMA MainloopStepsAreSteps == [MainloopNext]_allVars => [Next]_vars
BY DEF MainloopNext, Round, Elsewhere, Check, CopyAvsStatusInfo, NoReportDue, Upsert,
       CheckConnection, NoConnectionDue, Reconnect, MongoDBFails, MongoDBReturns,
       Next, MainloopThread, allVars, vars

\* What is proved of AvsStatusInfo holds of the whole main loop.
THEOREM MainloopIsAvsStatusInfo == MainloopSpec => Spec
<1>1. MainloopInit => Init
  BY DEF MainloopInit
<1>2. QED
  BY <1>1, MainloopStepsAreSteps, PTL DEF MainloopSpec, Spec

\* What is in the table stays there, unless the check takes it out.
LEMMA OnlyTheCheckRemoves ==
  ASSUME TypeOK, [Next]_vars, ~ CheckAvsStatusInfo
  PROVE  ListedRooms \subseteq ListedRooms'
<1>1. ASSUME NEW e \in Entries, Listed(e) PROVE Listed(e)'
  <2>1. age[e] \in Ages
    BY <1>1 DEF TypeOK
  <2>2. CASE Tick
    <3>1. age'[e] = Older(age[e], MaxAge)
      BY <1>1, <2>2 DEF Tick
    <3>2. QED
      BY <2>1, <3>1 DEF Older, Lesser
  <2>3. CASE UpdateAvsStatusInfo
    BY <1>1, <2>1, <2>3 DEF UpdateAvsStatusInfo, TypeOK
  <2>4. CASE age' = age
    BY <1>1, <2>4
  <2>5. QED
    BY <2>2, <2>3, <2>4
       DEF Next, SyncThread, MainloopThread, AvsDies, ReadReportTime, ReadCheckTime, vars
<1>2. QED
  BY <1>1 DEF ListedRooms

\* The inductive step of ReportInv.
LEMMA NextReportInv ==
  ReportInv /\ TypeOK' /\ [MainloopNext]_allVars => ReportInv'
<1> SUFFICES ASSUME ReportInv, TypeOK', [MainloopNext]_allVars PROVE ReportInv'
  OBVIOUS
<1>1. CASE Check
  <2>1. /\ UNCHANGED <<copy, row, reachable, connected, namespaced>>
        /\ loop' \in {"check", "report"} /\ (checking' => loop' = "check")
    BY <1>1 DEF Check, Goto, ReadCheckTime, CheckAvsStatusInfo, vars
  <2>2. QED
    BY <2>1 DEF ReportInv, MainloopTypeOK
<1>2. CASE CopyAvsStatusInfo
  <2>1. copy' = ListedRooms /\ ListedRooms' = ListedRooms /\ ListedRooms \subseteq RoomIds
    BY <1>2 DEF CopyAvsStatusInfo, vars, ListedRooms, RoomIds
  <2>2. /\ UNCHANGED <<checking, row, reachable, connected, namespaced>>
        /\ loop = "report" /\ loop' = "upsert"
    BY <1>2 DEF CopyAvsStatusInfo, Goto, vars
  <2>3. QED
    BY <2>1, <2>2 DEF ReportInv, MainloopTypeOK
<1>3. CASE NoReportDue \/ Upsert \/ CheckConnection \/ NoConnectionDue \/ Reconnect
  <2>1. /\ loop # "check" /\ loop' \in {"check", "connection", "reconnect"}
        /\ UNCHANGED <<checking, reachable, namespaced>>
        /\ copy' \in {copy, {}} /\ row' \in {row, copy} /\ connected' \in {connected, reachable}
    BY <1>3 DEF NoReportDue, Upsert, CheckConnection, NoConnectionDue, Reconnect, Goto, vars
  <2>2. QED
    BY <2>1 DEF ReportInv, MainloopTypeOK
<1>4. CASE Elsewhere
  <2>1. UNCHANGED <<checking, loop, copy, row, reachable, connected, namespaced>>
    BY <1>4 DEF Elsewhere, reportVars, Tick, AvsDies, SyncThread, ReadReportTime, UpdateAvsStatusInfo
  <2>2. loop = "upsert" => ListedRooms \subseteq ListedRooms'
    <3>1. loop = "upsert" => ~ CheckAvsStatusInfo
      BY DEF ReportInv, CheckAvsStatusInfo
    <3>2. TypeOK
      BY DEF ReportInv, MainloopTypeOK
    <3>3. QED
      BY <3>1, <3>2, MainloopStepsAreSteps, OnlyTheCheckRemoves
  <2>3. QED
    BY <2>1, <2>2 DEF ReportInv, MainloopTypeOK
<1>5. CASE MongoDBFails \/ MongoDBReturns \/ UNCHANGED allVars
  <2>1. /\ UNCHANGED <<vars, loop, copy, row, namespaced>>
        /\ reachable' \in {reachable, TRUE, FALSE} /\ connected' \in {connected, FALSE}
    BY <1>5 DEF MongoDBFails, MongoDBReturns, allVars, reportVars
  <2>2. ListedRooms' = ListedRooms /\ checking' = checking
    BY <2>1 DEF vars, ListedRooms
  <2>3. QED
    BY <2>1, <2>2 DEF ReportInv, MainloopTypeOK
<1>6. QED
  BY <1>1, <1>2, <1>3, <1>4, <1>5 DEF MainloopNext, Round

\* ReportInv holds of the main loop.
THEOREM ReportInvariance == MainloopSpec => []ReportInv
<1>1. MainloopInit /\ TypeOK => ReportInv
  BY DEF MainloopInit, Startup, Init, ReportInv, MainloopTypeOK, RoomIds
<1>2. MainloopSpec => []TypeOK
  BY MainloopIsAvsStatusInfo, TypeCorrect, PTL
<1>3. QED
  BY <1>1, <1>2, NextReportInv, PTL DEF MainloopSpec

\* The main loop, its report and what it knows of the database keep their types.
THEOREM MainloopTypeCorrect == MainloopSpec => []MainloopTypeOK
<1>1. ReportInv => MainloopTypeOK
  BY DEF ReportInv
<1>2. QED
  BY <1>1, ReportInvariance, PTL

\* No report brings back a room whose entries the check has removed, for any number
\* of entries, rooms and outages.
THEOREM ReportsNeverRevive == MainloopSpec => ReportsOnlyListed
<1>1. ReportInv /\ [MainloopNext]_allVars => [row' # row => row' \subseteq ListedRooms]_allVars
  BY DEF ReportInv, MainloopNext, Round, Check, CopyAvsStatusInfo, NoReportDue, Upsert,
         CheckConnection, NoConnectionDue, Reconnect, Elsewhere, reportVars, MongoDBFails,
         MongoDBReturns
<1>2. QED
  BY <1>1, ReportInvariance, PTL DEF MainloopSpec, ReportsOnlyListed
=============================================================================
