--------------------------- MODULE AvsStatusInfo ---------------------------
(***************************************************************************)
(* moAvsStatusInfo: which AVS (address and port) of which room has reported *)
(* itself, with the time of its last report. The sync thread records the   *)
(* reports, the main-loop thread removes the entries that time out.        *)
(*                                                                         *)
(* Both threads read the clock BEFORE they take moAvsStatusInfo_lock_, so   *)
(* either can hold a time that is older than what the other has written.   *)
(* Times are kept as ages (now - time), which saturate at MaxAge; a        *)
(* difference of two times is then a difference of ages, modulo 2^64 as in *)
(* the code.                                                               *)
(***************************************************************************)
EXTENDS Integers

CONSTANTS
  Entries,  \* a room with the address and port of an AVS
  Gap,      \* info_recheck_time_gap
  Cycle,    \* info_recheck_time_cycle
  MaxDelay, \* bound: how old a time read before the lock is when it is used
  Wrap,     \* 2^64
  NoEntry   \* the age of an entry that is not in the map

\* Ages above MaxAge make no difference to any comparison.
MaxAge == Gap + MaxDelay

ASSUME TimesArePositive == Gap \in Nat \ {0} /\ Cycle \in Nat \ {0} /\ MaxDelay \in Nat
ASSUME WrapIsLarge == Wrap \in Nat /\ Wrap >= 2 * MaxAge
ASSUME NoEntryIsNoAge == NoEntry \notin Int

VARIABLES
  age,        \* moAvsStatusInfo: age of the time stored for an entry
  alive,      \* external: is the AVS still running and sending its reports
  reporting,  \* the report the sync thread has read the clock for, if any
  stampAge,   \* ... and the age of the time it read
  checking,   \* has MainloopThread read the clock and decided to check
  curAge,     \* age of lu64curtime while it is checking
  sinceCheck, \* age of lu64recheckroom_list, which matters up to Cycle
  silent      \* history: the time since the last report of the entry was recorded

vars == <<age, alive, reporting, stampAge, checking, curAge, sinceCheck, silent>>

Ages == 0 .. MaxAge
Listed(e) == age[e] # NoEntry
Lesser(m, n) == IF m <= n THEN m ELSE n
Older(n, limit) == Lesser(n + 1, limit)

Init ==
  /\ age = [e \in Entries |-> NoEntry]
  /\ alive = [e \in Entries |-> TRUE]
  /\ reporting = NoEntry /\ stampAge = 0
  /\ checking = FALSE /\ curAge = 0 /\ sinceCheck = 0
  /\ silent = [e \in Entries |-> 0]
-----------------------------------------------------------------------------
\* Time passes. Neither thread takes longer than MaxDelay to get the lock.
Tick ==
  /\ reporting # NoEntry => stampAge < MaxDelay
  /\ checking => curAge < MaxDelay
  /\ age' = [e \in Entries |-> IF Listed(e) THEN Older(age[e], MaxAge) ELSE NoEntry]
  /\ silent' = [e \in Entries |-> Older(silent[e], MaxAge)]
  /\ stampAge' = IF reporting = NoEntry THEN 0 ELSE stampAge + 1
  /\ curAge' = IF checking THEN curAge + 1 ELSE 0
  /\ sinceCheck' = Older(sinceCheck, Cycle + MaxDelay)
  /\ UNCHANGED <<alive, reporting, checking>>

\* An AVS goes away and reports no more.
AvsDies(e) ==
  /\ alive[e] /\ reporting # e
  /\ alive' = [alive EXCEPT ![e] = FALSE]
  /\ UNCHANGED <<age, reporting, stampAge, checking, curAge, sinceCheck, silent>>

\* CRecvAVSStatusInfo::Maintain reads the clock ...
ReadReportTime(e) ==
  /\ alive[e] /\ reporting = NoEntry
  /\ reporting' = e /\ stampAge' = 0
  /\ UNCHANGED <<age, alive, checking, curAge, sinceCheck, silent>>

\* ... and UpdateAvsStatusInfo stores it under the lock.
UpdateAvsStatusInfo ==
  /\ reporting # NoEntry
  /\ age' = [age EXCEPT ![reporting] = stampAge]
  /\ silent' = [silent EXCEPT ![reporting] = stampAge]
  /\ reporting' = NoEntry /\ stampAge' = 0
  /\ UNCHANGED <<alive, checking, curAge, sinceCheck>>

\* MainloopThread: a round in which the check is due. In a round in which it is
\* not, nothing changes.
ReadCheckTime ==
  /\ ~ checking /\ sinceCheck >= Cycle
  /\ checking' = TRUE /\ curAge' = 0 /\ sinceCheck' = 0
  /\ UNCHANGED <<age, alive, reporting, stampAge, silent>>

\* Mutants: times out a tick early; does so only beyond the gap.
ExpiredEarly(a, cur) == (a - cur) % Wrap >= Gap - 1
ExpiredBeyondGap(a, cur) == (a - cur) % Wrap > Gap

\* iu64curtime - stored >= iu64timegap, in unsigned arithmetic.
Expired(a, cur) == (a - cur) % Wrap >= Gap

\* Mutant: stores the deadline, not the time.
DeadlineInstead(cur) == cur - Gap

\* The entries that stay have the time of the check stored as their own.
Refreshed(cur) == cur

CheckAvsStatusInfo ==
  /\ checking
  /\ age' = [e \in Entries |->
       IF ~ Listed(e) \/ Expired(age[e], curAge) THEN NoEntry ELSE Refreshed(curAge)]
  /\ checking' = FALSE /\ curAge' = 0
  /\ UNCHANGED <<alive, reporting, stampAge, sinceCheck, silent>>

SyncThread == (\E e \in Entries : ReadReportTime(e)) \/ UpdateAvsStatusInfo
MainloopThread == ReadCheckTime \/ CheckAvsStatusInfo

Next == Tick \/ (\E e \in Entries : AvsDies(e)) \/ SyncThread \/ MainloopThread

Spec == Init /\ [][Next]_vars

\* Time goes on, the main loop comes round every 100 ms, and a report whose time
\* is read is stored. Whether an AVS reports is up to the AVS.
FairSpec == Spec /\ WF_vars(Tick) /\ WF_vars(MainloopThread) /\ WF_vars(UpdateAvsStatusInfo)
-----------------------------------------------------------------------------
TypeOK ==
  /\ age \in [Entries -> Ages \cup {NoEntry}]
  /\ alive \in [Entries -> BOOLEAN]
  /\ reporting \in Entries \cup {NoEntry} /\ stampAge \in 0 .. MaxDelay
  /\ checking \in BOOLEAN /\ curAge \in 0 .. MaxDelay
  /\ sinceCheck \in 0 .. Cycle + MaxDelay
  /\ silent \in [Entries -> Ages]

\* An entry goes only if its AVS has been silent for the whole gap, or if its
\* report was stored between the check's look at the clock and its lock.
RemovedIfSilentOrOvertaken ==
  [][\A e \in Entries :
       Listed(e) /\ age'[e] = NoEntry => silent[e] >= Gap \/ silent[e] < curAge]_vars

\* RoomMgr.cpp:1025, "Time Out. AVS ... is unavalible and Removed": an entry is
\* removed only when its AVS has not been heard of for the gap.
RemovedOnTimeOutOnly ==
  [][\A e \in Entries : Listed(e) /\ age'[e] = NoEntry => silent[e] >= Gap]_vars

\* A check takes out every AVS that had been silent for the gap when it read the
\* clock, although each check stores its own time over the last report's: two checks
\* are the whole cycle apart. (A cycle below the gap would keep every entry for ever.)
SilentAvsIsRemovedByCheck ==
  [][Cycle >= Gap /\ checking /\ ~ checking' =>
       \A e \in Entries : silent[e] - curAge >= Gap => ~ Listed(e)']_vars

\* The same line, the other way round: an AVS that is gone for good is removed,
\* so that LINK_ROOM does not go to it for ever.
DeadAvsIsRemoved == \A e \in Entries : ~ alive[e] ~> ~ Listed(e)
=============================================================================
