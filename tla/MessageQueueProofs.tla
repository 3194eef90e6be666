------------------------ MODULE MessageQueueProofs ------------------------
(***************************************************************************)
(* What MessageQueue and its consumer keep, for every set of tasks: order, *)
(* at-most-once, what a thread that has left its loop has done, and that   *)
(* the two lists together implement one abstract queue.                    *)
(***************************************************************************)
EXTENDS MessageQueue, SequenceTheorems, TLAPS

USE TasksAreDistinct, SpuriousWakesIsBoolean

\* Pop overwrites package, so it must have been run by then.
PackageOnlyInRun == worker # "run" => package = NoTask

\* The batch is empty wherever the worker may wait or leave.
BatchOnlyInLoop == worker \in {"loop", "blocked", "woken", "exited"} => msg_proc_list_ = <<>>

\* A task is pushed once; in particular Stop is called once.
PushedOnce == \A i, j \in DOMAIN pushed : pushed[i] = pushed[j] => i = j

\* Only the stop lambda clears active_, and only then does the loop end.
StopEndsLoop ==
  /\ ~ active_ => StopTask \in Range(executed)
  /\ worker = "exited" => ~ active_
  /\ joined => worker = "exited"

IInv ==
  /\ TypeOK /\ PackageOnlyInRun /\ BatchOnlyInLoop
  /\ NothingLostOrReordered /\ PushedOnce /\ StopEndsLoop
-----------------------------------------------------------------------------
\* An element is appended to what is behind a prefix, or to the whole.
LEMMA AppendToConcat ==
  ASSUME NEW S, NEW s \in Seq(S), NEW t \in Seq(S), NEW e \in S
  PROVE  s \o Append(t, e) = Append(s \o t, e)
<1>1. /\ Append(t, e) = t \o <<e>> /\ <<e>> \in Seq(S)
      /\ s \o t \in Seq(S)
  BY AppendIsConcat, ConcatProperties
<1>2. Append(s \o t, e) = (s \o t) \o <<e>>
  BY <1>1, AppendIsConcat
<1>3. QED
  BY <1>1, <1>2, ConcatAssociative

\* A non-empty sequence is its head followed by its tail.
LEMMA HeadThenTail ==
  ASSUME NEW S, NEW s \in Seq(S), s # <<>>
  PROVE  /\ Head(s) \in S /\ Tail(s) \in Seq(S) /\ <<Head(s)>> \in Seq(S)
         /\ <<Head(s)>> \o Tail(s) = s
<1>1. /\ Head(s) \in S /\ Tail(s) \in Seq(S) /\ Len(s) \in Nat \ {0}
      /\ Len(Tail(s)) = Len(s) - 1
      /\ \A i \in 1 .. Len(Tail(s)) : Tail(s)[i] = s[i + 1]
  BY HeadTailProperties, EmptySeq
<1>2. <<Head(s)>> \in Seq(S) /\ Len(<<Head(s)>>) = 1 /\ <<Head(s)>>[1] = s[1]
  BY <1>1
<1> DEFINE u == <<Head(s)>> \o Tail(s)
<1>3. /\ u \in Seq(S) /\ Len(u) = Len(s)
      /\ \A i \in 1 .. Len(s) : u[i] = IF i <= 1 THEN <<Head(s)>>[i] ELSE Tail(s)[i - 1]
  BY <1>1, <1>2, ConcatProperties
<1>4. \A i \in 1 .. Len(s) : u[i] = s[i]
  BY <1>1, <1>2, <1>3
<1>5. u = s
  BY <1>3, <1>4, SeqEqual
<1>6. QED
  BY <1>1, <1>2, <1>5

\* Taking the head of a list does not disturb what is behind the list.
LEMMA HeadInFront ==
  ASSUME NEW S, NEW s \in Seq(S), NEW t \in Seq(S), s # <<>>
  PROVE  <<Head(s)>> \o (Tail(s) \o t) = s \o t
<1>1. \A u, v \in Seq(S) : (u \o v) \o t = u \o (v \o t)
  BY ConcatAssociative
<1>2. /\ <<Head(s)>> \in Seq(S) /\ Tail(s) \in Seq(S)
      /\ <<Head(s)>> \o Tail(s) = s
  BY HeadThenTail
<1>3. (<<Head(s)>> \o Tail(s)) \o t = <<Head(s)>> \o (Tail(s) \o t)
  BY <1>1, <1>2, Zenon
<1>4. QED
  BY <1>2, <1>3, Zenon

\* Appending adds one element and loses none.
LEMMA RangeOfAppend ==
  ASSUME NEW S, NEW s \in Seq(S), NEW e \in S
  PROVE  Range(Append(s, e)) = Range(s) \cup {e}
<1>1. <<e>> \in Seq(S) /\ Len(<<e>>) = 1 /\ <<e>>[1] = e
  OBVIOUS
<1>2. Range(<<e>>) = {<<e>>[i] : i \in 1 .. Len(<<e>>)}
  BY <1>1, RangeEquality
<1>3. Range(<<e>>) = {e}
  BY <1>1, <1>2
<1>4. Append(s, e) = s \o <<e>>
  BY AppendIsConcat
<1>5. Range(s \o <<e>>) = Range(s) \cup Range(<<e>>)
  <2> DEFINE u == <<e>>
  <2>1. u \in Seq(S)
    BY <1>1
  <2> HIDE DEF u
  <2>2. Range(s \o u) = Range(s) \cup Range(u)
    BY <2>1, RangeConcatenation
  <2>3. QED
    BY <2>2 DEF u
<1>6. QED
  BY <1>3, <1>4, <1>5

-----------------------------------------------------------------------------
\* The types of MessageQueue.tla, kept by every step.
LEMMA NextTypeOK == TypeOK /\ [Next]_vars => TypeOK'
<1> SUFFICES ASSUME TypeOK, [Next]_vars PROVE TypeOK'
  OBVIOUS
<1> USE DEF TypeOK, Tasks, Pushers
<1>1. ASSUME NEW p \in Pushers, NEW t \in Tasks, Push(p, t) PROVE TypeOK'
  BY <1>1, AppendProperties DEF Push, WithBack
<1>2. ASSUME NEW p \in Pushers, Notify(p) PROVE TypeOK'
  BY <1>2 DEF Notify
<1>3. CASE Join \/ SpuriousWake \/ Wait \/ RunEmpty
  BY <1>3 DEF Join, SpuriousWake, Wait, RunEmpty
<1>4. CASE Splice
  BY <1>4, ConcatProperties, EmptySeq DEF Splice, Spliced
<1>5. CASE Pop
  BY <1>5, HeadTailProperties DEF Pop
<1>6. CASE Run
  BY <1>6, AppendProperties DEF Run, AfterTask
<1>7. CASE UNCHANGED vars
  BY <1>7 DEF vars
<1>8. QED
  BY <1>1, <1>2, <1>3, <1>4, <1>5, <1>6, <1>7 DEF Next, Worker

\* Every step keeps the tasks in order: a push adds one behind both histories,
\* every other step moves a task from one place to the next.
LEMMA NextOrder ==
  IInv /\ [Next]_vars => NothingLostOrReordered'
<1> SUFFICES ASSUME IInv, [Next]_vars PROVE NothingLostOrReordered'
  OBVIOUS
<1> USE DEF IInv, TypeOK, NothingLostOrReordered
<1>1. /\ Taken \in Seq(Tasks) /\ msg_proc_list_ \o msg_wait_list_ \in Seq(Tasks)
      /\ Taken \o (msg_proc_list_ \o msg_wait_list_) \in Seq(Tasks)
  <2>1. Taken \in Seq(Tasks)
    BY EmptySeq DEF Taken
  <2>2. QED
    BY <2>1, ConcatProperties
<1>2. ASSUME NEW p \in Pushers, NEW t \in Tasks, Push(p, t) PROVE NothingLostOrReordered'
  <2>1. /\ msg_wait_list_' = Append(msg_wait_list_, t) /\ pushed' = Append(pushed, t)
        /\ UNCHANGED <<msg_proc_list_, package, executed>> /\ Taken' = Taken
    BY <1>2 DEF Push, WithBack, Taken
  <2>2. (msg_proc_list_ \o msg_wait_list_)' = Append(msg_proc_list_ \o msg_wait_list_, t)
    BY <2>1, AppendToConcat
  <2>3. (Taken \o (msg_proc_list_ \o msg_wait_list_))'
          = Append(Taken \o (msg_proc_list_ \o msg_wait_list_), t)
    BY <1>1, <2>1, <2>2, AppendToConcat
  <2>4. executed \o Append(Taken \o (msg_proc_list_ \o msg_wait_list_), t)
          = Append(executed \o (Taken \o (msg_proc_list_ \o msg_wait_list_)), t)
    <3> DEFINE rest == Taken \o (msg_proc_list_ \o msg_wait_list_)
    <3>1. rest \in Seq(Tasks) /\ executed \in Seq(Tasks)
      BY <1>1
    <3> HIDE DEF rest
    <3>2. executed \o Append(rest, t) = Append(executed \o rest, t)
      BY <3>1, AppendToConcat
    <3>3. QED
      BY <3>2 DEF rest
  <2>5. QED
    BY <2>1, <2>3, <2>4
<1>3. CASE UNCHANGED <<msg_wait_list_, msg_proc_list_, package, executed, pushed>>
  BY <1>3 DEF Taken
<1>4. CASE Splice
  <2>1. /\ msg_wait_list_' = <<>> /\ UNCHANGED <<package, executed, pushed>> /\ Taken' = Taken
        /\ msg_proc_list_' = msg_proc_list_ \o msg_wait_list_
    BY <1>4 DEF Splice, Spliced, Taken
  <2>2. msg_proc_list_' \o msg_wait_list_' = msg_proc_list_ \o msg_wait_list_
    BY <1>1, <2>1, ConcatEmptySeq
  <2>3. QED
    BY <2>1, <2>2
<1>5. CASE Pop
  <2>1. package = NoTask /\ Taken = <<>>
    BY <1>5 DEF Pop, PackageOnlyInRun, Taken
  <2>2. CASE msg_proc_list_ = <<>>
    <3>1. Taken' = Taken /\ UNCHANGED <<msg_proc_list_, msg_wait_list_, executed, pushed>>
      BY <1>5, <2>1, <2>2 DEF Pop, Taken
    <3>2. QED
      BY <3>1
  <2>3. CASE msg_proc_list_ # <<>>
    <3>1. /\ Head(msg_proc_list_) \in Tasks /\ Tail(msg_proc_list_) \in Seq(Tasks)
          /\ <<Head(msg_proc_list_)>> \in Seq(Tasks)
          /\ <<Head(msg_proc_list_)>> \o Tail(msg_proc_list_) = msg_proc_list_
      BY <2>3, HeadThenTail
    <3>2. /\ UNCHANGED <<msg_wait_list_, executed, pushed>>
          /\ msg_proc_list_' = Tail(msg_proc_list_) /\ package' = Head(msg_proc_list_)
      BY <1>5, <2>3 DEF Pop
    <3>3. Taken' = <<Head(msg_proc_list_)>>
      BY <3>1, <3>2 DEF Taken, Tasks
    <3>4. <<Head(msg_proc_list_)>> \o (Tail(msg_proc_list_) \o msg_wait_list_)
            = msg_proc_list_ \o msg_wait_list_
      BY <2>3, HeadInFront
    <3>5. <<>> \o (msg_proc_list_ \o msg_wait_list_) = msg_proc_list_ \o msg_wait_list_
      BY <1>1, ConcatEmptySeq
    <3>6. QED
      BY <2>1, <3>1, <3>2, <3>3, <3>4, <3>5
  <2>4. QED
    BY <2>2, <2>3
<1>6. CASE Run
  <2> DEFINE rest == msg_proc_list_ \o msg_wait_list_
  <2>1. /\ UNCHANGED <<msg_proc_list_, msg_wait_list_, pushed>>
        /\ executed' = Append(executed, package) /\ package' = NoTask
        /\ package \in Tasks /\ Taken = <<package>>
    BY <1>6 DEF Run, Taken
  <2>2. Taken' = <<>> /\ rest' = rest
    BY <2>1 DEF Taken
  <2>3. executed' = executed \o <<package>>
    BY <2>1, AppendIsConcat
  <2>4. Taken' \o rest' = rest
    BY <1>1, <2>2, ConcatEmptySeq
  <2>5. (executed \o <<package>>) \o rest = executed \o (<<package>> \o rest)
    BY <1>1, <2>1, ConcatAssociative
  <2>6. QED
    BY <2>1, <2>3, <2>4, <2>5
<1>7. CASE UNCHANGED vars
  BY <1>3, <1>7 DEF vars
<1>8. ASSUME NEW p \in Pushers, Notify(p) PROVE NothingLostOrReordered'
  BY <1>3, <1>8 DEF Notify
<1>9. CASE Join \/ SpuriousWake \/ Wait \/ RunEmpty
  BY <1>3, <1>9 DEF Join, SpuriousWake, Wait, RunEmpty
<1>10. QED
  BY <1>2, <1>4, <1>5, <1>6, <1>7, <1>8, <1>9 DEF Next, Worker

\* A task that is pushed was not pushed before.
LEMMA NextPushedOnce ==
  TypeOK /\ PushedOnce /\ [Next]_vars => PushedOnce'
<1> SUFFICES ASSUME TypeOK, PushedOnce, [Next]_vars PROVE PushedOnce'
  OBVIOUS
<1>1. ASSUME NEW p \in Pushers, NEW t \in Tasks, Push(p, t) PROVE PushedOnce'
  <2> DEFINE n == Len(pushed)
  <2>1. pushed' = Append(pushed, t) /\ t \notin Range(pushed) /\ pushed \in Seq(Tasks)
    BY <1>1 DEF Push, TypeOK
  <2>2. /\ n \in Nat /\ DOMAIN pushed = 1 .. n /\ DOMAIN pushed' = 1 .. n + 1
        /\ \A i \in 1 .. n : pushed'[i] = pushed[i]
        /\ pushed'[n + 1] = t
    BY <2>1, AppendProperties, LenProperties
  <2>3. \A i \in 1 .. n : pushed[i] # t
    BY <2>1, RangeEquality
  <2>4. QED
    BY <2>2, <2>3 DEF PushedOnce
<1>2. CASE UNCHANGED pushed
  BY <1>2 DEF PushedOnce
<1>3. QED
  BY <1>1, <1>2 DEF Next, Worker, Notify, Join, SpuriousWake, Wait, Splice, Pop, Run, RunEmpty, vars

\* The parts of IInv that follow the worker round its loop.
LEMMA NextLoop ==
  IInv /\ [Next]_vars => (PackageOnlyInRun /\ BatchOnlyInLoop /\ StopEndsLoop)'
<1> SUFFICES ASSUME IInv, [Next]_vars
             PROVE  (PackageOnlyInRun /\ BatchOnlyInLoop /\ StopEndsLoop)'
  OBVIOUS
<1> USE DEF IInv, PackageOnlyInRun, BatchOnlyInLoop, StopEndsLoop
<1>1. ASSUME NEW p \in Pushers, (\E t \in Tasks : Push(p, t)) \/ Notify(p)
      PROVE  (PackageOnlyInRun /\ BatchOnlyInLoop /\ StopEndsLoop)'
  BY <1>1 DEF Push, Notify
<1>2. CASE Join \/ SpuriousWake \/ Wait \/ RunEmpty \/ UNCHANGED vars
  BY <1>2 DEF Join, SpuriousWake, Wait, RunEmpty, vars
<1>3. CASE Splice \/ Pop
  BY <1>3 DEF Splice, Pop
<1>4. CASE Run
  <2>1. Range(executed') = Range(executed) \cup {package}
    BY <1>4, RangeOfAppend DEF Run, TypeOK
  <2>2. QED
    BY <1>4, <2>1 DEF Run, AfterTask, TypeOK
<1>5. QED
  BY <1>1, <1>2, <1>3, <1>4 DEF Next, Worker
-----------------------------------------------------------------------------
\* IInv holds in every reachable state.
THEOREM Invariance == Spec => []IInv
<1>1. Init => IInv
  <2> SUFFICES ASSUME Init PROVE IInv
    OBVIOUS
  <2>1. <<>> \in Seq(Tasks) /\ DOMAIN <<>> = {}
    BY EmptySeq, LenProperties
  <2>2. <<>> \o (<<>> \o (<<>> \o <<>>)) = <<>>
    BY <2>1, ConcatEmptySeq
  <2>3. NothingLostOrReordered /\ PushedOnce
    BY <2>1, <2>2 DEF Init, NothingLostOrReordered, PushedOnce, Taken
  <2>4. QED
    BY <2>1, <2>3 DEF Init, IInv, TypeOK, PackageOnlyInRun, BatchOnlyInLoop, StopEndsLoop, Pushers
<1>2. IInv /\ [Next]_vars => IInv'
  BY NextTypeOK, NextOrder, NextPushedOnce, NextLoop DEF IInv
<1>3. QED
  BY <1>1, <1>2, PTL DEF Spec

\* MessageQueue.hpp and InternalThread: the variables keep their types.
THEOREM TypeCorrect == Spec => []TypeOK
<1>1. IInv => TypeOK
  BY DEF IInv
<1>2. QED
  BY <1>1, Invariance, PTL

\* Wait's splice, Pop and the loop of InternalThread::Start lose, repeat and
\* reorder nothing.
THEOREM TasksKeepTheirOrder == Spec => []NothingLostOrReordered
<1>1. IInv => NothingLostOrReordered
  BY DEF IInv
<1>2. QED
  BY <1>1, Invariance, PTL

\* The loop over a batch ends with the batch: a worker that may block, with or without
\* being notified, has no task in hand that another push would have to bring forth.
THEOREM IdleWorkerRanItsBatch == Spec => []IdleWorkerOwesNothing
<1>1. ASSUME IInv PROVE IdleWorkerOwesNothing
  <2> SUFFICES ASSUME worker \in {"loop", "blocked", "woken", "exited"}
               PROVE  executed \o msg_wait_list_ = pushed
    BY DEF IdleWorkerOwesNothing
  <2>1. Taken = <<>> /\ msg_proc_list_ = <<>>
    BY <1>1 DEF IInv, PackageOnlyInRun, BatchOnlyInLoop, Taken
  <2>2. /\ msg_wait_list_ \in Seq(Tasks)
        /\ executed \o (Taken \o (msg_proc_list_ \o msg_wait_list_)) = pushed
    BY <1>1 DEF IInv, TypeOK, NothingLostOrReordered
  <2>3. <<>> \o msg_wait_list_ = msg_wait_list_
    BY <2>2, ConcatEmptySeq
  <2>4. QED
    BY <2>1, <2>2, <2>3
<1>2. QED
  BY <1>1, Invariance, PTL

\* A shared element of a prefix and the whole stands in the prefix only, when the
\* whole has no duplicates; so what comes before it is in the prefix too.
LEMMA BeforeInPrefix ==
  ASSUME NEW S, NEW s \in Seq(S), NEW t \in Seq(S), NEW e \in Range(s),
         \A i, j \in DOMAIN (s \o t) : (s \o t)[i] = (s \o t)[j] => i = j
  PROVE  \A i, j \in DOMAIN (s \o t) : i < j /\ (s \o t)[j] = e => (s \o t)[i] \in Range(s)
<1>1. PICK m \in 1 .. Len(s) : s[m] = e
  BY RangeEquality
<1>2. /\ Len(s) \in Nat /\ Len(t) \in Nat
      /\ DOMAIN (s \o t) = 1 .. Len(s) + Len(t)
      /\ \A i \in 1 .. Len(s) : (s \o t)[i] = s[i]
  BY ConcatProperties, LenProperties
<1>3. (s \o t)[m] = e
  BY <1>1, <1>2
<1>4. \A i \in 1 .. Len(s) : s[i] \in Range(s)
  BY RangeEquality
<1>5. SUFFICES ASSUME NEW i \in DOMAIN (s \o t), NEW j \in DOMAIN (s \o t),
                      i < j, (s \o t)[j] = e
               PROVE  (s \o t)[i] \in Range(s)
  OBVIOUS
<1>6. j = m
  BY <1>1, <1>2, <1>3, <1>5
<1>7. i \in 1 .. Len(s)
  BY <1>1, <1>2, <1>5, <1>6
<1>8. QED
  BY <1>2, <1>4, <1>7

\* InternalThread::Stop and Join: everything pushed before the stop lambda has
\* run when the thread has left its loop.
THEOREM StopIsOrderly == Spec => []ExitedAfterAllBeforeStop
<1>1. ASSUME IInv PROVE ExitedAfterAllBeforeStop
  <2> USE <1>1 DEF IInv, StopEndsLoop
  <2>1. joined => worker = "exited"
    OBVIOUS
  <2>2. SUFFICES ASSUME worker = "exited"
        PROVE  /\ msg_proc_list_ = <<>> /\ StopTask \in Range(executed)
               /\ \A i, j \in DOMAIN pushed :
                     i < j /\ pushed[j] = StopTask => pushed[i] \in Range(executed)
    BY <2>1 DEF ExitedAfterAllBeforeStop
  <2>3. msg_proc_list_ = <<>> /\ StopTask \in Range(executed)
    BY <2>2 DEF BatchOnlyInLoop
  <2> DEFINE rest == Taken \o (msg_proc_list_ \o msg_wait_list_)
  <2>4. Taken \in Seq(Tasks) /\ msg_proc_list_ \o msg_wait_list_ \in Seq(Tasks)
    BY EmptySeq, ConcatProperties DEF TypeOK, Taken
  <2>5. rest \in Seq(Tasks) /\ executed \in Seq(Tasks) /\ executed \o rest = pushed
    BY <2>4, ConcatProperties DEF TypeOK, NothingLostOrReordered
  <2> HIDE DEF rest
  <2>6. \A i, j \in DOMAIN (executed \o rest) :
          (executed \o rest)[i] = (executed \o rest)[j] => i = j
    BY <2>5 DEF PushedOnce
  <2>7. \A i, j \in DOMAIN (executed \o rest) :
          i < j /\ (executed \o rest)[j] = StopTask => (executed \o rest)[i] \in Range(executed)
    BY <2>3, <2>5, <2>6, BeforeInPrefix
  <2>8. QED
    BY <2>3, <2>5, <2>7
<1>2. QED
  BY <1>1, Invariance, PTL
-----------------------------------------------------------------------------
\* Head and tail of a list in front of another are those of the whole.
LEMMA HeadOfConcat ==
  ASSUME NEW S, NEW s \in Seq(S), NEW t \in Seq(S), s # <<>>
  PROVE  s \o t # <<>> /\ Head(s \o t) = Head(s) /\ Tail(s \o t) = Tail(s) \o t
<1> DEFINE u == s \o t
<1>1. /\ Len(s) \in Nat \ {0} /\ Len(t) \in Nat
      /\ Tail(s) \in Seq(S) /\ Len(Tail(s)) = Len(s) - 1
      /\ \A i \in 1 .. Len(s) - 1 : Tail(s)[i] = s[i + 1]
  BY EmptySeq, LenProperties, HeadTailProperties
<1>2. /\ u \in Seq(S) /\ Len(u) = Len(s) + Len(t)
      /\ \A i \in 1 .. Len(s) + Len(t) : u[i] = IF i <= Len(s) THEN s[i] ELSE t[i - Len(s)]
  BY ConcatProperties
<1>3. u # <<>> /\ u[1] = s[1]
  BY <1>1, <1>2
<1>4. Head(u) = Head(s)
  BY <1>2, <1>3
<1>5. /\ Tail(u) \in Seq(S) /\ Len(Tail(u)) = Len(u) - 1
      /\ \A i \in 1 .. Len(u) - 1 : Tail(u)[i] = u[i + 1]
  BY <1>2, <1>3, HeadTailProperties
<1> DEFINE v == Tail(s) \o t
<1>6. /\ v \in Seq(S) /\ Len(v) = Len(s) - 1 + Len(t)
      /\ \A i \in 1 .. Len(s) - 1 + Len(t) :
            v[i] = IF i <= Len(s) - 1 THEN Tail(s)[i] ELSE t[i - (Len(s) - 1)]
  BY <1>1, ConcatProperties
<1>7. \A i \in 1 .. Len(Tail(u)) : Tail(u)[i] = v[i]
  BY <1>1, <1>2, <1>5, <1>6
<1>8. Tail(u) = v
  BY <1>1, <1>2, <1>5, <1>6, <1>7, SeqEqual
<1>9. QED
  BY <1>3, <1>4, <1>8

\* The two lists of MessageQueue and the function Pop handed out are one FIFO
\* queue with one consumer: wake-ups, lost or spurious, are stutters of it.
THEOREM MessageQueueIsAQueue == Spec => ImplementsTaskQueue
<1> DEFINE q == msg_proc_list_ \o msg_wait_list_
<1>1. Init => AbstractQueue!Init
  <2>1. <<>> \in Seq(Tasks)
    BY EmptySeq
  <2>2. QED
    BY <2>1, ConcatEmptySeq DEF Init, AbstractQueue!Init
<1>2. IInv /\ [Next]_vars => [AbstractQueue!Next]_<<q, package>>
  <2> SUFFICES ASSUME IInv, [Next]_vars PROVE AbstractQueue!Next \/ UNCHANGED <<q, package>>
    OBVIOUS
  <2> USE DEF IInv, TypeOK
  <2>1. ASSUME NEW p \in Pushers, NEW t \in Tasks, Push(p, t) PROVE AbstractQueue!Next
    <3>1. msg_wait_list_' = Append(msg_wait_list_, t) /\ UNCHANGED <<msg_proc_list_, package>>
      BY <2>1 DEF Push, WithBack
    <3>2. msg_proc_list_ \o Append(msg_wait_list_, t) = Append(q, t)
      BY AppendToConcat
    <3>3. q' = Append(q, t) /\ UNCHANGED package
      BY <3>1, <3>2
    <3>4. QED
      BY <3>3 DEF AbstractQueue!Next, AbstractQueue!Push
  <2>2. CASE UNCHANGED <<msg_wait_list_, msg_proc_list_, package>>
    BY <2>2
  <2>3. CASE Splice
    <3>1. /\ msg_proc_list_' = q /\ msg_wait_list_' = <<>> /\ UNCHANGED package
      BY <2>3 DEF Splice, Spliced
    <3>2. q \in Seq(Tasks)
      BY ConcatProperties
    <3>3. q' = q
      BY <3>1, <3>2, ConcatEmptySeq
    <3>4. QED
      BY <3>1, <3>3
  <2>4. CASE Pop
    <3>1. package = NoTask /\ UNCHANGED msg_wait_list_
      BY <2>4 DEF Pop, PackageOnlyInRun
    <3>2. CASE msg_proc_list_ = <<>>
      BY <2>4, <3>1, <3>2 DEF Pop
    <3>3. CASE msg_proc_list_ # <<>>
      <4>1. msg_proc_list_' = Tail(msg_proc_list_) /\ package' = Head(msg_proc_list_)
        BY <2>4, <3>3 DEF Pop
      <4>2. /\ q # <<>> /\ Head(q) = Head(msg_proc_list_)
            /\ Tail(q) = Tail(msg_proc_list_) \o msg_wait_list_
        BY <3>3, HeadOfConcat
      <4>3. q # <<>> /\ package' = Head(q) /\ q' = Tail(q)
        BY <3>1, <4>1, <4>2
      <4>4. QED
        BY <3>1, <4>3 DEF AbstractQueue!Next, AbstractQueue!Begin
    <3>4. QED
      BY <3>2, <3>3
  <2>5. CASE Run
    BY <2>5 DEF Run, AbstractQueue!Next, AbstractQueue!End
  <2>6. QED
    BY <2>1, <2>2, <2>3, <2>4, <2>5
       DEF Next, Worker, Notify, Join, SpuriousWake, Wait, RunEmpty, vars
<1>3. QED
  BY <1>1, <1>2, Invariance, PTL DEF Spec, ImplementsTaskQueue, AbstractQueue!Spec
=============================================================================
