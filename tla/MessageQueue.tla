---------------------------- MODULE MessageQueue ----------------------------
(***************************************************************************)
(* MessageQueue<T> and the InternalThread that consumes it.                *)
(*                                                                         *)
(* The event thread pushes work, the main thread pushes the stop lambda    *)
(* once and joins. Push releases wait_list_lock_ before it notifies, and   *)
(* Wait blocks on the condition variable without looking at the list       *)
(* first, so a notification can find nobody waiting, and can find a worker *)
(* whose work is done already.                                             *)
(***************************************************************************)
EXTENDS Integers, Sequences, Functions

CONSTANTS
  Work,          \* the tasks, each pushed at most once
  StopTask,      \* the lambda of InternalThread::Stop
  NoTask,        \* an empty std::function
  SpuriousWakes  \* may wait() return although nobody notified?

ASSUME TasksAreDistinct == StopTask \notin Work /\ NoTask \notin Work \cup {StopTask}
ASSUME SpuriousWakesIsBoolean == SpuriousWakes \in BOOLEAN

Tasks == Work \cup {StopTask}
Pushers == {"event", "main"}

VARIABLES
  msg_wait_list_, msg_proc_list_,
  active_,       \* InternalThread::active_, used by the worker alone
  worker,        \* where the worker is in InternalThread::Start's loop
  package,       \* the task Pop returned, NoTask if none
  notifying,     \* the pushers that have yet to call notify_one
  joined,        \* has the main thread returned from Join
  pushed,        \* history: everything pushed, in order
  executed       \* history: everything run, in order

vars == <<msg_wait_list_, msg_proc_list_, active_, worker, package, notifying,
          joined, pushed, executed>>

Init ==
  /\ msg_wait_list_ = <<>> /\ msg_proc_list_ = <<>>
  /\ active_ = TRUE /\ worker = "loop" /\ package = NoTask
  /\ notifying = {} /\ joined = FALSE
  /\ pushed = <<>> /\ executed = <<>>
-----------------------------------------------------------------------------
\* An exception that leaves the thread ends the whole process.
Alive == worker # "terminated"

MayPush(p, t) == IF p = "main" THEN t = StopTask ELSE t \in Work

\* Mutant: the newest task is put in front.
WithFront(list, t) == <<t>> \o list

WithBack(list, t) == Append(list, t)

\* MessageQueue::Push, up to the release of wait_list_lock_ ...
Push(p, t) ==
  /\ Alive /\ p \notin notifying
  /\ MayPush(p, t) /\ t \notin Range(pushed)
  /\ msg_wait_list_' = WithBack(msg_wait_list_, t)
  /\ pushed' = Append(pushed, t)
  /\ notifying' = notifying \cup {p}
  /\ UNCHANGED <<msg_proc_list_, active_, worker, package, joined, executed>>

\* ... and notify_one, which is lost on a worker that is not blocked.
Notify(p) ==
  /\ Alive /\ p \in notifying
  /\ notifying' = notifying \ {p}
  /\ worker' = IF worker = "blocked" THEN "woken" ELSE worker
  /\ UNCHANGED <<msg_wait_list_, msg_proc_list_, active_, package, joined, pushed, executed>>

\* InternalThread::Join, after Stop has pushed and notified.
Join ==
  /\ worker = "exited" /\ StopTask \in Range(pushed) /\ "main" \notin notifying
  /\ joined' = TRUE
  /\ UNCHANGED <<msg_wait_list_, msg_proc_list_, active_, worker, package, notifying,
                 pushed, executed>>
-----------------------------------------------------------------------------
(* The worker. *)

\* while (active_) ... wait(): no predicate, so pushed work does not keep it up.
Wait ==
  /\ worker = "loop"
  /\ worker' = IF active_ THEN "blocked" ELSE "exited"
  /\ UNCHANGED <<msg_wait_list_, msg_proc_list_, active_, package, notifying, joined,
                 pushed, executed>>

SpuriousWake ==
  /\ SpuriousWakes /\ worker = "blocked"
  /\ worker' = "woken"
  /\ UNCHANGED <<msg_wait_list_, msg_proc_list_, active_, package, notifying, joined,
                 pushed, executed>>

\* Mutant: the task list is handed over by assignment of its first element.
FirstOf(list) == IF list = <<>> THEN <<>> ELSE <<Head(list)>>

Spliced(list) == list

\* The end of Wait: with the lock again, the waiting tasks become the batch.
Splice ==
  /\ worker = "woken"
  /\ msg_proc_list_' = msg_proc_list_ \o Spliced(msg_wait_list_)
  /\ msg_wait_list_' = <<>>
  /\ worker' = "pop"
  /\ UNCHANGED <<active_, package, notifying, joined, pushed, executed>>

\* Pop hands back an empty function when there is no task.
Pop ==
  /\ worker = "pop"
  /\ package' = IF msg_proc_list_ = <<>> THEN NoTask ELSE Head(msg_proc_list_)
  /\ msg_proc_list_' = IF msg_proc_list_ = <<>> THEN <<>> ELSE Tail(msg_proc_list_)
  /\ worker' = "run"
  /\ UNCHANGED <<msg_wait_list_, active_, notifying, joined, pushed, executed>>

\* Mutants: the loop ends after one task; the loop looks at active_ as well.
AfterOneTask(more, active) == "loop"
AfterTaskIfActive(more, active) == IF more /\ active THEN "pop" ELSE "loop"

\* do ... while (!Empty()): active_ is looked at between batches only.
AfterTask(more, active) == IF more THEN "pop" ELSE "loop"

Run ==
  /\ worker = "run" /\ package # NoTask
  /\ executed' = Append(executed, package)
  /\ active_' = (active_ /\ package # StopTask)
  /\ worker' = AfterTask(msg_proc_list_ # <<>>, active_')
  /\ package' = NoTask
  /\ UNCHANGED <<msg_wait_list_, msg_proc_list_, notifying, joined, pushed>>

\* package() on an empty std::function throws bad_function_call.
RunEmpty ==
  /\ worker = "run" /\ package = NoTask
  /\ worker' = "terminated"
  /\ UNCHANGED <<msg_wait_list_, msg_proc_list_, active_, package, notifying, joined,
                 pushed, executed>>

Worker == Wait \/ Splice \/ Pop \/ Run \/ RunEmpty

Next ==
  \/ \E p \in Pushers : (\E t \in Tasks : Push(p, t)) \/ Notify(p)
  \/ Join \/ SpuriousWake \/ Worker

Spec == Init /\ [][Next]_vars

\* The threads are scheduled: the worker goes on, and who has pushed notifies.
FairSpec == Spec /\ WF_vars(Worker) /\ WF_vars(Join)
                 /\ \A p \in Pushers : WF_vars(Notify(p))
-----------------------------------------------------------------------------
TypeOK ==
  /\ msg_wait_list_ \in Seq(Tasks) /\ msg_proc_list_ \in Seq(Tasks)
  /\ active_ \in BOOLEAN /\ joined \in BOOLEAN
  /\ worker \in {"loop", "blocked", "woken", "pop", "run", "exited", "terminated"}
  /\ package \in Tasks \cup {NoTask}
  /\ notifying \subseteq Pushers
  /\ pushed \in Seq(Tasks) /\ executed \in Seq(Tasks)

Taken == IF package = NoTask THEN <<>> ELSE <<package>>

\* No task is lost, repeated or overtaken on its way through the two lists,
\* wherever the worker is and however often it was woken for nothing.
NothingLostOrReordered ==
  executed \o (Taken \o (msg_proc_list_ \o msg_wait_list_)) = pushed

\* A worker that waits, is about to, or has left its loop has run all it ever took:
\* what is not run is still in the list that the next wake-up hands over. (The part of
\* WokenWorkerRunsAllWaiting that needs no fairness.)
IdleWorkerOwesNothing ==
  worker \in {"loop", "blocked", "woken", "exited"} => executed \o msg_wait_list_ = pushed

\* When the worker has left its loop, and so whenever Join returns, the stop task
\* has run and with it everything pushed before; the batch the stop task was in
\* has run to its end too.
ExitedAfterAllBeforeStop ==
  /\ joined => worker = "exited"
  /\ worker = "exited" =>
       /\ msg_proc_list_ = <<>> /\ StopTask \in Range(executed)
       /\ \A i, j \in DOMAIN pushed : i < j /\ pushed[j] = StopTask => pushed[i] \in Range(executed)

\* The thread implements the abstract queue: order and at-most-once.
AbstractQueue ==
  INSTANCE TaskQueue WITH queue <- msg_proc_list_ \o msg_wait_list_, running <- package
ImplementsTaskQueue == AbstractQueue!Spec

\* A wake-up is enough for everything that waits by then: the batch the worker
\* takes is run to its last task, the stop task in the middle of it included.
WokenWorkerRunsAllWaiting ==
  \A t \in Tasks : worker = "woken" /\ t \in Range(msg_wait_list_) ~> t \in Range(executed)

\* A request handed to the pool is answered: RoomMgr.cpp:155 "Response the request"
\* says it of LOGIN, whose task only this thread can run.
PushedWorkIsRun ==
  \A t \in Work : t \in Range(pushed) ~> t \in Range(executed) \/ worker \in {"exited", "terminated"}

\* MessageQueue.hpp:42 "we needn't take care of synchronization" of Pop: the thread
\* that pops always has a task to run.
PopFindsATask == worker = "run" => package # NoTask
=============================================================================
