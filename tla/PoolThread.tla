----------------------------- MODULE PoolThread -----------------------------
(***************************************************************************)
(* PoolThread: the threads of a pool as they are started, given tasks,     *)
(* stopped and joined.  Schedule, on the event thread, pushes to the first *)
(* of threads_ and makes a heap of threads_ anew, under lock_.  Start and  *)
(* Stop, on the main thread, go through threads_ by index WITHOUT the      *)
(* lock, while the event thread may be in Schedule: it is launched before  *)
(* the pools and joined after them.                                        *)
(*                                                                         *)
(* In which order a heap is left depends on loads that change while it is  *)
(* made, so any order is possible.  What a thread of the pool does between *)
(* two tasks is the matter of MessageQueue; here it runs the tasks of its  *)
(* queue in turn and may leave once it has run the stop task.              *)
(***************************************************************************)
EXTENDS Naturals, Sequences, FiniteSets

CONSTANTS
  PoolWorkers, \* the InternalThread objects
  Tasks,       \* bound: each is scheduled once
  Stopping     \* the task that Stop pushes

ASSUME PoolIsFinite == IsFiniteSet(PoolWorkers)
ASSUME StopIsNoTask == Stopping \notin Tasks

Size   == Cardinality(PoolWorkers)
Orders == {f \in [1 .. Size -> PoolWorkers] : \A i, j \in 1 .. Size : f[i] = f[j] => i = j}

VARIABLES
  threads,   \* PoolThread::threads_
  heaping,   \* the event thread is in make_heap
  fresh,     \* tasks not scheduled yet
  list,      \* per thread, the tasks in its queue
  done,      \* tasks that have run
  started,   \* threads whose std::thread has been created
  ended,     \* threads that have run the stop task
  left,      \* threads that have left their loop
  joined,    \* threads that have been joined
  main, idx, \* the main thread in Start and Stop
  target,    \* the thread Stop has called last: to stop or to join it
  told,      \* history: threads that were given the stop task
  owed,      \* history: the tasks scheduled before Stop
  disturbed  \* history: Schedule and Start or Stop have been in threads_ together

queueVars == <<threads, heaping, fresh, list, done, ended, left>>
mainVars == <<started, joined, main, idx, target, told, owed>>
poolVars == <<queueVars, mainVars, disturbed>>

InLoop == main \in {"starting", "stopping", "calling", "joining"}

PoolInit ==
  /\ threads \in Orders /\ heaping = FALSE
  /\ fresh = Tasks /\ list = [w \in PoolWorkers |-> <<>>] /\ done = {}
  /\ started = {} /\ ended = {} /\ left = {} /\ joined = {}
  /\ main = "starting" /\ idx = 1 /\ target \in PoolWorkers
  /\ told = {} /\ owed = {} /\ disturbed = FALSE
-----------------------------------------------------------------------------
(* The event thread. *)

Schedule(t) ==
  /\ ~ heaping /\ t \in fresh
  /\ list' = [list EXCEPT ![threads[1]] = Append(@, t)]
  /\ fresh' = fresh \ {t}
  /\ heaping' = TRUE
  /\ disturbed' = (disturbed \/ InLoop)
  /\ UNCHANGED <<threads, done, ended, left, mainVars>>

MakeHeap ==
  /\ heaping
  /\ threads' \in Orders
  /\ heaping' = FALSE
  /\ disturbed' = (disturbed \/ InLoop)
  /\ UNCHANGED <<fresh, list, done, ended, left, mainVars>>
-----------------------------------------------------------------------------
(* The main thread. *)

\* threads_[i], read without lock_: while the heap is made an element may be found
\* anywhere.
Read(i) == IF heaping THEN PoolWorkers ELSE {threads[i]}

\* Mutant: one thread is left out.
LastButOne(i) == i + 1 >= Size

IsLast(i) == i >= Size

\* The exception or std::terminate of a std::thread that is not as it should be.
Terminate ==
  /\ main' = "terminated"
  /\ UNCHANGED <<started, joined, idx, target, told, owed, queueVars>>

Start ==
  /\ main = "starting"
  /\ disturbed' = (disturbed \/ heaping)
  /\ \E w \in Read(idx) :
       IF w \in started
         THEN Terminate
         ELSE /\ started' = started \cup {w}
              /\ main' = IF IsLast(idx) THEN "running" ELSE "starting"
              /\ idx' = IF IsLast(idx) THEN 1 ELSE idx + 1
              /\ UNCHANGED <<joined, target, told, owed, queueVars>>

\* Stop is called.
CallStop ==
  /\ main = "running"
  /\ main' = "stopping"
  /\ owed' = Tasks \ fresh
  /\ UNCHANGED <<started, joined, idx, target, told, disturbed, queueVars>>

\* Mutant: the stop task goes before the others.
StopInFront(q) == <<Stopping>> \o q

WithStop(q) == Append(q, Stopping)

\* threads_[idx]->Stop()
Stop ==
  /\ main = "stopping"
  /\ disturbed' = (disturbed \/ heaping)
  /\ \E w \in Read(idx) :
       /\ list' = [list EXCEPT ![w] = WithStop(@)]
       /\ target' = w /\ told' = told \cup {w}
  /\ main' = "calling"
  /\ UNCHANGED <<threads, heaping, fresh, done, ended, left, started, joined, idx, owed>>

\* Mutant: the first thread is joined each time.
JoinsFirst(i) == 1

Joins(i) == i

\* threads_[idx]->Join(): the element is read again, ...
CallJoin ==
  /\ main = "calling"
  /\ disturbed' = (disturbed \/ heaping)
  /\ \E w \in Read(Joins(idx)) :
       IF w \in joined
         THEN Terminate
         ELSE /\ target' = w /\ main' = "joining"
              /\ UNCHANGED <<started, joined, idx, told, owed, queueVars>>

\* ... and join returns when that thread has left.
Join ==
  /\ main = "joining" /\ target \in left
  /\ joined' = joined \cup {target}
  /\ main' = IF IsLast(idx) THEN "stopped" ELSE "stopping"
  /\ idx' = IF IsLast(idx) THEN 1 ELSE idx + 1
  /\ UNCHANGED <<started, target, told, owed, disturbed, queueVars>>
-----------------------------------------------------------------------------
(* A thread of the pool. *)

Run(w) ==
  /\ w \in started \ left /\ list[w] # <<>>
  /\ list' = [list EXCEPT ![w] = Tail(@)]
  /\ IF Head(list[w]) = Stopping
       THEN ended' = ended \cup {w} /\ UNCHANGED done
       ELSE done' = done \cup {Head(list[w])} /\ UNCHANGED ended
  /\ UNCHANGED <<threads, heaping, fresh, left, mainVars, disturbed>>

Leave(w) ==
  /\ w \in ended \ left
  /\ left' = left \cup {w}
  /\ UNCHANGED <<threads, heaping, fresh, list, done, ended, mainVars, disturbed>>
-----------------------------------------------------------------------------
EventThread == MakeHeap \/ \E t \in Tasks : Schedule(t)
MainThread == Start \/ CallStop \/ Stop \/ CallJoin \/ Join
PoolNext ==
  /\ main # "terminated"
  /\ EventThread \/ MainThread \/ \E w \in PoolWorkers : Run(w) \/ Leave(w)

PoolSpec == PoolInit /\ [][PoolNext]_poolVars
-----------------------------------------------------------------------------
(* What must hold of every state. *)

PoolTypeOK ==
  /\ threads \in Orders /\ heaping \in BOOLEAN
  /\ fresh \subseteq Tasks /\ done \subseteq Tasks /\ owed \subseteq Tasks
  /\ list \in [PoolWorkers -> Seq(Tasks \cup {Stopping})]
  /\ started \subseteq PoolWorkers /\ ended \subseteq PoolWorkers
  /\ left \subseteq PoolWorkers /\ joined \subseteq PoolWorkers
  /\ told \subseteq PoolWorkers
  /\ main \in {"starting", "running", "stopping", "calling", "joining", "stopped",
               "terminated"}
  /\ idx \in 1 .. Size /\ target \in PoolWorkers /\ disturbed \in BOOLEAN

\* When Start has returned, every thread runs, although the heap may have been made
\* anew between any two of its turns: a thread that was passed over means another
\* that was started twice, which ends the process.
AllStarted ==
  main \in {"running", "stopping", "calling", "joining", "stopped"} => started = PoolWorkers

\* When Stop has returned, every thread has been joined, and every task scheduled
\* before Stop was called has run, whatever was scheduled meanwhile.
DrainedWhenStopped == main = "stopped" => joined = PoolWorkers /\ owed \subseteq done

\* If nothing is scheduled during Start and Stop, no thread is started or joined
\* twice, and Stop waits only for threads it has told to stop.
UndisturbedIsOrderly ==
  ~ disturbed => /\ main # "terminated"
                 /\ main = "joining" => target \in told
=============================================================================
