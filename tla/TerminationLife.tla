-------------------------- MODULE TerminationLife --------------------------
(***************************************************************************)
(* What the tasks of the sync pool may rely on when they are handed the    *)
(* address of a Termination: the object is not deleted, nor is its memory  *)
(* given to another connection, as long as one of them still has it.       *)
(* RoomMgr keeps this promise, RoomMedia is built on it.                   *)
(***************************************************************************)
CONSTANT Conns

VARIABLES
  life,  \* of a Termination: not allocated, registered, awaiting deletion
  held   \* the Terminations some task, waiting or running, has been handed

Init == life = [k \in Conns |-> "free"] /\ held = {}

Accept(k) ==
  life[k] = "free" /\ life' = [life EXCEPT ![k] = "open"] /\ UNCHANGED held

\* A request of the connection becomes a task.
Request(k) == life[k] = "open" /\ held' = held \cup {k} /\ UNCHANGED life

\* A task is over.
Release == held' \subseteq held /\ UNCHANGED life

Close(k) ==
  life[k] = "open" /\ life' = [life EXCEPT ![k] = "closing"] /\ UNCHANGED held

Delete(k) ==
  /\ life[k] = "closing" /\ k \notin held
  /\ life' = [life EXCEPT ![k] = "free"]
  /\ UNCHANGED held

Next ==
  \/ \E k \in Conns : Accept(k) \/ Request(k) \/ Close(k) \/ Delete(k)
  \/ Release

Spec == Init /\ [][Next]_<<life, held>>

\* What it is for: an address that a task has been handed is that of an object that is
\* still the same connection's.
HeldAreAllocated == \A k \in held : life[k] # "free"
=============================================================================
