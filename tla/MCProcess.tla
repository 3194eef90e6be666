----------------------------- MODULE MCProcess -----------------------------
(***************************************************************************)
(* A small instance of the threads of the process: first the way its pools *)
(* are started, fed and stopped (PoolThread), then, instead, the mutexes   *)
(* its threads take (LockOrder). The two share no state, so each moves     *)
(* only while the other has not begun.                                    *)
(***************************************************************************)
EXTENDS LockOrder, PoolThread

CONSTANTS m1, w1, w2, w3, t1, t2

MCInit == Init /\ PoolInit

PoolIsNew ==
  /\ main = "starting" /\ idx = 1 /\ fresh = Tasks
  /\ threads = <<w1, w2, w3>> /\ target = w1

LocksAreUnused == header = Nobody /\ \A t \in Threads : todo[t] = <<Free>>

MCNext ==
  \/ PoolIsNew /\ Next /\ UNCHANGED poolVars
  \/ LocksAreUnused /\ PoolNext /\ UNCHANGED vars

MCSpec == MCInit /\ [][MCNext]_<<vars, poolVars>>
=============================================================================
