----------------------------- MODULE TaskQueue -----------------------------
(***************************************************************************)
(* What a pool thread promises: tasks run one at a time, each of them once, *)
(* in the order in which they were pushed. It does not promise that a       *)
(* pushed task is ever run.                                                 *)
(***************************************************************************)
EXTENDS Sequences

CONSTANTS Tasks, NoTask

VARIABLES queue, running

Init == queue = <<>> /\ running = NoTask

Push(t) == queue' = Append(queue, t) /\ UNCHANGED running

Begin ==
  /\ running = NoTask /\ queue # <<>>
  /\ running' = Head(queue) /\ queue' = Tail(queue)

End == running # NoTask /\ running' = NoTask /\ UNCHANGED queue

Next == (\E t \in Tasks : Push(t)) \/ Begin \/ End

Spec == Init /\ [][Next]_<<queue, running>>
=============================================================================
