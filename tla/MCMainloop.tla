----------------------------- MODULE MCMainloop -----------------------------
(* A small instance of Mainloop: two AVS of one room. *)
EXTENDS Mainloop

CONSTANTS e1, e2, r1

MCRoomOf == [e \in Entries |-> r1]
=============================================================================
