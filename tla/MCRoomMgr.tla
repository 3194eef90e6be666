----------------------------- MODULE MCRoomMgr -----------------------------
(* Small instances of RoomMgr. Client ids and room ids overlap on purpose. *)
EXTENDS RoomMgr, TLC

CONSTANTS k1, k2, f1, f2

MCConns == {k1, k2}
MCClients == {1, 2}
MCRooms == {1, 2}

\* Connections and socket numbers are interchangeable.
MCSymmetry == Permutations(MCConns) \cup Permutations({f1, f2})
=============================================================================
