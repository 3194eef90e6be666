---------------------------- MODULE MCRoomMedia ----------------------------
(* Small instances of RoomMedia. *)
EXTENDS RoomMedia, TLC

MCSymmetry == Permutations(Conns) \cup Permutations(Addrs) \cup Permutations(ProxyIds)
                \cup Permutations(RoomObjs) \cup Permutations(UserObjs)
=============================================================================
