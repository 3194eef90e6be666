---------------------------- MODULE LinkService ----------------------------
(***************************************************************************)
(* What RoomMgr promises of LINK_ROOM, UNLINK_ROOM and lost connections,    *)
(* in terms of connections instead of socket numbers: a client's link to a  *)
(* room belongs to the connection that made it last and goes exactly with   *)
(* that connection, or by UNLINK_ROOM; a session is begun at the AVS of a   *)
(* room only while someone is linked to it, and ended only when nobody is.  *)
(***************************************************************************)
CONSTANTS Conns, Clients, Rooms, NoConn

VARIABLES
  link,      \* room -> client -> the connection it is linked by
  session    \* the rooms with a session at their AVS

Linked(r) == \E c \in Clients : link[r][c] # NoConn

Init ==
  /\ link = [r \in Rooms |-> [c \in Clients |-> NoConn]]
  /\ session = {}

LinkRoom(r, c, k) == link' = [link EXCEPT ![r][c] = k] /\ UNCHANGED session

UnlinkRoom(r, c) == link' = [link EXCEPT ![r][c] = NoConn] /\ UNCHANGED session

\* The connection is gone, and every link it made with it.
Disconnect(k) ==
  /\ link' = [r \in Rooms |-> [c \in Clients |->
                IF link[r][c] = k THEN NoConn ELSE link[r][c]]]
  /\ UNCHANGED session

LogIn(r) == Linked(r) /\ session' = session \cup {r} /\ UNCHANGED link

LogOut(r) == r \in session /\ ~ Linked(r) /\ session' = session \ {r} /\ UNCHANGED link

Next ==
  \/ \E r \in Rooms, c \in Clients : UnlinkRoom(r, c) \/ \E k \in Conns : LinkRoom(r, c, k)
  \/ \E k \in Conns : Disconnect(k)
  \/ \E r \in Rooms : LogIn(r) \/ LogOut(r)

Spec == Init /\ [][Next]_<<link, session>>
=============================================================================
