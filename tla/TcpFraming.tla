----------------------------- MODULE TcpFraming -----------------------------
(***************************************************************************)
(* RoomMgr::EventOnTcpRead on one connection: the event thread receives    *)
(* what has arrived into tcp_storage_ and cuts it into packets, each with  *)
(* its length in front.                                                    *)
(*                                                                         *)
(* A byte is known by its position in what the client has sent, so that    *)
(* tcp_storage_[0 .. tcp_storage_offset_ - 1] is a sequence of positions.  *)
(* Its first two bytes are a length field if they are the first two of     *)
(* what the client sent as a packet; two other bytes may be any number.    *)
(***************************************************************************)
EXTENDS Naturals, Sequences

CONSTANTS
  MaxStorage,  \* MAX_STORAGE_SIZE
  Wrap,        \* 2^16: what a pj_uint16_t holds
  PacketLens,  \* what clients put in the length field: the bytes after it
  MaxSent      \* bound: packets a client sends on the connection

HeaderLen == 2 \* sizeof(pj_uint16_t)

ASSUME SizesArePositive ==
  MaxStorage \in Nat /\ HeaderLen < MaxStorage /\ Wrap \in Nat /\ MaxStorage < Wrap
ASSUME LengthsFitTheirField == PacketLens \subseteq 0 .. Wrap - 1

VARIABLES
  sent,       \* external: the packets the client has sent: where each starts, its length
  peerOpen,   \* external: the client has its end open
  received,   \* external: the bytes recv has taken from the stream
  storage,    \* the bytes tcp_storage_ holds; tcp_storage_offset_ is their number
  pc,         \* waiting for a read event, cutting packets, or deleted
  taken,      \* history: packets given to TcpParamScene that were the next one sent
  garbled,    \* history: something else was given to it
  overlapped  \* history: a memcpy had its source overlap its destination

clientVars == <<sent, peerOpen>>
vars == <<clientVars, received, storage, pc, taken, garbled, overlapped>>

Packets == [start : Nat, len : PacketLens]
End(p) == p.start + HeaderLen + p.len
SentBytes == IF sent = <<>> THEN 0 ELSE End(sent[Len(sent)])
Offset == Len(storage)

Init ==
  /\ sent = <<>> /\ peerOpen = TRUE /\ received = 0
  /\ storage = <<>> /\ pc = "wait"
  /\ taken = 0 /\ garbled = FALSE /\ overlapped = FALSE
-----------------------------------------------------------------------------
(* The client and the network. *)

Send(len) ==
  /\ peerOpen /\ Len(sent) < MaxSent
  /\ sent' = Append(sent, [start |-> SentBytes, len |-> len])
  /\ UNCHANGED <<peerOpen, received, storage, pc, taken, garbled, overlapped>>

PeerCloses ==
  /\ peerOpen /\ peerOpen' = FALSE
  /\ UNCHANGED <<sent, received, storage, pc, taken, garbled, overlapped>>
-----------------------------------------------------------------------------
(* The event thread. *)

Room == MaxStorage - Offset

\* recv returns some of what has arrived, at most what there is room for.
Receive(n) ==
  /\ pc = "wait" /\ n \in 1 .. Room /\ received + n <= SentBytes
  /\ storage' = storage \o [i \in 1 .. n |-> received + i]
  /\ received' = received + n
  /\ pc' = "cut"
  /\ UNCHANGED <<clientVars, taken, garbled, overlapped>>

\* recv returns 0 when the client has closed and all is read, but also when it
\* is asked for 0 bytes. It fails if the connection is reset.
ReceiveNothing ==
  /\ pc = "wait"
  /\ ~ peerOpen \/ Room = 0
  /\ pc' = "deleted"
  /\ UNCHANGED <<clientVars, received, storage, taken, garbled, overlapped>>

IsPacket(bytes, p) == bytes = [i \in 1 .. End(p) - p.start |-> p.start + i]

\* ntohs of the first two bytes of the storage.
PacketLength ==
  LET atHeaders == {j \in 1 .. Len(sent) : storage[1] = sent[j].start + 1
                                        /\ storage[2] = sent[j].start + 2}
  IN  IF atHeaders = {} THEN 0 .. Wrap - 1 ELSE {sent[j].len : j \in atHeaders}

\* Mutant: the length is taken to include the field itself.
LengthWithoutHeader(len) == len

\* total_len is a pj_uint16_t.
TotalLength(len) == (len + HeaderLen) % Wrap

\* Less than a length field: the handler returns.
TooShort ==
  /\ pc = "cut" /\ Offset < HeaderLen
  /\ pc' = "wait"
  /\ UNCHANGED <<clientVars, received, storage, taken, garbled, overlapped>>

\* Mutant: a packet one byte longer than the storage is waited for.
FarTooLong(total) == total > MaxStorage + 1

TooLong(total) == total > MaxStorage

\* The packet would not fit: what has been received is forgotten.
Discard(total) ==
  /\ TooLong(total)
  /\ storage' = <<>> /\ pc' = "wait"
  /\ UNCHANGED <<taken, garbled, overlapped>>

\* Not all of the packet is there: the handler returns.
Incomplete(total) ==
  /\ ~ TooLong(total) /\ total > Offset
  /\ pc' = "wait"
  /\ UNCHANGED <<storage, taken, garbled, overlapped>>

\* Mutants: what follows the packet is dropped with it; the offset is not moved.
NothingLeft(total) == <<>>
AllLeft(total) == storage

\* What follows the packet in the storage.
Rest(total) == SubSeq(storage, total + 1, Offset)

\* memcpy to the front of the storage. If its source and destination overlap its
\* result is undefined: a copy from the first byte on is right, a copy from the
\* last byte back reads bytes it has written already.
CopiedForward(rest) == rest
CopiedBackward(rest, shift) ==
  [i \in 1 .. Len(rest) |-> rest[Len(rest) - ((Len(rest) - i) % shift)]]
Overlap(rest, shift) == 0 < shift /\ shift < Len(rest)

\* TcpParamScene is given the packet, and the storage what follows it.
Cut(total) ==
  LET rest == Rest(total)
      isNext == taken < Len(sent) /\ IsPacket(SubSeq(storage, 1, total), sent[taken + 1])
  IN  /\ ~ TooLong(total) /\ total <= Offset
      /\ taken' = IF isNext THEN taken + 1 ELSE taken
      /\ garbled' = (garbled \/ ~ isNext)
      /\ overlapped' = (overlapped \/ Overlap(rest, total))
      /\ \/ storage' = CopiedForward(rest)
         \/ Overlap(rest, total) /\ storage' = CopiedBackward(rest, total)
      /\ UNCHANGED pc

CutNext(len) ==
  /\ pc = "cut" /\ Offset >= HeaderLen /\ len \in PacketLength
  /\ Discard(TotalLength(len)) \/ Incomplete(TotalLength(len)) \/ Cut(TotalLength(len))
  /\ UNCHANGED <<clientVars, received>>

Client == PeerCloses \/ \E len \in PacketLens : Send(len)

EventOnTcpRead ==
  \/ ReceiveNothing \/ TooShort
  \/ \E n \in 1 .. MaxStorage : Receive(n)
  \/ \E len \in 0 .. Wrap - 1 : CutNext(len)

Next == Client \/ EventOnTcpRead

Spec == Init /\ [][Next]_vars

\* The event loop goes on, and calls the handler whenever there is something.
FairSpec == Spec /\ WF_vars(EventOnTcpRead)
-----------------------------------------------------------------------------
(* What must hold of every state. *)

TypeOK ==
  /\ sent \in Seq(Packets)
  /\ peerOpen \in BOOLEAN
  /\ received \in 0 .. SentBytes
  /\ storage \in Seq(Nat) /\ Offset <= MaxStorage
  /\ pc \in {"wait", "cut", "deleted"}
  /\ taken \in 0 .. Len(sent)
  /\ garbled \in BOOLEAN /\ overlapped \in BOOLEAN

\* Whatever arrives and however it is split, the handler never returns with a
\* full storage, which it would take for the end of the connection: a connection
\* is deleted only after the client has closed its end.
DeletedOnlyIfPeerClosed == pc = "deleted" => ~ peerOpen

\* All the client has sent so far fits the storage.
SentFit == \A j \in 1 .. Len(sent) : sent[j].len + HeaderLen <= MaxStorage

\* As long as a client's packets fit the storage, each of them is given to
\* TcpParamScene once, whole and in order, however the stream is split, unless a
\* memcpy that overlaps itself has spoilt the storage.
PacketsAreTakenWhole == garbled /\ SentFit => overlapped

\* The handler comes to an end, except on a length field of 2^16 - HeaderLen,
\* which it takes for a packet of no bytes, again and again.
EndlessPacket == Wrap - HeaderLen \in PacketLength
HandlerReturns ==
  (pc = "cut") ~> (pc # "cut" \/ (Offset >= HeaderLen /\ EndlessPacket))

\* Why it does: no step of the handler that leaves it in its loop leaves the storage
\* as long as it was, even where a length field near 2^16 wraps round.
EachTurnShortensStorage ==
  [][(pc = "cut" /\ pc' = "cut" /\ UNCHANGED clientVars)
       => (Offset' < Offset \/ EndlessPacket)]_vars

\* Every packet of a client that stays connected, and sends packets that fit, is
\* taken in the end.
SentPacketsAreTaken ==
  \A n \in 1 .. MaxSent :
    (Len(sent) >= n) ~> (taken >= n \/ ~ peerOpen \/ overlapped \/ ~ SentFit)
=============================================================================
