-------------------------- MODULE TcpFramingProofs --------------------------
(***************************************************************************)
(* What EventOnTcpRead keeps for every size of the storage and every way   *)
(* the stream is split: a storage that is never full when the handler      *)
(* returns, and, if the packets fit it, packets taken whole and in order.  *)
(***************************************************************************)
EXTENDS TcpFraming, SequenceTheorems, TLAPS

USE SizesArePositive, LengthsFitTheirField DEF HeaderLen

\* The handler never returns with a full storage.
RoomWhenWaiting == pc = "wait" => Offset < MaxStorage

\* The packets lie one behind the other in what the client has sent.
PacketsInARow ==
  /\ \A j \in 1 .. Len(sent) :
       /\ End(sent[j]) <= SentBytes
       /\ j < Len(sent) => sent[j + 1].start = End(sent[j])
       /\ j = Len(sent) => SentBytes = End(sent[j])
       /\ j = 1 => sent[j].start = 0
  /\ \A i, j \in 1 .. Len(sent) : i < j => End(sent[i]) <= sent[j].start

\* Where the next packet to be taken starts.
NextStart == IF taken < Len(sent) THEN sent[taken + 1].start ELSE SentBytes

\* The storage holds what was received of the packets that were not taken.
StorageIsNextInStream ==
  /\ ~ garbled
  /\ received = NextStart + Offset
  /\ \A i \in 1 .. Offset : storage[i] = NextStart + i

IInv == TypeOK /\ RoomWhenWaiting /\ DeletedOnlyIfPeerClosed
StreamInv == IInv /\ PacketsInARow /\ (~ overlapped /\ SentFit => StorageIsNextInStream)
-----------------------------------------------------------------------------
\* A remainder is at most what is divided.
LEMMA RemainderBound ==
  ASSUME NEW a \in Nat, NEW b \in Nat, b > 0
  PROVE  a % b \in 0 .. a
OBVIOUS

\* The end of a packet of the client is a number, behind its length field.
LEMMA PacketTypes ==
  ASSUME TypeOK
  PROVE  /\ SentBytes \in Nat
         /\ \A j \in 1 .. Len(sent) :
              /\ sent[j].start \in Nat /\ sent[j].len \in 0 .. Wrap - 1
              /\ sent[j].len \in PacketLens
              /\ End(sent[j]) \in Nat /\ End(sent[j]) >= sent[j].start + 2
<1>1. Len(sent) \in Nat /\ (sent # <<>> => Len(sent) \in 1 .. Len(sent))
  BY DEF TypeOK
<1>2. \A j \in 1 .. Len(sent) : sent[j] \in Packets
  BY DEF TypeOK
<1>3. \A p \in Packets :
        /\ p.start \in Nat /\ p.len \in PacketLens /\ p.len \in 0 .. Wrap - 1
        /\ End(p) \in Nat /\ End(p) >= p.start + 2
  <2> TAKE p \in Packets
  <2>1. p.start \in Nat /\ p.len \in PacketLens
    BY DEF Packets
  <2>2. p.len \in 0 .. Wrap - 1
    BY <2>1
  <2>3. End(p) = p.start + 2 + p.len
    BY DEF End
  <2>4. QED
    BY <2>1, <2>2, <2>3
<1>4. SentBytes \in Nat
  BY <1>1, <1>2, <1>3 DEF SentBytes
<1>5. QED
  BY <1>2, <1>3, <1>4

\* The storage keeps numbers, and no more than before, when a packet is cut.
LEMMA CutStorageType ==
  ASSUME TypeOK, NEW total \in Nat, Cut(total)
  PROVE  /\ storage' \in Seq(Nat) /\ Len(storage') = Offset - total
<1> DEFINE rest == Rest(total)
<1>1. total <= Offset /\ Offset \in Nat /\ storage \in Seq(Nat)
  BY DEF Cut, TypeOK, Offset
<1>2. rest \in Seq(Nat) /\ Len(rest) = Offset - total
  BY <1>1 DEF Rest, Offset
<1> HIDE DEF rest
<1>3. CASE storage' = CopiedForward(rest)
  BY <1>2, <1>3 DEF CopiedForward
<1>4. CASE Overlap(rest, total) /\ storage' = CopiedBackward(rest, total)
  <2>1. \A i \in 1 .. Len(rest) :
          Len(rest) - ((Len(rest) - i) % total) \in 1 .. Len(rest)
    <3> TAKE i \in 1 .. Len(rest)
    <3>1. Len(rest) - i \in Nat /\ total > 0
      BY <1>2, <1>4 DEF Overlap
    <3>2. (Len(rest) - i) % total \in 0 .. Len(rest) - i
      BY <3>1, RemainderBound
    <3>3. QED
      BY <3>2, <1>2, <1>1
  <2>2. \A i \in 1 .. Len(rest) :
          rest[Len(rest) - ((Len(rest) - i) % total)] \in Nat
    BY <2>1, <1>2
  <2>3. Len(rest) \in Nat
    BY <1>2
  <2> DEFINE copy == [i \in 1 .. Len(rest) |-> rest[Len(rest) - ((Len(rest) - i) % total)]]
  <2>4. copy \in Seq(Nat) /\ Len(copy) = Len(rest)
    BY <2>2, <2>3
  <2>5. QED
    BY <2>4, <1>2, <1>4 DEF CopiedBackward
<1>5. QED
  BY <1>3, <1>4 DEF Cut, rest

\* Send puts a packet behind the others.
LEMMA SendAppends ==
  ASSUME TypeOK, NEW len \in PacketLens, Send(len)
  PROVE  /\ sent' \in Seq(Packets) /\ Len(sent') = Len(sent) + 1
         /\ \A j \in 1 .. Len(sent) : sent'[j] = sent[j]
         /\ sent'[Len(sent) + 1].start = SentBytes
         /\ SentBytes' = End(sent'[Len(sent) + 1])
         /\ SentBytes' \in Nat /\ SentBytes < SentBytes'
<1> DEFINE new == [start |-> SentBytes, len |-> len]
<1>1. SentBytes \in Nat /\ new \in Packets /\ len \in Nat
  BY PacketTypes DEF Packets
<1>2. new.start = SentBytes /\ End(new) = SentBytes + 2 + len
  BY DEF End
<1> HIDE DEF new
<1>3. sent' = Append(sent, new) /\ sent \in Seq(Packets)
  BY DEF Send, TypeOK, new
<1>4. /\ sent' \in Seq(Packets) /\ Len(sent') = Len(sent) + 1 /\ Len(sent) \in Nat
      /\ \A j \in 1 .. Len(sent) : sent'[j] = sent[j]
      /\ sent'[Len(sent) + 1] = new
  BY <1>1, <1>3
<1>5. sent' # <<>>
  BY <1>4
<1>6. SentBytes' = End(sent'[Len(sent')])
  BY <1>5 DEF SentBytes
<1>7. QED
  BY <1>1, <1>2, <1>4, <1>6

LEMMA IInvInit == Init => IInv
<1>1. Init => sent \in Seq(Packets) /\ Len(sent) = 0 /\ storage \in Seq(Nat) /\ Len(storage) = 0
  BY DEF Init
<1>2. Init => SentBytes = 0 /\ Offset = 0
  BY <1>1 DEF Init, SentBytes, Offset
<1>3. Init => garbled \in BOOLEAN /\ overlapped \in BOOLEAN /\ peerOpen \in BOOLEAN
  BY DEF Init
<1>4. Init => received \in 0 .. SentBytes /\ taken \in 0 .. Len(sent) /\ pc = "wait"
  BY <1>1, <1>2 DEF Init
<1>5. QED
  BY <1>1, <1>2, <1>3, <1>4 DEF IInv, TypeOK, RoomWhenWaiting, DeletedOnlyIfPeerClosed

LEMMA IInvStep == IInv /\ [Next]_vars => IInv'
<1> SUFFICES ASSUME IInv, [Next]_vars PROVE IInv'
  OBVIOUS
<1> USE DEF IInv, RoomWhenWaiting, DeletedOnlyIfPeerClosed
<1>0. TypeOK /\ SentBytes \in Nat /\ Offset \in Nat
  BY PacketTypes DEF TypeOK, Offset
<1>1. ASSUME NEW len \in PacketLens, Send(len) PROVE IInv'
  <2>1. sent' \in Seq(Packets) /\ Len(sent') = Len(sent) + 1
    BY <1>0, <1>1, SendAppends
  <2>2. SentBytes' \in Nat /\ SentBytes <= SentBytes'
    BY <1>0, <1>1, SendAppends
  <2>3. QED
    BY <1>0, <1>1, <2>1, <2>2 DEF Send, TypeOK, Offset
<1>2. CASE PeerCloses
  BY <1>2 DEF PeerCloses, TypeOK, Offset, SentBytes
<1>3. CASE ReceiveNothing
  <2>1. SentBytes' = SentBytes /\ Offset' = Offset
    BY <1>3 DEF ReceiveNothing, clientVars, SentBytes, Offset
  <2>2. Room # 0 \/ ~ (pc = "wait")
    BY <1>0 DEF Room, TypeOK
  <2>3. QED
    BY <1>0, <1>3, <2>1, <2>2 DEF ReceiveNothing, TypeOK, clientVars
<1>4. CASE TooShort
  <2>1. SentBytes' = SentBytes /\ Offset' = Offset
    BY <1>4 DEF TooShort, clientVars, SentBytes, Offset
  <2>2. QED
    BY <1>0, <1>4, <2>1 DEF TooShort, TypeOK, clientVars
<1>5. ASSUME NEW n \in 1 .. MaxStorage, Receive(n) PROVE IInv'
  <2> DEFINE new == [i \in 1 .. n |-> received + i]
  <2>1. new \in Seq(Nat) /\ Len(new) = n
    BY DEF TypeOK
  <2> HIDE DEF new
  <2>2. storage' \in Seq(Nat) /\ Len(storage') = Offset + n
    BY <1>5, <2>1 DEF Receive, TypeOK, Offset, new
  <2>3. SentBytes' = SentBytes
    BY <1>5 DEF Receive, clientVars, SentBytes
  <2>4. QED
    BY <1>0, <1>5, <2>2, <2>3 DEF Receive, TypeOK, Offset, Room, clientVars
<1>6. ASSUME NEW len \in 0 .. Wrap - 1, CutNext(len) PROVE IInv'
  <2> DEFINE total == TotalLength(len)
  <2>1. total \in Nat
    BY DEF TotalLength
  <2>2. SentBytes' = SentBytes /\ UNCHANGED clientVars /\ received' = received
    BY <1>6 DEF CutNext, clientVars, SentBytes
  <2> HIDE DEF total
  <2>3. CASE Discard(total)
    BY <1>0, <1>6, <2>2, <2>3 DEF Discard, CutNext, TypeOK, Offset, clientVars
  <2>4. CASE Incomplete(total)
    BY <1>0, <1>6, <2>1, <2>2, <2>4 DEF Incomplete, TooLong, CutNext, TypeOK, Offset, clientVars
  <2>5. CASE Cut(total)
    <3>1. storage' \in Seq(Nat) /\ Len(storage') = Offset - total
      BY <1>0, <2>1, <2>5, CutStorageType
    <3>2. taken' \in 0 .. Len(sent')
      BY <2>2, <2>5 DEF Cut, TypeOK, clientVars
    <3>3. garbled' \in BOOLEAN /\ overlapped' \in BOOLEAN /\ pc' = pc
      BY <2>5 DEF Cut, TypeOK
    <3>4. QED
      BY <1>0, <1>6, <2>1, <2>2, <3>1, <3>2, <3>3
      DEF CutNext, TypeOK, Offset, clientVars
  <2>6. QED
    BY <1>6, <2>3, <2>4, <2>5 DEF CutNext, total
<1>7. CASE UNCHANGED vars
  BY <1>7 DEF vars, clientVars, TypeOK, Offset, SentBytes
<1>8. QED
  BY <1>1, <1>2, <1>3, <1>4, <1>5, <1>6, <1>7 DEF Next, Client, EventOnTcpRead

\* The types, and with them what the handler leaves in the storage.
LEMMA Invariance == Spec => []IInv
BY IInvInit, IInvStep, PTL DEF Spec

\* The variables keep their types: in particular tcp_storage_offset_ never
\* exceeds MAX_STORAGE_SIZE, whatever lengths the client puts in its packets.
THEOREM TypeCorrect == Spec => []TypeOK
BY Invariance, PTL DEF IInv

\* The handler never takes a full storage for the end of the connection, for any
\* stream of bytes.
THEOREM NeverDeletedInVain == Spec => []DeletedOnlyIfPeerClosed
BY Invariance, PTL DEF IInv
-----------------------------------------------------------------------------
(* Packets that fit the storage. *)

\* Sending puts the new packet at the end of the row and moves no other.
LEMMA RowStep == TypeOK /\ PacketsInARow /\ [Next]_vars => PacketsInARow'
<1> SUFFICES ASSUME TypeOK, PacketsInARow, [Next]_vars PROVE PacketsInARow'
  OBVIOUS
<1>1. ASSUME NEW len \in PacketLens, Send(len) PROVE PacketsInARow'
  <2> DEFINE n == Len(sent)
  <2>0. n \in Nat
    BY DEF TypeOK
  <2>1. /\ Len(sent') = n + 1
        /\ \A j \in 1 .. n : sent'[j] = sent[j]
        /\ sent'[n + 1].start = SentBytes /\ SentBytes' = End(sent'[n + 1])
        /\ SentBytes' \in Nat /\ SentBytes < SentBytes'
    BY <1>1, SendAppends
  <2>2. /\ SentBytes \in Nat
        /\ \A j \in 1 .. n : End(sent[j]) \in Nat /\ sent[j].start \in Nat
    BY PacketTypes
  <2>3. n = 0 => SentBytes = 0
    BY DEF SentBytes, TypeOK
  <2>4. /\ \A j \in 1 .. n :
             /\ End(sent[j]) <= SentBytes
             /\ j < n => sent[j + 1].start = End(sent[j])
             /\ j = n => SentBytes = End(sent[j])
             /\ j = 1 => sent[j].start = 0
        /\ \A i, j \in 1 .. n : i < j => End(sent[i]) <= sent[j].start
    BY DEF PacketsInARow
  <2> HIDE DEF n
  <2>5. ASSUME NEW j \in 1 .. n + 1
        PROVE  /\ End(sent'[j]) <= SentBytes'
               /\ j < n + 1 => sent'[j + 1].start = End(sent'[j])
               /\ j = n + 1 => SentBytes' = End(sent'[j])
               /\ j = 1 => sent'[j].start = 0
    <3>1. CASE j \in 1 .. n - 1
      <4>1. j \in 1 .. n /\ j + 1 \in 1 .. n
        BY <3>1, <2>0
      <4>2. sent'[j] = sent[j] /\ sent'[j + 1] = sent[j + 1]
        BY <4>1, <2>1
      <4>3. End(sent[j]) <= SentBytes /\ sent[j + 1].start = End(sent[j])
            /\ (j = 1 => sent[j].start = 0)
        BY <4>1, <3>1, <2>0, <2>4
      <4>4. QED
        BY <3>1, <4>1, <4>2, <4>3, <2>0, <2>1, <2>2
    <3>2. CASE j = n
      <4>1. j \in 1 .. n
        BY <3>2, <2>0
      <4>2. sent'[j] = sent[j]
        BY <4>1, <2>1
      <4>3. SentBytes = End(sent[j]) /\ (j = 1 => sent[j].start = 0)
        BY <4>1, <3>2, <2>4
      <4>4. QED
        BY <3>2, <4>1, <4>2, <4>3, <2>0, <2>1, <2>2
    <3>3. CASE j = n + 1
      BY <3>3, <2>0, <2>1, <2>2, <2>3
    <3>4. QED
      BY <2>0, <3>1, <3>2, <3>3
  <2>6. ASSUME NEW i \in 1 .. n + 1, NEW j \in 1 .. n + 1, i < j
        PROVE  End(sent'[i]) <= sent'[j].start
    <3>1. i \in 1 .. n /\ sent'[i] = sent[i]
      BY <2>0, <2>1, <2>6
    <3>2. CASE j \in 1 .. n
      <4>1. sent'[j] = sent[j] /\ End(sent[i]) <= sent[j].start
        BY <3>1, <3>2, <2>1, <2>4, <2>6
      <4>2. QED
        BY <3>1, <4>1
    <3>3. CASE j = n + 1
      BY <3>1, <3>3, <2>1, <2>4
    <3>4. QED
      BY <2>0, <3>2, <3>3
  <2>7. QED
    BY <2>1, <2>5, <2>6 DEF PacketsInARow, End
<1>2. CASE UNCHANGED sent
  BY <1>2 DEF PacketsInARow, SentBytes, End
<1>3. QED
  BY <1>1, <1>2 DEF Next, Client, EventOnTcpRead, PeerCloses, Receive, ReceiveNothing,
    TooShort, CutNext, clientVars, vars

\* The next packet starts where the stream has been read to, less what is stored.
LEMMA NextStartType ==
  ASSUME TypeOK, PacketsInARow
  PROVE  /\ NextStart \in Nat /\ NextStart <= SentBytes /\ Offset \in Nat /\ Len(sent) \in Nat
         /\ taken \in 0 .. Len(sent) /\ received \in 0 .. SentBytes
         /\ taken < Len(sent) => /\ taken + 1 \in 1 .. Len(sent)
                                 /\ NextStart = sent[taken + 1].start
         /\ ~ (taken < Len(sent)) => NextStart = SentBytes
<1>1. Offset \in Nat /\ Len(sent) \in Nat /\ taken \in 0 .. Len(sent) /\ received \in 0 .. SentBytes
  BY DEF TypeOK, Offset
<1>2. \A j \in 1 .. Len(sent) :
        /\ sent[j].start \in Nat /\ End(sent[j]) >= sent[j].start + 2
        /\ End(sent[j]) \in Nat /\ End(sent[j]) <= SentBytes
  BY PacketTypes DEF PacketsInARow
<1>3. SentBytes \in Nat
  BY PacketTypes
<1>4. CASE taken < Len(sent)
  <2>1. taken + 1 \in 1 .. Len(sent) /\ NextStart = sent[taken + 1].start
    BY <1>1, <1>4 DEF NextStart
  <2>2. QED
    BY <1>1, <1>2, <1>3, <1>4, <2>1
<1>5. CASE ~ (taken < Len(sent))
  BY <1>1, <1>3, <1>5 DEF NextStart
<1>6. QED
  BY <1>4, <1>5

\* The length field in front of the storage is that of the next packet.
LEMMA LengthIsNextPackets ==
  ASSUME TypeOK, PacketsInARow, StorageIsNextInStream, Offset >= 2,
         NEW len \in PacketLength
  PROVE  taken < Len(sent) /\ len = sent[taken + 1].len
<1>1. /\ storage[1] = NextStart + 1 /\ storage[2] = NextStart + 2
      /\ received = NextStart + Offset /\ NextStart + 2 <= SentBytes
  BY NextStartType, PacketTypes DEF StorageIsNextInStream
<1>2. taken < Len(sent) /\ taken + 1 \in 1 .. Len(sent) /\ NextStart = sent[taken + 1].start
  BY <1>1, NextStartType
<1>3. ASSUME NEW j \in 1 .. Len(sent), storage[1] = sent[j].start + 1
      PROVE  j = taken + 1
  <2>0. sent[j].start \in Nat /\ sent[taken + 1].start \in Nat
    BY <1>2, PacketTypes
  <2>1. sent[j].start = sent[taken + 1].start
    BY <2>0, <1>1, <1>2, <1>3
  <2>2. \A i \in 1 .. Len(sent) : sent[i].start \in Nat /\ End(sent[i]) \in Nat
                                /\ End(sent[i]) >= sent[i].start + 2
    BY PacketTypes
  <2>3. \A i, k \in 1 .. Len(sent) : i < k => End(sent[i]) <= sent[k].start
    BY DEF PacketsInARow
  <2>4. ASSUME j < taken + 1 PROVE FALSE
    <3>1. End(sent[j]) <= sent[taken + 1].start
      BY <1>2, <2>3, <2>4
    <3>2. QED
      BY <3>1, <2>1, <2>2
  <2>5. ASSUME taken + 1 < j PROVE FALSE
    <3>1. End(sent[taken + 1]) <= sent[j].start
      BY <1>2, <2>3, <2>5
    <3>2. QED
      BY <3>1, <1>2, <2>1, <2>2
  <2>6. QED
    BY <1>2, <2>4, <2>5, NextStartType
<1> DEFINE atHeaders == {j \in 1 .. Len(sent) : storage[1] = sent[j].start + 1
                                             /\ storage[2] = sent[j].start + 2}
<1>4. taken + 1 \in atHeaders
  BY <1>1, <1>2
<1>5. \A j \in atHeaders : j = taken + 1
  BY <1>3
<1>6. len \in {sent[j].len : j \in atHeaders}
  BY <1>4 DEF PacketLength
<1>7. QED
  BY <1>2, <1>5, <1>6

\* A packet that fits is cut from the storage whole, and what is left is next.
LEMMA CutStep ==
  ASSUME SentFit, TypeOK, PacketsInARow, StorageIsNextInStream, Offset >= 2,
         NEW len \in PacketLength, Cut(TotalLength(len)),
         UNCHANGED clientVars, received' = received, TypeOK', PacketsInARow'
  PROVE  ~ overlapped' => StorageIsNextInStream'
<1> DEFINE p == sent[taken + 1]
           total == len + 2
<1>1. taken < Len(sent) /\ len = p.len
  BY LengthIsNextPackets
<1>2. /\ taken + 1 \in 1 .. Len(sent) /\ NextStart = p.start
      /\ Offset \in Nat /\ taken \in Nat /\ Len(sent) \in Nat
  BY <1>1, NextStartType
<1>3. /\ p.start \in Nat /\ len \in PacketLens /\ len \in 0 .. Wrap - 1
      /\ End(p) = p.start + total
  <2>1. p.start \in Nat /\ p.len \in 0 .. Wrap - 1 /\ p.len \in PacketLens
    BY <1>2, PacketTypes
  <2>2. End(p) = p.start + 2 + p.len
    BY DEF End
  <2>3. QED
    BY <1>1, <2>1, <2>2
<1>4. total \in Nat /\ total <= MaxStorage /\ TotalLength(len) = total
  <2>1. p.len + 2 <= MaxStorage
    BY <1>2 DEF SentFit
  <2>2. total \in Nat /\ total <= MaxStorage /\ total < Wrap
    BY <2>1, <1>1, <1>3
  <2>3. QED
    BY <2>2 DEF TotalLength
<1>5. Cut(total) /\ total <= Offset
  BY <1>4 DEF Cut
<1>6. /\ received = p.start + Offset
      /\ \A i \in 1 .. Offset : storage[i] = p.start + i
      /\ storage \in Seq(Nat) /\ Len(storage) = Offset /\ ~ garbled
  BY <1>2 DEF StorageIsNextInStream, TypeOK, Offset
<1>7. End(p) - p.start = total
  BY <1>3, <1>4
<1> HIDE DEF p, total
<1>8. IsPacket(SubSeq(storage, 1, total), p)
  <2>1. SubSeq(storage, 1, total) = [i \in 1 .. total |-> storage[i]]
    BY <1>4, <1>5, <1>6
  <2>2. \A i \in 1 .. total : storage[i] = p.start + i
    BY <1>2, <1>4, <1>5, <1>6
  <2>3. [i \in 1 .. total |-> storage[i]] = [i \in 1 .. total |-> p.start + i]
    BY <2>2
  <2>4. QED
    BY <2>1, <2>3, <1>7 DEF IsPacket
<1>9. taken' = taken + 1 /\ ~ garbled'
  BY <1>1, <1>5, <1>6, <1>8 DEF Cut, p
<1>10. ASSUME ~ overlapped' PROVE storage' = Rest(total)
  BY <1>5, <1>10 DEF Cut, CopiedForward
<1>11. /\ Len(Rest(total)) = Offset - total
       /\ \A i \in 1 .. Offset - total : Rest(total)[i] = storage[total + i]
  BY <1>2, <1>4, <1>5, <1>6 DEF Rest
<1>12. NextStart' = p.start + total
  <2>1. CASE taken + 1 < Len(sent)
    <3>1. NextStart' = sent[taken + 2].start
      BY <1>2, <1>9, <2>1 DEF NextStart, clientVars
    <3>2. sent[taken + 2].start = End(p)
      BY <1>2, <2>1 DEF PacketsInARow, p
    <3>3. QED
      BY <3>1, <3>2, <1>3
  <2>2. CASE taken + 1 = Len(sent)
    <3>1. NextStart' = SentBytes
      BY <1>2, <1>9, <2>2 DEF NextStart, clientVars, SentBytes
    <3>2. SentBytes = End(p)
      BY <1>2, <2>2 DEF PacketsInARow, p
    <3>3. QED
      BY <3>1, <3>2, <1>3
  <2>3. QED
    BY <1>2, <2>1, <2>2
<1>13. ASSUME ~ overlapped' PROVE StorageIsNextInStream'
  <2>1. Offset' = Offset - total
    BY <1>10, <1>11, <1>13 DEF Offset
  <2>2. received' = NextStart' + Offset'
    BY <1>2, <1>3, <1>4, <1>6, <1>12, <2>1
  <2>3. ASSUME NEW i \in 1 .. Offset - total PROVE storage'[i] = p.start + total + i
    <3>1. total + i \in 1 .. Offset
      BY <1>2, <1>4
    <3>2. storage'[i] = storage[total + i]
      BY <1>10, <1>11, <1>13
    <3>3. QED
      BY <3>1, <3>2, <1>2, <1>3, <1>4, <1>6
  <2>4. QED
    BY <1>9, <1>12, <2>1, <2>2, <2>3 DEF StorageIsNextInStream
<1>14. QED
  BY <1>13

LEMMA StreamInvInit == Init => StreamInv
<1>1. Init => IInv
  BY IInvInit
<1>2. Init => Len(sent) = 0 /\ Offset = 0 /\ SentBytes = 0
  BY DEF Init, Offset, SentBytes
<1>3. Init => PacketsInARow
  BY <1>2 DEF PacketsInARow
<1>4. Init => StorageIsNextInStream
  BY <1>2 DEF Init, StorageIsNextInStream, NextStart
<1>5. QED
  BY <1>1, <1>3, <1>4 DEF StreamInv

LEMMA StreamInvStep == StreamInv /\ [Next]_vars => StreamInv'
<1> SUFFICES ASSUME StreamInv, [Next]_vars PROVE StreamInv'
  OBVIOUS
<1>1. IInv /\ TypeOK /\ PacketsInARow /\ IInv' /\ TypeOK' /\ PacketsInARow'
  BY IInvStep, RowStep DEF StreamInv, IInv
<1>2. /\ NextStart \in Nat /\ Offset \in Nat /\ taken \in Nat /\ received \in Nat
      /\ Len(sent) \in Nat /\ taken <= Len(sent) /\ SentBytes \in Nat
  BY <1>1, NextStartType, PacketTypes
<1> SUFFICES ASSUME ~ overlapped', SentFit' PROVE StorageIsNextInStream'
  BY <1>1 DEF StreamInv
<1>3. SentFit
  <2>1. CASE sent' = sent
    BY <2>1 DEF SentFit
  <2>2. ASSUME NEW len \in PacketLens, Send(len) PROVE SentFit
    <3>1. Len(sent') = Len(sent) + 1 /\ \A j \in 1 .. Len(sent) : sent'[j] = sent[j]
      BY <1>1, <2>2, SendAppends
    <3>2. \A j \in 1 .. Len(sent) : j \in 1 .. Len(sent')
      BY <3>1, <1>2
    <3>3. QED
      BY <3>1, <3>2 DEF SentFit
  <2>3. QED
    BY <2>1, <2>2 DEF Next, Client, EventOnTcpRead, PeerCloses, Receive, ReceiveNothing,
      TooShort, CutNext, clientVars, vars
<1>4. ~ overlapped
  <2>1. ASSUME NEW total, Cut(total) PROVE ~ overlapped
    BY <2>1 DEF Cut
  <2>2. CASE overlapped' = overlapped
    BY <2>2
  <2>3. QED
    BY <2>1, <2>2 DEF Next, Client, EventOnTcpRead, PeerCloses, Send, Receive, ReceiveNothing,
      TooShort, CutNext, Discard, Incomplete, clientVars, vars
<1>5. StorageIsNextInStream
  BY <1>3, <1>4 DEF StreamInv
<1>6. ASSUME NEW len \in PacketLens, Send(len) PROVE StorageIsNextInStream'
  <2>1. StorageIsNextInStream /\ UNCHANGED <<received, storage, taken, garbled>>
    BY <1>6, <1>5 DEF Send
  <2>2. /\ Len(sent') = Len(sent) + 1 /\ sent'[Len(sent) + 1].start = SentBytes
        /\ \A j \in 1 .. Len(sent) : sent'[j] = sent[j]
    BY <1>1, <1>6, SendAppends
  <2>3. NextStart' = NextStart
    <3>1. CASE taken < Len(sent)
      BY <1>2, <2>1, <2>2, <3>1 DEF NextStart
    <3>2. CASE taken = Len(sent)
      BY <1>2, <2>1, <2>2, <3>2 DEF NextStart
    <3>3. QED
      BY <1>2, <3>1, <3>2
  <2>4. QED
    BY <2>1, <2>3 DEF StorageIsNextInStream, Offset
<1>7. CASE UNCHANGED <<sent, received, storage, taken, garbled, overlapped>>
  BY <1>7, <1>5 DEF StorageIsNextInStream, NextStart, Offset, SentBytes
<1>8. ASSUME NEW n \in 1 .. MaxStorage, Receive(n) PROVE StorageIsNextInStream'
  <2> DEFINE new == [i \in 1 .. n |-> received + i]
  <2>1. StorageIsNextInStream /\ UNCHANGED <<sent, taken, garbled>> /\ received' = received + n
    BY <1>8, <1>5 DEF Receive, clientVars
  <2>2. NextStart' = NextStart
    BY <2>1 DEF NextStart, SentBytes
  <2>3. /\ new \in Seq(Nat) /\ Len(new) = n /\ n \in Nat
        /\ \A i \in 1 .. n : new[i] = received + i
    BY <1>2
  <2> HIDE DEF new
  <2>4. storage \in Seq(Nat) /\ storage' = storage \o new /\ Len(storage) = Offset
    BY <1>1, <1>8 DEF Receive, TypeOK, Offset, new
  <2>5. /\ Len(storage') = Offset + n
        /\ \A i \in 1 .. Offset + n :
             storage'[i] = IF i <= Offset THEN storage[i] ELSE new[i - Offset]
    BY <2>3, <2>4, ConcatProperties
  <2>6. /\ received = NextStart + Offset
        /\ \A i \in 1 .. Offset : storage[i] = NextStart + i
    BY <2>1 DEF StorageIsNextInStream
  <2>7. ASSUME NEW i \in 1 .. Offset + n PROVE storage'[i] = NextStart + i
    <3>1. CASE i <= Offset
      BY <3>1, <1>2, <2>3, <2>5, <2>6
    <3>2. CASE ~ (i <= Offset)
      <4>1. i - Offset \in 1 .. n
        BY <3>2, <1>2, <2>3
      <4>2. storage'[i] = received + (i - Offset)
        BY <3>2, <4>1, <2>3, <2>5
      <4>3. QED
        BY <4>1, <4>2, <1>2, <2>3, <2>6
    <3>3. QED
      BY <3>1, <3>2
  <2>8. Offset' = Offset + n
    BY <2>5 DEF Offset
  <2>9. QED
    BY <1>2, <2>1, <2>2, <2>3, <2>6, <2>7, <2>8 DEF StorageIsNextInStream
<1>9. ASSUME NEW len \in 0 .. Wrap - 1, CutNext(len) PROVE StorageIsNextInStream'
  <2>1. /\ Offset >= 2 /\ len \in PacketLength
        /\ UNCHANGED clientVars /\ received' = received
    BY <1>9 DEF CutNext
  <2>2. taken < Len(sent) /\ len = sent[taken + 1].len
    BY <1>1, <1>5, <2>1, LengthIsNextPackets
  <2>3. len \in PacketLens /\ len \in Nat
    <3>1. taken + 1 \in 1 .. Len(sent)
      BY <1>2, <2>2
    <3>2. QED
      BY <1>1, <2>2, <3>1, PacketTypes
  <2>4. TotalLength(len) <= MaxStorage
    <3>1. sent[taken + 1].len + 2 <= MaxStorage
      BY <1>3, <1>2, <2>2 DEF SentFit
    <3>2. len + 2 <= MaxStorage /\ len + 2 < Wrap
      BY <3>1, <2>2, <2>3
    <3>3. QED
      BY <3>2, <2>3 DEF TotalLength
  <2>5. CASE Discard(TotalLength(len))
    BY <2>4, <2>5 DEF Discard, TooLong, TotalLength
  <2>6. CASE Incomplete(TotalLength(len))
    BY <1>7, <2>1, <2>6 DEF Incomplete, clientVars
  <2>7. CASE Cut(TotalLength(len))
    BY <1>3, <1>1, <1>5, <2>1, <2>7, CutStep
  <2>8. QED
    BY <1>9, <2>5, <2>6, <2>7 DEF CutNext
<1>10. QED
  BY <1>6, <1>7, <1>8, <1>9 DEF Next, Client, EventOnTcpRead, PeerCloses, ReceiveNothing,
    TooShort, clientVars, vars

\* While what the client sends fits the storage, its packets are given to
\* TcpParamScene whole, in order and once, for every size of the storage and every
\* way recv splits the stream, as long as no memcpy has overlapped itself.
THEOREM PacketsStayWhole == Spec => []PacketsAreTakenWhole
<1>1. StreamInv => PacketsAreTakenWhole
  BY DEF StreamInv, IInv, TypeOK, StorageIsNextInStream, PacketsAreTakenWhole
<1>2. Init => StreamInv
  BY StreamInvInit
<1>3. StreamInv /\ [Next]_vars => StreamInv'
  BY StreamInvStep
<1>4. QED
  BY <1>1, <1>2, <1>3, PTL DEF Spec
-----------------------------------------------------------------------------
\* A packet has at least one byte, unless its length field is the one that wraps to 0.
LEMMA TotalIsPositive ==
  ASSUME NEW len \in 0 .. Wrap - 1, len # Wrap - 2
  PROVE  TotalLength(len) \in Nat /\ TotalLength(len) > 0
<1>1. CASE len < Wrap - 2
  <2>1. len + 2 \in 0 .. Wrap - 1 /\ \A n \in 0 .. Wrap - 1 : n % Wrap = n
    BY <1>1
  <2>2. TotalLength(len) = len + 2
    BY <2>1 DEF TotalLength
  <2>3. QED
    BY <2>2
<1>2. CASE len = Wrap - 1
  <2>1. len + 2 = Wrap + 1 /\ Wrap > 1
    BY <1>2
  <2>2. (Wrap + 1) % Wrap = 1
    BY <2>1
  <2>3. QED
    BY <2>1, <2>2 DEF TotalLength
<1>3. QED
  BY <1>1, <1>2

\* The loop of EventOnTcpRead has the number of stored bytes for a measure, whatever the
\* length fields are but the one: so it ends, for every storage and every stream.
THEOREM LoopShortensStorage == Spec => EachTurnShortensStorage
<1>1. ASSUME TypeOK, Next, pc = "cut", pc' = "cut", UNCHANGED clientVars,
             ~ EndlessPacket, vars' # vars
      PROVE  Offset' < Offset
  <2>1. \E len \in 0 .. Wrap - 1 : CutNext(len)
    <3>1. ~ (\E len \in PacketLens : Send(len))
      <4> SUFFICES ASSUME NEW len \in PacketLens, Send(len) PROVE FALSE
        OBVIOUS
      <4>1. Len(sent') = Len(sent) + 1 /\ Len(sent) \in Nat
        BY <1>1, SendAppends DEF TypeOK
      <4>2. sent' = sent
        BY <1>1 DEF clientVars
      <4>3. QED
        BY <4>1, <4>2
    <3>2. ~ PeerCloses
      BY <1>1 DEF PeerCloses, clientVars
    <3>3. QED
      BY <1>1, <3>1, <3>2 DEF Next, Client, EventOnTcpRead, ReceiveNothing, TooShort, Receive
  <2>2. PICK len \in 0 .. Wrap - 1 : CutNext(len)
    BY <2>1
  <2>3. len \in PacketLength /\ len # Wrap - 2
    BY <1>1, <2>2 DEF CutNext, EndlessPacket
  <2>4. TotalLength(len) \in Nat /\ TotalLength(len) > 0
    BY <2>3, TotalIsPositive
  <2>5. Cut(TotalLength(len))
    BY <1>1, <2>2 DEF CutNext, Discard, Incomplete
  <2>6. Offset' = Offset - TotalLength(len)
    BY <1>1, <2>4, <2>5, CutStorageType DEF Offset
  <2>7. Offset \in Nat
    BY <1>1 DEF TypeOK, Offset
  <2>8. QED
    BY <2>4, <2>6, <2>7
<1>2. TypeOK /\ [Next]_vars =>
        [(pc = "cut" /\ pc' = "cut" /\ UNCHANGED clientVars)
           => (Offset' < Offset \/ EndlessPacket)]_vars
  BY <1>1
<1>3. QED
  BY <1>2, TypeCorrect, PTL DEF Spec, EachTurnShortensStorage
=============================================================================
