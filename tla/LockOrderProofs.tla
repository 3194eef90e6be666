-------------------------- MODULE LockOrderProofs --------------------------
(***************************************************************************)
(* No circle of threads that wait for each other's mutexes, for any number *)
(* of threads in the async pool.                                           *)
(*                                                                         *)
(* Mutexes are ranked so that each operation takes them in rising order;   *)
(* among threads in a circle the one that waits for the highest rank would *)
(* have to be waited for by one that waits for a higher one.  That an      *)
(* operation rises is proved along the way it is put together.             *)
(***************************************************************************)
EXTENDS LockOrder, SequenceTheorems, TLAPS

\* The order of the mutexes: whoever holds one takes only higher ones.
Rank(l) ==
  CASE l[1] = "links"        -> 1
    [] l[1] = "terminations" -> 2
    [] l[1] = "syncPool"     -> 3
    [] l[1] = "asyncPool"    -> 4
    [] l[1] = "wait"         -> 5
    [] l[1] = "proc"         -> 6
    [] l[1] = "rooms"        -> 7
    [] l[1] = "room"         -> 8
    [] l[1] = "watchers"     -> 9
    [] l[1] = "rtp"          -> 10
    [] l[1] = "user"         -> 11
    [] l[1] = "protection"   -> 12
    [] l[1] = "clientRooms"  -> 13
    [] l[1] = "avsStatus"    -> 14

Points == [held : Seq(Locks), takes : Locks \cup {NoMutex},
           does : {"nothing", "encodes", "encodes unlocked"}]

HeldAt(p) == {p.held[i] : i \in 1 .. Len(p.held)}

\* From p to q a mutex is taken above those held, and no other comes to be held.
Rises(p, q) ==
  /\ q.takes # NoMutex => \A l \in HeldAt(p) : Rank(l) < Rank(q.takes)
  /\ HeldAt(q) \subseteq HeldAt(p) \cup {q.takes}

\* The session is used with its mutex, or by those that never take it.
Guarded(p) == p.does = "encodes" => Mutex("rtp") \in HeldAt(p)

IsHigh(n, p) ==
  /\ \A l \in HeldAt(p) : Rank(l) > n
  /\ p.takes # NoMutex => Rank(p.takes) > n

\* A piece of an operation that needs nothing held, holds nothing when it ends, and
\* keeps above rank n.
Nests(n, s) ==
  /\ s \in Seq(Points) /\ Len(s) > 0
  /\ \A i \in 1 .. Len(s) : IsHigh(n, s[i])
  /\ \A i \in 1 .. Len(s) - 1 : Rises(s[i], s[i + 1])
  /\ HeldAt(s[1]) \subseteq {s[1].takes}
  /\ s[Len(s)].held = <<>>

AllGuarded(s) == \A i \in 1 .. Len(s) : Guarded(s[i])

Above(n, s) == Nests(n, s) /\ AllGuarded(s)
-----------------------------------------------------------------------------
(* Ranks. *)

LEMMA MutexRanks ==
  /\ Mutex("links") \in Locks /\ Rank(Mutex("links")) = 1
  /\ Mutex("terminations") \in Locks /\ Rank(Mutex("terminations")) = 2
  /\ Mutex("syncPool") \in Locks /\ Rank(Mutex("syncPool")) = 3
  /\ Mutex("asyncPool") \in Locks /\ Rank(Mutex("asyncPool")) = 4
  /\ Mutex("rooms") \in Locks /\ Rank(Mutex("rooms")) = 7
  /\ Mutex("room") \in Locks /\ Rank(Mutex("room")) = 8
  /\ Mutex("watchers") \in Locks /\ Rank(Mutex("watchers")) = 9
  /\ Mutex("rtp") \in Locks /\ Rank(Mutex("rtp")) = 10
  /\ Mutex("user") \in Locks /\ Rank(Mutex("user")) = 11
  /\ Mutex("protection") \in Locks /\ Rank(Mutex("protection")) = 12
  /\ Mutex("clientRooms") \in Locks /\ Rank(Mutex("clientRooms")) = 13
  /\ Mutex("avsStatus") \in Locks /\ Rank(Mutex("avsStatus")) = 14
  /\ \A w \in Workers : /\ <<"wait", w>> \in Locks /\ Rank(<<"wait", w>>) = 5
                        /\ <<"proc", w>> \in Locks /\ Rank(<<"proc", w>>) = 6
BY DEF Mutex, Locks, Rank

LEMMA RankType == \A l \in Locks : Rank(l) \in 1 .. 14
<1> SUFFICES ASSUME NEW l \in Locks PROVE Rank(l) \in 1 .. 14
  OBVIOUS
<1>1. l[1] \in {"links", "terminations", "clientRooms", "avsStatus", "syncPool", "asyncPool",
                "rooms", "room", "watchers", "rtp", "user", "protection", "wait", "proc"}
  BY DEF Locks
<1>2. QED  BY <1>1 DEF Rank
-----------------------------------------------------------------------------
(* Points and the pieces they make. *)

LEMMA FreeIsAbove ==
  ASSUME NEW n \in Nat
  PROVE  /\ Free \in Points /\ HeldAt(Free) = {} /\ Free.held = <<>> /\ Free.takes = NoMutex
         /\ IsHigh(n, Free) /\ Guarded(Free)
BY DEF Free, Point, Points, HeldAt, IsHigh, Guarded

\* What a point holds are mutexes.
LEMMA HeldAreLocks ==
  ASSUME NEW p \in Points
  PROVE  HeldAt(p) \subseteq Locks /\ p.takes \in Locks \cup {NoMutex}
<1>1. p.held \in Seq(Locks) /\ p.takes \in Locks \cup {NoMutex}
  BY DEF Points
<1>2. \A i \in 1 .. Len(p.held) : p.held[i] \in Locks
  BY <1>1
<1>3. QED  BY <1>1, <1>2 DEF HeldAt

LEMMA PointIsAbove ==
  ASSUME NEW n \in Nat, NEW p \in Points, p.held = <<>>,
         p.takes = NoMutex \/ Rank(p.takes) > n
  PROVE  Nests(n, <<p>>) /\ (p.does # "encodes" => Above(n, <<p>>))
<1>1. HeldAt(p) = {}
  BY DEF HeldAt
<1>2. IsHigh(n, p) /\ (p.does # "encodes" => Guarded(p))
  BY <1>1 DEF IsHigh, Guarded
<1>3. <<p>> \in Seq(Points)
  OBVIOUS
<1>4. Len(<<p>>) = 1 /\ <<p>>[1] = p
  OBVIOUS
<1>5. \A i \in 1 .. Len(<<p>>) : <<p>>[i] = p
  BY <1>4
<1>6. \A i \in 1 .. Len(<<p>>) - 1 : FALSE
  BY <1>4
<1>7. QED  BY <1>1, <1>2, <1>3, <1>4, <1>5, <1>6 DEF Above, Nests, AllGuarded

LEMMA BriefAbove ==
  ASSUME NEW n \in Nat, NEW l \in Locks, n < Rank(l)
  PROVE  Above(n, Brief(l))
<1> DEFINE p == Point(<<>>, l, "nothing")
<1>1. p \in Points /\ p.held = <<>> /\ p.takes = l /\ p.does = "nothing"
  BY DEF Point, Points
<1> HIDE DEF p
<1>2. Above(n, <<p>>)
  BY <1>1, PointIsAbove, RankType
<1>3. QED  BY <1>2 DEF Brief, p

LEMMA UnlockedAbove ==
  ASSUME NEW n \in Nat
  PROVE  Above(n, Does("encodes unlocked"))
<1> DEFINE p == Point(<<>>, NoMutex, "encodes unlocked")
<1>1. p \in Points /\ p.held = <<>> /\ p.takes = NoMutex /\ p.does = "encodes unlocked"
  BY DEF Point, Points
<1> HIDE DEF p
<1>2. Above(n, <<p>>)
  BY <1>1, PointIsAbove
<1>3. QED  BY <1>2 DEF Does, p

\* A piece above a rank is above the lower ranks.
LEMMA LowerAbove ==
  ASSUME NEW n \in Nat, NEW m \in Nat, m <= n, NEW s, Above(n, s)
  PROVE  Above(m, s)
<1>1. \A i \in 1 .. Len(s) : s[i] \in Points
  BY DEF Above, Nests, AllGuarded
<1>2. ASSUME NEW p \in Points, IsHigh(n, p) PROVE IsHigh(m, p)
  <2>1. HeldAt(p) \subseteq Locks /\ (p.takes # NoMutex => p.takes \in Locks)
    BY HeldAreLocks
  <2>2. QED  BY <1>2, <2>1, RankType DEF IsHigh
<1>3. QED  BY <1>1, <1>2 DEF Above, Nests, AllGuarded

\* One piece after another.
LEMMA ThenAbove ==
  ASSUME NEW n \in Nat, NEW a, NEW b, Above(n, a), Above(n, b)
  PROVE  Above(n, a \o b)
<1> DEFINE s == a \o b
<1>1. /\ a \in Seq(Points) /\ b \in Seq(Points)
      /\ Len(a) \in Nat \ {0} /\ Len(b) \in Nat \ {0}
  BY DEF Above, Nests, AllGuarded
<1>2. /\ s \in Seq(Points) /\ Len(s) = Len(a) + Len(b)
      /\ \A i \in 1 .. Len(a) : s[i] = a[i]
      /\ \A i \in Len(a) + 1 .. Len(s) : s[i] = b[i - Len(a)]
  <2>1. /\ s \in Seq(Points) /\ Len(s) = Len(a) + Len(b)
        /\ \A i \in 1 .. Len(a) + Len(b) : s[i] = IF i <= Len(a) THEN a[i] ELSE b[i - Len(a)]
    BY <1>1, ConcatProperties
  <2> HIDE DEF s
  <2>2. QED  BY <1>1, <2>1
<1> HIDE DEF s
<1>3. \A i \in 1 .. Len(s) : IsHigh(n, s[i]) /\ Guarded(s[i])
  <2> SUFFICES ASSUME NEW i \in 1 .. Len(s) PROVE IsHigh(n, s[i]) /\ Guarded(s[i])
    OBVIOUS
  <2>1. CASE i \in 1 .. Len(a)  BY <1>2, <2>1 DEF Above, Nests, AllGuarded
  <2>2. CASE i \in Len(a) + 1 .. Len(s)
    <3>1. i - Len(a) \in 1 .. Len(b)  BY <1>1, <1>2, <2>2
    <3>2. QED  BY <1>2, <2>2, <3>1 DEF Above, Nests, AllGuarded
  <2>3. QED  BY <1>1, <1>2, <2>1, <2>2
<1>4. \A i \in 1 .. Len(s) - 1 : Rises(s[i], s[i + 1])
  <2> SUFFICES ASSUME NEW i \in 1 .. Len(s) - 1 PROVE Rises(s[i], s[i + 1])
    OBVIOUS
  <2>1. CASE i < Len(a)
    <3>1. i \in 1 .. Len(a) - 1 /\ i \in 1 .. Len(a) /\ i + 1 \in 1 .. Len(a)
      BY <1>1, <1>2, <2>1
    <3>2. QED  BY <1>2, <3>1 DEF Above, Nests, AllGuarded
  <2>2. CASE i = Len(a)
    <3>1. i \in 1 .. Len(a) /\ i + 1 \in Len(a) + 1 .. Len(s) /\ (i + 1) - Len(a) = 1
      BY <1>1, <1>2, <2>2
    <3>2. s[i].held = <<>> /\ s[i + 1] = b[1]
      BY <1>2, <2>2, <3>1 DEF Above, Nests, AllGuarded
    <3>3. HeldAt(s[i]) = {}
      BY <3>2 DEF HeldAt
    <3>4. QED  BY <3>2, <3>3 DEF Above, Nests, AllGuarded, Rises
  <2>3. CASE i > Len(a)
    <3> DEFINE j == i - Len(a)
    <3>1. /\ j \in 1 .. Len(b) - 1 /\ (i + 1) - Len(a) = j + 1
          /\ i \in Len(a) + 1 .. Len(s) /\ i + 1 \in Len(a) + 1 .. Len(s)
      BY <1>1, <1>2, <2>3
    <3>2. s[i] = b[j] /\ s[i + 1] = b[j + 1]
      BY <1>2, <3>1
    <3>3. QED  BY <3>1, <3>2 DEF Above, Nests, AllGuarded
  <2>4. QED  BY <1>1, <1>2, <2>1, <2>2, <2>3
<1>5. s[1] = a[1] /\ s[Len(s)] = b[Len(b)]
  BY <1>1, <1>2
<1>6. QED  BY <1>1, <1>2, <1>3, <1>4, <1>5 DEF Above, Nests, AllGuarded, s

LEMMA OneElement ==
  ASSUME NEW S, NEW x \in S
  PROVE  <<x>> \in Seq(S) /\ Len(<<x>>) = 1 /\ <<x>>[1] = x
<1>1. <<x>> \in Seq(S)
  OBVIOUS
<1>2. Len(<<x>>) = 1
  OBVIOUS
<1>3. <<x>>[1] = x
  OBVIOUS
<1>4. QED  BY <1>1, <1>2, <1>3

\* A point of a body, under one mutex more.
Inside(l, q) == [q EXCEPT !.held = <<l>> \o @]

LEMMA InsidePoint ==
  ASSUME NEW l \in Locks, NEW q \in Points
  PROVE  /\ Inside(l, q) \in Points
         /\ HeldAt(Inside(l, q)) = {l} \cup HeldAt(q)
         /\ Inside(l, q).takes = q.takes /\ Inside(l, q).does = q.does
<1> DEFINE h == <<l>> \o q.held
<1>0. q.held \in Seq(Locks)
  BY DEF Points
<1>1. q.held \in Seq(Locks) /\ <<l>> \in Seq(Locks) /\ Len(<<l>>) = 1 /\ <<l>>[1] = l
  BY <1>0, OneElement
<1>2. /\ h \in Seq(Locks) /\ Len(h) = 1 + Len(q.held)
      /\ \A i \in 1 .. 1 + Len(q.held) : h[i] = IF i <= 1 THEN <<l>>[i] ELSE q.held[i - 1]
  BY <1>1, ConcatProperties
<1> HIDE DEF h
<1>3. Inside(l, q) = [q EXCEPT !.held = h]
  BY DEF Inside, h
<1>4. /\ Inside(l, q) \in Points /\ Inside(l, q).held = h
      /\ Inside(l, q).takes = q.takes /\ Inside(l, q).does = q.does
  BY <1>2, <1>3 DEF Points
<1> DEFINE A == {h[i] : i \in 1 .. Len(h)}
           B == {q.held[i] : i \in 1 .. Len(q.held)}
<1>5. A = {l} \cup B
  <2>1. Len(q.held) \in Nat
    BY <1>1
  <2>2. h[1] = l /\ 1 \in 1 .. Len(h)
    BY <1>1, <1>2, <2>1
  <2>3. \A i \in 1 .. Len(q.held) : i + 1 \in 1 .. Len(h) /\ h[i + 1] = q.held[i]
    BY <1>2, <2>1
  <2>4. \A i \in 1 .. Len(h) : i = 1 \/ (i - 1 \in 1 .. Len(q.held) /\ h[i] = q.held[i - 1])
    BY <1>2, <2>1
  <2>5. A \subseteq {l} \cup B
    BY <2>2, <2>4
  <2>6. l \in A
    BY <2>2
  <2>7. B \subseteq A
    BY <2>3
  <2> HIDE DEF A, B
  <2>8. QED  BY <2>5, <2>6, <2>7
<1>6. QED  BY <1>4, <1>5 DEF HeldAt

\* A body under a mutex of a lower rank, and under that of the session, if it needs it.
LEMMA UnderNests ==
  ASSUME NEW n \in Nat, NEW l \in Locks, n < Rank(l), NEW body, Nests(Rank(l), body),
         AllGuarded(body) \/ l = Mutex("rtp")
  PROVE  Above(n, Under(l, body))
<1> DEFINE p == Point(<<l>>, l, "nothing")
           w == Within(l, body)
           len == Len(body)
           s == Under(l, body)
<1>0. Rank(l) \in Nat
  BY RankType
<1>1. /\ body \in Seq(Points) /\ len \in Nat \ {0}
      /\ \A i \in 1 .. len : body[i] \in Points
  BY DEF Above, Nests, AllGuarded
<1>2. p \in Points /\ HeldAt(p) = {l} /\ p.takes = l /\ p.does = "nothing"
  <2>1. <<l>> \in Seq(Locks) /\ Len(<<l>>) = 1 /\ <<l>>[1] = l
    BY OneElement
  <2>2. p \in Points /\ p.held = <<l>> /\ p.takes = l /\ p.does = "nothing"
    BY <2>1 DEF Point, Points
  <2> HIDE DEF p
  <2>3. HeldAt(p) = {l}
    <3> DEFINE h == <<l>>
    <3>1. Len(h) = 1 /\ h[1] = l
      BY <2>1
    <3> HIDE DEF h
    <3>2. 1 .. Len(h) = {1}
      BY <3>1
    <3>3. {h[i] : i \in 1 .. Len(h)} = {l}
      BY <3>1, <3>2
    <3>4. p.held = h
      BY <2>2 DEF h
    <3>5. QED  BY <3>3, <3>4 DEF HeldAt
  <2>4. QED  BY <2>2, <2>3
<1>3. /\ w \in Seq(Points) /\ Len(w) = len
      /\ \A i \in 1 .. len : w[i] = Inside(l, body[i])
  <2>1. w = [i \in 1 .. len |-> Inside(l, body[i])]
    BY DEF Within, Inside
  <2>2. \A i \in 1 .. len : Inside(l, body[i]) \in Points
    BY <1>1, InsidePoint
  <2> HIDE DEF w, len
  <2>3. QED  BY <1>1, <2>1, <2>2
<1>4. /\ s \in Seq(Points) /\ Len(s) = len + 2 /\ s[1] = p /\ s[len + 2] = Free
      /\ \A i \in 2 .. len + 1 : s[i] = w[i - 1]
  <2> HIDE DEF w, p, len
  <2> DEFINE pw == <<p>> \o w
  <2>1. /\ <<p>> \in Seq(Points) /\ Len(<<p>>) = 1 /\ <<p>>[1] = p
        /\ <<Free>> \in Seq(Points) /\ Len(<<Free>>) = 1 /\ <<Free>>[1] = Free
    BY <1>2, FreeIsAbove
  <2>2. /\ pw \in Seq(Points) /\ Len(pw) = 1 + len
        /\ \A i \in 1 .. 1 + len : pw[i] = IF i <= 1 THEN <<p>>[i] ELSE w[i - 1]
    BY <1>3, <2>1, ConcatProperties
  <2> HIDE DEF pw
  <2>3. /\ pw \o <<Free>> \in Seq(Points) /\ Len(pw \o <<Free>>) = (1 + len) + 1
        /\ \A i \in 1 .. (1 + len) + 1 :
             (pw \o <<Free>>)[i] = IF i <= 1 + len THEN pw[i] ELSE <<Free>>[i - (1 + len)]
    BY <2>1, <2>2, ConcatProperties
  <2>4. s = pw \o <<Free>>
    BY DEF Under, p, w, pw
  <2> HIDE DEF s
  <2>5. /\ s \in Seq(Points) /\ Len(s) = len + 2
        /\ \A i \in 1 .. len + 2 : s[i] = IF i <= 1 + len THEN pw[i] ELSE <<Free>>[i - (1 + len)]
    BY <1>1, <2>3, <2>4
  <2>6. s[1] = p /\ s[len + 2] = Free
    BY <1>1, <2>1, <2>2, <2>5
  <2>7. \A i \in 2 .. len + 1 : s[i] = w[i - 1]
    BY <1>1, <2>2, <2>5
  <2>8. QED  BY <2>5, <2>6, <2>7
<1> HIDE DEF p, w, s, len
<1>5. \A i \in 1 .. len : /\ body[i] \in Points /\ w[i] \in Points
                          /\ HeldAt(w[i]) = {l} \cup HeldAt(body[i])
                          /\ w[i].takes = body[i].takes /\ w[i].does = body[i].does
  BY <1>1, <1>3, InsidePoint
<1>6. /\ \A i \in 1 .. len : IsHigh(Rank(l), body[i])
      /\ \A i \in 1 .. len : (Guarded(body[i]) \/ l = Mutex("rtp"))
      /\ \A i \in 1 .. len - 1 : Rises(body[i], body[i + 1])
      /\ HeldAt(body[1]) \subseteq {body[1].takes}
      /\ HeldAt(body[len]) = {}
  <2>1. body[len].held = <<>>
    BY DEF Above, Nests, AllGuarded, len
  <2>2. HeldAt(body[len]) = {}
    BY <2>1 DEF HeldAt
  <2>3. QED  BY <2>2 DEF Above, Nests, AllGuarded, len
<1>7. \A i \in 1 .. len : IsHigh(n, w[i]) /\ Guarded(w[i])
  <2> SUFFICES ASSUME NEW i \in 1 .. len PROVE IsHigh(n, w[i]) /\ Guarded(w[i])
    OBVIOUS
  <2>1. HeldAt(body[i]) \subseteq Locks /\ body[i].takes \in Locks \cup {NoMutex}
    BY <1>5, HeldAreLocks
  <2>2. IsHigh(n, w[i])
    BY <1>0, <1>5, <1>6, <2>1, RankType DEF IsHigh
  <2>3. Guarded(w[i])
    BY <1>5, <1>6 DEF Guarded
  <2>4. QED  BY <2>2, <2>3
<1>8. \A i \in 1 .. Len(s) : IsHigh(n, s[i]) /\ Guarded(s[i])
  <2>1. IsHigh(n, p) /\ Guarded(p)
    BY <1>2 DEF IsHigh, Guarded
  <2>2. \A i \in 2 .. len + 1 : IsHigh(n, s[i]) /\ Guarded(s[i])
    <3>1. \A i \in 2 .. len + 1 : i - 1 \in 1 .. len  BY <1>1
    <3>2. QED  BY <1>4, <1>7, <3>1
  <2>3. \A i \in 1 .. Len(s) : i = 1 \/ i \in 2 .. len + 1 \/ i = len + 2
    BY <1>1, <1>4
  <2>4. QED  BY <1>4, <2>1, <2>2, <2>3, FreeIsAbove
<1>9. \A i \in 1 .. Len(s) - 1 : Rises(s[i], s[i + 1])
  <2> SUFFICES ASSUME NEW i \in 1 .. Len(s) - 1 PROVE Rises(s[i], s[i + 1])
    OBVIOUS
  <2>1. CASE i = 1
    <3>1. s[i] = p /\ s[i + 1] = w[1] /\ 1 \in 1 .. len
      BY <1>1, <1>4, <2>1
    <3>2. HeldAt(w[1]) \subseteq {l} \cup {w[1].takes}
      BY <1>5, <1>6, <3>1
    <3>3. w[1].takes # NoMutex => Rank(w[1].takes) > Rank(l)
      BY <1>5, <1>6, <3>1 DEF IsHigh
    <3>4. w[1].takes # NoMutex => w[1].takes \in Locks
      BY <1>5, <3>1, HeldAreLocks
    <3>5. QED  BY <1>0, <1>2, <3>1, <3>2, <3>3, <3>4, RankType DEF Rises
  <2>2. CASE i \in 2 .. len
    <3> DEFINE j == i - 1
    <3>0. /\ i \in 2 .. len + 1 /\ i + 1 \in 2 .. len + 1 /\ (i + 1) - 1 = j + 1
          /\ j \in 1 .. len - 1 /\ j \in 1 .. len /\ j + 1 \in 1 .. len
      BY <1>1, <2>2
    <3>1. /\ j \in 1 .. len - 1 /\ j \in 1 .. len /\ j + 1 \in 1 .. len
          /\ s[i] = w[j] /\ s[i + 1] = w[j + 1]
      BY <1>4, <3>0
    <3> HIDE DEF j
    <3>2. Rises(body[j], body[j + 1]) /\ IsHigh(Rank(l), body[j + 1])
      BY <1>6, <3>1
    <3>3. w[j + 1].takes # NoMutex => w[j + 1].takes \in Locks
      BY <1>5, <3>1, HeldAreLocks
    <3>4. w[j + 1].takes # NoMutex => \A k \in HeldAt(w[j]) : Rank(k) < Rank(w[j + 1].takes)
      BY <1>0, <1>5, <3>1, <3>2, <3>3, RankType DEF Rises, IsHigh
    <3>5. HeldAt(w[j + 1]) \subseteq HeldAt(w[j]) \cup {w[j + 1].takes}
      BY <1>5, <3>1, <3>2 DEF Rises
    <3>6. QED  BY <3>1, <3>4, <3>5 DEF Rises
  <2>3. CASE i = len + 1
    <3>1. s[i + 1] = Free
      BY <1>1, <1>4, <2>3
    <3>2. QED  BY <3>1, FreeIsAbove DEF Rises
  <2>4. QED  BY <1>1, <1>4, <2>1, <2>2, <2>3
<1>10. HeldAt(s[1]) \subseteq {s[1].takes} /\ s[Len(s)].held = <<>> /\ Len(s) > 0
  BY <1>1, <1>2, <1>4, FreeIsAbove
<1>11. Above(n, s)
  BY <1>4, <1>8, <1>9, <1>10 DEF Above, Nests, AllGuarded
<1>12. QED  BY <1>11 DEF s

LEMMA UnderAbove ==
  ASSUME NEW n \in Nat, NEW l \in Locks, n < Rank(l), NEW body, Above(Rank(l), body)
  PROVE  Above(n, Under(l, body))
BY UnderNests DEF Above

LEMMA SendRTPPacketAbove == Above(9, SendRTPPacket)
<1> DEFINE p == Point(<<>>, NoMutex, "encodes")
<1>1. p \in Points /\ p.held = <<>> /\ p.takes = NoMutex
  BY DEF Point, Points
<1> HIDE DEF p
<1>2. Nests(10, <<p>>)
  BY <1>1, PointIsAbove
<1>3. Nests(10, Does("encodes"))
  BY <1>2 DEF Does, p
<1>4. QED  BY <1>3, UnderNests, MutexRanks DEF SendRTPPacket
-----------------------------------------------------------------------------
(* The operations. *)

\* Those that others call, above the mutexes they are called under.
LEMMA PartsAbove ==
  /\ Above(6, GetRoom) /\ Above(0, SendUnlocked)
  /\ Above(9, RoomState) /\ Above(9, GetRoomInfo)
  /\ Above(7, OnAddUser) /\ Above(7, OnLinkUser) /\ Above(7, Destory)
  /\ Above(0, SendTCPPacketToAllClient) /\ Above(0, RegisterLink)
<1>1. Above(6, GetRoom)
  BY BriefAbove, MutexRanks DEF GetRoom
<1>2. Above(0, SendUnlocked)
  <2>1. Above(0, Brief(Mutex("protection")))
    BY BriefAbove, MutexRanks
  <2>2. QED  BY <2>1, UnlockedAbove, ThenAbove DEF SendUnlocked
<1>3. Above(9, RoomState)
  BY BriefAbove, MutexRanks DEF RoomState
<1>4. Above(10, Brief(Mutex("user"))) /\ Above(8, Brief(Mutex("user"))) /\ Above(8, Brief(Mutex("watchers")))
  BY BriefAbove, MutexRanks
<1>5. Above(9, GetRoomInfo)
  BY <1>4, UnderAbove, MutexRanks DEF GetRoomInfo
<1>6. Above(7, OnAddUser) /\ Above(7, OnLinkUser) /\ Above(7, Destory)
  BY <1>4, UnderAbove, MutexRanks DEF OnAddUser, OnLinkUser, Destory
<1>7. Above(0, SendTCPPacketToAllClient)
  BY BriefAbove, MutexRanks DEF SendTCPPacketToAllClient
<1>8. Above(0, RegisterLink)
  <2>1. Above(0, Brief(Mutex("links"))) /\ Above(0, Brief(Mutex("clientRooms")))
    BY BriefAbove, MutexRanks
  <2>2. QED  BY <2>1, ThenAbove DEF RegisterLink
<1>9. QED  BY <1>1, <1>2, <1>3, <1>5, <1>6, <1>7, <1>8

LEMMA OthersAbove ==
  /\ Above(0, GetRoom) /\ Above(0, RoomState) /\ Above(0, OnAddUser) /\ Above(0, OnLinkUser)
  /\ Above(0, SendRTPPacketToAllAvs) /\ Above(0, SendRoomUserInfo)
  /\ Above(0, LoginNew) /\ Above(0, LoginAgain) /\ Above(0, Logout)
  /\ Above(0, SendKeepalivePacketToAllAvs)
<1>1. /\ Above(0, GetRoom) /\ Above(0, RoomState) /\ Above(0, GetRoomInfo)
      /\ Above(0, OnAddUser) /\ Above(0, OnLinkUser) /\ Above(0, SendRTPPacket)
      /\ Above(7, SendRTPPacket) /\ Above(7, RoomState)
  BY PartsAbove, SendRTPPacketAbove, LowerAbove
<1>2. Above(0, SendRTPPacketToAllAvs)
  BY <1>1, UnderAbove, MutexRanks DEF SendRTPPacketToAllAvs
<1>3. Above(0, SendRoomUserInfo)
  <2>1. Above(1, Brief(Mutex("terminations")))
    BY BriefAbove, MutexRanks
  <2>2. Above(0, Under(Mutex("links"), Brief(Mutex("terminations"))))
    BY <2>1, UnderAbove, MutexRanks
  <2>3. Above(0, GetRoom \o GetRoomInfo)
    BY <1>1, ThenAbove
  <2>4. QED  BY <2>2, <2>3, ThenAbove DEF SendRoomUserInfo
<1>4. Above(0, Brief(Mutex("rooms")))
  BY BriefAbove, MutexRanks
<1>5. Above(0, LoginNew)
  <2>1. Above(0, Under(Mutex("rooms"), RoomState))
    BY <1>1, UnderAbove, MutexRanks
  <2>2. QED  BY <1>1, <2>1, ThenAbove DEF LoginNew
<1>6. Above(0, LoginAgain)
  BY <1>1, <1>4, ThenAbove DEF LoginAgain
<1>7. Above(0, Logout)
  <2>1. Above(7, SendRTPPacket \o Destory)
    BY <1>1, PartsAbove, ThenAbove
  <2>2. QED  BY <2>1, UnderAbove, MutexRanks DEF Logout
<1>8. Above(0, SendKeepalivePacketToAllAvs)
  <2>1. Above(7, RoomState \o SendRTPPacket)
    BY <1>1, ThenAbove
  <2>2. QED  BY <2>1, UnderAbove, MutexRanks DEF SendKeepalivePacketToAllAvs
<1>9. QED  BY <1>1, <1>2, <1>3, <1>5, <1>6, <1>7, <1>8

LEMMA BriefsAbove ==
  /\ Above(0, Brief(Mutex("links"))) /\ Above(0, Brief(Mutex("clientRooms")))
  /\ Above(0, Brief(Mutex("avsStatus"))) /\ Above(0, Brief(Mutex("user")))
  /\ Above(0, Brief(Mutex("terminations"))) /\ Above(0, Brief(Mutex("rooms")))
  /\ Above(0, Brief(Mutex("room")))
BY BriefAbove, MutexRanks

\* The tasks of the sync thread.
LEMMA SyncTasksAbove == \A op \in SyncTasks : op = <<>> \/ Above(0, op)
<1> DEFINE link == GetRoom \o RoomState
<1>1. Above(0, GetRoom \o Brief(Mutex("avsStatus")) \o RegisterLink \o LoginNew)
  <2>1. Above(0, GetRoom \o Brief(Mutex("avsStatus")))
    BY OthersAbove, BriefsAbove, ThenAbove
  <2>2. Above(0, GetRoom \o Brief(Mutex("avsStatus")) \o RegisterLink)
    BY <2>1, PartsAbove, ThenAbove
  <2>3. QED  BY <2>2, OthersAbove, ThenAbove
<1>2. Above(0, link)
  BY OthersAbove, ThenAbove
<1>3. Above(0, link \o RegisterLink \o SendRoomUserInfo)
  <2>1. Above(0, link \o RegisterLink)
    BY <1>2, PartsAbove, ThenAbove
  <2>2. QED  BY <2>1, OthersAbove, ThenAbove
<1>4. Above(0, link \o RoomState \o RegisterLink \o LoginAgain)
  <2>1. Above(0, link \o RoomState)
    BY <1>2, OthersAbove, ThenAbove
  <2>2. Above(0, link \o RoomState \o RegisterLink)
    BY <2>1, PartsAbove, ThenAbove
  <2>3. QED  BY <2>2, OthersAbove, ThenAbove
<1>5. /\ Above(0, Brief(Mutex("clientRooms")) \o Brief(Mutex("links")) \o Logout)
      /\ Above(0, Brief(Mutex("links")) \o Brief(Mutex("clientRooms")) \o Logout)
  <2>1. /\ Above(0, Brief(Mutex("clientRooms")) \o Brief(Mutex("links")))
        /\ Above(0, Brief(Mutex("links")) \o Brief(Mutex("clientRooms")))
    BY BriefsAbove, ThenAbove
  <2>2. QED  BY <2>1, OthersAbove, ThenAbove
<1>6. Above(0, GetRoom \o OnAddUser \o RoomState \o SendRoomUserInfo)
  <2>1. Above(0, GetRoom \o OnAddUser)
    BY OthersAbove, ThenAbove
  <2>2. Above(0, GetRoom \o OnAddUser \o RoomState)
    BY <2>1, OthersAbove, ThenAbove
  <2>3. QED  BY <2>2, OthersAbove, ThenAbove
<1>7. /\ Above(0, OnAddUser \o SendTCPPacketToAllClient)
      /\ Above(0, Brief(Mutex("user")) \o SendTCPPacketToAllClient)
      /\ Above(0, OnLinkUser \o SendRTPPacketToAllAvs)
      /\ Above(0, Brief(Mutex("terminations")) \o SendUnlocked)
  BY PartsAbove, OthersAbove, BriefsAbove, ThenAbove
<1>8. Above(0, GetRoom \o OnLinkUser \o SendRTPPacketToAllAvs)
  <2>1. Above(0, GetRoom \o OnLinkUser)
    BY OthersAbove, ThenAbove
  <2>2. QED  BY <2>1, OthersAbove, ThenAbove
<1>9. QED
  BY <1>1, <1>3, <1>4, <1>5, <1>6, <1>7, <1>8, BriefsAbove DEF SyncTasks

LEMMA MediaTasksAbove == \A op \in MediaTasks : op = <<>> \/ Above(0, op)
<1>1. Above(11, Brief(Mutex("protection")))
  BY BriefAbove, MutexRanks
<1>2. Above(0, Under(Mutex("user"), Brief(Mutex("protection"))))
  BY <1>1, UnderAbove, MutexRanks
<1>3. Above(0, GetRoom \o Brief(Mutex("room")))
  BY OthersAbove, BriefsAbove, ThenAbove
<1>4. QED  BY <1>2, <1>3, ThenAbove DEF MediaTasks

\* What a thread of a pool does with them.
LEMMA PoolAbove ==
  ASSUME NEW w \in Workers, NEW tasks, \A op \in tasks : op = <<>> \/ Above(0, op)
  PROVE  \A op \in Pool(w, tasks) : Above(0, op)
<1> DEFINE p == Brief(<<"proc", w>>)
<1>1. Above(0, Brief(<<"wait", w>>)) /\ Above(0, p)
  BY BriefAbove, MutexRanks
<1> HIDE DEF p
<1>2. ASSUME NEW op \in tasks PROVE Above(0, p \o op \o p)
  <2>1. CASE op = <<>>
    <3>1. p \o <<>> = p
      BY <1>1, ConcatEmptySeq DEF Above, Nests
    <3>2. QED  BY <1>1, <2>1, <3>1, ThenAbove
  <2>2. CASE Above(0, op)
    <3>1. Above(0, p \o op)
      BY <1>1, <2>2, ThenAbove
    <3>2. QED  BY <1>1, <3>1, ThenAbove
  <2>3. QED  BY <2>1, <2>2
<1>3. QED  BY <1>1, <1>2 DEF Pool, p

LEMMA SchedulesAbove ==
  /\ Above(2, ScheduleSync)
  /\ \A w, v \in Media : Above(0, ScheduleAsync(w, v))
<1>1. ASSUME NEW w \in Workers
      PROVE  Above(4, Push(w)) /\ Above(4, Load(w))
  <2> DEFINE wait == <<"wait", w>>
             proc == <<"proc", w>>
  <2>0. wait \in Locks /\ Rank(wait) = 5 /\ proc \in Locks /\ Rank(proc) = 6
    BY <1>1, MutexRanks
  <2> HIDE DEF wait, proc
  <2>1. Above(4, Brief(wait)) /\ Above(5, Brief(proc))
    BY <2>0, BriefAbove
  <2>2. Above(4, Under(wait, Brief(proc)))
    BY <2>0, <2>1, UnderAbove
  <2>3. Above(4, Push(w)) /\ Above(4, Load(w))
    BY <2>1, <2>2 DEF Push, Load, wait, proc
  <2>4. QED  BY <2>3
<1>2. Above(2, ScheduleSync)
  <2>1. Above(3, Push(Sync))
    BY <1>1, LowerAbove DEF Workers
  <2>2. QED  BY <2>1, UnderAbove, MutexRanks DEF ScheduleSync
<1>3. ASSUME NEW w \in Media, NEW v \in Media PROVE Above(0, ScheduleAsync(w, v))
  <2>1. Above(4, Push(w)) /\ Above(4, Load(v)) /\ Above(4, Load(w))
    BY <1>1 DEF Workers
  <2>2. Above(4, Push(w) \o Load(v))
    BY <2>1, ThenAbove
  <2>3. Above(4, Push(w) \o Load(v) \o Load(w))
    BY <2>1, <2>2, ThenAbove
  <2>4. QED  BY <2>3, UnderAbove, MutexRanks DEF ScheduleAsync
<1>4. QED  BY <1>2, <1>3

LEMMA EventHandlersAbove == \A op \in EventHandlers : Above(0, op)
<1>1. Above(2, ScheduleSync) /\ Above(0, ScheduleSync)
  BY SchedulesAbove, LowerAbove
<1>2. Above(0, Under(Mutex("terminations"), ScheduleSync))
  BY <1>1, UnderAbove, MutexRanks
<1>3. Above(0, GetRoom \o ScheduleSync)
  BY <1>1, OthersAbove, ThenAbove
<1> DEFINE media == {ScheduleAsync(w, v) : w, v \in Media}
<1>4. \A op \in media : Above(0, op)
  BY SchedulesAbove
<1>5. EventHandlers = {Brief(Mutex("terminations")), Under(Mutex("terminations"), ScheduleSync),
                       GetRoom \o ScheduleSync, ScheduleSync} \cup media
  BY DEF EventHandlers
<1> HIDE DEF media
<1>6. QED  BY <1>1, <1>2, <1>3, <1>4, <1>5, BriefsAbove

\* Every operation of every thread rises.
LEMMA OperationsAbove == \A t \in Threads : \A op \in OperationsOf[t] : Above(0, op)
<1>1. Above(0, OnConsole)
  BY BriefsAbove, ThenAbove DEF OnConsole
<1>2. \A op \in Pool(Sync, SyncTasks) : Above(0, op)
  BY SyncTasksAbove, PoolAbove DEF Workers
<1>3. \A t \in Media : \A op \in Pool(t, MediaTasks) : Above(0, op)
  BY MediaTasksAbove, PoolAbove DEF Workers
<1>4. ASSUME NEW t \in Threads PROVE \A op \in Operations(t) : Above(0, op)
  <2>1. t = Event \/ t = Sync \/ t \in Media \/ t = Keepalive \/ t = Mainloop \/ t = Main
    BY DEF Threads, Workers
  <2>2. QED
    BY <1>1, <1>2, <1>3, <2>1, EventHandlersAbove, OthersAbove, PartsAbove, BriefsAbove
    DEF Operations
<1>5. QED  BY <1>4 DEF OperationsOf
-----------------------------------------------------------------------------
(* The inductive invariant: what each thread has still to go through rises, no *)
(* mutex is held twice, and so the header is its user's.                       *)

IsRoute(s) ==
  /\ s \in Seq(Points) /\ Len(s) > 0
  /\ AllGuarded(s)
  /\ \A i \in 1 .. Len(s) - 1 : Rises(s[i], s[i + 1])
  /\ s[Len(s)].held = <<>>

MutualExclusion ==
  \A t, u \in Threads : t # u => HeldAt(Here(t)) \cap HeldAt(Here(u)) = {}

IInv ==
  /\ todo \in [Threads -> Seq(Points)]
  /\ header \in Threads \cup {Stray, Nobody}
  /\ \A t \in Threads : IsRoute(todo[t])
  /\ MutualExclusion
  /\ HeaderIsOwn

LEMMA HoldsIsHeldAt ==
  ASSUME NEW t, NEW l
  PROVE  Holds(t, l) <=> l \in HeldAt(Here(t))
BY DEF Holds, HeldAt

LEMMA RouteOfOperation ==
  ASSUME NEW s, Above(0, s)
  PROVE  IsRoute(s) /\ HeldAt(s[1]) \subseteq {s[1].takes}
BY DEF Above, Nests, IsRoute

LEMMA RouteIsFree ==
  /\ <<Free>> \in Seq(Points) /\ Len(<<Free>>) = 1 /\ <<Free>>[1] = Free /\ IsRoute(<<Free>>)
<1> DEFINE s == <<Free>>
<1>0. Free \in Points /\ Free.held = <<>> /\ Guarded(Free)
  BY FreeIsAbove
<1>1. s \in Seq(Points) /\ Len(s) = 1 /\ s[1] = Free
  BY <1>0, OneElement
<1> HIDE DEF s
<1>2. /\ \A i \in 1 .. Len(s) : i = 1
      /\ \A i \in 1 .. Len(s) - 1 : FALSE
  BY <1>1
<1>3. IsRoute(s)
  BY <1>0, <1>1, <1>2 DEF IsRoute, AllGuarded
<1>4. QED  BY <1>1, <1>3 DEF s

\* The rest of a route is one.
LEMMA RouteTail ==
  ASSUME NEW s, IsRoute(s), Len(s) # 1
  PROVE  IsRoute(Tail(s)) /\ Rises(s[1], Tail(s)[1])
<1> DEFINE r == Tail(s)
<1>0. s \in Seq(Points) /\ Len(s) \in Nat /\ Len(s) > 1 /\ s # <<>>
  <2>1. s \in Seq(Points) /\ Len(s) > 0
    BY DEF IsRoute
  <2>2. Len(s) \in Nat
    BY <2>1
  <2>3. s # <<>>
    BY <2>1
  <2> DEFINE n == Len(s)
  <2>4. n \in Nat /\ n > 0 /\ n # 1
    BY <2>1, <2>2
  <2> HIDE DEF n
  <2>5. n > 1
    BY <2>4
  <2>6. QED  BY <2>1, <2>2, <2>3, <2>5 DEF n
<1>1. r \in Seq(Points) /\ Len(r) = Len(s) - 1
  BY <1>0
<1>2. \A i \in 1 .. Len(r) : r[i] = s[i + 1]
  BY <1>0
<1> HIDE DEF r
<1>3. AllGuarded(r)
  <2>1. \A i \in 1 .. Len(r) : i + 1 \in 1 .. Len(s)
    BY <1>0, <1>1
  <2>2. QED  BY <1>2, <2>1 DEF IsRoute, AllGuarded
<1>4. \A i \in 1 .. Len(r) - 1 : Rises(r[i], r[i + 1])
  <2> SUFFICES ASSUME NEW i \in 1 .. Len(r) - 1 PROVE Rises(r[i], r[i + 1])
    OBVIOUS
  <2>1. /\ i \in 1 .. Len(r) /\ i + 1 \in 1 .. Len(r) /\ i + 1 \in 1 .. Len(s) - 1
    BY <1>0, <1>1
  <2>2. r[i] = s[i + 1] /\ r[i + 1] = s[(i + 1) + 1]
    BY <1>2, <2>1
  <2>3. QED  BY <2>1, <2>2 DEF IsRoute
<1>5. r[1] = s[2] /\ r[Len(r)] = s[Len(s)]
  BY <1>0, <1>1, <1>2
<1>6. Rises(s[1], s[2])
  BY <1>0 DEF IsRoute
<1>7. QED  BY <1>0, <1>1, <1>3, <1>4, <1>5, <1>6 DEF IsRoute, r

\* The mutex is taken: the point is where the thread is.
LEMMA RouteEntered ==
  ASSUME NEW s, IsRoute(s)
  PROVE  LET q == [s[1] EXCEPT !.takes = NoMutex]
             r == <<q>> \o Tail(s)
         IN  /\ IsRoute(r) /\ r[1] = q
             /\ HeldAt(q) = HeldAt(s[1]) /\ q.does = s[1].does
<1> DEFINE q == [s[1] EXCEPT !.takes = NoMutex]
           b == Tail(s)
           r == <<q>> \o b
<1>0. s \in Seq(Points) /\ Len(s) \in Nat /\ Len(s) > 0 /\ s # <<>> /\ s[1] \in Points
  BY DEF IsRoute
<1>1. /\ q \in Points /\ q.held = s[1].held /\ q.does = s[1].does
      /\ HeldAt(q) = HeldAt(s[1])
  BY <1>0 DEF Points, HeldAt
<1>2. /\ b \in Seq(Points) /\ Len(b) = Len(s) - 1
      /\ \A i \in 1 .. Len(b) : b[i] = s[i + 1]
  BY <1>0
<1> HIDE DEF q, b
<1>3. <<q>> \in Seq(Points) /\ Len(<<q>>) = 1 /\ <<q>>[1] = q
  BY <1>1, OneElement
<1>4. /\ r \in Seq(Points) /\ Len(r) = 1 + Len(b)
      /\ \A i \in 1 .. 1 + Len(b) : r[i] = IF i <= 1 THEN <<q>>[i] ELSE b[i - 1]
  BY <1>2, <1>3, ConcatProperties
<1> HIDE DEF r
<1>5. Len(r) = Len(s) /\ r[1] = q /\ \A i \in 2 .. Len(s) : r[i] = s[i]
  <2>1. \A i \in 2 .. Len(s) : i - 1 \in 1 .. Len(b) /\ (i - 1) + 1 = i
    BY <1>0, <1>2
  <2>2. \A i \in 2 .. Len(s) : r[i] = s[i]
    BY <1>0, <1>2, <1>4, <2>1
  <2>3. QED  BY <1>0, <1>2, <1>3, <1>4, <2>2
<1>6. AllGuarded(r)
  <2>0. Guarded(s[1])
    BY <1>0 DEF IsRoute, AllGuarded
  <2>1. Guarded(r[1])
    BY <1>1, <1>5, <2>0 DEF Guarded
  <2>2. \A i \in 2 .. Len(r) : Guarded(r[i])
    BY <1>0, <1>5 DEF IsRoute, AllGuarded
  <2>3. QED  BY <1>0, <1>5, <2>1, <2>2 DEF AllGuarded
<1>7. \A i \in 1 .. Len(r) - 1 : Rises(r[i], r[i + 1])
  <2> SUFFICES ASSUME NEW i \in 1 .. Len(r) - 1 PROVE Rises(r[i], r[i + 1])
    OBVIOUS
  <2>1. r[i + 1] = s[i + 1] /\ Rises(s[i], s[i + 1]) /\ HeldAt(r[i]) = HeldAt(s[i])
    BY <1>0, <1>1, <1>5 DEF IsRoute
  <2>2. QED  BY <2>1 DEF Rises
<1>8. r[Len(r)].held = <<>>
  BY <1>0, <1>1, <1>5 DEF IsRoute
<1>9. IsRoute(r)
  BY <1>0, <1>4, <1>5, <1>6, <1>7, <1>8 DEF IsRoute
<1>10. QED  BY <1>1, <1>5, <1>9 DEF q, b, r

\* A step along a route.
LEMMA GoesToKeepsIInv ==
  ASSUME IInv, NEW t \in Threads, NEW s, IsRoute(s), Rises(Here(t), s[1]), GoesTo(t, s)
  PROVE  IInv'
<1> DEFINE q == [s[1] EXCEPT !.takes = NoMutex]
           r == <<q>> \o Tail(s)
<1>1. IsRoute(r) /\ r[1] = q /\ HeldAt(q) = HeldAt(s[1]) /\ q.does = s[1].does
  BY RouteEntered
<1>2. r \in Seq(Points)
  BY <1>1 DEF IsRoute
<1>3. todo \in [Threads -> Seq(Points)] /\ todo' = [todo EXCEPT ![t] = r]
  BY DEF GoesTo, IInv
<1> HIDE DEF q, r
<1>4. /\ todo' \in [Threads -> Seq(Points)]
      /\ todo'[t] = r /\ \A u \in Threads \ {t} : todo'[u] = todo[u]
  BY <1>2, <1>3
<1>5. Here(t)' = q /\ \A u \in Threads \ {t} : Here(u)' = Here(u)
  BY <1>1, <1>4 DEF Here
<1>6. \A u \in Threads : IsRoute(todo[u])'
  BY <1>1, <1>4 DEF IInv
<1>7. MutualExclusion'
  <2>1. HeldAt(q) \subseteq HeldAt(Here(t)) \cup {s[1].takes}
    BY <1>1 DEF Rises
  <2>2. \A u \in Threads : s[1].takes \notin HeldAt(Here(u))
    BY HoldsIsHeldAt DEF GoesTo
  <2>3. \A u \in Threads \ {t} : HeldAt(q) \cap HeldAt(Here(u)) = {}
    BY <2>1, <2>2 DEF IInv, MutualExclusion
  <2>4. ASSUME NEW u \in Threads, NEW v \in Threads, u # v
        PROVE  HeldAt(Here(u)') \cap HeldAt(Here(v)') = {}
    BY <1>5, <2>3, <2>4 DEF IInv, MutualExclusion
  <2>5. \A u \in Threads : HeldAt(Here(u))' = HeldAt(Here(u)')
    BY DEF HeldAt
  <2>6. QED  BY <2>4, <2>5 DEF MutualExclusion
<1>8. header' \in Threads \cup {Stray, Nobody}
  BY DEF GoesTo, IInv
<1>9. HeaderIsOwn'
  <2> SUFFICES ASSUME NEW u \in Threads, Here(u)'.does = "encodes"
               PROVE  header' \in {u, Stray}
    BY DEF HeaderIsOwn
  <2>1. CASE u = t
    <3>1. s[1].does = "encodes"
      BY <1>1, <1>5, <2>1
    <3>2. QED  BY <2>1, <3>1 DEF GoesTo
  <2>2. CASE u # t
    <3>1. Here(u).does = "encodes"
      BY <1>5, <2>2
    <3>2. header \in {u, Stray}
      BY <3>1 DEF IInv, HeaderIsOwn
    <3>3. Guarded(Here(u)) /\ Guarded(q)
      <4>1. IsRoute(todo[u]) /\ IsRoute(r)
        BY <1>1 DEF IInv
      <4>2. ASSUME NEW z, IsRoute(z) PROVE Guarded(z[1])
        <5>1. Len(z) \in Nat /\ Len(z) > 0
          BY <4>2 DEF IsRoute
        <5>2. QED  BY <4>2, <5>1 DEF IsRoute, AllGuarded
      <4>3. QED  BY <1>1, <4>1, <4>2 DEF Here
    <3>4. Mutex("rtp") \in HeldAt(Here(u))
      BY <3>1, <3>3 DEF Guarded
    <3>5. s[1].does # "encodes"
      <4> SUFFICES ASSUME s[1].does = "encodes" PROVE FALSE
        OBVIOUS
      <4>1. Mutex("rtp") \in HeldAt(Here(t)')
        BY <1>1, <1>5, <3>3 DEF Guarded
      <4>2. Mutex("rtp") \in HeldAt(Here(u)')
        BY <1>5, <2>2, <3>4
      <4>3. \A v \in Threads : HeldAt(Here(v))' = HeldAt(Here(v)')
        BY DEF HeldAt
      <4>4. QED  BY <1>7, <2>2, <4>1, <4>2, <4>3 DEF MutualExclusion
    <3>6. QED  BY <3>2, <3>5 DEF GoesTo
  <2>3. QED  BY <2>1, <2>2
<1>10. QED  BY <1>4, <1>6, <1>7, <1>8, <1>9 DEF IInv

LEMMA InitIsGood == Init => IInv
<1> SUFFICES ASSUME Init PROVE IInv
  OBVIOUS
<1>1. \A t \in Threads : todo[t] = <<Free>> /\ Here(t) = Free
  BY RouteIsFree DEF Init, Here
<1>2. MutualExclusion /\ HeaderIsOwn
  BY <1>1, FreeIsAbove DEF MutualExclusion, HeaderIsOwn, Free, Point
<1>3. QED  BY <1>1, <1>2, RouteIsFree DEF IInv, Init

LEMMA NextKeepsIInv == IInv /\ [Next]_vars => IInv'
<1> SUFFICES ASSUME IInv, [Next]_vars PROVE IInv'
  OBVIOUS
<1>1. ASSUME NEW t \in Threads, Begin(t) PROVE IInv'
  <2>1. PICK op \in OperationsOf[t] : GoesTo(t, op)
    BY <1>1 DEF Begin
  <2>2. IsRoute(op) /\ HeldAt(op[1]) \subseteq {op[1].takes}
    BY OperationsAbove, RouteOfOperation
  <2>3. Here(t).held = <<>>
    <3>1. IsRoute(todo[t]) /\ Len(todo[t]) = 1
      BY <1>1 DEF IInv, Begin, Idle
    <3>2. QED  BY <3>1 DEF IsRoute, Here
  <2>4. HeldAt(Here(t)) = {}
    BY <2>3 DEF HeldAt
  <2>5. Rises(Here(t), op[1])
    BY <2>2, <2>4 DEF Rises
  <2>6. QED  BY <2>1, <2>2, <2>5, GoesToKeepsIInv
<1>2. ASSUME NEW t \in Threads, GoOn(t) PROVE IInv'
  <2>1. IsRoute(todo[t]) /\ Len(todo[t]) # 1 /\ GoesTo(t, Tail(todo[t]))
    BY <1>2 DEF IInv, GoOn, Idle
  <2>2. IsRoute(Tail(todo[t])) /\ Rises(Here(t), Tail(todo[t])[1])
    BY <2>1, RouteTail DEF Here
  <2>3. QED  BY <2>1, <2>2, GoesToKeepsIInv
<1>3. ASSUME NEW t \in Threads, ReturnEarly(t) PROVE IInv'
  <2>1. /\ todo \in [Threads -> Seq(Points)] /\ todo' = [todo EXCEPT ![t] = <<Free>>]
        /\ header' = header
    BY <1>3 DEF IInv, ReturnEarly
  <2>2. /\ todo' \in [Threads -> Seq(Points)]
        /\ todo'[t] = <<Free>> /\ \A u \in Threads \ {t} : todo'[u] = todo[u]
    BY <2>1, RouteIsFree
  <2>3. Here(t)' = Free /\ \A u \in Threads \ {t} : Here(u)' = Here(u)
    BY <2>2, RouteIsFree DEF Here
  <2>4. \A u \in Threads : IsRoute(todo[u])'
    BY <2>2, RouteIsFree DEF IInv
  <2>5. MutualExclusion'
    <3>1. \A u \in Threads : HeldAt(Here(u))' = HeldAt(Here(u)')
      BY DEF HeldAt
    <3>2. QED  BY <2>3, <3>1, FreeIsAbove DEF IInv, MutualExclusion
  <2>6. HeaderIsOwn'
    <3>1. Free.does = "nothing"
      BY DEF Free, Point
    <3>2. QED  BY <2>1, <2>3, <3>1 DEF IInv, HeaderIsOwn
  <2>7. QED  BY <2>1, <2>2, <2>4, <2>5, <2>6 DEF IInv
<1>4. CASE UNCHANGED vars
  BY <1>4 DEF vars, IInv, IsRoute, MutualExclusion, HeaderIsOwn, Here
<1>5. QED  BY <1>1, <1>2, <1>3, <1>4 DEF Next
-----------------------------------------------------------------------------
(* What follows. *)

LEMMA Highest ==
  ASSUME NEW S, S \subseteq 1 .. 14, S # {}
  PROVE  \E m \in S : \A k \in S : k <= m
<1> SUFFICES ASSUME \A m \in S : \E k \in S : k > m PROVE FALSE
  OBVIOUS
<1>1. \A m \in S : m \notin {14, 13, 12, 11}
  <2>1. 14 \notin S  OBVIOUS
  <2>2. 13 \notin S  BY <2>1
  <2>3. 12 \notin S  BY <2>1, <2>2
  <2>4. 11 \notin S  BY <2>1, <2>2, <2>3
  <2>5. QED  BY <2>1, <2>2, <2>3, <2>4
<1>2. \A m \in S : m \notin {10, 9, 8, 7, 6}
  <2>1. 10 \notin S  BY <1>1
  <2>2. 9 \notin S  BY <1>1, <2>1
  <2>3. 8 \notin S  BY <1>1, <2>1, <2>2
  <2>4. 7 \notin S  BY <1>1, <2>1, <2>2, <2>3
  <2>5. 6 \notin S  BY <1>1, <2>1, <2>2, <2>3, <2>4
  <2>6. QED  BY <2>1, <2>2, <2>3, <2>4, <2>5
<1>3. \A m \in S : m \notin {5, 4, 3, 2, 1}
  <2>1. 5 \notin S  BY <1>1, <1>2
  <2>2. 4 \notin S  BY <1>1, <1>2, <2>1
  <2>3. 3 \notin S  BY <1>1, <1>2, <2>1, <2>2
  <2>4. 2 \notin S  BY <1>1, <1>2, <2>1, <2>2, <2>3
  <2>5. 1 \notin S  BY <1>1, <1>2, <2>1, <2>2, <2>3, <2>4
  <2>6. QED  BY <2>1, <2>2, <2>3, <2>4, <2>5
<1>4. PICK m \in S : TRUE
  OBVIOUS
<1>5. m \in 1 .. 14
  BY <1>4
<1>6. m \in {14, 13, 12, 11} \/ m \in {10, 9, 8, 7, 6} \/ m \in {5, 4, 3, 2, 1}
  BY <1>5
<1>7. QED  BY <1>1, <1>2, <1>3, <1>4, <1>6

\* Who waits holds only mutexes below the one it waits for.
LEMMA WaitersRise ==
  ASSUME IInv, NEW t \in Threads, NEW u \in Threads, WaitsFor(t, u)
  PROVE  /\ Wants(t) \in HeldAt(Here(u)) /\ Wants(t) \in Locks
         /\ \A l \in HeldAt(Here(t)) : Rank(l) < Rank(Wants(t))
<1>1. Len(todo[t]) # 1 /\ IsRoute(todo[t]) /\ IsRoute(todo[u])
  BY DEF WaitsFor, Idle, IInv
<1>2. ASSUME NEW s, IsRoute(s) PROVE s[1] \in Points
  <2>1. s \in Seq(Points) /\ Len(s) > 0
    BY <1>2 DEF IsRoute
  <2>2. QED  BY <2>1
<1>3. Wants(t) \in HeldAt(Here(u))
  BY HoldsIsHeldAt DEF WaitsFor
<1>4. Wants(t) \in Locks
  BY <1>1, <1>2, <1>3, HeldAreLocks DEF Here
<1>5. Rises(Here(t), todo[t][2])
  <2> DEFINE n == Len(todo[t])
  <2>1. n \in Nat /\ n > 0 /\ n # 1
    BY <1>1 DEF IsRoute
  <2> HIDE DEF n
  <2>2. 1 \in 1 .. n - 1
    BY <2>1
  <2>3. QED  BY <1>1, <2>2 DEF IsRoute, Here, n
<1>6. QED  BY <1>3, <1>4, <1>5, LockSentinels DEF Rises, Wants

LEMMA IInvImpliesNoCircularWait == IInv => NoCircularWait
<1> SUFFICES ASSUME IInv,
                    NEW C \in SUBSET {t \in Threads : \E u \in Threads : WaitsFor(t, u)},
                    C # {}
             PROVE  \E t \in C : \A u \in C : ~ WaitsFor(t, u)
  BY DEF NoCircularWait
<1> SUFFICES ASSUME \A t \in C : \E u \in C : WaitsFor(t, u) PROVE FALSE
  OBVIOUS
<1> DEFINE S == {Rank(Wants(t)) : t \in C}
<1>1. \A t \in C : t \in Threads /\ Wants(t) \in Locks
  BY WaitersRise
<1>2. S \subseteq 1 .. 14 /\ S # {}
  BY <1>1, RankType
<1>3. PICK t \in C : \A u \in C : Rank(Wants(u)) <= Rank(Wants(t))
  <2>1. \E m \in S : \A k \in S : k <= m
    <3> HIDE DEF S
    <3>1. QED  BY <1>2, Highest
  <2>2. QED  BY <2>1
<1>4. PICK u \in C : WaitsFor(t, u)
  OBVIOUS
<1>5. PICK v \in C : WaitsFor(u, v)
  OBVIOUS
<1>6. Rank(Wants(t)) < Rank(Wants(u))
  BY <1>1, <1>4, <1>5, WaitersRise
<1>7. Rank(Wants(t)) \in 1 .. 14 /\ Rank(Wants(u)) \in 1 .. 14
  BY <1>1, RankType
<1>8. QED  BY <1>3, <1>6, <1>7

LEMMA IInvImpliesTypeOK == IInv => TypeOK
<1> SUFFICES ASSUME IInv PROVE TypeOK
  OBVIOUS
<1>1. ASSUME NEW t \in Threads
      PROVE  /\ Len(todo[t]) > 0
             /\ Idle(t) => Here(t).held = <<>>
             /\ \A i \in 1 .. Len(todo[t]) : todo[t][i] \in Points
  <2>1. IsRoute(todo[t])
    BY DEF IInv
  <2>2. Idle(t) => Here(t).held = <<>>
    BY <2>1 DEF IsRoute, Idle, Here
  <2>3. \A i \in 1 .. Len(todo[t]) : todo[t][i] \in Points
    BY <2>1 DEF IsRoute
  <2>4. QED  BY <2>1, <2>2, <2>3 DEF IsRoute
<1>2. header \in Threads \cup {Stray, Nobody}
  BY DEF IInv
<1>3. \A p \in Points : /\ p.held \in Seq(Locks) /\ p.takes \in Locks \cup {NoMutex}
                        /\ p.does \in {"nothing", "encodes", "encodes unlocked"}
  BY DEF Points
<1>4. QED  BY <1>1, <1>2, <1>3 DEF TypeOK

THEOREM Invariance == Spec => []IInv
BY InitIsGood, NextKeepsIInv, PTL DEF Spec

\* An operation that has ended holds nothing, whatever Login, Logout and Size lock by
\* hand.
THEOREM TypeCorrect == Spec => []TypeOK
BY Invariance, IInvImpliesTypeOK, PTL

\* However many threads forward media, no threads wait for each other in a circle:
\* the mutexes of RoomMgr, Room, RoomUser, the pools and their queues are taken in one
\* order.
THEOREM LocksAreOrdered == Spec => []NoCircularWait
BY Invariance, IInvImpliesNoCircularWait, PTL

\* A packet of Room::SendRTPPacket carries the header made for it, or one of the
\* two callers that do not take the lock.
THEOREM HeadersAreOwn == Spec => []HeaderIsOwn
<1>1. IInv => HeaderIsOwn
  BY DEF IInv
<1>2. QED  BY Invariance, <1>1, PTL
=============================================================================
