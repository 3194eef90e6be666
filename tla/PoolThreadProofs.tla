-------------------------- MODULE PoolThreadProofs --------------------------
(***************************************************************************)
(* What PoolThread promises of Start and Stop, for any number of threads   *)
(* and tasks.  Start and Stop are counted: each turn starts or joins a     *)
(* thread that was not, or ends the process, so that after as many turns   *)
(* as there are threads all of them were, in whatever order threads_ was   *)
(* found.  A task that was scheduled before Stop waits in front of the     *)
(* stop task.                                                              *)
(***************************************************************************)
EXTENDS PoolThread, FiniteSetTheorems, TLAPS

\* Turns are counted.
Counted ==
  /\ main = "starting" => Cardinality(started) = idx - 1
  /\ main \in {"stopping", "calling", "joining"} => Cardinality(joined) = idx - 1
  /\ main = "stopped" => joined = PoolWorkers
  /\ main = "joining" => target \notin joined
  /\ AllStarted

\* Before Stop, nobody has been told to stop; only who has left is joined.
Phases ==
  /\ joined \subseteq left /\ left \subseteq ended
  /\ main \in {"starting", "running"} =>
       /\ joined = {} /\ owed = {} /\ ended = {}
       /\ \A w \in PoolWorkers : \A i \in 1 .. Len(list[w]) : list[w][i] # Stopping
  /\ main = "running" => idx = 1

\* A task in a queue that no stop task precedes.
Waits(t) ==
  \E w \in PoolWorkers \ ended :
    \E i \in 1 .. Len(list[w]) :
      list[w][i] = t /\ \A j \in 1 .. i - 1 : list[w][j] # Stopping

OwedNow == IF main \in {"starting", "running"} THEN Tasks \ fresh ELSE owed

NothingDropped == \A t \in OwedNow : t \in done \/ Waits(t)

UpTo(n) == {threads[j] : j \in 1 .. n}

\* As long as Schedule keeps away, Start and Stop find threads_ in one order.
Orderly ==
  ~ disturbed =>
    /\ main # "terminated"
    /\ main = "starting" => ~ heaping /\ started = UpTo(idx - 1)
    /\ main = "stopping" => (idx > 1 => ~ heaping) /\ joined = UpTo(idx - 1)
    /\ main \in {"calling", "joining"} =>
         ~ heaping /\ target = threads[idx] /\ target \in told /\ joined = UpTo(idx - 1)

IInv == PoolTypeOK /\ Counted /\ Phases /\ NothingDropped /\ Orderly
-----------------------------------------------------------------------------
LEMMA SizeType ==
  ASSUME NEW w \in PoolWorkers
  PROVE  Size \in Nat /\ Size > 0
<1>1. Cardinality(PoolWorkers) \in Nat
  BY PoolIsFinite, FS_CardinalityType
<1>2. Cardinality(PoolWorkers) # 0
  BY PoolIsFinite, FS_EmptySet
<1>3. QED  BY <1>1, <1>2 DEF Size

LEMMA InitIsGood == PoolInit => IInv
<1> SUFFICES ASSUME PoolInit PROVE IInv
  OBVIOUS
<1>1. Size \in Nat /\ Size > 0
  BY SizeType DEF PoolInit
<1>2. PoolTypeOK
  <2>1. idx \in 1 .. Size
    BY <1>1 DEF PoolInit
  <2>2. list \in [PoolWorkers -> Seq(Tasks \cup {Stopping})]
    BY DEF PoolInit
  <2>3. QED  BY <2>1, <2>2 DEF PoolInit, PoolTypeOK
<1>3. Counted
  BY FS_EmptySet DEF PoolInit, Counted, AllStarted
<1>4. Phases
  BY DEF PoolInit, Phases
<1>5. NothingDropped
  BY DEF PoolInit, NothingDropped, OwedNow
<1>6. Orderly
  <2>1. UpTo(idx - 1) = {}
    BY DEF PoolInit, UpTo
  <2>2. QED  BY <2>1 DEF PoolInit, Orderly
<1>7. QED  BY <1>2, <1>3, <1>4, <1>5, <1>6 DEF IInv
-----------------------------------------------------------------------------
(* Types. *)

LEMMA NextKeepsTypeOK == PoolTypeOK /\ [PoolNext]_poolVars => PoolTypeOK'
<1> SUFFICES ASSUME PoolTypeOK, [PoolNext]_poolVars PROVE PoolTypeOK'
  OBVIOUS
<1> USE DEF PoolTypeOK
<1>0. Size \in Nat /\ Size > 0
  BY SizeType
<1>a. \A i \in 1 .. Size : i + 1 \in 1 .. Size \/ IsLast(i)
  BY <1>0 DEF IsLast
<1>b. 1 \in 1 .. Size
  BY <1>0
<1>1. ASSUME NEW t \in Tasks, Schedule(t) PROVE PoolTypeOK'
  <2>1. threads[1] \in PoolWorkers
    BY <1>b DEF Orders
  <2>2. list' \in [PoolWorkers -> Seq(Tasks \cup {Stopping})]
    BY <1>1, <2>1 DEF Schedule
  <2>3. QED  BY <1>1, <2>2 DEF Schedule, mainVars, InLoop
<1>2. ASSUME MakeHeap PROVE PoolTypeOK'
  BY <1>2 DEF MakeHeap, mainVars, InLoop
<1>c. \A i \in 1 .. Size : Read(i) \subseteq PoolWorkers
  BY DEF Read, Orders
<1>3. ASSUME Start PROVE PoolTypeOK'
  BY <1>3, <1>a, <1>b, <1>c DEF Start, Terminate, queueVars
<1>4. ASSUME CallStop PROVE PoolTypeOK'
  BY <1>4 DEF CallStop, queueVars
<1>5. ASSUME Stop PROVE PoolTypeOK'
  <2>1. PICK w \in Read(idx) : /\ list' = [list EXCEPT ![w] = WithStop(@)]
                               /\ target' = w /\ told' = told \cup {w}
    BY <1>5 DEF Stop
  <2>2. w \in PoolWorkers
    BY <1>c, <2>1
  <2>3. list' \in [PoolWorkers -> Seq(Tasks \cup {Stopping})]
    BY <2>1, <2>2 DEF WithStop
  <2>4. QED  BY <1>5, <2>1, <2>2, <2>3 DEF Stop
<1>6. ASSUME CallJoin PROVE PoolTypeOK'
  <2>1. Joins(idx) \in 1 .. Size
    BY DEF Joins
  <2>2. QED  BY <1>6, <1>c, <2>1 DEF CallJoin, Terminate, queueVars
<1>7. ASSUME Join PROVE PoolTypeOK'
  BY <1>7, <1>a, <1>b DEF Join, queueVars
<1>8. ASSUME NEW w \in PoolWorkers, Run(w) PROVE PoolTypeOK'
  <2>1. list[w] \in Seq(Tasks \cup {Stopping}) /\ list[w] # <<>>
    BY <1>8 DEF Run
  <2>2. Tail(list[w]) \in Seq(Tasks \cup {Stopping}) /\ Head(list[w]) \in Tasks \cup {Stopping}
    BY <2>1
  <2>3. list' \in [PoolWorkers -> Seq(Tasks \cup {Stopping})]
    BY <1>8, <2>2 DEF Run
  <2>4. done' \subseteq Tasks /\ ended' \subseteq PoolWorkers
    BY <1>8, <2>2 DEF Run
  <2>5. QED  BY <1>8, <2>3, <2>4 DEF Run, mainVars
<1>9. ASSUME NEW w \in PoolWorkers, Leave(w) PROVE PoolTypeOK'
  BY <1>9 DEF Leave, mainVars
<1>10. CASE UNCHANGED poolVars
  BY <1>10 DEF poolVars, queueVars, mainVars
<1>11. QED
  BY <1>1, <1>2, <1>3, <1>4, <1>5, <1>6, <1>7, <1>8, <1>9, <1>10
  DEF PoolNext, EventThread, MainThread
-----------------------------------------------------------------------------
(* Turns. *)

\* As many members as there are threads: all of them.
LEMMA OneMore ==
  ASSUME NEW S, S \subseteq PoolWorkers, NEW w \in PoolWorkers \ S, NEW i \in 1 .. Size,
         Cardinality(S) = i - 1
  PROVE  /\ Cardinality(S \cup {w}) = i
         /\ IsLast(i) => S \cup {w} = PoolWorkers
<1>0. Size \in Nat /\ IsFiniteSet(PoolWorkers)
  BY PoolIsFinite, SizeType
<1>1. IsFiniteSet(S)
  BY <1>0, FS_Subset
<1>2. Cardinality(S \cup {w}) = i
  BY <1>1, FS_AddElement
<1>3. ASSUME IsLast(i) PROVE S \cup {w} = PoolWorkers
  <2>1. i = Cardinality(PoolWorkers)
    BY <1>0, <1>3 DEF IsLast, Size
  <2>2. S \cup {w} \subseteq PoolWorkers
    OBVIOUS
  <2>3. QED  BY <1>0, <1>2, <2>1, <2>2, FS_Subset
<1>4. QED  BY <1>2, <1>3

LEMMA NextKeepsCounted ==
  PoolTypeOK /\ Counted /\ Phases /\ [PoolNext]_poolVars => Counted'
<1> SUFFICES ASSUME PoolTypeOK, Counted, Phases, [PoolNext]_poolVars PROVE Counted'
  OBVIOUS
<1> USE DEF Counted, AllStarted
<1>0. Size \in Nat /\ idx \in 1 .. Size
  BY SizeType DEF PoolTypeOK
<1>c. \A i \in 1 .. Size : Read(i) \subseteq PoolWorkers
  BY DEF Read, Orders, PoolTypeOK
<1>1. ASSUME NEW t \in Tasks, Schedule(t) PROVE Counted'
  BY <1>1 DEF Schedule, mainVars
<1>2. ASSUME MakeHeap PROVE Counted'
  BY <1>2 DEF MakeHeap, mainVars
<1>3. ASSUME Start PROVE Counted'
  <2>1. PICK w \in Read(idx) :
          IF w \in started
            THEN Terminate
            ELSE /\ started' = started \cup {w}
                 /\ main' = IF IsLast(idx) THEN "running" ELSE "starting"
                 /\ idx' = IF IsLast(idx) THEN 1 ELSE idx + 1
                 /\ UNCHANGED <<joined, target, told, owed, queueVars>>
    BY <1>3 DEF Start
  <2>2. w \in PoolWorkers /\ started \subseteq PoolWorkers
    BY <1>0, <1>c, <2>1 DEF PoolTypeOK
  <2>3. CASE w \in started
    BY <2>1, <2>3 DEF Terminate
  <2>4. CASE w \notin started
    <3>1. Cardinality(started) = idx - 1
      BY <1>3 DEF Start
    <3>2. Cardinality(started \cup {w}) = idx /\ (IsLast(idx) => started \cup {w} = PoolWorkers)
      BY <1>0, <2>2, <2>4, <3>1, OneMore
    <3>3. CASE IsLast(idx)
      <4>1. started' = PoolWorkers /\ main' = "running"
        BY <2>1, <2>4, <3>2, <3>3
      <4>2. QED  BY <4>1
    <3>4. CASE ~ IsLast(idx)
      <4>1. started' = started \cup {w} /\ main' = "starting" /\ idx' = idx + 1
        BY <2>1, <2>4, <3>4
      <4>2. Cardinality(started') = idx' - 1
        BY <1>0, <3>2, <4>1
      <4>3. QED  BY <4>1, <4>2
    <3>5. QED  BY <3>3, <3>4
  <2>5. QED  BY <2>3, <2>4
<1>4. ASSUME CallStop PROVE Counted'
  <2>1. joined = {} /\ idx = 1
    BY <1>4 DEF CallStop, Phases
  <2>2. Cardinality(joined) = idx - 1
    BY <2>1, FS_EmptySet
  <2>3. QED  BY <1>4, <2>2 DEF CallStop
<1>5. ASSUME Stop PROVE Counted'
  BY <1>5 DEF Stop
<1>6. ASSUME CallJoin PROVE Counted'
  BY <1>6 DEF CallJoin, Terminate
<1>7. ASSUME Join PROVE Counted'
  <2>1. /\ main = "joining" /\ joined' = joined \cup {target}
        /\ main' = (IF IsLast(idx) THEN "stopped" ELSE "stopping")
        /\ idx' = (IF IsLast(idx) THEN 1 ELSE idx + 1) /\ started' = started
    BY <1>7 DEF Join
  <2>2. target \in PoolWorkers \ joined /\ joined \subseteq PoolWorkers /\ Cardinality(joined) = idx - 1
    BY <2>1 DEF PoolTypeOK
  <2>3. Cardinality(joined \cup {target}) = idx /\ (IsLast(idx) => joined \cup {target} = PoolWorkers)
    BY <1>0, <2>2, OneMore
  <2>4. CASE IsLast(idx)
    BY <2>1, <2>3, <2>4
  <2>5. CASE ~ IsLast(idx)
    <3>1. main' = "stopping" /\ idx' = idx + 1
      BY <2>1, <2>5
    <3>2. Cardinality(joined') = idx' - 1
      BY <1>0, <2>1, <2>3, <3>1
    <3>3. QED  BY <2>1, <3>1, <3>2
  <2>6. QED  BY <2>4, <2>5
<1>8. ASSUME NEW w \in PoolWorkers, Run(w) PROVE Counted'
  BY <1>8 DEF Run, mainVars
<1>9. ASSUME NEW w \in PoolWorkers, Leave(w) PROVE Counted'
  BY <1>9 DEF Leave, mainVars
<1>10. CASE UNCHANGED poolVars
  BY <1>10 DEF poolVars, mainVars
<1>11. QED
  BY <1>1, <1>2, <1>3, <1>4, <1>5, <1>6, <1>7, <1>8, <1>9, <1>10
  DEF PoolNext, EventThread, MainThread
-----------------------------------------------------------------------------
(* Phases. *)

LEMMA NextKeepsPhases ==
  PoolTypeOK /\ Phases /\ [PoolNext]_poolVars => Phases'
<1> SUFFICES ASSUME PoolTypeOK, Phases, [PoolNext]_poolVars PROVE Phases'
  OBVIOUS
<1>0. Size \in Nat /\ idx \in 1 .. Size
  BY SizeType DEF PoolTypeOK
<1>1. ASSUME NEW t \in Tasks, Schedule(t) PROVE Phases'
  <2>1. threads[1] \in PoolWorkers /\ list[threads[1]] \in Seq(Tasks \cup {Stopping})
    BY <1>0 DEF PoolTypeOK, Orders
  <2>2. list' = [list EXCEPT ![threads[1]] = Append(@, t)] /\ t # Stopping
    BY <1>1, StopIsNoTask DEF Schedule
  <2>3. ASSUME main \in {"starting", "running"}, NEW w \in PoolWorkers, NEW i \in 1 .. Len(list'[w])
        PROVE  list'[w][i] # Stopping
    <3>1. list \in [PoolWorkers -> Seq(Tasks \cup {Stopping})] /\ list[w] \in Seq(Tasks \cup {Stopping})
      BY DEF PoolTypeOK
    <3>2. \A k \in 1 .. Len(list[w]) : list[w][k] # Stopping
      BY <2>3 DEF Phases
    <3>3. CASE w # threads[1]
      BY <2>2, <2>3, <3>1, <3>2, <3>3
    <3>4. CASE w = threads[1]
      <4>1. list'[w] = Append(list[w], t)
        BY <2>2, <3>1, <3>4
      <4>2. CASE i \in 1 .. Len(list[w])
        BY <3>1, <3>2, <4>1, <4>2
      <4>3. CASE i = Len(list[w]) + 1
        BY <2>2, <3>1, <4>1, <4>3
      <4>4. QED  BY <2>3, <3>1, <4>1, <4>2, <4>3
    <3>5. QED  BY <3>3, <3>4
  <2>4. QED  BY <1>1, <2>3 DEF Phases, Schedule, mainVars
<1>2. ASSUME MakeHeap PROVE Phases'
  BY <1>2 DEF Phases, MakeHeap, mainVars
<1>3. ASSUME Start PROVE Phases'
  BY <1>3 DEF Phases, Start, Terminate, queueVars
<1>4. ASSUME CallStop PROVE Phases'
  BY <1>4 DEF Phases, CallStop, queueVars
<1>5. ASSUME Stop PROVE Phases'
  BY <1>5 DEF Phases, Stop
<1>6. ASSUME CallJoin PROVE Phases'
  BY <1>6 DEF Phases, CallJoin, Terminate, queueVars
<1>7. ASSUME Join PROVE Phases'
  BY <1>7 DEF Phases, Join, queueVars
<1>8. ASSUME NEW w \in PoolWorkers, Run(w) PROVE Phases'
  <2> DEFINE q == list[w]
  <2>1. /\ q \in Seq(Tasks \cup {Stopping}) /\ q # <<>> /\ list' = [list EXCEPT ![w] = Tail(q)]
        /\ list \in [PoolWorkers -> Seq(Tasks \cup {Stopping})]
    BY <1>8 DEF PoolTypeOK, Run
  <2> HIDE DEF q
  <2>2. /\ Len(Tail(q)) = Len(q) - 1 /\ Len(q) \in Nat /\ Len(q) > 0 /\ Head(q) = q[1]
        /\ \A i \in 1 .. Len(Tail(q)) : i + 1 \in 1 .. Len(q) /\ Tail(q)[i] = q[i + 1]
    BY <2>1
  <2>3. ASSUME main \in {"starting", "running"}
        PROVE  /\ ended' = {}
               /\ \A v \in PoolWorkers : \A i \in 1 .. Len(list'[v]) : list'[v][i] # Stopping
    <3>1. \A i \in 1 .. Len(q) : q[i] # Stopping
      BY <2>3 DEF Phases, q
    <3>2. Head(q) # Stopping
      BY <2>2, <3>1
    <3>3. ended' = {}
      BY <1>8, <2>3, <3>2 DEF Phases, Run, q
    <3>4. \A i \in 1 .. Len(Tail(q)) : Tail(q)[i] # Stopping
      BY <2>2, <3>1
    <3>5. QED  BY <2>1, <2>3, <3>3, <3>4 DEF Phases
  <2>4. ended \subseteq ended' /\ left' = left /\ joined' = joined /\ main' = main
        /\ owed' = owed /\ idx' = idx
    BY <1>8 DEF Run, mainVars
  <2>5. QED  BY <2>3, <2>4 DEF Phases
<1>9. ASSUME NEW w \in PoolWorkers, Leave(w) PROVE Phases'
  BY <1>9 DEF Phases, Leave, mainVars
<1>10. CASE UNCHANGED poolVars
  BY <1>10 DEF Phases, poolVars, queueVars, mainVars
<1>11. QED
  BY <1>1, <1>2, <1>3, <1>4, <1>5, <1>6, <1>7, <1>8, <1>9, <1>10
  DEF PoolNext, EventThread, MainThread
-----------------------------------------------------------------------------
(* What was scheduled before Stop. *)

\* A push at the end of a queue delays nobody.
LEMMA AppendKeepsWaits ==
  ASSUME PoolTypeOK, NEW w \in PoolWorkers, NEW x \in Tasks \cup {Stopping},
         list' = [list EXCEPT ![w] = Append(@, x)], ended' = ended,
         NEW t, Waits(t)
  PROVE  Waits(t)'
<1>0. PICK v \in PoolWorkers \ ended :
        \E i \in 1 .. Len(list[v]) :
          list[v][i] = t /\ \A j \in 1 .. i - 1 : list[v][j] # Stopping
  BY DEF Waits
<1>1. PICK i \in 1 .. Len(list[v]) :
        list[v][i] = t /\ \A j \in 1 .. i - 1 : list[v][j] # Stopping
  BY <1>0
<1>2. list \in [PoolWorkers -> Seq(Tasks \cup {Stopping})] /\ list[v] \in Seq(Tasks \cup {Stopping})
  BY DEF PoolTypeOK
<1>3. /\ Len(list'[v]) \in Nat /\ Len(list'[v]) >= Len(list[v]) /\ Len(list[v]) \in Nat
      /\ \A k \in 1 .. Len(list[v]) : list'[v][k] = list[v][k]
  <2>1. CASE v = w
    <3>1. list'[v] = Append(list[v], x)
      BY <1>2, <2>1
    <3>2. QED  BY <1>2, <3>1
  <2>2. CASE v # w
    BY <1>2, <2>2
  <2>3. QED  BY <2>1, <2>2
<1>4. /\ i \in 1 .. Len(list'[v]) /\ list'[v][i] = t
      /\ \A j \in 1 .. i - 1 : j \in 1 .. Len(list[v]) /\ list'[v][j] # Stopping
  BY <1>1, <1>3
<1>5. QED  BY <1>1, <1>4 DEF Waits

LEMMA NextKeepsNothingDropped ==
  PoolTypeOK /\ Phases /\ NothingDropped /\ [PoolNext]_poolVars => NothingDropped'
<1> SUFFICES ASSUME PoolTypeOK, Phases, NothingDropped, [PoolNext]_poolVars
             PROVE  NothingDropped'
  OBVIOUS
<1>0. Size \in Nat /\ idx \in 1 .. Size /\ OwedNow \subseteq Tasks
  BY SizeType DEF PoolTypeOK, OwedNow
<1>1. ASSUME NEW s \in Tasks, Schedule(s) PROVE NothingDropped'
  <2> DEFINE w == threads[1]
  <2>1. /\ w \in PoolWorkers /\ list[w] \in Seq(Tasks \cup {Stopping})
        /\ list \in [PoolWorkers -> Seq(Tasks \cup {Stopping})]
    BY <1>0 DEF PoolTypeOK, Orders
  <2>2. /\ list' = [list EXCEPT ![w] = Append(@, s)] /\ ended' = ended /\ done' = done
        /\ main' = main /\ owed' = owed /\ fresh' = fresh \ {s}
    BY <1>1 DEF Schedule, mainVars
  <2> HIDE DEF w
  <2>3. \A t : Waits(t) => Waits(t)'
    BY <2>1, <2>2, AppendKeepsWaits
  <2>4. ASSUME main \in {"starting", "running"} PROVE Waits(s)'
    <3> DEFINE n == Len(list[w]) + 1
    <3>1. ended = {} /\ \A i \in 1 .. Len(list[w]) : list[w][i] # Stopping
      BY <2>1, <2>4 DEF Phases
    <3>2. list'[w] = Append(list[w], s)
      BY <2>1, <2>2
    <3>3. Len(list[w]) \in Nat /\ Len(list'[w]) = n /\ list'[w][n] = s
      BY <2>1, <3>2
    <3>4. \A j \in 1 .. n - 1 : j \in 1 .. Len(list[w]) /\ list'[w][j] = list[w][j]
      BY <2>1, <3>2
    <3>5. n \in 1 .. Len(list'[w])
      BY <3>3
    <3>6. \A j \in 1 .. n - 1 : list'[w][j] # Stopping
      BY <3>1, <3>4
    <3> HIDE DEF n
    <3>7. QED  BY <2>1, <2>2, <3>1, <3>3, <3>5, <3>6 DEF Waits
  <2>5. OwedNow' \subseteq OwedNow \cup (IF main \in {"starting", "running"} THEN {s} ELSE {})
    BY <2>2 DEF OwedNow
  <2>6. QED  BY <2>2, <2>3, <2>4, <2>5 DEF NothingDropped
<1>2. ASSUME UNCHANGED <<list, ended, done>>, OwedNow' \subseteq OwedNow
      PROVE  NothingDropped'
  <2>1. \A t : Waits(t) => Waits(t)'
    BY <1>2 DEF Waits
  <2>2. QED  BY <1>2, <2>1 DEF NothingDropped
<1>3. ASSUME MakeHeap PROVE NothingDropped'
  BY <1>2, <1>3 DEF MakeHeap, mainVars, OwedNow
<1>4. ASSUME Start PROVE NothingDropped'
  <2>1. OwedNow' \subseteq OwedNow /\ UNCHANGED <<list, ended, done>>
    BY <1>4 DEF Start, Terminate, queueVars, OwedNow, Phases
  <2>2. QED  BY <1>2, <2>1
<1>5. ASSUME CallStop PROVE NothingDropped'
  BY <1>2, <1>5 DEF CallStop, queueVars, OwedNow
<1>6. ASSUME Stop PROVE NothingDropped'
  <2>1. PICK w \in Read(idx) : list' = [list EXCEPT ![w] = WithStop(@)]
    BY <1>6 DEF Stop
  <2>2. w \in PoolWorkers
    BY <1>0, <2>1 DEF Read, Orders, PoolTypeOK
  <2>3. list' = [list EXCEPT ![w] = Append(@, Stopping)] /\ ended' = ended /\ done' = done
    BY <1>6, <2>1 DEF Stop, WithStop
  <2>4. \A t : Waits(t) => Waits(t)'
    BY <2>2, <2>3, AppendKeepsWaits
  <2>5. OwedNow' = OwedNow
    BY <1>6 DEF Stop, OwedNow
  <2>6. QED  BY <2>3, <2>4, <2>5 DEF NothingDropped
<1>7. ASSUME CallJoin PROVE NothingDropped'
  BY <1>2, <1>7 DEF CallJoin, Terminate, queueVars, OwedNow
<1>8. ASSUME Join PROVE NothingDropped'
  BY <1>2, <1>8 DEF Join, queueVars, OwedNow
<1>9. ASSUME NEW w \in PoolWorkers, Run(w) PROVE NothingDropped'
  <2> DEFINE q == list[w]
  <2>1. /\ q \in Seq(Tasks \cup {Stopping}) /\ q # <<>>
        /\ list' = [list EXCEPT ![w] = Tail(q)]
        /\ list \in [PoolWorkers -> Seq(Tasks \cup {Stopping})]
        /\ IF Head(q) = Stopping
             THEN ended' = ended \cup {w} /\ done' = done
             ELSE done' = done \cup {Head(q)} /\ ended' = ended
    BY <1>9 DEF PoolTypeOK, Run
  <2> HIDE DEF q
  <2>2. /\ Len(q) \in Nat /\ Len(Tail(q)) = Len(q) - 1 /\ Head(q) = q[1]
        /\ \A i \in 1 .. Len(Tail(q)) : Tail(q)[i] = q[i + 1]
    BY <2>1
  <2>3. ASSUME NEW t \in Tasks, Waits(t) PROVE t \in done' \/ Waits(t)'
    <3>0. PICK v \in PoolWorkers \ ended :
            \E i \in 1 .. Len(list[v]) :
              list[v][i] = t /\ \A j \in 1 .. i - 1 : list[v][j] # Stopping
      BY <2>3 DEF Waits
    <3>1. PICK i \in 1 .. Len(list[v]) :
            list[v][i] = t /\ \A j \in 1 .. i - 1 : list[v][j] # Stopping
      BY <3>0
    <3>2. CASE v # w
      <4>1. list'[v] = list[v] /\ v \in PoolWorkers \ ended'
        BY <2>1, <3>1, <3>2
      <4>2. QED  BY <3>1, <4>1 DEF Waits
    <3>3. CASE v = w /\ i = 1
      <4>1. Head(q) = t /\ t # Stopping
        BY <2>2, <3>1, <3>3, StopIsNoTask DEF q
      <4>2. QED  BY <2>1, <4>1
    <3>4. CASE v = w /\ i # 1
      <4> DEFINE k == i - 1
      <4>0. i \in 1 .. Len(q) /\ q[i] = t /\ \A j \in 1 .. i - 1 : q[j] # Stopping
        BY <3>1, <3>4 DEF q
      <4>1. k \in 1 .. Len(Tail(q)) /\ k + 1 = i /\ 1 \in 1 .. i - 1
        BY <2>2, <3>4, <4>0
      <4>2. Head(q) # Stopping
        BY <2>2, <4>0, <4>1
      <4>3. Tail(q)[k] = t
        BY <2>2, <4>0, <4>1
      <4>4. ASSUME NEW j \in 1 .. k - 1 PROVE Tail(q)[j] # Stopping
        <5>1. j \in 1 .. Len(Tail(q)) /\ j + 1 \in 1 .. i - 1
          BY <2>2, <4>0, <4>1
        <5>2. QED  BY <2>2, <4>0, <5>1
      <4>5. list'[w] = Tail(q) /\ w \in PoolWorkers \ ended'
        BY <2>1, <3>1, <3>4, <4>2
      <4> HIDE DEF k
      <4>6. QED  BY <4>1, <4>3, <4>4, <4>5 DEF Waits
    <3>5. QED  BY <3>2, <3>3, <3>4
  <2>4. OwedNow' = OwedNow
    BY <1>9 DEF Run, mainVars, OwedNow
  <2>5. done \subseteq done'
    BY <2>1
  <2>6. QED  BY <1>0, <2>3, <2>4, <2>5 DEF NothingDropped
<1>10. ASSUME NEW w \in PoolWorkers, Leave(w) PROVE NothingDropped'
  BY <1>2, <1>10 DEF Leave, mainVars, OwedNow
<1>11. CASE UNCHANGED poolVars
  BY <1>2, <1>11 DEF poolVars, queueVars, mainVars, OwedNow
<1>12. QED
  BY <1>1, <1>3, <1>4, <1>5, <1>6, <1>7, <1>8, <1>9, <1>10, <1>11
  DEF PoolNext, EventThread, MainThread
-----------------------------------------------------------------------------
(* Undisturbed, threads_ is gone through once. *)

LEMMA UpToNext ==
  ASSUME PoolTypeOK, NEW i \in 1 .. Size, Size \in Nat
  PROVE  /\ threads[i] \notin UpTo(i - 1)
         /\ UpTo(i) = UpTo(i - 1) \cup {threads[i]}
<1>1. \A j \in 1 .. i - 1 : j \in 1 .. Size /\ j # i
  OBVIOUS
<1>2. threads[i] \notin UpTo(i - 1)
  BY <1>1 DEF UpTo, PoolTypeOK, Orders
<1>3. UpTo(i) = UpTo(i - 1) \cup {threads[i]}
  <2>1. \A j \in 1 .. i : j = i \/ j \in 1 .. i - 1
    OBVIOUS
  <2>2. i \in 1 .. i /\ \A j \in 1 .. i - 1 : j \in 1 .. i
    OBVIOUS
  <2>3. QED  BY <2>1, <2>2 DEF UpTo
<1>4. QED  BY <1>2, <1>3

LEMMA NextKeepsOrderly ==
  PoolTypeOK /\ Phases /\ Orderly /\ [PoolNext]_poolVars => Orderly'
<1> SUFFICES ASSUME PoolTypeOK, Phases, Orderly, [PoolNext]_poolVars, ~ disturbed'
             PROVE  /\ main' # "terminated"
                    /\ main' = "starting" => ~ heaping' /\ started' = UpTo(idx - 1)'
                    /\ main' = "stopping" => /\ idx' > 1 => ~ heaping'
                                             /\ joined' = UpTo(idx - 1)'
                    /\ main' \in {"calling", "joining"} =>
                         /\ ~ heaping' /\ target' = threads'[idx'] /\ target' \in told'
                         /\ joined' = UpTo(idx - 1)'
  BY DEF Orderly
<1> DEFINE Goal == /\ main' # "terminated"
                   /\ main' = "starting" => ~ heaping' /\ started' = UpTo(idx - 1)'
                   /\ main' = "stopping" => /\ idx' > 1 => ~ heaping'
                                            /\ joined' = UpTo(idx - 1)'
                   /\ main' \in {"calling", "joining"} =>
                        /\ ~ heaping' /\ target' = threads'[idx'] /\ target' \in told'
                        /\ joined' = UpTo(idx - 1)'
<1>0. Size \in Nat /\ idx \in 1 .. Size /\ heaping \in BOOLEAN /\ disturbed \in BOOLEAN
  BY SizeType DEF PoolTypeOK
<1>e. ~ disturbed
  BY <1>0 DEF PoolNext, EventThread, MainThread, Schedule, MakeHeap, Start, CallStop, Stop, CallJoin,
              Join, Run, Leave, poolVars, InLoop
<1>m. main \in {"starting", "running", "stopping", "calling", "joining", "stopped", "terminated"}
  BY DEF PoolTypeOK
<1>1. ASSUME NEW t \in Tasks, Schedule(t) PROVE Goal
  BY <1>1, <1>e, <1>m DEF Schedule, InLoop, mainVars, Orderly
<1>2. ASSUME MakeHeap PROVE Goal
  BY <1>2, <1>e, <1>m DEF MakeHeap, InLoop, mainVars, Orderly
<1>3. ASSUME Start PROVE Goal
  <2>1. ~ heaping /\ started = UpTo(idx - 1)
    BY <1>3, <1>e DEF Start, Orderly
  <2>2. Read(idx) = {threads[idx]}
    BY <2>1 DEF Read
  <2>3. threads[idx] \notin started /\ UpTo(idx) = started \cup {threads[idx]}
    BY <1>0, <2>1, UpToNext
  <2>4. /\ started' = started \cup {threads[idx]}
        /\ main' = (IF IsLast(idx) THEN "running" ELSE "starting")
        /\ idx' = (IF IsLast(idx) THEN 1 ELSE idx + 1)
        /\ threads' = threads /\ heaping' = heaping
    BY <1>3, <2>2, <2>3 DEF Start, queueVars
  <2>5. CASE IsLast(idx)
    BY <2>4, <2>5
  <2>6. CASE ~ IsLast(idx)
    <3>1. idx' - 1 = idx
      BY <1>0, <2>4, <2>6
    <3>2. UpTo(idx - 1)' = UpTo(idx)
      BY <2>4, <3>1 DEF UpTo
    <3>3. QED  BY <2>1, <2>3, <2>4, <2>6, <3>2
  <2>7. QED  BY <2>5, <2>6
<1>4. ASSUME CallStop PROVE Goal
  <2>1. idx = 1 /\ joined = {} /\ idx' = idx /\ joined' = joined /\ main' = "stopping"
    BY <1>4 DEF CallStop, Phases
  <2>2. UpTo(idx - 1)' = {}
    BY <2>1 DEF UpTo
  <2>3. QED  BY <2>1, <2>2
<1>5. ASSUME Stop PROVE Goal
  <2>1. ~ heaping /\ main = "stopping" /\ joined = UpTo(idx - 1)
    BY <1>0, <1>5, <1>e DEF Stop, Orderly
  <2>2. Read(idx) = {threads[idx]}
    BY <2>1 DEF Read
  <2>3. /\ target' = threads[idx] /\ target' \in told' /\ main' = "calling"
        /\ threads' = threads /\ heaping' = heaping /\ idx' = idx /\ joined' = joined
    BY <1>5, <2>2 DEF Stop
  <2>4. UpTo(idx - 1)' = UpTo(idx - 1)
    BY <2>3 DEF UpTo
  <2>5. QED  BY <2>1, <2>3, <2>4
<1>6. ASSUME CallJoin PROVE Goal
  <2>1. /\ ~ heaping /\ main = "calling" /\ joined = UpTo(idx - 1)
        /\ target = threads[idx] /\ target \in told
    BY <1>6, <1>e DEF CallJoin, Orderly
  <2>2. Read(Joins(idx)) = {threads[idx]}
    BY <2>1 DEF Read, Joins
  <2>3. threads[idx] \notin joined
    BY <1>0, <2>1, UpToNext
  <2>4. /\ target' = threads[idx] /\ told' = told /\ main' = "joining"
        /\ threads' = threads /\ heaping' = heaping /\ idx' = idx /\ joined' = joined
    BY <1>6, <2>2, <2>3 DEF CallJoin, queueVars
  <2>5. UpTo(idx - 1)' = UpTo(idx - 1)
    BY <2>4 DEF UpTo
  <2>6. QED  BY <2>1, <2>4, <2>5
<1>7. ASSUME Join PROVE Goal
  <2>1. ~ heaping /\ joined = UpTo(idx - 1) /\ target = threads[idx]
    BY <1>7, <1>e DEF Join, Orderly
  <2>2. UpTo(idx) = joined \cup {target}
    BY <1>0, <2>1, UpToNext
  <2>3. /\ joined' = joined \cup {target}
        /\ main' = (IF IsLast(idx) THEN "stopped" ELSE "stopping")
        /\ idx' = (IF IsLast(idx) THEN 1 ELSE idx + 1)
        /\ threads' = threads /\ heaping' = heaping
    BY <1>7 DEF Join, queueVars
  <2>4. CASE IsLast(idx)
    BY <2>3, <2>4
  <2>5. CASE ~ IsLast(idx)
    <3>1. idx' - 1 = idx
      BY <1>0, <2>3, <2>5
    <3>2. UpTo(idx - 1)' = UpTo(idx)
      BY <2>3, <3>1 DEF UpTo
    <3>3. QED  BY <2>1, <2>2, <2>3, <2>5, <3>2
  <2>6. QED  BY <2>4, <2>5
<1>8. ASSUME UNCHANGED <<threads, heaping, mainVars>> PROVE Goal
  <2>1. UpTo(idx - 1)' = UpTo(idx - 1)
    BY <1>8 DEF UpTo, mainVars
  <2>2. QED  BY <1>8, <1>e, <2>1 DEF mainVars, Orderly
<1>9. ASSUME NEW w \in PoolWorkers, Run(w) \/ Leave(w) PROVE Goal
  <2>1. UNCHANGED <<threads, heaping, mainVars>>
    BY <1>9 DEF Run, Leave
  <2>2. QED  BY <1>8, <2>1
<1>10. CASE UNCHANGED poolVars
  <2>1. UNCHANGED <<threads, heaping, mainVars>>
    BY <1>10 DEF poolVars, queueVars
  <2>2. QED  BY <1>8, <2>1
<1>11. QED
  BY <1>1, <1>2, <1>3, <1>4, <1>5, <1>6, <1>7, <1>9, <1>10
  DEF PoolNext, EventThread, MainThread
-----------------------------------------------------------------------------
LEMMA NextKeepsIInv == IInv /\ [PoolNext]_poolVars => IInv'
BY NextKeepsTypeOK, NextKeepsCounted, NextKeepsPhases, NextKeepsNothingDropped,
   NextKeepsOrderly DEF IInv

THEOREM Invariance == PoolSpec => []IInv
BY InitIsGood, NextKeepsIInv, PTL DEF PoolSpec

\* An index is never out of threads_, and nobody is started, told, joined or ended who
\* is not a thread of the pool.
THEOREM TypeCorrect == PoolSpec => []PoolTypeOK
<1>1. IInv => PoolTypeOK
  BY DEF IInv
<1>2. QED  BY Invariance, <1>1, PTL

\* However many threads a pool has and however often the heap is made anew meanwhile,
\* Start starts all of them, or the process ends.
THEOREM StartIsComplete == PoolSpec => []AllStarted
<1>1. IInv => AllStarted
  BY DEF IInv, Counted
<1>2. QED  BY Invariance, <1>1, PTL

\* Stop returns only when all threads have been joined and no task scheduled before is
\* left behind.
THEOREM StopIsComplete == PoolSpec => []DrainedWhenStopped
<1>1. IInv => DrainedWhenStopped
  <2> SUFFICES ASSUME IInv, main = "stopped" PROVE joined = PoolWorkers /\ owed \subseteq done
    BY DEF DrainedWhenStopped
  <2>1. joined = PoolWorkers
    BY DEF IInv, Counted
  <2>2. ended = PoolWorkers
    BY <2>1 DEF IInv, Phases, PoolTypeOK
  <2>3. \A t : ~ Waits(t)
    BY <2>2 DEF Waits
  <2>4. owed \subseteq done
    BY <2>3 DEF IInv, NothingDropped, OwedNow
  <2>5. QED  BY <2>1, <2>4
<1>2. QED  BY Invariance, <1>1, PTL

\* If Schedule keeps away from Start and Stop, no thread is started or joined twice
\* and Stop waits only for threads it has told to stop.
THEOREM QuietStartAndStop == PoolSpec => []UndisturbedIsOrderly
<1>1. IInv => UndisturbedIsOrderly
  BY DEF IInv, Orderly, UndisturbedIsOrderly
<1>2. QED  BY Invariance, <1>1, PTL
=============================================================================
