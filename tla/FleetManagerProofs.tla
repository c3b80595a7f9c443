------------------------- MODULE FleetManagerProofs -------------------------
(***************************************************************************)
(* Proofs about FleetManager, for any robots, tasks, routes and messages.  *)
(***************************************************************************)
EXTENDS FleetManager, SequenceTheorems, FiniteSetTheorems, WellFoundedInduction, TLAPS

(* What the loops leave behind when they end: _check_traffic visits only   *)
(* robots that hold a reservation, and tasks wait to be requeued only in   *)
(* the two loops that take them from robots.                               *)
LoopsOK ==
  /\ visit # {} => pc = "traffic"
  /\ \A r \in visit : Holds(r)
  /\ recovered # <<>> => pc \in {"heartbeats", "battery"}

(* The inductive invariant.                                                *)
IInv == TypeOK /\ LoopsOK /\ WindowAhead /\ OwnersMatchReservations

-----------------------------------------------------------------------------
(* Operators on sequences, and the records.                                *)

LEMMA RemoveAtType ==
  ASSUME NEW S, NEW s \in Seq(S), NEW i \in 1..Len(s)
  PROVE  RemoveAt(s, i) \in Seq(S)
BY SubSeqProperties, ConcatProperties DEF RemoveAt

LEMMA BestIndicesType ==
  ASSUME NEW q \in Seq(Task), NEW i \in BestIndices(q)
  PROVE  i \in 1..Len(q) /\ q[i] \in Task
BY DEF BestIndices

LEMMA HoldsType ==
  ASSUME TypeOK, NEW r \in Robot, Holds(r)
  PROVE  reservations[r] \in Reservation
BY DEF TypeOK, Holds

LEMMA HoldsFields ==
  ASSUME TypeOK, NEW r \in Robot, Holds(r)
  PROVE  /\ reservations[r].task \in Task
         /\ reservations[r].index \in Nat
         /\ reservations[r].reserved \in SUBSET Nat
<1>1. reservations[r] \in Reservation
  BY HoldsType
<1>2. QED
  BY ONLY <1>1 DEF Reservation

LEMMA RegisteredType ==
  ASSUME TypeOK, NEW r \in Robot, Registered(r)
  PROVE  robots[r] \in Entry
BY DEF TypeOK, Registered

(* What the handlers change in a registry entry leaves it one.             *)
LEMMA EntryChange ==
  ASSUME NEW e \in Entry, NEW t \in Task \cup {None}
  PROVE  /\ [e EXCEPT !.currentTask = t] \in Entry
         /\ [e EXCEPT !.fresh = TRUE, !.status = "ONLINE"] \in Entry
         /\ [e EXCEPT !.fresh = FALSE] \in Entry
         /\ [e EXCEPT !.status = "OFFLINE", !.currentTask = None] \in Entry
<1>1. [e EXCEPT !.currentTask = t] \in Entry
  BY ZenonT(90) DEF Entry
<1>2. [e EXCEPT !.fresh = TRUE, !.status = "ONLINE"] \in Entry
  BY ZenonT(90) DEF Entry, Status
<1>3. [e EXCEPT !.fresh = FALSE] \in Entry
  BY ZenonT(90) DEF Entry
<1>4. [e EXCEPT !.status = "OFFLINE", !.currentTask = None] \in Entry
  BY ZenonT(90) DEF Entry, Status
<1>5. QED
  BY <1>1, <1>2, <1>3, <1>4

LEMMA InitialWindowType ==
  ASSUME NEW t \in Task
  PROVE  /\ InitialWindow(t) \in SUBSET Nat
         /\ \A i \in InitialWindow(t) : 1 <= i /\ i <= Len(Segments[t]) /\ i <= 1 + Lookahead
         /\ 1 <= Len(Segments[t]) /\ Len(Segments[t]) \in Nat
BY SegmentsAssumption, ThresholdAssumption DEF InitialWindow

(* Where two segments of a route share no cell, a cell of one reserved     *)
(* segment is not in the cells of a set of others.                         *)
LEMMA CellsOfSplit ==
  ASSUME NEW t \in Task,
         NEW I, I \subseteq 1..Len(Segments[t]),
         NEW J, J \subseteq 1..Len(Segments[t]),
         I \cap J = {}
  PROVE  CellsOf(t, I) \cap CellsOf(t, J) = {}
BY SegmentsAssumption DEF CellsOf

LEMMA CellsOfUnion ==
  ASSUME NEW t, NEW I, NEW J
  PROVE  CellsOf(t, I \cup J) = CellsOf(t, I) \cup CellsOf(t, J)
BY DEF CellsOf

-----------------------------------------------------------------------------
(* Types: one lemma for each step callbacks are made of.                   *)

LEMMA DispatchNextType ==
  ASSUME TypeOK, NEW r \in Robot, NEW q \in [Robot -> Seq(Task)], DispatchNext(r, q)
  PROVE  /\ robots' \in [Robot -> Entry \cup {None}]
         /\ queues' \in [Robot -> Seq(Task)]
         /\ reservations' \in [Robot -> Reservation \cup {None}]
         /\ cellOwners' \in [Cell -> Robot \cup {None}]
<1>1. ASSUME NEW i \in BestIndices(q[r]),
             CanStart(r, q[r][i]),
             queues' = [q EXCEPT ![r] = RemoveAt(@, i)],
             reservations' = [reservations EXCEPT ![r] =
               [task |-> q[r][i], index |-> 1, reserved |-> InitialWindow(q[r][i]),
                activated |-> FALSE]],
             cellOwners' = [c \in Cell |->
               IF c \in CellsOf(q[r][i], InitialWindow(q[r][i])) THEN r ELSE cellOwners[c]],
             robots' = [robots EXCEPT ![r].currentTask = q[r][i]]
      PROVE  /\ robots' \in [Robot -> Entry \cup {None}]
             /\ queues' \in [Robot -> Seq(Task)]
             /\ reservations' \in [Robot -> Reservation \cup {None}]
             /\ cellOwners' \in [Cell -> Robot \cup {None}]
  <2>1. i \in 1..Len(q[r]) /\ q[r][i] \in Task
    BY BestIndicesType
  <2>2. queues' \in [Robot -> Seq(Task)]
    BY <1>1, <2>1, RemoveAtType
  <2>3. [task |-> q[r][i], index |-> 1, reserved |-> InitialWindow(q[r][i]),
         activated |-> FALSE] \in Reservation
    BY <2>1, InitialWindowType DEF Reservation
  <2>4. reservations' \in [Robot -> Reservation \cup {None}]
    BY <1>1, <2>3 DEF TypeOK
  <2>5. cellOwners' \in [Cell -> Robot \cup {None}]
    BY <1>1 DEF TypeOK
  <2>6. Registered(r)
    BY <1>1, SMTT(30) DEF CanStart, Eligible
  <2>7. [robots[r] EXCEPT !.currentTask = q[r][i]] \in Entry
    BY <2>1, <2>6, RegisteredType, EntryChange
  <2>8. robots' \in [Robot -> Entry \cup {None}]
    BY <1>1, <2>7 DEF TypeOK
  <2>9. QED
    BY <2>2, <2>4, <2>5, <2>8
<1>2. CASE queues' = q /\ UNCHANGED <<robots, traffic>>
  BY <1>2 DEF TypeOK, traffic
<1>3. QED
  BY <1>1, <1>2 DEF DispatchNext

LEMMA BestType ==
  ASSUME NEW t, NEW r \in Best(t)
  PROVE  r \in Robot /\ Registered(r)
BY DEF Best, Capable, Eligible

LEMMA ScheduleType ==
  ASSUME TypeOK, NEW t \in Task, NEW also \in Seq(Task), Schedule(t, also)
  PROVE  /\ robots' \in [Robot -> Entry \cup {None}]
         /\ queues' \in [Robot -> Seq(Task)]
         /\ waiting' \in Seq(Task)
         /\ earlier' \subseteq Task \X Task
         /\ reservations' \in [Robot -> Reservation \cup {None}]
         /\ cellOwners' \in [Cell -> Robot \cup {None}]
<1>1. earlier' \subseteq Task \X Task
  BY DEF Schedule, TypeOK
<1>2. CASE waiting' = Append(waiting, t) \o also /\ UNCHANGED <<robots, queues, traffic>>
  <2>1. waiting' \in Seq(Task)
    BY <1>2, AppendProperties, ConcatProperties DEF TypeOK
  <2>2. QED
    BY <1>1, <1>2, <2>1 DEF TypeOK, traffic
<1>3. ASSUME NEW r \in Best(t),
             DispatchNext(r, [queues EXCEPT ![r] = Append(@, t)]), UNCHANGED waiting
      PROVE  /\ robots' \in [Robot -> Entry \cup {None}]
             /\ queues' \in [Robot -> Seq(Task)]
             /\ waiting' \in Seq(Task)
             /\ reservations' \in [Robot -> Reservation \cup {None}]
             /\ cellOwners' \in [Cell -> Robot \cup {None}]
  <2>1. [queues EXCEPT ![r] = Append(@, t)] \in [Robot -> Seq(Task)]
    BY AppendProperties, BestType DEF TypeOK
  <2>2. QED
    BY <1>3, <2>1, BestType, DispatchNextType DEF TypeOK
<1>4. QED
  BY <1>1, <1>2, <1>3 DEF Schedule

LEMMA ReleaseType ==
  ASSUME TypeOK, NEW r \in Robot, Release(r)
  PROVE  /\ reservations' \in [Robot -> Reservation \cup {None}]
         /\ cellOwners' \in [Cell -> Robot \cup {None}]
BY DEF Release, TypeOK

LEMMA TakeWorkType ==
  ASSUME TypeOK, NEW r \in Robot, TakeWork(r)
  PROVE  /\ recovered' \in Seq(Task)
         /\ queues' \in [Robot -> Seq(Task)]
         /\ reservations' \in [Robot -> Reservation \cup {None}]
         /\ cellOwners' \in [Cell -> Robot \cup {None}]
<1>1. recovered' \in Seq(Task)
  <2>1. (IF Holds(r) THEN <<reservations[r].task>> ELSE <<>>) \in Seq(Task)
    BY HoldsType DEF Reservation
  <2>2. QED
    BY <2>1, ConcatProperties DEF TakeWork, WorkOf, TypeOK
<1>2. queues' \in [Robot -> Seq(Task)]
  BY DEF TakeWork, TypeOK
<1>3. /\ reservations' \in [Robot -> Reservation \cup {None}]
      /\ cellOwners' \in [Cell -> Robot \cup {None}]
  BY ReleaseType DEF TakeWork, TypeOK, traffic
<1>4. QED
  BY <1>1, <1>2, <1>3

-----------------------------------------------------------------------------
(* Reservations: a dispatch, a release and a traffic check keep the owners *)
(* of the cells and the reservations in agreement, and windows ahead.      *)

TrafficInv == WindowAhead /\ OwnersMatchReservations

LEMMA CellsHeldNext ==
  ASSUME NEW r \in Robot, Holds(r)'
  PROVE  CellsHeld(r)' = CellsOf(reservations'[r].task, reservations'[r].reserved)
BY DEF CellsHeld, CellsOf

LEMMA TrafficUnchanged ==
  ASSUME TrafficInv, UNCHANGED traffic
  PROVE  TrafficInv'
BY DEF TrafficInv, WindowAhead, OwnersMatchReservations, CellsHeld, Holds, CellsOf, traffic

LEMMA DispatchNextTraffic ==
  ASSUME TypeOK, TrafficInv, NEW r \in Robot, NEW q \in [Robot -> Seq(Task)],
         DispatchNext(r, q)
  PROVE  TrafficInv'
<1>1. ASSUME NEW i \in BestIndices(q[r]),
             CanStart(r, q[r][i]),
             reservations' = [reservations EXCEPT ![r] =
               [task |-> q[r][i], index |-> 1, reserved |-> InitialWindow(q[r][i]),
                activated |-> FALSE]],
             cellOwners' = [c \in Cell |->
               IF c \in CellsOf(q[r][i], InitialWindow(q[r][i])) THEN r ELSE cellOwners[c]]
      PROVE  TrafficInv'
  <2> DEFINE t == q[r][i]
             W == InitialWindow(t)
  <2>1. t \in Task
    BY BestIndicesType
  <2>2. reservations'[r] = [task |-> t, index |-> 1, reserved |-> W, activated |-> FALSE]
    BY <1>1 DEF TypeOK
  <2>3. reservations'[r] \in Reservation
    BY <2>1, <2>2, InitialWindowType DEF Reservation
  <2>4. \A s \in Robot : s # r => reservations'[s] = reservations[s]
    BY <1>1 DEF TypeOK
  <2>5. WindowAhead'
    <3>1. ASSUME NEW s \in Robot, s # r, Holds(s)'
          PROVE  LET res == reservations'[s]
                 IN  /\ res.index \in 1..Len(Segments[res.task])
                     /\ \A j \in res.reserved : res.index <= j /\ j <= res.index + Lookahead
                     /\ \A j \in res.reserved : j <= Len(Segments[res.task])
      BY <2>4, <3>1 DEF TrafficInv, WindowAhead, Holds
    <3>2. LET res == reservations'[r]
          IN  /\ res.index \in 1..Len(Segments[res.task])
              /\ \A j \in res.reserved : res.index <= j /\ j <= res.index + Lookahead
              /\ \A j \in res.reserved : j <= Len(Segments[res.task])
      BY <2>1, <2>2, InitialWindowType
    <3>3. QED
      BY <3>1, <3>2 DEF WindowAhead
  <2>6. OwnersMatchReservations'
    <3>1. SUFFICES ASSUME NEW s \in Robot, NEW c \in Cell
                   PROVE  cellOwners'[c] = s <=> c \in CellsHeld(s)'
      BY DEF OwnersMatchReservations
    <3>2. cellOwners'[c] = IF c \in CellsOf(t, W) THEN r ELSE cellOwners[c]
      BY <1>1
    <3>3. cellOwners[c] = s <=> c \in CellsHeld(s)
      BY DEF TrafficInv, OwnersMatchReservations
    <3>4. ~Holds(r) /\ (c \in CellsOf(t, W) => cellOwners[c] \in {None, r})
      BY <1>1 DEF CanStart, Conflict
    <3>5. CASE s = r
      <4>0. Holds(r)' /\ reservations'[r].task = t /\ reservations'[r].reserved = W
        <5>1. Holds(r)'
          BY <2>3, NoneAssumption DEF Holds
        <5>2. reservations'[r].task = t
          BY <2>2
        <5>3. reservations'[r].reserved = W
          BY <2>2
        <5>4. QED
          BY <5>1, <5>2, <5>3
      <4>1. CellsHeld(s)' = CellsOf(t, W)
        <5>1. CellsHeld(s)' = CellsOf(reservations'[r].task, reservations'[r].reserved)
          BY <3>5, <4>0, CellsHeldNext
        <5>2. QED
          BY <4>0, <5>1
      <4>2. CellsHeld(s) = {}
        BY <3>5, <3>4 DEF CellsHeld
      <4>3. QED
        BY <3>2, <3>3, <3>5, <4>1, <4>2
    <3>6. CASE s # r
      <4>1. CellsHeld(s)' = CellsHeld(s)
        BY <3>6, <2>4 DEF CellsHeld, Holds, CellsOf
      <4>2. QED
        BY <3>2, <3>3, <3>4, <3>6, <4>1, NoneAssumption
    <3>7. QED
      BY <3>5, <3>6
  <2>7. QED
    BY <2>5, <2>6 DEF TrafficInv
<1>2. CASE UNCHANGED traffic
  BY <1>2, TrafficUnchanged
<1>3. QED
  BY <1>1, <1>2 DEF DispatchNext

LEMMA ReleaseTraffic ==
  ASSUME TypeOK, TrafficInv, NEW r \in Robot, Holds(r), Release(r)
  PROVE  TrafficInv'
<1> DEFINE C == CellsOf(reservations[r].task, reservations[r].reserved)
<1>1. /\ reservations' = [reservations EXCEPT ![r] = None]
      /\ cellOwners' = [c \in Cell |->
           IF c \in C /\ cellOwners[c] = r THEN None ELSE cellOwners[c]]
  BY DEF Release
<1>2. ~Holds(r)' /\ \A s \in Robot : s # r => reservations'[s] = reservations[s]
  BY <1>1 DEF TypeOK, Holds
<1>3. WindowAhead'
  BY <1>2 DEF TrafficInv, WindowAhead, Holds
<1>4. OwnersMatchReservations'
  <2>1. SUFFICES ASSUME NEW s \in Robot, NEW c \in Cell
                 PROVE  cellOwners'[c] = s <=> c \in CellsHeld(s)'
    BY DEF OwnersMatchReservations
  <2>2. /\ cellOwners'[c] = IF c \in C /\ cellOwners[c] = r THEN None ELSE cellOwners[c]
        /\ cellOwners[c] = s <=> c \in CellsHeld(s)
        /\ CellsHeld(r) = C
    BY <1>1 DEF TrafficInv, OwnersMatchReservations, CellsHeld
  <2>3. CASE s = r
    BY <1>2, <2>2, <2>3, NoneAssumption DEF CellsHeld
  <2>4. CASE s # r
    <3>1. CellsHeld(s)' = CellsHeld(s)
      BY <1>2, <2>4 DEF CellsHeld, Holds, CellsOf
    <3>2. QED
      BY <2>2, <2>4, <3>1, NoneAssumption
  <2>5. QED
    BY <2>3, <2>4
<1>5. QED
  BY <1>3, <1>4 DEF TrafficInv

LEMMA TakeWorkTraffic ==
  ASSUME TypeOK, TrafficInv, NEW r \in Robot, TakeWork(r)
  PROVE  TrafficInv'
<1>1. CASE Holds(r)
  BY <1>1, ReleaseTraffic DEF TakeWork
<1>2. CASE ~Holds(r)
  BY <1>2, TrafficUnchanged DEF TakeWork
<1>3. QED
  BY <1>1, <1>2

LEMMA ScheduleTraffic ==
  ASSUME TypeOK, TrafficInv, NEW t \in Task, NEW also, Schedule(t, also)
  PROVE  TrafficInv'
<1>1. CASE UNCHANGED traffic
  BY <1>1, TrafficUnchanged
<1>2. ASSUME NEW r \in Best(t), DispatchNext(r, [queues EXCEPT ![r] = Append(@, t)])
      PROVE  TrafficInv'
  <2>1. [queues EXCEPT ![r] = Append(@, t)] \in [Robot -> Seq(Task)]
    BY AppendProperties, BestType DEF TypeOK
  <2>2. QED
    BY <1>2, <2>1, BestType, DispatchNextTraffic
<1>3. QED
  BY <1>1, <1>2 DEF Schedule

LEMMA CheckTrafficStep ==
  ASSUME IInv, NEW r \in Robot, CheckTraffic(r)
  PROVE  /\ reservations' \in [Robot -> Reservation \cup {None}]
         /\ cellOwners' \in [Cell -> Robot \cup {None}]
         /\ \A s \in Robot : Holds(s) =>
              /\ Holds(s)'
              /\ reservations'[s].task = reservations[s].task
              /\ reservations'[s].index >= reservations[s].index
         /\ \A c \in Cell : \/ cellOwners'[c] = cellOwners[c]
                            \/ cellOwners[c] = None /\ cellOwners'[c] = r
                            \/ cellOwners[c] = r /\ cellOwners'[c] = None
         /\ TrafficInv'
<1> DEFINE t == reservations[r].task
           n == Len(Segments[t])
           index0 == reservations[r].index
           reserved0 == reservations[r].reserved
<1>1. Holds(r)
  BY DEF CheckTraffic, IInv, LoopsOK
<1>2. /\ reservations[r] \in Reservation
      /\ t \in Task /\ index0 \in Nat /\ reserved0 \in SUBSET Nat /\ n \in Nat
      /\ index0 \in 1..n
      /\ \A i \in reserved0 : index0 <= i /\ i <= n /\ i <= index0 + Lookahead
  <2>1. reservations[r] \in Reservation
    BY <1>1, HoldsType DEF IInv
  <2>2. t \in Task /\ index0 \in Nat /\ reserved0 \in SUBSET Nat
    BY <2>1 DEF Reservation
  <2>3. n \in Nat
    BY <2>2, SegmentsAssumption
  <2>4. QED
    BY <1>1, <2>1, <2>2, <2>3 DEF IInv, WindowAhead
<1>3. PICK cur \in Visited(r) :
        LET kept == {i \in reserved0 : i >= cur}
            behind == CellsOf(t, reserved0 \ kept)
            free == {i \in cur..n : i <= cur + Lookahead /\ ~Conflict(r, Segments[t][i])}
            ahead == CellsOf(t, free \ kept)
        IN  /\ \A i \in Visited(r) : i <= cur
            /\ reservations' = [reservations EXCEPT ![r].index = cur,
                                   ![r].reserved = kept \cup free]
            /\ cellOwners' = [c \in Cell |->
                 IF c \in ahead THEN r
                 ELSE IF c \in behind /\ cellOwners[c] = r THEN None
                 ELSE cellOwners[c]]
  BY DEF CheckTraffic
<1> DEFINE kept == {i \in reserved0 : i >= cur}
           behind == CellsOf(t, reserved0 \ kept)
           free == {i \in cur..n : i <= cur + Lookahead /\ ~Conflict(r, Segments[t][i])}
           ahead == CellsOf(t, free \ kept)
<1>4. cur \in 1..n
  BY DEF Visited
<1>5. index0 <= cur
  BY <1>2, <1>3, <1>4 DEF Visited
<1>6. PICK window \in SUBSET Nat : window = kept \cup free
  <2>1. kept \cup free \in SUBSET Nat
    BY <1>2, <1>4
  <2>2. QED
    BY <2>1, Zenon
<1>7. reservations'[r] = [reservations[r] EXCEPT !.index = cur, !.reserved = window]
  BY <1>3, <1>6 DEF IInv, TypeOK
<1>8. /\ reservations'[r] \in Reservation
      /\ reservations'[r].task = t
      /\ reservations'[r].index = cur
      /\ reservations'[r].reserved = kept \cup free
  <2>1. cur \in Nat
    BY <1>4, <1>2
  <2>2. reservations'[r] \in Reservation
    BY ONLY <1>2, <1>7, <2>1, window \in SUBSET Nat DEF Reservation
  <2>3. reservations'[r].task = reservations[r].task
    BY ONLY <1>2, <1>7, <2>1, window \in SUBSET Nat DEF Reservation
  <2>4. reservations'[r].index = cur
    BY ONLY <1>2, <1>7, <2>1, window \in SUBSET Nat DEF Reservation
  <2>5. reservations'[r].reserved = window
    BY ONLY <1>2, <1>7, <2>1, window \in SUBSET Nat DEF Reservation
  <2>6. QED
    BY <2>2, <2>3, <2>4, <2>5, <1>6
<1>9. \A s \in Robot : s # r => reservations'[s] = reservations[s]
  BY <1>3 DEF IInv, TypeOK
<1>10. Holds(r)'
  BY <1>8, NoneAssumption DEF Holds
<1>11. reservations' \in [Robot -> Reservation \cup {None}]
  BY <1>3, <1>8 DEF IInv, TypeOK
<1>12. cellOwners' \in [Cell -> Robot \cup {None}]
  BY <1>3 DEF IInv, TypeOK
<1>13. \A s \in Robot : Holds(s) =>
         /\ Holds(s)'
         /\ reservations'[s].task = reservations[s].task
         /\ reservations'[s].index >= reservations[s].index
  <2>1. ASSUME NEW s \in Robot, Holds(s), s # r
        PROVE  reservations[s].index >= reservations[s].index
    <3>1. reservations[s].index \in Nat
      BY <2>1, HoldsType DEF IInv, Reservation
    <3>2. QED
      BY <3>1
  <2>2. cur >= index0
    BY <1>2, <1>4, <1>5
  <2>3. QED
    BY <1>8, <1>9, <1>10, <2>1, <2>2 DEF Holds
<1>14. WindowAhead'
  <2>1. ASSUME NEW s \in Robot, s # r, Holds(s)'
        PROVE  LET x == reservations'[s]
               IN  /\ x.index \in 1..Len(Segments[x.task])
                   /\ \A j \in x.reserved : x.index <= j /\ j <= x.index + Lookahead
                   /\ \A j \in x.reserved : j <= Len(Segments[x.task])
    BY <1>9, <2>1 DEF IInv, WindowAhead, Holds
  <2>2. \A j \in kept \cup free : cur <= j /\ j <= cur + Lookahead /\ j <= n
    BY <1>2, <1>4, <1>5, ThresholdAssumption
  <2>3. LET x == reservations'[r]
        IN  /\ x.index \in 1..Len(Segments[x.task])
            /\ \A j \in x.reserved : x.index <= j /\ j <= x.index + Lookahead
            /\ \A j \in x.reserved : j <= Len(Segments[x.task])
    BY <1>4, <1>8, <2>2
  <2>4. QED
    BY <2>1, <2>3 DEF WindowAhead
<1>15. OwnersMatchReservations'
  <2>1. SUFFICES ASSUME NEW s \in Robot, NEW c \in Cell
                 PROVE  cellOwners'[c] = s <=> c \in CellsHeld(s)'
    BY DEF OwnersMatchReservations
  <2>2. cellOwners'[c] = IF c \in ahead THEN r
                         ELSE IF c \in behind /\ cellOwners[c] = r THEN None
                         ELSE cellOwners[c]
    BY <1>3
  <2>3. cellOwners[c] = s <=> c \in CellsHeld(s)
    BY DEF IInv, OwnersMatchReservations
  <2>4. c \in ahead => cellOwners[c] \in {None, r}
    BY DEF CellsOf, Conflict
  <2>5. CASE s = r
    <3>1. CellsHeld(s)' = CellsOf(t, kept \cup free)
      BY <1>8, <1>10, <2>5, CellsHeldNext
    <3>2. CellsHeld(s) = CellsOf(t, reserved0)
      BY <1>1, <2>5 DEF CellsHeld
    <3>3. CellsOf(t, reserved0) = behind \cup CellsOf(t, kept)
      <4>1. reserved0 = (reserved0 \ kept) \cup kept
        OBVIOUS
      <4>2. QED
        BY <4>1, CellsOfUnion
    <3>4. CellsOf(t, kept \cup free) = CellsOf(t, kept) \cup ahead
      <4>1. kept \cup free = kept \cup (free \ kept)
        OBVIOUS
      <4>2. QED
        BY <4>1, CellsOfUnion
    <3>5. behind \cap CellsOf(t, kept) = {}
      <4>1. reserved0 \ kept \subseteq 1..n /\ kept \subseteq 1..n
        BY <1>2, <1>4
      <4>2. QED
        BY <1>2, <4>1, CellsOfSplit
    <3>6. QED
      BY <2>2, <2>3, <2>5, <3>1, <3>2, <3>3, <3>4, <3>5, NoneAssumption
  <2>6. CASE s # r
    <3>1. CellsHeld(s)' = CellsHeld(s)
      BY <1>9, <2>6 DEF CellsHeld, Holds, CellsOf
    <3>2. QED
      BY <2>2, <2>3, <2>4, <2>6, <3>1, NoneAssumption
  <2>7. QED
    BY <2>5, <2>6
<1>16. ASSUME NEW c \in Cell
       PROVE  \/ cellOwners'[c] = cellOwners[c]
              \/ cellOwners[c] = None /\ cellOwners'[c] = r
              \/ cellOwners[c] = r /\ cellOwners'[c] = None
  <2>1. cellOwners'[c] = IF c \in ahead THEN r
                         ELSE IF c \in behind /\ cellOwners[c] = r THEN None
                         ELSE cellOwners[c]
    BY <1>3
  <2>2. c \in ahead => cellOwners[c] \in {None, r}
    BY DEF CellsOf, Conflict
  <2>3. QED
    BY <2>1, <2>2
<1>17. QED
  BY <1>11, <1>12, <1>13, <1>14, <1>15, <1>16 DEF TrafficInv

-----------------------------------------------------------------------------
(* The invariant is preserved: the message handlers.                       *)

LEMMA InvParts == IInv <=> TypeOK /\ LoopsOK /\ TrafficInv
BY DEF IInv, TrafficInv

LEMMA InitInv == Init => IInv
<1> SUFFICES ASSUME Init PROVE IInv
  OBVIOUS
<1>1. TypeOK
  <2>1. /\ robots \in [Robot -> Entry \cup {None}]
        /\ reservations \in [Robot -> Reservation \cup {None}]
        /\ cellOwners \in [Cell -> Robot \cup {None}]
    BY DEF Init
  <2>2. waiting \in Seq(Task) /\ recovered \in Seq(Task) /\ queues \in [Robot -> Seq(Task)]
    BY DEF Init
  <2>3. /\ earlier \subseteq Task \X Task /\ accepted \subseteq Task /\ visit \subseteq Robot
        /\ index \in Nat \ {0}
        /\ pc \in {"idle", "heartbeats", "battery", "traffic", "dispatch", "waiting", "steal"}
    BY SMT DEF Init
  <2>4. progress \in BOOLEAN
    BY Zenon DEF Init
  <2>5. QED
    BY <2>1, <2>2, <2>3, <2>4, Zenon DEF TypeOK
<1>2. LoopsOK
  BY DEF Init, LoopsOK
<1>3. \A r \in Robot : ~Holds(r)
  BY DEF Init, Holds
<1>4. WindowAhead
  BY <1>3 DEF WindowAhead
<1>5. OwnersMatchReservations
  BY <1>3, NoneAssumption DEF Init, OwnersMatchReservations, CellsHeld
<1>6. QED
  BY <1>1, <1>2, <1>4, <1>5 DEF IInv

LEMMA IdleLoops ==
  ASSUME LoopsOK, pc = "idle"
  PROVE  visit = {} /\ recovered = <<>>
BY DEF LoopsOK

LEMMA RegisterInv ==
  ASSUME IInv, NEW r \in Robot, NEW report \in Reports, NEW t \in Task \cup {None},
         Register(r, report, t)
  PROVE  IInv'
<1>1. robots' \in [Robot -> Entry \cup {None}]
  <2>1. /\ report[1] \in Status /\ report[2] \in 0..100 /\ report[3] \in BOOLEAN
    BY DataAssumption
  <2>2. (IF Registered(r) THEN robots[r].cell ELSE None) \in Cell \cup {None}
    BY RegisteredType DEF IInv, Entry
  <2>3. [status |-> report[1], currentTask |-> t, fresh |-> TRUE,
         battery |-> report[2], charging |-> report[3],
         cell |-> IF Registered(r) THEN robots[r].cell ELSE None] \in Entry
    BY <2>1, <2>2 DEF Entry
  <2>4. QED
    BY <2>3 DEF Register, IInv, TypeOK
<1>2. CASE /\ Holds(r) /\ reservations[r].task = t
           /\ reservations' = [reservations EXCEPT ![r].activated = TRUE]
           /\ UNCHANGED <<cellOwners, accepted, control>>
  <2>1. reservations[r] \in Reservation
    BY <1>2, HoldsType DEF IInv
  <2>2. reservations'[r] = [reservations[r] EXCEPT !.activated = TRUE]
    BY <1>2 DEF IInv, TypeOK
  <2>3. reservations'[r] \in Reservation
    BY ONLY <2>1, <2>2 DEF Reservation
  <2>4. /\ reservations'[r].task = reservations[r].task
        /\ reservations'[r].index = reservations[r].index
        /\ reservations'[r].reserved = reservations[r].reserved
    BY ONLY <2>1, <2>2 DEF Reservation
  <2>5. \A s \in Robot : s # r => reservations'[s] = reservations[s]
    BY <1>2 DEF IInv, TypeOK
  <2>6. \A s \in Robot : Holds(s)' <=> Holds(s)
    BY <1>2, <2>3, <2>5, NoneAssumption DEF Holds
  <2>7. \A s \in Robot : Holds(s) => /\ reservations'[s].task = reservations[s].task
                                    /\ reservations'[s].index = reservations[s].index
                                    /\ reservations'[s].reserved = reservations[s].reserved
    BY <2>4, <2>5
  <2>8. WindowAhead'
    BY <2>6, <2>7 DEF IInv, WindowAhead
  <2>9. \A s \in Robot : CellsHeld(s)' = CellsHeld(s)
    BY <2>6, <2>7 DEF CellsHeld, CellsOf
  <2>10. OwnersMatchReservations'
    BY <1>2, <2>9 DEF IInv, OwnersMatchReservations
  <2>11. TypeOK'
    <3>1. reservations' \in [Robot -> Reservation \cup {None}]
      BY <1>2, <2>3 DEF IInv, TypeOK
    <3>2. QED
      BY <1>1, <1>2, <3>1 DEF Register, IInv, TypeOK, control
  <2>12. LoopsOK'
    BY <1>2, IdleLoops DEF Register, IInv, LoopsOK, control
  <2>13. QED
    BY <2>8, <2>10, <2>11, <2>12 DEF IInv
<1>3. CASE /\ Holds(r) /\ t = None /\ reservations[r].activated
           /\ accepted' = accepted \ {reservations[r].task}
           /\ Release(r)
           /\ pc' = "dispatch" /\ progress' = FALSE
           /\ UNCHANGED <<visit, recovered, index>>
  <2>1. TrafficInv'
    BY <1>3, ReleaseTraffic, InvParts
  <2>2. TypeOK'
    BY <1>1, <1>3, ReleaseType DEF Register, IInv, TypeOK
  <2>3. LoopsOK'
    BY <1>3, IdleLoops DEF Register, IInv, LoopsOK
  <2>4. QED
    BY <2>1, <2>2, <2>3 DEF IInv, TrafficInv
<1>4. CASE UNCHANGED <<traffic, accepted, control>>
  <2>1. TrafficInv'
    BY <1>4, TrafficUnchanged, InvParts
  <2>2. TypeOK'
    BY <1>1, <1>4 DEF Register, IInv, TypeOK, traffic, control
  <2>3. LoopsOK'
    BY <1>4, IdleLoops DEF Register, IInv, LoopsOK, control
  <2>4. QED
    BY <2>1, <2>2, <2>3 DEF IInv, TrafficInv
<1>5. QED
  BY <1>2, <1>3, <1>4 DEF Register

(* The handlers that only change a registry entry.                         *)
LEMMA EntryInv ==
  ASSUME IInv, pc = "idle",
         robots' \in [Robot -> Entry \cup {None}],
         UNCHANGED <<queues, waiting, earlier, accepted, traffic, control>>
  PROVE  IInv'
<1>1. TrafficInv'
  BY TrafficUnchanged, InvParts
<1>2. TypeOK'
  BY DEF IInv, TypeOK, traffic, control
<1>3. LoopsOK'
  BY IdleLoops DEF IInv, LoopsOK, control
<1>4. QED
  BY <1>1, <1>2, <1>3 DEF IInv, TrafficInv

LEMMA PoseInv ==
  ASSUME IInv, NEW r \in Robot, NEW c \in Cell, Pose(r, c)
  PROVE  IInv'
<1>1. [robots[r] EXCEPT !.cell = c] \in Entry
  BY RegisteredType DEF Pose, IInv, Entry
<1>2. robots' \in [Robot -> Entry \cup {None}]
  BY <1>1 DEF Pose, IInv, TypeOK
<1>3. QED
  BY <1>2, EntryInv DEF Pose

LEMMA HeartbeatInv ==
  ASSUME IInv, NEW r \in Robot, Heartbeat(r)
  PROVE  IInv'
<1>1. [robots[r] EXCEPT !.fresh = TRUE, !.status = "ONLINE"] \in Entry
  BY RegisteredType, EntryChange DEF Heartbeat, IInv
<1>2. robots' \in [Robot -> Entry \cup {None}]
  BY <1>1 DEF Heartbeat, IInv, TypeOK
<1>3. QED
  BY <1>2, EntryInv DEF Heartbeat

LEMMA SilenceInv ==
  ASSUME IInv, NEW r \in Robot, Silence(r)
  PROVE  IInv'
<1>1. [robots[r] EXCEPT !.fresh = FALSE] \in Entry
  BY RegisteredType, EntryChange DEF Silence, IInv
<1>2. robots' \in [Robot -> Entry \cup {None}]
  BY <1>1 DEF Silence, IInv, TypeOK
<1>3. QED
  BY <1>2, EntryInv, SMTT(30) DEF Silence

LEMMA AddTaskInv ==
  ASSUME IInv, NEW t \in Task, AddTask(t)
  PROVE  IInv'
<1>1. TrafficInv'
  BY ScheduleTraffic, InvParts DEF AddTask
<1>2. TypeOK'
  <2>1. <<>> \in Seq(Task)
    OBVIOUS
  <2>2. QED
    BY <2>1, ScheduleType DEF AddTask, IInv, TypeOK, control
<1>3. LoopsOK'
  BY IdleLoops DEF AddTask, IInv, LoopsOK, control
<1>4. QED
  BY <1>1, <1>2, <1>3 DEF IInv, TrafficInv

-----------------------------------------------------------------------------
(* The invariant is preserved: the steps of the callbacks.                 *)

(* The steps that only move from one loop to the next.                     *)
LEMMA ControlInv ==
  ASSUME IInv, UNCHANGED <<registry, traffic, recovered>>,
         pc' \in {"idle", "heartbeats", "battery", "traffic", "dispatch", "waiting", "steal"},
         visit' # {} => pc' = "traffic",
         visit' \subseteq {r \in Robot : Holds(r)},
         recovered # <<>> => pc' \in {"heartbeats", "battery"},
         index' \in Nat \ {0}, progress' \in BOOLEAN
  PROVE  IInv'
<1>1. TrafficInv'
  BY TrafficUnchanged, InvParts
<1>2. TypeOK'
  BY DEF IInv, TypeOK, registry, traffic
<1>3. LoopsOK'
  BY DEF IInv, LoopsOK, Holds, traffic
<1>4. QED
  BY <1>1, <1>2, <1>3 DEF IInv, TrafficInv

LEMMA LoopEndsInv ==
  ASSUME IInv,
         Tick \/ HeartbeatsDone \/ BatteryDone \/ TrafficDone \/ DispatchDone
           \/ WaitingDone \/ StealDone
  PROVE  IInv'
<1>1. /\ visit # {} => pc = "traffic"
      /\ visit \subseteq {r \in Robot : Holds(r)}
      /\ recovered # <<>> => pc \in {"heartbeats", "battery"}
      /\ index \in Nat \ {0} /\ progress \in BOOLEAN
  BY DEF IInv, LoopsOK, TypeOK
<1>2. CASE Tick
  BY <1>1, <1>2, ControlInv DEF Tick
<1>3. CASE HeartbeatsDone
  BY <1>1, <1>3, ControlInv DEF HeartbeatsDone
<1>4. CASE BatteryDone
  BY <1>1, <1>4, ControlInv DEF BatteryDone
<1>5. CASE TrafficDone
  BY <1>1, <1>5, ControlInv DEF TrafficDone
<1>6. CASE DispatchDone
  BY <1>1, <1>6, ControlInv DEF DispatchDone
<1>7. CASE WaitingDone
  BY <1>1, <1>7, ControlInv DEF WaitingDone
<1>8. CASE StealDone
  BY <1>1, <1>8, ControlInv DEF StealDone
<1>9. QED
  BY <1>2, <1>3, <1>4, <1>5, <1>6, <1>7, <1>8

LEMMA RecoverRobotInv ==
  ASSUME IInv, NEW r \in Robot, RecoverRobot(r)
  PROVE  IInv'
<1>1. TrafficInv'
  BY TakeWorkTraffic, InvParts DEF RecoverRobot
<1>2. robots' \in [Robot -> Entry \cup {None}]
  <2>1. [robots[r] EXCEPT !.status = "OFFLINE", !.currentTask = None] \in Entry
    BY RegisteredType, EntryChange DEF RecoverRobot, TimedOut, IInv
  <2>2. QED
    BY <2>1 DEF RecoverRobot, IInv, TypeOK
<1>3. TypeOK'
  BY <1>2, TakeWorkType DEF RecoverRobot, IInv, TypeOK
<1>4. LoopsOK'
  BY DEF RecoverRobot, IInv, LoopsOK
<1>5. QED
  BY <1>1, <1>3, <1>4 DEF IInv, TrafficInv

LEMMA ReleaseForChargingInv ==
  ASSUME IInv, NEW r \in Robot, ReleaseForCharging(r)
  PROVE  IInv'
<1>1. TrafficInv'
  BY TakeWorkTraffic, InvParts DEF ReleaseForCharging
<1>2. robots' \in [Robot -> Entry \cup {None}]
  <2>1. [robots[r] EXCEPT !.currentTask = None] \in Entry
    BY RegisteredType, EntryChange DEF ReleaseForCharging, MustRelease, IInv
  <2>2. QED
    BY <2>1 DEF ReleaseForCharging, IInv, TypeOK
<1>3. TypeOK'
  BY <1>2, TakeWorkType DEF ReleaseForCharging, IInv, TypeOK
<1>4. LoopsOK'
  BY DEF ReleaseForCharging, IInv, LoopsOK
<1>5. QED
  BY <1>1, <1>3, <1>4 DEF IInv, TrafficInv

LEMMA RequeueInv ==
  ASSUME IInv, Requeue
  PROVE  IInv'
<1>1. Head(recovered) \in Task /\ Tail(recovered) \in Seq(Task)
  BY HeadTailProperties DEF Requeue, IInv, TypeOK
<1>2. LoopsOK'
  BY DEF Requeue, IInv, LoopsOK
<1>3. CASE UNCHANGED <<robots, queues, waiting, earlier, traffic>>
  <2>1. TrafficInv'
    BY <1>3, TrafficUnchanged, InvParts
  <2>2. TypeOK'
    BY <1>1, <1>3 DEF Requeue, IInv, TypeOK, traffic
  <2>3. QED
    BY <1>2, <2>1, <2>2 DEF IInv, TrafficInv
<1>4. CASE Schedule(Head(recovered), <<Head(recovered)>>)
  <2>1. TrafficInv'
    BY <1>1, <1>4, ScheduleTraffic, InvParts
  <2>2. <<Head(recovered)>> \in Seq(Task)
    BY <1>1
  <2>3. TypeOK'
    BY <1>1, <1>4, <2>2, ScheduleType, ZenonT(60) DEF Requeue, IInv, TypeOK
  <2>4. QED
    BY <1>2, <2>1, <2>3 DEF IInv, TrafficInv
<1>5. QED
  BY <1>3, <1>4 DEF Requeue

LEMMA CheckTrafficInv ==
  ASSUME IInv, NEW r \in Robot, CheckTraffic(r)
  PROVE  IInv'
<1>1. TypeOK'
  BY CheckTrafficStep, ZenonT(60) DEF CheckTraffic, registry, IInv, TypeOK
<1>2. LoopsOK'
  BY CheckTrafficStep, ZenonT(60) DEF CheckTraffic, IInv, LoopsOK, TypeOK
<1>3. QED
  BY <1>1, <1>2, CheckTrafficStep, ZenonT(60) DEF IInv, TrafficInv

(* The steps of _rebalance, which dispatch from some queues q.             *)
LEMMA RebalanceInv ==
  ASSUME IInv, NEW r \in Robot, NEW q \in [Robot -> Seq(Task)], DispatchNext(r, q),
         pc \in {"dispatch", "waiting", "steal"}, pc' \in {pc, "dispatch"},
         waiting' \in Seq(Task), index' \in Nat \ {0}, progress' \in BOOLEAN,
         UNCHANGED <<earlier, accepted, visit, recovered>>
  PROVE  IInv'
<1>1. TrafficInv'
  BY DispatchNextTraffic, InvParts
<1>2. TypeOK'
  BY DispatchNextType DEF IInv, TypeOK
<1>3. LoopsOK'
  BY DEF IInv, LoopsOK
<1>4. QED
  BY <1>1, <1>2, <1>3 DEF IInv, TrafficInv

LEMMA DispatchInv ==
  ASSUME IInv, NEW r \in Robot, Dispatch(r)
  PROVE  IInv'
<1>1. /\ queues \in [Robot -> Seq(Task)] /\ waiting' \in Seq(Task)
      /\ index' \in Nat \ {0} /\ progress' \in BOOLEAN
  BY DEF Dispatch, IInv, TypeOK
<1>2. QED
  BY <1>1, RebalanceInv DEF Dispatch

LEMMA StealInv ==
  ASSUME IInv, NEW r \in Robot, Steal(r)
  PROVE  IInv'
<1>1. PICK d \in Donors(r) : \E i \in BestIndices(queues[d]) :
        DispatchNext(r, [queues EXCEPT ![d] = RemoveAt(@, i), ![r] = <<queues[d][i]>>])
  BY DEF Steal
<1>2. PICK i \in BestIndices(queues[d]) :
        DispatchNext(r, [queues EXCEPT ![d] = RemoveAt(@, i), ![r] = <<queues[d][i]>>])
  BY <1>1
<1>3. d \in Robot
  BY DEF Donors
<1>4. queues \in [Robot -> Seq(Task)]
  BY DEF IInv, TypeOK
<1>5. i \in 1..Len(queues[d]) /\ queues[d][i] \in Task
  BY <1>3, <1>4, BestIndicesType
<1>6. RemoveAt(queues[d], i) \in Seq(Task) /\ <<queues[d][i]>> \in Seq(Task)
  BY <1>3, <1>4, <1>5, RemoveAtType
<1>7. [queues EXCEPT ![d] = RemoveAt(@, i), ![r] = <<queues[d][i]>>] \in [Robot -> Seq(Task)]
  BY <1>3, <1>4, <1>6
<1>8. waiting' \in Seq(Task) /\ index' \in Nat \ {0} /\ progress' \in BOOLEAN
  BY DEF Steal, IInv, TypeOK
<1>9. QED
  BY <1>2, <1>7, <1>8, RebalanceInv DEF Steal

LEMMA PlaceWaitingInv ==
  ASSUME IInv, PlaceWaiting
  PROVE  IInv'
<1>1. index \in 1..Len(waiting) /\ waiting \in Seq(Task) /\ index + 1 \in Nat \ {0}
  BY DEF PlaceWaiting, IInv, TypeOK
<1>2. CASE UNCHANGED <<registry, traffic, progress>> /\ index' = index + 1
  BY <1>1, <1>2, ControlInv DEF PlaceWaiting, IInv, LoopsOK, TypeOK
<1>3. ASSUME NEW r \in Best(waiting[index]),
             DispatchNext(r, [queues EXCEPT ![r] = Append(@, waiting[index])]),
             waiting' = RemoveAt(waiting, index), progress' = TRUE,
             UNCHANGED <<earlier, accepted, index>>
      PROVE  IInv'
  <2>1. waiting[index] \in Task /\ waiting' \in Seq(Task)
    BY <1>1, <1>3, RemoveAtType
  <2>2. [queues EXCEPT ![r] = Append(@, waiting[index])] \in [Robot -> Seq(Task)]
    BY <2>1, BestType, AppendProperties DEF IInv, TypeOK
  <2>3. index' \in Nat \ {0} /\ progress' \in BOOLEAN
    BY <1>3 DEF IInv, TypeOK
  <2>4. QED
    BY <1>3, <2>1, <2>2, <2>3, BestType, RebalanceInv DEF PlaceWaiting
<1>4. QED
  BY <1>2, <1>3 DEF PlaceWaiting

-----------------------------------------------------------------------------
(* The theorems.                                                           *)

LEMMA NextInv == IInv /\ [Next]_vars => IInv'
<1> SUFFICES ASSUME IInv, [Next]_vars PROVE IInv'
  OBVIOUS
<1>1. CASE Message
  BY <1>1, RegisterInv, PoseInv, HeartbeatInv, SilenceInv, AddTaskInv, DataAssumption DEF Message
<1>2. CASE Tick
  BY <1>2, LoopEndsInv
<1>3. CASE Callback
  BY <1>3, RecoverRobotInv, ReleaseForChargingInv, RequeueInv, CheckTrafficInv, DispatchInv,
     StealInv, PlaceWaitingInv, LoopEndsInv DEF Callback
<1>4. CASE UNCHANGED vars
  <2>1. UNCHANGED <<registry, traffic, control>>
    BY <1>4 DEF vars
  <2>2. QED
    BY <2>1, ControlInv DEF control, IInv, LoopsOK, TypeOK
<1>5. QED
  BY <1>1, <1>2, <1>3, <1>4 DEF Next

(* The types, the loops' variables, the windows and the owners agree, in   *)
(* every state between two steps of the fleet manager.                     *)
THEOREM Invariant == Spec => []IInv
BY InitInv, NextInv, PTL DEF Spec

(* Every variable keeps its type, whatever messages arrive.                *)
THEOREM TypeCorrect == Spec => []TypeOK
<1>1. IInv => TypeOK
  BY DEF IInv
<1>2. QED
  BY <1>1, Invariant, PTL

(* A cell is owned by a robot exactly when that robot's reservation counts *)
(* a segment with the cell as reserved: neither a dispatch, a completion,  *)
(* a recovery nor a traffic check leaves a stale owner behind.             *)
THEOREM OwnersAgree == Spec => []OwnersMatchReservations
<1>1. IInv => OwnersMatchReservations
  BY DEF IInv
<1>2. QED
  BY <1>1, Invariant, PTL

(* The reserved segments are always within the lookahead of the segment    *)
(* the robot is in, and none is behind it.                                 *)
THEOREM WindowsAhead == Spec => []WindowAhead
<1>1. IInv => WindowAhead
  BY DEF IInv
<1>2. QED
  BY <1>1, Invariant, PTL

(* Two robots never hold the same cell at once, whatever their routes.     *)
THEOREM Exclusive == Spec => []ExclusiveSegments
<1>1. IInv => ExclusiveSegments
  <2> SUFFICES ASSUME IInv, NEW r \in Robot, NEW s \in Robot, r # s,
                      NEW c \in CellsHeld(r), c \in CellsHeld(s)
               PROVE  FALSE
    BY DEF ExclusiveSegments
  <2>1. c \in Cell
    <3>1. Holds(r) /\ c \in CellsOf(reservations[r].task, reservations[r].reserved)
      BY DEF CellsHeld
    <3>2. reservations[r].task \in Task
      BY <3>1, HoldsFields DEF IInv
    <3>3. reservations[r].reserved \subseteq 1..Len(Segments[reservations[r].task])
      <4>1. reservations[r].reserved \in SUBSET Nat /\ reservations[r].index \in Nat
        BY <3>1, HoldsFields DEF IInv
      <4>2. Len(Segments[reservations[r].task]) \in Nat
        BY <3>2, SegmentsAssumption
      <4>3. /\ reservations[r].index \in 1..Len(Segments[reservations[r].task])
            /\ \A i \in reservations[r].reserved :
                 reservations[r].index <= i /\ i <= Len(Segments[reservations[r].task])
        BY <3>1 DEF IInv, WindowAhead
      <4>4. QED
        BY <4>1, <4>2, <4>3
    <3>4. QED
      BY <3>1, <3>2, <3>3, SegmentsAssumption DEF CellsOf
  <2>2. cellOwners[c] = r /\ cellOwners[c] = s
    BY <2>1 DEF IInv, OwnersMatchReservations
  <2>3. QED
    BY <2>2
<1>2. QED
  BY <1>1, Invariant, PTL

-----------------------------------------------------------------------------
(* Every step takes free cells for one robot and gives back cells of its   *)
(* own, and keeps the task of a reservation that it does not end.          *)

Moves(r) ==
  \A c \in Cell : \/ cellOwners'[c] = cellOwners[c]
                  \/ cellOwners[c] = None /\ cellOwners'[c] = r
                  \/ cellOwners[c] = r /\ cellOwners'[c] = None

Kept ==
  \A r \in Robot : Holds(r) /\ Holds(r)' =>
    /\ reservations'[r].task = reservations[r].task
    /\ reservations'[r].index >= reservations[r].index

TrafficStep == Kept /\ (UNCHANGED cellOwners \/ \E r \in Robot : Moves(r))

LEMMA SameTraffic ==
  ASSUME TypeOK, UNCHANGED traffic
  PROVE  TrafficStep
<1>1. \A r \in Robot : Holds(r) => reservations[r].index >= reservations[r].index
  <2>1. \A r \in Robot : Holds(r) => reservations[r].index \in Nat
    BY HoldsFields
  <2>2. QED
    BY <2>1
<1>2. QED
  BY <1>1 DEF TrafficStep, Kept, traffic

LEMMA OthersKept ==
  ASSUME TypeOK, NEW r \in Robot, NEW new,
         reservations' = [reservations EXCEPT ![r] = new],
         ~Holds(r) \/ ~Holds(r)'
  PROVE  Kept
<1>1. ASSUME NEW s \in Robot, Holds(s), Holds(s)'
      PROVE  reservations'[s] = reservations[s] /\ reservations[s].index >= reservations[s].index
  <2>1. reservations[s].index \in Nat
    BY <1>1, HoldsFields
  <2>2. QED
    BY <1>1, <2>1 DEF TypeOK, Holds
<1>2. QED
  BY <1>1 DEF Kept

LEMMA DispatchNextStep ==
  ASSUME TypeOK, OwnersMatchReservations, NEW r \in Robot, NEW q, DispatchNext(r, q)
  PROVE  TrafficStep
<1>1. CASE UNCHANGED traffic
  BY <1>1, SameTraffic
<1>2. ASSUME NEW i \in BestIndices(q[r]), CanStart(r, q[r][i]),
             reservations' = [reservations EXCEPT ![r] =
               [task |-> q[r][i], index |-> 1, reserved |-> InitialWindow(q[r][i]),
                activated |-> FALSE]],
             cellOwners' = [c \in Cell |->
               IF c \in CellsOf(q[r][i], InitialWindow(q[r][i])) THEN r ELSE cellOwners[c]]
      PROVE  TrafficStep
  <2>1. Kept
    <3>1. ~Holds(r)
      BY <1>2 DEF CanStart
    <3>2. QED
      BY ONLY <1>2, <3>1, TypeOK, r \in Robot, OthersKept
  <2>2. \A c \in CellsOf(q[r][i], InitialWindow(q[r][i])) : cellOwners[c] \in {None, r}
    BY <1>2 DEF CanStart, Conflict
  <2>3. Moves(r)
    <3>1. ASSUME NEW c \in Cell
          PROVE  \/ cellOwners'[c] = cellOwners[c]
                 \/ cellOwners[c] = None /\ cellOwners'[c] = r
                 \/ cellOwners[c] = r /\ cellOwners'[c] = None
      <4>1. cellOwners'[c] =
              IF c \in CellsOf(q[r][i], InitialWindow(q[r][i])) THEN r ELSE cellOwners[c]
        BY <1>2
      <4>2. QED
        BY <2>2, <4>1
    <3>2. QED
      BY <3>1 DEF Moves
  <2>4. QED
    BY <2>1, <2>3 DEF TrafficStep
<1>3. QED
  BY <1>1, <1>2 DEF DispatchNext

LEMMA ReleaseStep ==
  ASSUME TypeOK, NEW r \in Robot, Release(r)
  PROVE  TrafficStep
<1>1. Kept
  <2>1. reservations' = [reservations EXCEPT ![r] = None]
    BY DEF Release
  <2>2. ~Holds(r)'
    BY <2>1 DEF TypeOK, Holds
  <2>3. QED
    BY <2>1, <2>2, OthersKept
<1>2. Moves(r)
  <2>1. ASSUME NEW c \in Cell
        PROVE  \/ cellOwners'[c] = cellOwners[c]
               \/ cellOwners[c] = None /\ cellOwners'[c] = r
               \/ cellOwners[c] = r /\ cellOwners'[c] = None
    BY DEF Release
  <2>2. QED
    BY <2>1 DEF Moves
<1>3. QED
  BY <1>1, <1>2 DEF TrafficStep

LEMMA TakeWorkStep ==
  ASSUME TypeOK, NEW r \in Robot, TakeWork(r)
  PROVE  TrafficStep
BY ReleaseStep, SameTraffic DEF TakeWork

LEMMA ScheduleStep ==
  ASSUME TypeOK, OwnersMatchReservations, NEW t, NEW also, Schedule(t, also)
  PROVE  TrafficStep
BY DispatchNextStep, SameTraffic, BestType DEF Schedule

LEMMA RegisterStep ==
  ASSUME TypeOK, NEW r \in Robot, NEW report, NEW t, Register(r, report, t)
  PROVE  TrafficStep
<1>1. CASE /\ Holds(r) /\ reservations[r].task = t
           /\ reservations' = [reservations EXCEPT ![r].activated = TRUE]
           /\ UNCHANGED <<cellOwners, accepted, control>>
  <2>1. reservations[r] \in Reservation
    BY <1>1, HoldsType
  <2>2. reservations'[r] = [reservations[r] EXCEPT !.activated = TRUE]
    BY <1>1 DEF TypeOK
  <2>3. /\ reservations'[r].task = reservations[r].task
        /\ reservations'[r].index = reservations[r].index
    BY ONLY <2>1, <2>2 DEF Reservation
  <2>4. \A s \in Robot : s # r => reservations'[s] = reservations[s]
    BY <1>1 DEF TypeOK
  <2>5. \A s \in Robot : Holds(s) => reservations[s].index \in Nat
    BY HoldsFields
  <2>6. Kept
    <3>1. \A s \in Robot : Holds(s) => reservations[s].index >= reservations[s].index
      BY <2>5
    <3>2. QED
      BY <2>3, <2>4, <3>1 DEF Kept
  <2>7. QED
    BY <1>1, <2>6 DEF TrafficStep
<1>2. CASE Release(r)
  BY <1>2, ReleaseStep
<1>3. CASE UNCHANGED traffic
  BY <1>3, SameTraffic
<1>4. QED
  BY <1>1, <1>2, <1>3 DEF Register

LEMMA CheckTrafficKept ==
  ASSUME IInv, NEW r \in Robot, CheckTraffic(r)
  PROVE  TrafficStep
<1>1. Kept
  BY CheckTrafficStep DEF Kept
<1>2. Moves(r)
  <2>1. ASSUME NEW c \in Cell
        PROVE  \/ cellOwners'[c] = cellOwners[c]
               \/ cellOwners[c] = None /\ cellOwners'[c] = r
               \/ cellOwners[c] = r /\ cellOwners'[c] = None
    BY CheckTrafficStep
  <2>2. QED
    BY <2>1 DEF Moves
<1>3. QED
  BY <1>1, <1>2 DEF TrafficStep

LEMMA NextStep == IInv /\ [Next]_vars => TrafficStep
<1> SUFFICES ASSUME IInv, [Next]_vars PROVE TrafficStep
  OBVIOUS
<1>1. TypeOK /\ OwnersMatchReservations
  BY DEF IInv
<1>2. CASE Message
  <2>1. ASSUME NEW r \in Robot, NEW report \in Reports, NEW t \in Task \cup {None},
               Register(r, report, t)
        PROVE  TrafficStep
    BY <1>1, <2>1, RegisterStep
  <2>2. CASE \E t \in Task : AddTask(t)
    BY <1>1, <2>2, ScheduleStep DEF AddTask
  <2>3. CASE UNCHANGED traffic
    BY <1>1, <2>3, SameTraffic
  <2>4. QED
    BY <1>2, <2>1, <2>2, <2>3, DataAssumption DEF Message, Pose, Heartbeat, Silence
<1>3. CASE Tick
  BY <1>1, <1>3, SameTraffic DEF Tick
<1>4. CASE Callback
  <2>1. CASE \E r \in Robot : RecoverRobot(r) \/ ReleaseForCharging(r)
    BY <1>1, <2>1, TakeWorkStep DEF RecoverRobot, ReleaseForCharging
  <2>2. CASE Requeue
    BY <1>1, <2>2, ScheduleStep, SameTraffic DEF Requeue
  <2>3. CASE \E r \in Robot : CheckTraffic(r)
    BY <2>3, CheckTrafficKept
  <2>4. CASE \E r \in Robot : Dispatch(r) \/ Steal(r)
    BY <1>1, <2>4, DispatchNextStep DEF Dispatch, Steal
  <2>5. CASE PlaceWaiting
    BY <1>1, <2>5, DispatchNextStep, SameTraffic, BestType DEF PlaceWaiting
  <2>6. CASE HeartbeatsDone \/ BatteryDone \/ TrafficDone \/ DispatchDone
               \/ WaitingDone \/ StealDone
    BY <1>1, <2>6, SameTraffic
       DEF HeartbeatsDone, BatteryDone, TrafficDone, DispatchDone, WaitingDone, StealDone
  <2>7. QED
    BY <1>4, <2>1, <2>2, <2>3, <2>4, <2>5, <2>6 DEF Callback
<1>5. CASE UNCHANGED vars
  BY <1>1, <1>5, SameTraffic DEF vars
<1>6. QED
  BY <1>2, <1>3, <1>4, <1>5 DEF Next

(* A robot keeps the reservation it has until that reservation ends: no    *)
(* registration, dispatch or traffic check gives it another task's, or     *)
(* moves its window back.                                                  *)
THEOREM ReservationsKept == Spec => ReservationsAreKept
<1>1. IInv /\ [Next]_vars =>
        [\A r \in Robot : Holds(r) /\ Holds(r)' =>
           /\ reservations'[r].task = reservations[r].task
           /\ reservations'[r].index >= reservations[r].index]_vars
  BY NextStep DEF TrafficStep, Kept
<1>2. QED
  BY <1>1, Invariant, PTL DEF Spec, ReservationsAreKept

(* Refinement: the fleet manager's cell owners are the abstract lock.      *)
THEOREM ImplementsLock == Spec => LockSpec
<1>1. Init => Lock!Init
  BY DEF Init, Lock!Init
<1>2. IInv /\ IInv' /\ [Next]_vars => [Lock!Next]_cellOwners
  <2> SUFFICES ASSUME IInv, IInv', [Next]_vars, UNCHANGED cellOwners => FALSE
               PROVE  Lock!Next
    OBVIOUS
  <2>1. PICK r \in Robot : Moves(r)
    BY NextStep DEF TrafficStep
  <2> DEFINE take == {c \in Cell : cellOwners[c] = None /\ cellOwners'[c] = r}
             give == {c \in Cell : cellOwners[c] = r /\ cellOwners'[c] = None}
  <2>2. cellOwners' \in [Cell -> Robot \cup {None}]
    BY DEF IInv, TypeOK
  <2>3. \A c \in Cell : cellOwners'[c] =
          IF c \in take THEN r ELSE IF c \in give THEN None ELSE cellOwners[c]
    BY <2>1 DEF Moves
  <2>4. cellOwners' = [c \in Cell |->
          IF c \in take THEN r ELSE IF c \in give THEN None ELSE cellOwners[c]]
    BY <2>2, <2>3
  <2>5. /\ take \in SUBSET Cell /\ give \in SUBSET Cell
        /\ \A c \in take : cellOwners[c] = None
        /\ \A c \in give : cellOwners[c] = r
    OBVIOUS
  <2> HIDE DEF take, give
  <2>6. Lock!Move(r)
    BY <2>4, <2>5 DEF Lock!Move
  <2>7. QED
    BY <2>6 DEF Lock!Next
<1>3. QED
  BY <1>1, <1>2, Invariant, PTL DEF Spec, LockSpec, Lock!Spec

-----------------------------------------------------------------------------
(* No task is lost.  First, what the sequences contain.                    *)

LEMMA ContainsAppend ==
  ASSUME NEW s \in Seq(Task), NEW e \in Task, NEW x, Contains(s, x) \/ x = e
  PROVE  Contains(Append(s, e), x)
BY AppendProperties DEF Contains

LEMMA ContainsConcat ==
  ASSUME NEW s \in Seq(Task), NEW u \in Seq(Task), NEW x, Contains(s, x) \/ Contains(u, x)
  PROVE  Contains(s \o u, x)
<1>1. /\ Len(s \o u) = Len(s) + Len(u)
      /\ \A i \in 1..Len(s) : (s \o u)[i] = s[i]
      /\ \A i \in 1..Len(u) : (s \o u)[Len(s) + i] = u[i]
  BY ConcatProperties
<1>2. CASE Contains(s, x)
  BY <1>1, <1>2 DEF Contains
<1>3. CASE Contains(u, x)
  <2>1. PICK i \in 1..Len(u) : u[i] = x
    BY <1>3 DEF Contains
  <2>2. Len(s) + i \in 1..Len(s \o u) /\ (s \o u)[Len(s) + i] = x
    BY <1>1, <2>1
  <2>3. QED
    BY <2>2 DEF Contains
<1>4. QED
  BY <1>2, <1>3

LEMMA ContainsRemoveAt ==
  ASSUME NEW s \in Seq(Task), NEW i \in 1..Len(s), NEW x, Contains(s, x), x # s[i]
  PROVE  Contains(RemoveAt(s, i), x)
<1> DEFINE before == SubSeq(s, 1, i - 1)
           after == SubSeq(s, i + 1, Len(s))
<1>1. /\ before \in Seq(Task) /\ Len(before) = i - 1
      /\ \A j \in 1..(i - 1) : before[j] = s[j]
  BY SubSeqProperties
<1>2. /\ after \in Seq(Task) /\ Len(after) = Len(s) - i
      /\ \A j \in 1..(Len(s) - i) : after[j] = s[i + j]
  BY SubSeqProperties
<1>3. PICK j \in 1..Len(s) : s[j] = x
  BY DEF Contains
<1>4. ASSUME j < i PROVE Contains(before, x)
  <2>1. j \in 1..Len(before) /\ before[j] = x
    BY <1>1, <1>3, <1>4
  <2>2. QED
    BY <2>1 DEF Contains
<1>5. ASSUME j > i PROVE Contains(after, x)
  <2>1. j - i \in 1..Len(after) /\ after[j - i] = x
    <3> DEFINE k == j - i
    <3>1. k \in 1..(Len(s) - i) /\ i + k = j
      BY <1>3, <1>5
    <3> HIDE DEF k, after
    <3>2. after[k] = s[i + k]
      BY <1>2, <3>1
    <3>3. after[k] = x
      BY <1>3, <3>1, <3>2
    <3>4. k \in 1..Len(after)
      BY <1>2, <3>1
    <3>5. QED
      BY <3>3, <3>4 DEF k
  <2>2. QED
    BY <2>1 DEF Contains
<1>6. Contains(before, x) \/ Contains(after, x)
  BY <1>3, <1>4, <1>5
<1>7. Contains(before \o after, x)
  BY <1>1, <1>2, <1>6, ContainsConcat
<1>8. QED
  BY <1>7 DEF RemoveAt

LEMMA ContainsTail ==
  ASSUME NEW s \in Seq(Task), s # <<>>, NEW x, Contains(s, x), x # Head(s)
  PROVE  Contains(Tail(s), x)
<1>1. PICK i \in 1..Len(s) : s[i] = x
  BY DEF Contains
<1>2. i # 1
  BY <1>1
<1>3. Len(Tail(s)) = Len(s) - 1 /\ i - 1 \in 1..Len(Tail(s)) /\ Tail(s)[i - 1] = x
  BY <1>1, <1>2
<1>4. QED
  BY <1>3 DEF Contains

(* Where a task is committed when the queues are q.                        *)
Reserved(t) == \E r \in Robot : Holds(r) /\ reservations[r].task = t
Committed(t, q) == Reserved(t) \/ \E r \in Robot : Contains(q[r], t)

LEMMA TaskExistsParts ==
  ASSUME NEW t
  PROVE  TaskExists(t) <=> Committed(t, queues) \/ Contains(waiting, t)
BY DEF TaskExists, Committed, Reserved

LEMMA ExistsNext ==
  ASSUME NEW t
  PROVE  /\ Reserved(t)' => TaskExists(t)'
         /\ \A r \in Robot : Contains(queues'[r], t) => TaskExists(t)'
         /\ Contains(waiting', t) => TaskExists(t)'
BY DEF TaskExists, Reserved, Contains

LEMMA ReservedSame ==
  ASSUME NEW t, UNCHANGED reservations
  PROVE  Reserved(t)' <=> Reserved(t)
BY DEF Reserved, Holds

(* A dispatch moves a task from the queue it looks at to a reservation.    *)
LEMMA DispatchNextKeeps ==
  ASSUME TypeOK, NEW r \in Robot, NEW q \in [Robot -> Seq(Task)], DispatchNext(r, q),
         NEW t, Committed(t, q)
  PROVE  TaskExists(t)'
<1>1. CASE queues' = q /\ UNCHANGED <<robots, traffic>>
  BY <1>1, ReservedSame, ExistsNext DEF Committed, traffic
<1>2. ASSUME NEW i \in BestIndices(q[r]), CanStart(r, q[r][i]),
             queues' = [q EXCEPT ![r] = RemoveAt(@, i)],
             reservations' = [reservations EXCEPT ![r] =
               [task |-> q[r][i], index |-> 1, reserved |-> InitialWindow(q[r][i]),
                activated |-> FALSE]]
      PROVE  TaskExists(t)'
  <2>1. i \in 1..Len(q[r]) /\ q[r][i] \in Task
    BY BestIndicesType
  <2>2. reservations'[r] = [task |-> q[r][i], index |-> 1,
                            reserved |-> InitialWindow(q[r][i]), activated |-> FALSE]
    BY <1>2 DEF TypeOK
  <2>3. Holds(r)' /\ reservations'[r].task = q[r][i]
    <3>1. reservations'[r] \in Reservation
      BY <2>1, <2>2, InitialWindowType DEF Reservation
    <3>2. Holds(r)'
      BY <3>1, NoneAssumption DEF Holds
    <3>3. QED
      BY <2>2, <3>2
  <2>4. CASE t = q[r][i]
    BY <2>3, <2>4, ExistsNext DEF Reserved
  <2>5. CASE Reserved(t)
    <3>1. PICK s \in Robot : Holds(s) /\ reservations[s].task = t
      BY <2>5 DEF Reserved
    <3>2. s # r
      BY <1>2, <3>1 DEF CanStart
    <3>3. Holds(s)' /\ reservations'[s].task = t
      BY <1>2, <3>1, <3>2 DEF TypeOK, Holds
    <3>4. QED
      BY <3>3, ExistsNext DEF Reserved
  <2>6. ASSUME NEW s \in Robot, Contains(q[s], t), t # q[r][i]
        PROVE  TaskExists(t)'
    <3>1. CASE s = r
      <4>1. Contains(RemoveAt(q[r], i), t)
        BY <2>1, <2>6, <3>1, ContainsRemoveAt
      <4>2. queues'[r] = RemoveAt(q[r], i)
        BY <1>2
      <4>3. QED
        BY <4>1, <4>2, ExistsNext
    <3>2. CASE s # r
      <4>1. queues'[s] = q[s]
        BY <1>2, <3>2
      <4>2. QED
        BY <2>6, <4>1, ExistsNext
    <3>3. QED
      BY <3>1, <3>2
  <2>7. QED
    BY <2>4, <2>5, <2>6 DEF Committed
<1>3. QED
  BY <1>1, <1>2 DEF DispatchNext

(* Committing t to the queue of a robot keeps what was committed, and t.   *)
LEMMA CommitKeeps ==
  ASSUME TypeOK, NEW r \in Robot, NEW u \in Task,
         NEW t, Committed(t, queues) \/ t = u
  PROVE  /\ [queues EXCEPT ![r] = Append(@, u)] \in [Robot -> Seq(Task)]
         /\ Committed(t, [queues EXCEPT ![r] = Append(@, u)])
<1> DEFINE q == [queues EXCEPT ![r] = Append(@, u)]
<1>1. queues \in [Robot -> Seq(Task)]
  BY DEF TypeOK
<1>2. q \in [Robot -> Seq(Task)]
  BY <1>1, AppendProperties
<1>3. q[r] = Append(queues[r], u) /\ \A s \in Robot : s # r => q[s] = queues[s]
  BY <1>1
<1> HIDE DEF q
<1>4. Committed(t, q)
  <2>1. CASE t = u
    BY <1>1, <1>3, <2>1, ContainsAppend DEF Committed
  <2>2. CASE Reserved(t)
    BY <2>2 DEF Committed
  <2>3. ASSUME NEW s \in Robot, Contains(queues[s], t)
        PROVE  Committed(t, q)
    <3>1. CASE s = r
      BY <1>1, <1>3, <2>3, <3>1, ContainsAppend DEF Committed
    <3>2. CASE s # r
      BY <1>3, <2>3, <3>2 DEF Committed
    <3>3. QED
      BY <3>1, <3>2
  <2>4. QED
    BY <2>1, <2>2, <2>3 DEF Committed
<1>5. QED
  BY <1>2, <1>4 DEF q

LEMMA ScheduleKeeps ==
  ASSUME TypeOK, NEW u \in Task, NEW also \in Seq(Task), Schedule(u, also),
         NEW t, TaskExists(t) \/ t = u
  PROVE  TaskExists(t)'
<1>1. CASE waiting' = Append(waiting, u) \o also /\ UNCHANGED <<robots, queues, traffic>>
  <2>1. CASE t = u \/ Contains(waiting, t)
    <3>1. waiting \in Seq(Task) /\ Append(waiting, u) \in Seq(Task)
      BY AppendProperties DEF TypeOK
    <3>2. Contains(Append(waiting, u), t)
      BY <2>1, <3>1, ContainsAppend
    <3>3. Contains(waiting', t)
      BY <1>1, <3>1, <3>2, ContainsConcat
    <3>4. QED
      BY <3>3, ExistsNext
  <2>2. CASE Committed(t, queues)
    BY <1>1, <2>2, ReservedSame, ExistsNext DEF Committed, traffic
  <2>3. QED
    BY <2>1, <2>2, TaskExistsParts
<1>2. ASSUME NEW r \in Best(u), DispatchNext(r, [queues EXCEPT ![r] = Append(@, u)]),
             UNCHANGED waiting
      PROVE  TaskExists(t)'
  <2>1. CASE Contains(waiting, t)
    BY <1>2, <2>1, ExistsNext
  <2>2. CASE Committed(t, queues) \/ t = u
    BY <1>2, <2>2, BestType, CommitKeeps, DispatchNextKeeps
  <2>3. QED
    BY <2>1, <2>2, TaskExistsParts
<1>3. QED
  BY <1>1, <1>2 DEF Schedule

LEMMA TakeWorkKeeps ==
  ASSUME TypeOK, NEW r \in Robot, TakeWork(r), UNCHANGED waiting,
         NEW t, TaskExists(t)
  PROVE  TaskExists(t)' \/ Contains(recovered', t)
<1>1. queues[r] \in Seq(Task) /\ (IF Holds(r) THEN <<reservations[r].task>> ELSE <<>>) \in Seq(Task)
  BY HoldsFields DEF TypeOK
<1>2. CASE Contains(waiting, t)
  BY <1>2, ExistsNext
<1>3. CASE Contains(queues[r], t)
  BY <1>1, <1>3, ContainsConcat DEF TakeWork, WorkOf
<1>4. ASSUME NEW s \in Robot, s # r, Contains(queues[s], t)
      PROVE  TaskExists(t)'
  <2>1. queues'[s] = queues[s]
    BY <1>4 DEF TakeWork, TypeOK
  <2>2. QED
    BY <1>4, <2>1, ExistsNext
<1>5. CASE Holds(r) /\ reservations[r].task = t
  <2>1. Contains(<<reservations[r].task>>, t)
    BY <1>5 DEF Contains
  <2>2. Contains(IF Holds(r) THEN <<reservations[r].task>> ELSE <<>>, t)
    BY <1>5, <2>1
  <2>3. QED
    BY <1>1, <2>2, ContainsConcat DEF TakeWork, WorkOf
<1>6. ASSUME NEW s \in Robot, s # r, Holds(s), reservations[s].task = t
      PROVE  TaskExists(t)'
  <2>1. reservations'[s] = reservations[s]
    BY <1>6 DEF TakeWork, Release, traffic, TypeOK
  <2>2. QED
    BY <1>6, <2>1, ExistsNext DEF Reserved, Holds
<1>7. QED
  BY <1>2, <1>3, <1>4, <1>5, <1>6 DEF TaskExists

LEMMA SameKeeps ==
  ASSUME UNCHANGED <<queues, waiting, reservations>>, NEW t, TaskExists(t)
  PROVE  TaskExists(t)'
BY DEF TaskExists, Holds, Contains

(* What a message does to the tasks it counts as accepted.                 *)
LEMMA MessageKeeps ==
  ASSUME IInv, Message, NEW t \in accepted', t \in accepted => TaskExists(t)
  PROVE  TaskExists(t)'
<1>1. TypeOK
  BY DEF IInv
<1>2. ASSUME NEW r \in Robot, NEW report \in Reports, NEW u \in Task \cup {None},
             Register(r, report, u)
      PROVE  TaskExists(t)'
  <2>1. CASE /\ Holds(r) /\ reservations[r].task = u
             /\ reservations' = [reservations EXCEPT ![r].activated = TRUE]
             /\ UNCHANGED <<cellOwners, accepted, control>>
    <3>1. UNCHANGED <<queues, waiting>> /\ TaskExists(t)
      BY <1>2, <2>1 DEF Register
    <3>2. reservations[r] \in Reservation
      BY <1>1, <2>1, HoldsType
    <3>3. reservations'[r] = [reservations[r] EXCEPT !.activated = TRUE]
      BY <1>1, <2>1 DEF TypeOK
    <3>4. reservations'[r].task = reservations[r].task /\ reservations'[r] \in Reservation
      BY ONLY <3>2, <3>3 DEF Reservation
    <3>5. \A s \in Robot : s # r => reservations'[s] = reservations[s]
      BY <1>1, <2>1 DEF TypeOK
    <3>6. Reserved(t) => Reserved(t)'
      BY <3>4, <3>5, NoneAssumption DEF Reserved, Holds
    <3>7. QED
      BY <3>1, <3>6, TaskExistsParts, ExistsNext DEF Committed
  <2>2. CASE /\ Holds(r) /\ u = None /\ reservations[r].activated
             /\ accepted' = accepted \ {reservations[r].task}
             /\ Release(r)
    <3>1. UNCHANGED <<queues, waiting>> /\ TaskExists(t) /\ t # reservations[r].task
      BY <1>2, <2>2 DEF Register
    <3>2. \A s \in Robot : s # r => reservations'[s] = reservations[s]
      BY <1>1, <2>2 DEF Release, TypeOK
    <3>3. Reserved(t) => Reserved(t)'
      BY <3>1, <3>2 DEF Reserved, Holds
    <3>4. QED
      BY <3>1, <3>3, TaskExistsParts, ExistsNext DEF Committed
  <2>3. CASE UNCHANGED <<traffic, accepted, control>>
    BY <1>2, <2>3, SameKeeps DEF Register, traffic
  <2>4. QED
    BY <1>2, <2>1, <2>2, <2>3 DEF Register
<1>3. ASSUME UNCHANGED <<queues, waiting, accepted, traffic>>
      PROVE  TaskExists(t)'
  BY <1>3, SameKeeps DEF traffic
<1>4. ASSUME NEW u \in Task, AddTask(u)
      PROVE  TaskExists(t)'
  <2>1. <<>> \in Seq(Task)
    OBVIOUS
  <2>2. QED
    BY <1>1, <1>4, <2>1, ScheduleKeeps DEF AddTask
<1>5. QED
  BY <1>2, <1>3, <1>4, DataAssumption DEF Message, Pose, Heartbeat, Silence

(* What a step of a callback does to the tasks it finds committed.         *)
LEMMA CallbackKeeps ==
  ASSUME IInv, Callback, NEW t, TaskExists(t) \/ Contains(recovered, t)
  PROVE  TaskExists(t)' \/ Contains(recovered', t)
<1>1. TypeOK
  BY DEF IInv
<1>2. CASE recovered = <<>> /\ \E r \in Robot : RecoverRobot(r) \/ ReleaseForCharging(r)
  <2>1. TaskExists(t)
    BY <1>2 DEF Contains
  <2>2. QED
    BY <1>1, <1>2, <2>1, TakeWorkKeeps DEF RecoverRobot, ReleaseForCharging
<1>3. CASE Requeue
  <2>1. recovered \in Seq(Task) /\ recovered # <<>> /\ Head(recovered) \in Task
    BY <1>1, <1>3, HeadTailProperties DEF Requeue, TypeOK
  <2>2. CASE TaskExists(t) \/ t = Head(recovered)
    <3>1. CASE UNCHANGED <<robots, queues, waiting, earlier, traffic>> /\ TaskExists(Head(recovered))
      BY <2>2, <3>1, SameKeeps DEF traffic
    <3>2. CASE Schedule(Head(recovered), <<Head(recovered)>>)
      <4>1. <<Head(recovered)>> \in Seq(Task)
        BY <2>1
      <4>2. QED
        BY <1>1, <2>1, <2>2, <3>2, <4>1, ScheduleKeeps
    <3>3. QED
      BY <1>3, <3>1, <3>2 DEF Requeue
  <2>3. CASE Contains(recovered, t) /\ t # Head(recovered)
    BY <1>3, <2>1, <2>3, ContainsTail DEF Requeue
  <2>4. QED
    BY <2>2, <2>3
<1>4. ASSUME NEW r \in Robot, CheckTraffic(r)
      PROVE  TaskExists(t)' \/ Contains(recovered', t)
  <2>1. Reserved(t) => Reserved(t)'
    BY <1>4, CheckTrafficStep DEF Reserved
  <2>2. UNCHANGED <<queues, waiting, recovered>>
    BY <1>4 DEF CheckTraffic, registry
  <2>3. QED
    BY <2>1, <2>2, TaskExistsParts, ExistsNext DEF Committed
<1>5. ASSUME NEW r \in Robot, Dispatch(r)
      PROVE  TaskExists(t)' \/ Contains(recovered', t)
  <2>1. queues \in [Robot -> Seq(Task)]
    BY <1>1 DEF TypeOK
  <2>2. CASE Committed(t, queues)
    BY <1>1, <1>5, <2>1, <2>2, DispatchNextKeeps DEF Dispatch
  <2>3. CASE Contains(waiting, t) \/ Contains(recovered, t)
    BY <1>5, <2>3, ExistsNext DEF Dispatch
  <2>4. QED
    BY <2>2, <2>3, TaskExistsParts
<1>6. ASSUME NEW r \in Robot, Steal(r)
      PROVE  TaskExists(t)' \/ Contains(recovered', t)
  <2>1. PICK d \in Donors(r) : \E i \in BestIndices(queues[d]) :
          DispatchNext(r, [queues EXCEPT ![d] = RemoveAt(@, i), ![r] = <<queues[d][i]>>])
    BY <1>6 DEF Steal
  <2>2. PICK i \in BestIndices(queues[d]) :
          DispatchNext(r, [queues EXCEPT ![d] = RemoveAt(@, i), ![r] = <<queues[d][i]>>])
    BY <2>1
  <2> DEFINE q == [queues EXCEPT ![d] = RemoveAt(@, i), ![r] = <<queues[d][i]>>]
  <2>3. d \in Robot /\ d # r /\ queues[r] = <<>> /\ queues \in [Robot -> Seq(Task)]
    BY <1>1, <1>6 DEF Donors, Steal, CanSteal, TypeOK
  <2>4. i \in 1..Len(queues[d]) /\ queues[d][i] \in Task
    BY <2>3, BestIndicesType
  <2>5. RemoveAt(queues[d], i) \in Seq(Task) /\ <<queues[d][i]>> \in Seq(Task)
    BY <2>3, <2>4, RemoveAtType
  <2>6. /\ q \in [Robot -> Seq(Task)]
        /\ q[d] = RemoveAt(queues[d], i) /\ q[r] = <<queues[d][i]>>
        /\ \A s \in Robot : s # d /\ s # r => q[s] = queues[s]
    BY <2>3, <2>5
  <2> HIDE DEF q
  <2>7. ASSUME Committed(t, queues) PROVE Committed(t, q)
    <3>1. CASE Reserved(t)
      BY <3>1 DEF Committed
    <3>2. ASSUME NEW s \in Robot, Contains(queues[s], t)
          PROVE  \E x \in Robot : Contains(q[x], t)
      <4>1. CASE t = queues[d][i]
        <5>1. Contains(<<queues[d][i]>>, t)
          BY <4>1 DEF Contains
        <5>2. QED
          BY <2>6, <5>1
      <4>2. CASE s = d /\ t # queues[d][i]
        <5>1. Contains(RemoveAt(queues[d], i), t)
          BY <2>3, <2>4, <3>2, <4>2, ContainsRemoveAt
        <5>2. QED
          BY <2>3, <2>6, <5>1
      <4>3. CASE s # d
        <5>1. s # r
          BY <2>3, <3>2 DEF Contains
        <5>2. QED
          BY <2>6, <3>2, <4>3, <5>1
      <4>4. QED
        BY <4>1, <4>2, <4>3
    <3>3. QED
      BY <2>7, <3>1, <3>2 DEF Committed
  <2>8. DispatchNext(r, q)
    BY <2>2 DEF q
  <2>9. CASE Committed(t, queues)
    BY <1>1, <2>6, <2>7, <2>8, <2>9, DispatchNextKeeps
  <2>10. CASE Contains(waiting, t) \/ Contains(recovered, t)
    BY <1>6, <2>10, ExistsNext DEF Steal
  <2>11. QED
    BY <2>9, <2>10, TaskExistsParts
<1>7. CASE PlaceWaiting
  <2>1. index \in 1..Len(waiting) /\ waiting \in Seq(Task) /\ waiting[index] \in Task
    BY <1>1, <1>7 DEF PlaceWaiting, TypeOK
  <2>2. CASE UNCHANGED <<registry, traffic, recovered>>
    BY <2>2, SameKeeps DEF registry, traffic
  <2>3. ASSUME NEW r \in Best(waiting[index]),
               DispatchNext(r, [queues EXCEPT ![r] = Append(@, waiting[index])]),
               waiting' = RemoveAt(waiting, index), UNCHANGED recovered
        PROVE  TaskExists(t)' \/ Contains(recovered', t)
    <3>1. CASE Committed(t, queues) \/ t = waiting[index]
      BY <1>1, <2>1, <2>3, <3>1, BestType, CommitKeeps, DispatchNextKeeps
    <3>2. CASE Contains(waiting, t) /\ t # waiting[index]
      BY <2>1, <2>3, <3>2, ContainsRemoveAt, ExistsNext
    <3>3. CASE Contains(recovered, t)
      BY <2>3, <3>3
    <3>4. QED
      BY <3>1, <3>2, <3>3, TaskExistsParts
  <2>4. QED
    BY <1>7, <2>2, <2>3 DEF PlaceWaiting
<1>8. CASE UNCHANGED <<registry, traffic, recovered>>
  BY <1>8, SameKeeps DEF registry, traffic
<1>9. QED
  BY <1>2, <1>3, <1>4, <1>5, <1>6, <1>7, <1>8
     DEF Callback, HeartbeatsDone, BatteryDone, TrafficDone, DispatchDone, WaitingDone, StealDone,
         RecoverRobot, ReleaseForCharging

(* An accepted task is never lost: until its completion is counted it is   *)
(* queued, waiting, reserved, or on the list being requeued.               *)
THEOREM TasksKept == Spec => []NoTaskLost
<1>1. Init => NoTaskLost
  BY DEF Init, NoTaskLost
<1>2. IInv /\ NoTaskLost /\ [Next]_vars => NoTaskLost'
  <2> SUFFICES ASSUME IInv, NoTaskLost, [Next]_vars, NEW t \in accepted'
               PROVE  TaskExists(t)' \/ Contains(recovered', t)
    BY DEF NoTaskLost, Contains
  <2>1. CASE Message
    <3>1. recovered = <<>>
      BY <2>1, IdleLoops DEF Message, Register, Pose, Heartbeat, Silence, AddTask, IInv
    <3>2. t \in accepted => TaskExists(t)
      BY <3>1 DEF NoTaskLost, Contains
    <3>3. QED
      BY <2>1, <3>2, MessageKeeps
  <2>2. CASE Callback
    <3>1. t \in accepted
      BY <2>2 DEF Callback, RecoverRobot, ReleaseForCharging, Requeue, CheckTraffic, Dispatch,
                  Steal, PlaceWaiting, HeartbeatsDone, BatteryDone, TrafficDone, DispatchDone,
                  WaitingDone, StealDone, registry
    <3>2. QED
      BY <2>2, <3>1, CallbackKeeps DEF NoTaskLost
  <2>3. CASE UNCHANGED <<registry, traffic, recovered>>
    BY <2>3, SameKeeps DEF registry, traffic, NoTaskLost
  <2>4. QED
    BY <2>1, <2>2, <2>3 DEF Next, Tick, vars, control
<1>3. QED
  BY <1>1, <1>2, Invariant, PTL DEF Spec

-----------------------------------------------------------------------------
(* Why reservations end.                                                   *)

LEMMA DispatchNextEndsNone ==
  ASSUME TypeOK, NEW r \in Robot, NEW q \in [Robot -> Seq(Task)], DispatchNext(r, q),
         NEW s \in Robot, Holds(s)
  PROVE  Holds(s)'
<1>1. CASE UNCHANGED traffic
  BY <1>1 DEF traffic, Holds
<1>2. ASSUME NEW new, ~Holds(r), reservations' = [reservations EXCEPT ![r] = new]
      PROVE  Holds(s)'
  BY <1>2 DEF TypeOK, Holds
<1>3. QED
  BY <1>1, <1>2 DEF DispatchNext, CanStart

LEMMA ScheduleEndsNone ==
  ASSUME TypeOK, NEW t \in Task, NEW also, Schedule(t, also), NEW s \in Robot, Holds(s)
  PROVE  Holds(s)'
<1>1. CASE UNCHANGED traffic
  BY <1>1 DEF traffic, Holds
<1>2. ASSUME NEW r \in Best(t), DispatchNext(r, [queues EXCEPT ![r] = Append(@, t)])
      PROVE  Holds(s)'
  <2>1. [queues EXCEPT ![r] = Append(@, t)] \in [Robot -> Seq(Task)]
    BY AppendProperties, BestType DEF TypeOK
  <2>2. QED
    BY <1>2, <2>1, BestType, DispatchNextEndsNone
<1>3. QED
  BY <1>1, <1>2 DEF Schedule

LEMMA TakeWorkEndsOwn ==
  ASSUME TypeOK, NEW r \in Robot, TakeWork(r), NEW s \in Robot, Holds(s), s # r
  PROVE  Holds(s)'
BY DEF TakeWork, Release, traffic, TypeOK, Holds

(* A reservation is given up only when the robot has been seen executing   *)
(* its task, when it has fallen silent, or when it must charge.            *)
THEOREM EndsForReason == Spec => ReservationsEndForAReason
<1>1. IInv /\ [Next]_vars => [\A r \in Robot : EndsForAReason(r)]_vars
  <2> SUFFICES ASSUME IInv, [Next]_vars, NEW s \in Robot, Holds(s), ~Holds(s)'
               PROVE  \/ reservations[s].activated
                      \/ pc = "heartbeats" /\ ~robots[s].fresh
                      \/ pc = "battery" /\ NeedsCharge(s)
    BY DEF EndsForAReason
  <2>1. TypeOK
    BY DEF IInv
  <2>2. ~UNCHANGED reservations
    BY DEF Holds
  <2>3. CASE Message
    <3>1. ASSUME NEW r \in Robot, NEW report \in Reports, NEW u \in Task \cup {None},
                 Register(r, report, u)
          PROVE  reservations[s].activated
      <4>1. CASE Holds(r) /\ reservations[r].activated /\ Release(r)
        BY <2>1, <4>1 DEF Release, TypeOK, Holds
      <4>2. CASE Holds(r) /\ reservations' = [reservations EXCEPT ![r].activated = TRUE]
        <5>1. reservations[r] \in Reservation
          BY <2>1, <4>2, HoldsType
        <5>2. reservations'[r] = [reservations[r] EXCEPT !.activated = TRUE]
          BY <2>1, <4>2 DEF TypeOK
        <5>3. reservations'[r] \in Reservation
          BY ONLY <5>1, <5>2 DEF Reservation
        <5>4. s # r
          BY <5>3, NoneAssumption DEF Holds
        <5>5. QED
          BY <2>1, <4>2, <5>4 DEF TypeOK, Holds
      <4>3. QED
        BY <2>2, <3>1, <4>1, <4>2 DEF Register, traffic
    <3>2. CASE \E t \in Task : AddTask(t)
      BY <2>1, <3>2, ScheduleEndsNone DEF AddTask
    <3>3. QED
      BY <2>2, <2>3, <3>1, <3>2, DataAssumption DEF Message, Pose, Heartbeat, Silence, traffic
  <2>4. CASE Callback
    <3>1. ASSUME NEW r \in Robot, RecoverRobot(r)
          PROVE  pc = "heartbeats" /\ ~robots[s].fresh
      BY <2>1, <3>1, TakeWorkEndsOwn DEF RecoverRobot, TimedOut
    <3>2. ASSUME NEW r \in Robot, ReleaseForCharging(r)
          PROVE  pc = "battery" /\ NeedsCharge(s)
      BY <2>1, <3>2, TakeWorkEndsOwn DEF ReleaseForCharging, MustRelease
    <3>3. ~Requeue
      <4>1. recovered # <<>> => Head(recovered) \in Task
        BY <2>1, HeadTailProperties DEF TypeOK
      <4>2. QED
        BY <2>1, <2>2, <4>1, ScheduleEndsNone DEF Requeue, traffic
    <3>4. \A r \in Robot : ~CheckTraffic(r)
      BY CheckTrafficStep
    <3>5. \A r \in Robot : ~Dispatch(r)
      BY <2>1, DispatchNextEndsNone DEF Dispatch, TypeOK
    <3>6. ASSUME NEW r \in Robot, Steal(r)
          PROVE  FALSE
      <4>1. PICK d \in Donors(r) : \E i \in BestIndices(queues[d]) :
              DispatchNext(r, [queues EXCEPT ![d] = RemoveAt(@, i), ![r] = <<queues[d][i]>>])
        BY <3>6 DEF Steal
      <4>2. d \in Robot /\ queues \in [Robot -> Seq(Task)]
        BY <2>1 DEF Donors, TypeOK
      <4>3. PICK i \in BestIndices(queues[d]) :
              DispatchNext(r, [queues EXCEPT ![d] = RemoveAt(@, i), ![r] = <<queues[d][i]>>])
        BY <4>1
      <4>4. RemoveAt(queues[d], i) \in Seq(Task) /\ <<queues[d][i]>> \in Seq(Task)
        BY <4>2, BestIndicesType, RemoveAtType
      <4>5. [queues EXCEPT ![d] = RemoveAt(@, i), ![r] = <<queues[d][i]>>] \in [Robot -> Seq(Task)]
        BY <4>2, <4>4
      <4>6. QED
        BY <2>1, <4>3, <4>5, DispatchNextEndsNone
    <3>7. ~PlaceWaiting
      <4>1. ASSUME PlaceWaiting PROVE FALSE
        <5>1. waiting[index] \in Task
          BY <2>1, <4>1 DEF PlaceWaiting, TypeOK
        <5>2. PICK r \in Best(waiting[index]) :
                DispatchNext(r, [queues EXCEPT ![r] = Append(@, waiting[index])])
          BY <2>2, <4>1 DEF PlaceWaiting, traffic
        <5>3. [queues EXCEPT ![r] = Append(@, waiting[index])] \in [Robot -> Seq(Task)]
          BY <2>1, <5>1, BestType, AppendProperties DEF TypeOK
        <5>4. QED
          BY <2>1, <5>2, <5>3, BestType, DispatchNextEndsNone
      <4>2. QED
        BY <4>1
    <3>8. QED
      BY <2>2, <2>4, <3>1, <3>2, <3>3, <3>4, <3>5, <3>6, <3>7
         DEF Callback, HeartbeatsDone, BatteryDone, TrafficDone, DispatchDone, WaitingDone,
             StealDone, traffic
  <2>5. QED
    BY <2>2, <2>3, <2>4 DEF Next, Tick, vars, traffic
<1>2. QED
  BY <1>1, Invariant, PTL DEF Spec, ReservationsEndForAReason

-----------------------------------------------------------------------------
(* What is left when _rebalance returns.                                   *)

(* While a pass has found nothing to do so far, there is nothing to do for *)
(* the loops that are behind it.                                           *)
PassInv ==
  ~progress =>
    /\ pc \in {"waiting", "steal"} => \A r \in Robot : ~CanDispatch(r)
    /\ pc = "waiting" =>
         \A i \in 1..Len(waiting) : i < index => Capable(waiting[i]) = {}
    /\ pc = "steal" => \A i \in 1..Len(waiting) : Capable(waiting[i]) = {}

(* What the loops read is the registry and the reservations.               *)
LEMMA SameChoices ==
  ASSUME UNCHANGED <<registry, traffic>>
  PROVE  /\ \A t : Capable(t)' = Capable(t)
         /\ \A r \in Robot : CanDispatch(r)' <=> CanDispatch(r)
         /\ \A r \in Robot : CanSteal(r)' <=> CanSteal(r)
<1>1. /\ UNCHANGED <<robots, queues, waiting, earlier, reservations, cellOwners>>
      /\ \A r : Eligible(r)' = Eligible(r) /\ Busy(r)' = Busy(r)
      /\ \A r : Registered(r)' = Registered(r) /\ Holds(r)' = Holds(r)
  BY DEF registry, traffic, Eligible, Busy, Registered, Holds
<1>2. \A t : Capable(t)' = Capable(t)
  BY <1>1 DEF Capable
<1>3. \A r : BestIndices(queues[r])' = BestIndices(queues[r])
  BY <1>1 DEF BestIndices, Precedes
<1>4. \A r, t : CanStart(r, t)' = CanStart(r, t)
  BY <1>1 DEF CanStart, Conflict, CellsOf, InitialWindow
<1>5. \A r \in Robot : CanDispatch(r)' <=> CanDispatch(r)
  BY <1>1, <1>3, <1>4 DEF CanDispatch
<1>6. \A d : CanDonate(d)' = CanDonate(d)
  BY <1>1 DEF CanDonate
<1>7. \A r : Donors(r)' = Donors(r)
  BY <1>1, <1>6 DEF Donors
<1>8. \A r \in Robot : CanSteal(r)' <=> CanSteal(r)
  BY <1>1, <1>7 DEF CanSteal
<1> QED
  BY <1>2, <1>5, <1>8

LEMMA PassStep == IInv /\ PassInv /\ [Next]_vars => PassInv'
<1> SUFFICES ASSUME IInv, PassInv, [Next]_vars
             PROVE  PassInv'
  OBVIOUS
<1>1. CASE UNCHANGED <<registry, traffic, pc, index, progress>>
  BY <1>1, SameChoices DEF PassInv, registry
<1>2. CASE pc' \notin {"waiting", "steal"} \/ progress'
  BY <1>2 DEF PassInv
<1>3. CASE DispatchDone
  <2>1. /\ \A r \in Robot : ~CanDispatch(r)
        /\ pc' = "waiting" /\ index' = 1 /\ UNCHANGED <<registry, traffic>>
    BY <1>3 DEF DispatchDone
  <2> QED
    BY <2>1, SameChoices DEF PassInv
<1>4. CASE PlaceWaiting /\ ~progress'
  <2>1. /\ pc = "waiting" /\ pc' = "waiting" /\ Capable(waiting[index]) = {}
        /\ index' = index + 1 /\ UNCHANGED <<registry, traffic, progress>>
    BY <1>4 DEF PlaceWaiting
  <2>2. waiting' = waiting /\ index \in Nat
    BY <2>1 DEF registry, IInv, TypeOK
  <2>3. \A i \in 1..Len(waiting) : i < index + 1 => i < index \/ i = index
    BY <2>2
  <2> QED
    BY <2>1, <2>2, <2>3, <1>4, SameChoices DEF PassInv
<1>5. CASE WaitingDone
  <2>1. /\ pc = "waiting" /\ pc' = "steal" /\ index > Len(waiting)
        /\ UNCHANGED <<registry, traffic, progress>>
    BY <1>5 DEF WaitingDone
  <2>2. waiting' = waiting /\ index \in Nat /\ Len(waiting) \in Nat
    BY <2>1 DEF registry, IInv, TypeOK
  <2>3. \A i \in 1..Len(waiting) : i < index
    BY <2>1, <2>2
  <2> QED
    BY <2>1, <2>2, <2>3, SameChoices DEF PassInv
<1>6. CASE StealDone
  BY <1>2, <1>6 DEF StealDone
<1>7. CASE Message
  <2>1. pc = "idle" /\ pc' \in {"idle", "dispatch"}
    BY <1>7, DataAssumption
       DEF Message, Register, Pose, Heartbeat, Silence, AddTask, control
  <2> QED
    BY <1>2, <2>1
<1>8. CASE Callback
  BY <1>2, <1>3, <1>4, <1>5, <1>6, <1>8
     DEF Callback, RecoverRobot, ReleaseForCharging, HeartbeatsDone, Requeue, BatteryDone,
         CheckTraffic, TrafficDone, Dispatch, Steal, IInv, LoopsOK
<1> QED
  BY <1>1, <1>2, <1>7, <1>8 DEF Next, Tick, vars, control

(* When the callback of the timer or of a completion returns, no robot can *)
(* start its next task, no waiting task has a capable robot, and no idle   *)
(* robot can take queued work over (_rebalance).                           *)
THEOREM SettlesBeforeReturn == Spec => RebalanceSettles
<1>1. Init => PassInv
  BY DEF Init, PassInv
<1>2. IInv /\ PassInv /\ [Next]_vars => [pc = "steal" /\ pc' = "idle" => Settled']_vars
  <2> SUFFICES ASSUME IInv, PassInv, [Next]_vars, pc = "steal", pc' = "idle"
               PROVE  Settled'
    OBVIOUS
  <2>1. StealDone
    BY DEF Next, Message, Register, Pose, Heartbeat, Silence, AddTask, Tick, Callback,
           RecoverRobot, ReleaseForCharging, HeartbeatsDone, Requeue, BatteryDone,
           CheckTraffic, TrafficDone, Dispatch, Steal, DispatchDone, PlaceWaiting, WaitingDone,
           IInv, LoopsOK, vars, control
  <2>2. ~progress /\ \A r \in Robot : ~CanSteal(r)
    BY <2>1 DEF StealDone
  <2>3. UNCHANGED <<registry, traffic>> /\ waiting' = waiting
    BY <2>1 DEF StealDone, registry
  <2> QED
    BY <2>2, <2>3, SameChoices DEF Settled, PassInv
<1> QED
  BY <1>1, <1>2, PassStep, Invariant, PTL DEF Spec, RebalanceSettles


-----------------------------------------------------------------------------
(* A task is in one place.                                                 *)

LEMMA RemoveAtElements ==
  ASSUME NEW S, NEW s \in Seq(S), NEW i \in 1..Len(s)
  PROVE  /\ RemoveAt(s, i) \in Seq(S) /\ Len(RemoveAt(s, i)) = Len(s) - 1
         /\ \A j \in 1..(Len(s) - 1) :
              RemoveAt(s, i)[j] = IF j < i THEN s[j] ELSE s[j + 1]
<1> DEFINE before == SubSeq(s, 1, i - 1)
           after == SubSeq(s, i + 1, Len(s))
<1>1. /\ before \in Seq(S) /\ Len(before) = i - 1
      /\ \A j \in 1..(i - 1) : before[j] = s[j]
  BY SubSeqProperties
<1>2. /\ after \in Seq(S) /\ Len(after) = Len(s) - i
      /\ \A j \in 1..(Len(s) - i) : after[j] = s[i + j]
  BY SubSeqProperties
<1>0. ASSUME NEW b \in Seq(S), NEW a \in Seq(S)
      PROVE  /\ b \o a \in Seq(S) /\ Len(b \o a) = Len(b) + Len(a)
             /\ \A j \in 1..Len(b) : (b \o a)[j] = b[j]
             /\ \A j \in 1..Len(a) : (b \o a)[Len(b) + j] = a[j]
  BY ConcatProperties
<1> HIDE DEF before, after
<1> DEFINE both == before \o after
<1>3. /\ both \in Seq(S) /\ Len(both) = Len(before) + Len(after)
      /\ \A j \in 1..Len(before) : both[j] = before[j]
      /\ \A j \in 1..Len(after) : both[Len(before) + j] = after[j]
  BY <1>0, <1>1, <1>2
<1> HIDE DEF both
<1>4. ASSUME NEW j \in 1..(Len(s) - 1)
      PROVE  both[j] = IF j < i THEN s[j] ELSE s[j + 1]
  <2>1. CASE j < i
    BY <1>1, <1>3, <2>1
  <2>2. CASE j >= i
    <3> DEFINE k == j - i + 1
    <3>1. k \in 1..(Len(s) - i) /\ (i - 1) + k = j /\ i + k = j + 1
      BY <2>2
    <3> HIDE DEF k
    <3>2. both[(i - 1) + k] = after[k] /\ after[k] = s[i + k]
      BY <1>1, <1>2, <1>3, <3>1
    <3> QED
      BY <2>2, <3>1, <3>2
  <2> QED
    BY <2>1, <2>2
<1>5. both = RemoveAt(s, i)
  BY DEF both, before, after, RemoveAt
<1>6. both \in Seq(S) /\ Len(both) = Len(s) - 1
  BY <1>1, <1>2, <1>3
<1> QED
  BY <1>4, <1>5, <1>6

LEMMA RemoveAtOnce ==
  ASSUME NEW s \in Seq(Task), NEW i \in 1..Len(s), IsInjective(s)
  PROVE  /\ IsInjective(RemoveAt(s, i))
         /\ \A t : Contains(RemoveAt(s, i), t) => Contains(s, t) /\ t # s[i]
<1> DEFINE u == RemoveAt(s, i)
           at(j) == IF j < i THEN j ELSE j + 1
<1>1. /\ u \in Seq(Task) /\ Len(u) = Len(s) - 1
      /\ \A j \in 1..(Len(s) - 1) : u[j] = IF j < i THEN s[j] ELSE s[j + 1]
  BY RemoveAtElements
<1> HIDE DEF u
<1>2. \A j \in 1..Len(u) : at(j) \in 1..Len(s) /\ at(j) # i /\ u[j] = s[at(j)]
  BY <1>1
<1>3. \A j, k \in 1..Len(u) : at(j) = at(k) => j = k
  OBVIOUS
<1>4. \A j, k \in 1..Len(s) : s[j] = s[k] => j = k
  BY DEF IsInjective
<1> HIDE DEF at
<1>5. IsInjective(u)
  BY <1>1, <1>2, <1>3, <1>4 DEF IsInjective
<1>6. \A t : Contains(u, t) => Contains(s, t) /\ t # s[i]
  BY <1>2, <1>4 DEF Contains
<1> QED
  BY <1>5, <1>6 DEF u

LEMMA AppendOnce ==
  ASSUME NEW s \in Seq(Task), NEW e \in Task
  PROVE  /\ IsInjective(s) /\ ~Contains(s, e) => IsInjective(Append(s, e))
         /\ \A t : Contains(Append(s, e), t) => Contains(s, t) \/ t = e
<1> DEFINE u == Append(s, e)
<1>1. /\ u \in Seq(Task) /\ Len(u) = Len(s) + 1 /\ u[Len(s) + 1] = e
      /\ \A j \in 1..Len(s) : u[j] = s[j]
  BY AppendProperties
<1> HIDE DEF u
<1>2. \A j \in 1..Len(u) : (j \in 1..Len(s) /\ u[j] = s[j]) \/ (j = Len(s) + 1 /\ u[j] = e)
  BY <1>1
<1>3. ASSUME IsInjective(s), ~Contains(s, e)
      PROVE  IsInjective(u)
  BY <1>1, <1>2, <1>3 DEF IsInjective, Contains
<1>4. \A t : Contains(u, t) => Contains(s, t) \/ t = e
  BY <1>2 DEF Contains
<1> QED
  BY <1>3, <1>4 DEF u

(* The work of a robot is its queue behind the task it has reserved for.   *)
LEMMA WorkOfElements ==
  ASSUME TypeOK, NEW r \in Robot
  PROVE  /\ \A t : Contains(WorkOf(r), t)
                     <=> Contains(queues[r], t) \/ (Holds(r) /\ reservations[r].task = t)
         /\ IsInjective(WorkOf(r))
              <=> /\ IsInjective(queues[r])
                  /\ Holds(r) => ~Contains(queues[r], reservations[r].task)
<1>1. queues[r] \in Seq(Task)
  BY DEF TypeOK
<1>2. CASE ~Holds(r)
  <2>1. WorkOf(r) = queues[r]
    BY <1>1, <1>2 DEF WorkOf
  <2> QED
    BY <1>2, <2>1
<1>3. CASE Holds(r)
  <2> DEFINE e == reservations[r].task
             s == queues[r]
             u == WorkOf(r)
  <2>1. e \in Task /\ u = <<e>> \o s
    BY <1>3, HoldsFields DEF WorkOf
  <2>2. /\ Len(u) = Len(s) + 1 /\ u[1] = e /\ u \in Seq(Task)
        /\ \A j \in 1..Len(s) : u[j + 1] = s[j]
    <3>1. <<e>> \in Seq(Task) /\ Len(<<e>>) = 1 /\ <<e>>[1] = e
      BY <2>1
    <3> HIDE DEF u, e, s
    <3> QED
      BY <1>1, <2>1, <3>1, ConcatProperties DEF s
  <2> HIDE DEF u, e, s
  <2>3. \A j \in 1..Len(u) :
          (j = 1 /\ u[j] = e) \/ (j - 1 \in 1..Len(s) /\ u[j] = s[j - 1])
    <3> SUFFICES ASSUME NEW j \in 1..Len(u), j # 1
                 PROVE  j - 1 \in 1..Len(s) /\ u[j] = s[j - 1]
      BY <2>2
    <3>1. j - 1 \in 1..Len(s) /\ (j - 1) + 1 = j
      BY <1>1, <2>2 DEF s
    <3> QED
      BY <2>2, <3>1
  <2>4. \A j \in 1..Len(s) : j + 1 \in 1..Len(u)
    BY <1>1, <2>2 DEF s
  <2>5. 1 \in 1..Len(u)
    BY <1>1, <2>2 DEF s
  <2>6. \A t : Contains(u, t) <=> Contains(s, t) \/ t = e
    BY <2>2, <2>3, <2>4, <2>5 DEF Contains
  <2>7. ASSUME IsInjective(u) PROVE IsInjective(s) /\ ~Contains(s, e)
    <3>1. \A j, k \in 1..Len(u) : u[j] = u[k] => j = k
      BY <2>2, <2>7 DEF IsInjective
    <3>2. \A j, k \in 1..Len(s) : s[j] = s[k] => j = k
      <4> SUFFICES ASSUME NEW j \in 1..Len(s), NEW k \in 1..Len(s), s[j] = s[k]
                   PROVE  j = k
        OBVIOUS
      <4>1. j + 1 = k + 1
        BY <2>2, <2>4, <3>1
      <4> QED
        BY <4>1
    <3>3. \A j \in 1..Len(s) : j + 1 # 1 /\ s[j] # e
      BY <2>2, <2>4, <2>5, <3>1
    <3> QED
      BY <1>1, <3>2, <3>3 DEF IsInjective, Contains, s
  <2>8. ASSUME IsInjective(s), ~Contains(s, e) PROVE IsInjective(u)
    <3>1. \A j, k \in 1..Len(s) : s[j] = s[k] => j = k
      BY <1>1, <2>8 DEF IsInjective, s
    <3>2. \A j, k \in 1..Len(u) : u[j] = u[k] => j = k
      BY <2>3, <2>8, <3>1 DEF Contains
    <3> QED
      BY <2>2, <3>2 DEF IsInjective
  <2> QED
    BY <1>3, <2>6, <2>7, <2>8 DEF u, e, s
<1> QED
  BY <1>2, <1>3
(* With no work being requeued: what SinglePlace says when the queues are  *)
(* q and the waiting pool is w.                                            *)
OnceQueued(q, w) == IsInjective(w) /\ \A r \in Robot : IsInjective(q[r])

QueuedApart(q, w) ==
  \A r \in Robot, t \in Task : Contains(q[r], t) =>
    ~Contains(w, t) /\ ~Reserved(t) /\ \A s \in Robot \ {r} : ~Contains(q[s], t)

ReservedApart(w) ==
  \A r \in Robot : Holds(r) =>
    /\ ~Contains(w, reservations[r].task)
    /\ \A s \in Robot \ {r} : Holds(s) => reservations[s].task # reservations[r].task

Single(q, w) == OnceQueued(q, w) /\ QueuedApart(q, w) /\ ReservedApart(w)

LEMMA NothingTwice ==
  /\ IsInjective(<<>>)
  /\ \A t : ~Contains(<<>>, t)
BY DEF IsInjective, Contains

LEMMA SingleParts ==
  ASSUME TypeOK, recovered = <<>>
  PROVE  SinglePlace <=> Single(queues, waiting)
<1> DEFINE In(r, t) == Contains(queues[r], t) \/ (Holds(r) /\ reservations[r].task = t)
<1>1. \A r \in Robot : \A t : Contains(WorkOf(r), t) <=> In(r, t)
  BY WorkOfElements
<1>2. \A r \in Robot : IsInjective(WorkOf(r)) <=>
        /\ IsInjective(queues[r])
        /\ Holds(r) => ~Contains(queues[r], reservations[r].task)
  BY WorkOfElements
<1>3. \A r \in Robot : Holds(r) => reservations[r].task \in Task
  BY HoldsFields
<1>4. ASSUME SinglePlace PROVE Single(queues, waiting)
  <2>1. \A r \in Robot, t \in Task : In(r, t) =>
          ~Contains(waiting, t) /\ \A s \in Robot \ {r} : ~In(s, t)
    BY <1>1, <1>4 DEF SinglePlace
  <2>2. OnceQueued(queues, waiting)
    BY <1>2, <1>4 DEF SinglePlace, OnceQueued
  <2>3. \A r \in Robot : Holds(r) => ~Contains(queues[r], reservations[r].task)
    BY <1>2, <1>4 DEF SinglePlace
  <2>4. QueuedApart(queues, waiting)
    BY <2>1, <2>3 DEF QueuedApart, Reserved
  <2>5. ReservedApart(waiting)
    BY <1>3, <2>1 DEF ReservedApart
  <2> QED
    BY <2>2, <2>4, <2>5 DEF Single
<1>5. ASSUME Single(queues, waiting) PROVE SinglePlace
  <2>1. \A r \in Robot, t \in Task : In(r, t) =>
          ~Contains(waiting, t) /\ \A s \in Robot \ {r} : ~In(s, t)
    BY <1>3, <1>5 DEF Single, QueuedApart, ReservedApart, Reserved
  <2>2. \A r \in Robot : IsInjective(WorkOf(r))
    BY <1>2, <1>3, <1>5 DEF Single, OnceQueued, QueuedApart, Reserved
  <2>3. IsInjective(waiting)
    BY <1>5 DEF Single, OnceQueued
  <2>4. \A r \in Robot, t \in Task : Contains(WorkOf(r), t) =>
          ~Contains(waiting, t) /\ \A s \in Robot \ {r} : ~Contains(WorkOf(s), t)
    BY <1>1, <2>1
  <2> QED
    BY <2>2, <2>3, <2>4, NothingTwice DEF SinglePlace
<1> QED
  BY <1>4, <1>5

(* Reservations that end, or go on with their task, put no task twice.     *)
LEMMA FewerSingle ==
  ASSUME Single(queues, waiting), UNCHANGED <<queues, waiting>>,
         \A r \in Robot : Holds(r)' => Holds(r) /\ reservations'[r].task = reservations[r].task
  PROVE  Single(queues, waiting)'
<1>1. \A t : Reserved(t)' => Reserved(t)
  BY DEF Reserved
<1>2. OnceQueued(queues, waiting)'
  BY DEF Single, OnceQueued, IsInjective
<1>3. QueuedApart(queues, waiting)'
  BY <1>1 DEF Single, QueuedApart, Contains
<1>4. ReservedApart(waiting)'
  BY DEF Single, ReservedApart, Contains
<1> QED
  BY <1>2, <1>3, <1>4 DEF Single

(* A dispatch takes a task out of the queue for its reservation.           *)
LEMMA DispatchNextSingle ==
  ASSUME TypeOK, NEW r \in Robot, NEW q \in [Robot -> Seq(Task)], NEW w,
         Single(q, w), DispatchNext(r, q), waiting' = w
  PROVE  Single(queues, waiting)'
<1>1. CASE queues' = q /\ UNCHANGED <<robots, traffic>>
  <2>1. UNCHANGED reservations
    BY <1>1 DEF traffic
  <2>2. \A t : Reserved(t)' <=> Reserved(t)
    BY <2>1, ReservedSame
  <2>3. OnceQueued(queues, waiting)'
    BY <1>1 DEF Single, OnceQueued, IsInjective
  <2>4. QueuedApart(queues, waiting)'
    BY <1>1, <2>2 DEF Single, QueuedApart, Contains
  <2>5. ReservedApart(waiting)'
    BY <2>1 DEF Single, ReservedApart, Contains, Holds
  <2> QED
    BY <2>3, <2>4, <2>5 DEF Single
<1>2. ASSUME NEW i \in BestIndices(q[r]), CanStart(r, q[r][i]),
             queues' = [q EXCEPT ![r] = RemoveAt(@, i)],
             reservations' = [reservations EXCEPT ![r] =
               [task |-> q[r][i], index |-> 1, reserved |-> InitialWindow(q[r][i]),
                activated |-> FALSE]]
      PROVE  Single(queues, waiting)'
  <2> DEFINE u == q[r][i]
  <2>1. i \in 1..Len(q[r]) /\ u \in Task /\ q[r] \in Seq(Task)
    BY BestIndicesType
  <2>2. reservations'[r].task = u /\ \A s \in Robot : s # r => reservations'[s] = reservations[s]
    BY <1>2 DEF TypeOK
  <2>3. ~Holds(r) /\ \A s \in Robot : s # r => Holds(s)' = Holds(s)
    BY <1>2, <2>2 DEF CanStart, Holds
  <2>4. /\ queues'[r] = RemoveAt(q[r], i)
        /\ \A s \in Robot : s # r => queues'[s] = q[s]
    BY <1>2
  <2>5. IsInjective(q[r]) /\ Contains(q[r], u)
    BY <2>1 DEF Single, OnceQueued, Contains
  <2>6. /\ IsInjective(RemoveAt(q[r], i))
        /\ \A t : Contains(RemoveAt(q[r], i), t) => Contains(q[r], t) /\ t # u
    BY <2>1, <2>5, RemoveAtOnce
  <2>7. ~Contains(w, u) /\ ~Reserved(u) /\ \A s \in Robot \ {r} : ~Contains(q[s], u)
    BY <2>1, <2>5 DEF Single, QueuedApart
  <2> HIDE DEF u
  <2>8. \A t : Reserved(t)' => Reserved(t) \/ t = u
    BY <2>2, <2>3 DEF Reserved
  <2>9. ASSUME NEW s \in Robot, NEW t, Contains(queues[s], t)'
        PROVE  Contains(q[s], t) /\ t # u
    <3>1. Contains(queues'[s], t)
      BY <2>9 DEF Contains
    <3> QED
      BY <2>4, <2>6, <2>7, <3>1
  <2>10. OnceQueued(queues, waiting)'
    <3>1. \A s \in Robot : IsInjective(queues'[s])
      BY <2>4, <2>6 DEF Single, OnceQueued
    <3> QED
      BY <3>1 DEF Single, OnceQueued, IsInjective
  <2>11. QueuedApart(queues, waiting)'
    <3> SUFFICES ASSUME NEW s \in Robot, NEW t \in Task, Contains(queues[s], t)'
                 PROVE  /\ ~Contains(waiting, t)' /\ ~Reserved(t)'
                        /\ \A x \in Robot \ {s} : ~Contains(queues[x], t)'
      BY DEF QueuedApart
    <3>1. Contains(q[s], t) /\ t # u
      BY <2>9
    <3>2. ~Contains(w, t) /\ ~Reserved(t) /\ \A x \in Robot \ {s} : ~Contains(q[x], t)
      BY <3>1 DEF Single, QueuedApart
    <3>3. ~Contains(waiting, t)'
      BY <3>2 DEF Contains
    <3> QED
      BY <2>8, <2>9, <3>1, <3>2, <3>3
  <2>12. ReservedApart(waiting)'
    <3>1. ~Contains(waiting, u)'
      BY <2>7 DEF Contains
    <3>2. \A s \in Robot : s # r /\ Holds(s) => reservations[s].task # u
      BY <2>7 DEF Reserved
    <3>3. \A s \in Robot : s # r /\ Holds(s) => ~Contains(waiting, reservations[s].task)'
      BY <2>2 DEF Single, ReservedApart, Contains
    <3> QED
      BY <2>2, <2>3, <3>1, <3>2, <3>3 DEF Single, ReservedApart
  <2> QED
    BY <2>10, <2>11, <2>12 DEF Single
<1> QED
  BY <1>1, <1>2 DEF DispatchNext

(* A pool that has lost a task, and a queue that has gained one.           *)
LEMMA SmallerSingle ==
  ASSUME NEW q, NEW w, Single(q, w), NEW v, IsInjective(v),
         \A t : Contains(v, t) => Contains(w, t)
  PROVE  Single(q, v)
BY DEF Single, OnceQueued, QueuedApart, ReservedApart

LEMMA CommitSingle ==
  ASSUME TypeOK, NEW r \in Robot, NEW u \in Task, NEW w, Single(queues, w),
         ~Committed(u, queues), ~Contains(w, u)
  PROVE  Single([queues EXCEPT ![r] = Append(@, u)], w)
<1> DEFINE q == [queues EXCEPT ![r] = Append(@, u)]
<1>1. queues[r] \in Seq(Task) /\ q[r] = Append(queues[r], u)
  BY DEF TypeOK
<1>2. \A s \in Robot : s # r => q[s] = queues[s]
  BY DEF TypeOK
<1> HIDE DEF q
<1>3. \A s \in Robot : ~Contains(queues[s], u) /\ ~Reserved(u)
  BY DEF Committed
<1>4. /\ IsInjective(q[r])
      /\ \A t : Contains(q[r], t) => Contains(queues[r], t) \/ t = u
  BY <1>1, <1>3, AppendOnce DEF Single, OnceQueued
<1>5. \A s \in Robot : \A t : Contains(q[s], t) =>
        Contains(queues[s], t) \/ (s = r /\ t = u)
  BY <1>2, <1>4
<1>6. OnceQueued(q, w)
  BY <1>2, <1>4 DEF Single, OnceQueued
<1>7. QueuedApart(q, w)
  BY <1>3, <1>5 DEF Single, QueuedApart
<1> QED
  BY <1>6, <1>7 DEF Single, q
LEMMA PlaceWaitingSingle ==
  ASSUME TypeOK, Single(queues, waiting), PlaceWaiting
  PROVE  Single(queues, waiting)'
<1>1. index \in 1..Len(waiting) /\ waiting \in Seq(Task) /\ waiting[index] \in Task
  BY DEF PlaceWaiting, TypeOK
<1>2. CASE UNCHANGED <<registry, traffic>>
  BY <1>2, FewerSingle DEF registry, traffic, Holds
<1>3. ASSUME NEW r \in Best(waiting[index]),
             DispatchNext(r, [queues EXCEPT ![r] = Append(@, waiting[index])]),
             waiting' = RemoveAt(waiting, index)
      PROVE  Single(queues, waiting)'
  <2> DEFINE u == waiting[index]
             v == RemoveAt(waiting, index)
             q == [queues EXCEPT ![r] = Append(@, u)]
  <2>1. r \in Robot /\ u \in Task /\ Contains(waiting, u)
    BY <1>1, BestType DEF Contains
  <2>2. IsInjective(v) /\ \A t : Contains(v, t) => Contains(waiting, t) /\ t # u
    BY <1>1, RemoveAtOnce DEF Single, OnceQueued
  <2>3. ~Committed(u, queues)
    BY <2>1 DEF Single, QueuedApart, ReservedApart, Committed, Reserved
  <2>4. q \in [Robot -> Seq(Task)]
    BY <2>1, AppendProperties DEF TypeOK
  <2>5. DispatchNext(r, q) /\ waiting' = v
    BY <1>3
  <2> HIDE DEF v
  <2>6. Single(queues, v) /\ ~Contains(v, u)
    BY <2>2, SmallerSingle
  <2>7. Single(q, v)
    BY <2>1, <2>3, <2>6, CommitSingle
  <2> HIDE DEF q
  <2> QED
    BY <2>1, <2>4, <2>5, <2>7, DispatchNextSingle
<1> QED
  BY <1>2, <1>3 DEF PlaceWaiting

LEMMA StealSingle ==
  ASSUME TypeOK, Single(queues, waiting), NEW r \in Robot, Steal(r)
  PROVE  Single(queues, waiting)'
<1>1. PICK d \in Donors(r) : \E i \in BestIndices(queues[d]) :
        DispatchNext(r, [queues EXCEPT ![d] = RemoveAt(@, i), ![r] = <<queues[d][i]>>])
  BY DEF Steal
<1>2. PICK i \in BestIndices(queues[d]) :
        DispatchNext(r, [queues EXCEPT ![d] = RemoveAt(@, i), ![r] = <<queues[d][i]>>])
  BY <1>1
<1> DEFINE u == queues[d][i]
           q == [queues EXCEPT ![d] = RemoveAt(@, i), ![r] = <<u>>]
<1>3. d \in Robot /\ d # r /\ queues[r] = <<>> /\ queues \in [Robot -> Seq(Task)]
  BY DEF Donors, Steal, CanSteal, TypeOK
<1>4. i \in 1..Len(queues[d]) /\ u \in Task /\ Contains(queues[d], u)
  <2>1. i \in 1..Len(queues[d]) /\ u \in Task
    BY <1>3, BestIndicesType
  <2> QED
    BY <2>1 DEF Contains
<1>5. RemoveAt(queues[d], i) \in Seq(Task) /\ <<u>> \in Seq(Task)
  BY <1>3, <1>4, RemoveAtType
<1>6. /\ q \in [Robot -> Seq(Task)]
      /\ q[d] = RemoveAt(queues[d], i) /\ q[r] = <<u>>
      /\ \A s \in Robot : s # d /\ s # r => q[s] = queues[s]
  BY <1>3, <1>5
<1>7. DispatchNext(r, q) /\ waiting' = waiting
  BY <1>2 DEF Steal
<1>8. /\ IsInjective(q[d])
      /\ \A t : Contains(q[d], t) => Contains(queues[d], t) /\ t # u
  BY <1>3, <1>4, <1>6, RemoveAtOnce DEF Single, OnceQueued
<1>9. IsInjective(q[r]) /\ \A t : Contains(q[r], t) => t = u
  BY <1>5, <1>6 DEF IsInjective, Contains
<1>10. ~Contains(waiting, u) /\ ~Reserved(u) /\ \A s \in Robot \ {d} : ~Contains(queues[s], u)
  BY <1>3, <1>4 DEF Single, QueuedApart
<1> HIDE DEF q, u
<1>11. \A s \in Robot : \A t : Contains(q[s], t) =>
         (s # r /\ t # u /\ Contains(queues[s], t)) \/ (s = r /\ t = u)
  BY <1>3, <1>6, <1>8, <1>9, <1>10
<1>12. OnceQueued(q, waiting)
  BY <1>6, <1>8, <1>9 DEF Single, OnceQueued
<1>13. QueuedApart(q, waiting)
  BY <1>10, <1>11 DEF Single, QueuedApart
<1>14. Single(q, waiting)
  BY <1>12, <1>13 DEF Single
<1> QED
  BY <1>6, <1>7, <1>14, DispatchNextSingle

LEMMA AddTaskSingle ==
  ASSUME TypeOK, Single(queues, waiting), NEW u \in Task, AddTask(u)
  PROVE  Single(queues, waiting)'
<1>1. ~Committed(u, queues) /\ ~Contains(waiting, u) /\ Schedule(u, <<>>)
  BY TaskExistsParts DEF AddTask
<1>2. CASE waiting' = Append(waiting, u) \o <<>> /\ UNCHANGED <<robots, queues, traffic>>
  <2>1. waiting \in Seq(Task) /\ Append(waiting, u) \in Seq(Task)
    BY AppendProperties DEF TypeOK
  <2>2. waiting' = Append(waiting, u) /\ UNCHANGED reservations /\ UNCHANGED queues
    BY <1>2, <2>1, ConcatEmptySeq DEF traffic
  <2>3. /\ IsInjective(Append(waiting, u))
        /\ \A t : Contains(Append(waiting, u), t) => Contains(waiting, t) \/ t = u
    BY <1>1, <2>1, AppendOnce DEF Single, OnceQueued
  <2>4. ASSUME NEW t, Contains(waiting, t)' PROVE Contains(waiting, t) \/ t = u
    <3>1. Contains(waiting', t)
      BY <2>4 DEF Contains
    <3> QED
      BY <2>2, <2>3, <3>1
  <2>5. \A s \in Robot : ~Contains(queues[s], u) /\ ~Reserved(u)
    BY <1>1 DEF Committed
  <2>6. OnceQueued(queues, waiting)'
    <3>1. IsInjective(waiting')
      BY <2>2, <2>3
    <3> QED
      BY <2>2, <3>1 DEF Single, OnceQueued, IsInjective
  <2>7. QueuedApart(queues, waiting)'
    <3> SUFFICES ASSUME NEW s \in Robot, NEW t \in Task, Contains(queues[s], t)'
                 PROVE  /\ ~Contains(waiting, t)' /\ ~Reserved(t)'
                        /\ \A x \in Robot \ {s} : ~Contains(queues[x], t)'
      BY DEF QueuedApart
    <3>1. Contains(queues[s], t)
      BY <2>2 DEF Contains
    <3>2. ~Contains(waiting, t) /\ ~Reserved(t) /\ t # u
          /\ \A x \in Robot \ {s} : ~Contains(queues[x], t)
      BY <2>5, <3>1 DEF Single, QueuedApart
    <3>3. ~Reserved(t)'
      BY <2>2, <3>2, ReservedSame
    <3>4. \A x \in Robot \ {s} : ~Contains(queues[x], t)'
      BY <2>2, <3>2 DEF Contains
    <3> QED
      BY <2>4, <3>2, <3>3, <3>4
  <2>8. ReservedApart(waiting)'
    <3>1. \A s \in Robot : Holds(s) => reservations[s].task # u
      BY <2>5 DEF Reserved
    <3>2. \A s \in Robot : Holds(s) => ~Contains(waiting, reservations[s].task)'
      BY <2>4, <3>1, <2>2 DEF Single, ReservedApart, Contains
    <3> QED
      BY <2>2, <3>2 DEF Single, ReservedApart, Holds
  <2> QED
    BY <2>6, <2>7, <2>8 DEF Single
<1>3. ASSUME NEW r \in Best(u), DispatchNext(r, [queues EXCEPT ![r] = Append(@, u)]),
             UNCHANGED waiting
      PROVE  Single(queues, waiting)'
  <2> DEFINE q == [queues EXCEPT ![r] = Append(@, u)]
  <2>1. q \in [Robot -> Seq(Task)] /\ r \in Robot
    BY BestType, AppendProperties DEF TypeOK
  <2>2. Single(q, waiting)
    BY <1>1, <2>1, CommitSingle
  <2>3. DispatchNext(r, q)
    BY <1>3
  <2> HIDE DEF q
  <2> QED
    BY <1>3, <2>1, <2>2, <2>3, DispatchNextSingle
<1> QED
  BY <1>1, <1>2, <1>3 DEF Schedule
(* Taking nothing from a robot that has no work changes nothing.           *)
LEMMA TakeNothing ==
  ASSUME TypeOK, NEW r \in Robot, TakeWork(r), recovered' = <<>>
  PROVE  UNCHANGED <<queues, reservations>>
<1>1. \A t : ~Contains(WorkOf(r), t)
  BY NothingTwice DEF TakeWork
<1>2. ~Holds(r) /\ \A t : ~Contains(queues[r], t)
  BY <1>1, WorkOfElements
<1>3. queues[r] = <<>>
  <2>1. queues[r] \in Seq(Task)
    BY DEF TypeOK
  <2>2. Len(queues[r]) = 0
    <3>1. ~(1 \in 1..Len(queues[r]))
      BY <1>2 DEF Contains
    <3> QED
      BY <2>1, <3>1
  <2> QED
    BY <2>1, <2>2
<1> QED
  BY <1>2, <1>3 DEF TakeWork, traffic, TypeOK

LEMMA SingleNext ==
  ASSUME IInv, Single(queues, waiting), recovered = <<>>, recovered' = <<>>, [Next]_vars
  PROVE  Single(queues, waiting)'
<1>1. TypeOK
  BY DEF IInv
<1>2. CASE UNCHANGED <<queues, waiting, reservations>>
  BY <1>2, FewerSingle DEF Holds
<1>3. ASSUME NEW r \in Robot, NEW report \in Reports, NEW t \in Task \cup {None},
             Register(r, report, t)
      PROVE  Single(queues, waiting)'
  <2>1. UNCHANGED <<queues, waiting>>
    BY <1>3 DEF Register
  <2>2. CASE Holds(r) /\ reservations' = [reservations EXCEPT ![r].activated = TRUE]
    <3>1. reservations[r] \in Reservation
      BY <1>1, <2>2, HoldsType
    <3>2. reservations'[r] = [reservations[r] EXCEPT !.activated = TRUE]
      BY <1>1, <2>2 DEF TypeOK
    <3>3. reservations'[r].task = reservations[r].task
      BY ONLY <3>1, <3>2 DEF Reservation
    <3>4. \A s \in Robot : s # r => reservations'[s] = reservations[s]
      BY <1>1, <2>2 DEF TypeOK
    <3> QED
      BY <2>1, <2>2, <3>3, <3>4, FewerSingle DEF Holds
  <2>3. CASE Release(r)
    BY <1>1, <2>1, <2>3, FewerSingle DEF Release, Holds, TypeOK
  <2>4. CASE UNCHANGED traffic
    BY <1>2, <2>1, <2>4 DEF traffic
  <2> QED
    BY <1>3, <2>2, <2>3, <2>4 DEF Register
<1>4. ASSUME NEW r \in Robot, CheckTraffic(r)
      PROVE  Single(queues, waiting)'
  <2>1. Holds(r) /\ UNCHANGED <<queues, waiting>>
    BY <1>4 DEF CheckTraffic, IInv, LoopsOK, registry
  <2>2. \A s \in Robot : s # r => reservations'[s] = reservations[s]
    BY <1>1, <1>4 DEF CheckTraffic, TypeOK
  <2>3. \A s \in Robot : Holds(s) => reservations'[s].task = reservations[s].task
    BY <1>4, CheckTrafficStep
  <2> QED
    BY <2>1, <2>2, <2>3, FewerSingle DEF Holds
<1>5. CASE Message
  BY <1>1, <1>2, <1>3, <1>5, AddTaskSingle, DataAssumption
     DEF Message, Pose, Heartbeat, Silence, traffic
<1>6. CASE Callback
  <2>1. ASSUME NEW r \in Robot, RecoverRobot(r) \/ ReleaseForCharging(r)
        PROVE  Single(queues, waiting)'
    BY <1>1, <1>2, <2>1, TakeNothing DEF RecoverRobot, ReleaseForCharging
  <2>2. ASSUME NEW r \in Robot, Dispatch(r)
        PROVE  Single(queues, waiting)'
    <3>1. DispatchNext(r, queues) /\ waiting' = waiting /\ queues \in [Robot -> Seq(Task)]
      BY <1>1, <2>2 DEF Dispatch, TypeOK
    <3> QED
      BY <1>1, <3>1, DispatchNextSingle
  <2> QED
    BY <1>1, <1>2, <1>4, <1>6, <2>1, <2>2, PlaceWaitingSingle, StealSingle
       DEF Callback, Requeue, HeartbeatsDone, BatteryDone, TrafficDone, DispatchDone,
           WaitingDone, StealDone, registry, traffic
<1> QED
  BY <1>2, <1>5, <1>6 DEF Next, Tick, vars, registry, traffic

(* As long as no work is taken back, a task is in one place.               *)
LEMMA StaysSingle ==
  ASSUME IInv, IInv', SinglePlace, recovered = <<>>, recovered' = <<>>, [Next]_vars
  PROVE  SinglePlace'
<1>1. Single(queues, waiting)'
  BY SingleParts, SingleNext DEF IInv
<1>2. (TypeOK /\ recovered = <<>> => (SinglePlace <=> Single(queues, waiting)))'
  BY SingleParts, PTL
<1> QED
  BY <1>1, <1>2 DEF IInv

(* No robot can fall silent, and none reports that it must charge.         *)
NoTroubles ==
  /\ Failing = {}
  /\ \A report \in Reports : ~report[3] /\ report[2] > CriticalBattery

(* Then no loop of the timer takes work from a robot.                      *)
NothingTaken ==
  /\ recovered = <<>>
  /\ \A r \in Robot : Registered(r) => robots[r].fresh /\ ~NeedsCharge(r)

LEMMA EntryReports ==
  ASSUME NEW e \in Entry, NEW t \in Task \cup {None}, NEW c \in Cell
  PROVE  /\ LET f == [e EXCEPT !.currentTask = t]
            IN  f.fresh = e.fresh /\ f.charging = e.charging /\ f.battery = e.battery
         /\ LET f == [e EXCEPT !.cell = c]
            IN  f.fresh = e.fresh /\ f.charging = e.charging /\ f.battery = e.battery
         /\ LET f == [e EXCEPT !.fresh = TRUE, !.status = "ONLINE"]
            IN  f.fresh /\ f.charging = e.charging /\ f.battery = e.battery
BY DEF Entry

LEMMA DispatchNextReports ==
  ASSUME TypeOK, NothingTaken, NEW r \in Robot, NEW q \in [Robot -> Seq(Task)],
         DispatchNext(r, q), UNCHANGED recovered
  PROVE  NothingTaken'
<1>1. CASE UNCHANGED robots
  BY <1>1 DEF NothingTaken, Registered, NeedsCharge
<1>2. ASSUME NEW i \in BestIndices(q[r]), CanStart(r, q[r][i]),
             robots' = [robots EXCEPT ![r].currentTask = q[r][i]]
      PROVE  NothingTaken'
  <2>1. Registered(r) /\ q[r][i] \in Task
    BY <1>2, BestIndicesType DEF CanStart, Eligible
  <2>2. robots[r] \in Entry
    BY <2>1, RegisteredType
  <2>3. robots'[r] = [robots[r] EXCEPT !.currentTask = q[r][i]]
    BY <1>2 DEF TypeOK
  <2>4. /\ robots'[r].fresh = robots[r].fresh
        /\ robots'[r].charging = robots[r].charging
        /\ robots'[r].battery = robots[r].battery
    BY <2>1, <2>2, <2>3, EntryReports
  <2>5. \A s \in Robot : s # r => robots'[s] = robots[s]
    BY <1>2 DEF TypeOK
  <2> QED
    BY <2>1, <2>4, <2>5 DEF NothingTaken, Registered, NeedsCharge
<1> QED
  BY <1>1, <1>2 DEF DispatchNext

LEMMA NothingTakenNext ==
  ASSUME NoTroubles, IInv, NothingTaken, [Next]_vars
  PROVE  NothingTaken'
<1>1. TypeOK /\ recovered = <<>>
  BY DEF IInv, NothingTaken
<1>2. CASE UNCHANGED <<robots, recovered>>
  BY <1>2 DEF NothingTaken, Registered, NeedsCharge
<1>3. ASSUME NEW r \in Robot, NEW new, UNCHANGED recovered,
             robots' = [robots EXCEPT ![r] = new],
             new.fresh /\ ~new.charging /\ ~(new.battery <= CriticalBattery)
      PROVE  NothingTaken'
  BY <1>1, <1>3 DEF NothingTaken, Registered, NeedsCharge, TypeOK
<1>4. ASSUME NEW r \in Robot, NEW report \in Reports, NEW t \in Task \cup {None},
             Register(r, report, t)
      PROVE  NothingTaken'
  <2> DEFINE new == [status |-> report[1], currentTask |-> t, fresh |-> TRUE,
                     battery |-> report[2], charging |-> report[3],
                     cell |-> IF Registered(r) THEN robots[r].cell ELSE None]
  <2>1. robots' = [robots EXCEPT ![r] = new] /\ UNCHANGED recovered
    BY <1>4 DEF Register, control
  <2>2. ~report[3] /\ ~(report[2] <= CriticalBattery)
    BY DataAssumption, ThresholdAssumption DEF NoTroubles
  <2>3. new.fresh /\ ~new.charging /\ ~(new.battery <= CriticalBattery)
    BY <2>2
  <2> HIDE DEF new
  <2> QED
    BY <1>3, <2>1, <2>3
<1>5. ASSUME NEW r \in Robot, Registered(r)
      PROVE  /\ robots[r] \in Entry
             /\ robots[r].fresh /\ ~robots[r].charging /\ ~(robots[r].battery <= CriticalBattery)
  BY <1>1, <1>5, RegisteredType DEF NothingTaken, NeedsCharge
<1>6. ASSUME NEW r \in Robot, NEW c \in Cell, Pose(r, c)
      PROVE  NothingTaken'
  <2> DEFINE new == [robots[r] EXCEPT !.cell = c]
  <2>1. robots' = [robots EXCEPT ![r] = new] /\ UNCHANGED recovered /\ Registered(r)
    BY <1>6 DEF Pose, control
  <2>2. new.fresh /\ ~new.charging /\ ~(new.battery <= CriticalBattery)
    BY <1>5, <2>1, EntryReports
  <2> HIDE DEF new
  <2> QED
    BY <1>3, <2>1, <2>2
<1>7. ASSUME NEW r \in Robot, Heartbeat(r)
      PROVE  NothingTaken'
  <2> DEFINE new == [robots[r] EXCEPT !.fresh = TRUE, !.status = "ONLINE"]
  <2>1. robots' = [robots EXCEPT ![r] = new] /\ UNCHANGED recovered /\ Registered(r)
    BY <1>1, <1>7 DEF Heartbeat, control, TypeOK
  <2>2. new.fresh /\ ~new.charging /\ ~(new.battery <= CriticalBattery)
    BY <1>5, <2>1, EntryReports
  <2> HIDE DEF new
  <2> QED
    BY <1>3, <2>1, <2>2
<1>8. ASSUME NEW t \in Task, AddTask(t)
      PROVE  NothingTaken'
  <2>1. ASSUME NEW r \in Best(t), DispatchNext(r, [queues EXCEPT ![r] = Append(@, t)]),
               UNCHANGED recovered
        PROVE  NothingTaken'
    <3>1. [queues EXCEPT ![r] = Append(@, t)] \in [Robot -> Seq(Task)]
      BY <1>1, AppendProperties, BestType DEF TypeOK
    <3> QED
      BY <1>1, <2>1, <3>1, BestType, DispatchNextReports
  <2> QED
    BY <1>2, <1>8, <2>1 DEF AddTask, Schedule, control
<1>9. CASE Message
  BY <1>4, <1>6, <1>7, <1>8, <1>9 DEF Message, NoTroubles
<1>10. CASE Callback
  <2>1. \A r \in Robot : ~RecoverRobot(r) /\ ~ReleaseForCharging(r)
    BY DEF RecoverRobot, TimedOut, ReleaseForCharging, MustRelease, NothingTaken
  <2>2. ASSUME NEW r \in Robot, Dispatch(r)
        PROVE  NothingTaken'
    BY <1>1, <2>2, DispatchNextReports DEF Dispatch, TypeOK
  <2>3. ASSUME NEW r \in Robot, Steal(r)
        PROVE  NothingTaken'
    <3>1. PICK d \in Donors(r) : \E i \in BestIndices(queues[d]) :
            DispatchNext(r, [queues EXCEPT ![d] = RemoveAt(@, i), ![r] = <<queues[d][i]>>])
      BY <2>3 DEF Steal
    <3>2. PICK i \in BestIndices(queues[d]) :
            DispatchNext(r, [queues EXCEPT ![d] = RemoveAt(@, i), ![r] = <<queues[d][i]>>])
      BY <3>1
    <3>3. d \in Robot /\ queues \in [Robot -> Seq(Task)]
      BY <1>1 DEF Donors, TypeOK
    <3>4. RemoveAt(queues[d], i) \in Seq(Task) /\ <<queues[d][i]>> \in Seq(Task)
      BY <3>3, BestIndicesType, RemoveAtType
    <3>5. [queues EXCEPT ![d] = RemoveAt(@, i), ![r] = <<queues[d][i]>>] \in [Robot -> Seq(Task)]
      BY <3>3, <3>4
    <3> QED
      BY <1>1, <2>3, <3>2, <3>5, DispatchNextReports DEF Steal
  <2>4. CASE PlaceWaiting
    <3>1. UNCHANGED recovered /\ waiting[index] \in Task
      BY <1>1, <2>4 DEF PlaceWaiting, TypeOK
    <3>2. ASSUME NEW r \in Best(waiting[index]),
                 DispatchNext(r, [queues EXCEPT ![r] = Append(@, waiting[index])])
          PROVE  NothingTaken'
      <4>1. [queues EXCEPT ![r] = Append(@, waiting[index])] \in [Robot -> Seq(Task)]
        BY <1>1, <3>1, AppendProperties, BestType DEF TypeOK
      <4> QED
        BY <1>1, <3>1, <3>2, <4>1, BestType, DispatchNextReports
    <3> QED
      BY <1>2, <2>4, <3>1, <3>2 DEF PlaceWaiting, registry
  <2> QED
    BY <1>1, <1>2, <1>10, <2>1, <2>2, <2>3, <2>4
       DEF Callback, Requeue, CheckTraffic, HeartbeatsDone, BatteryDone, TrafficDone,
           DispatchDone, WaitingDone, StealDone, registry
<1> QED
  BY <1>2, <1>9, <1>10 DEF Next, Tick, vars, registry, control

(* When robots neither fall silent nor have to charge, a task is always in *)
(* one place: a queue, the waiting pool, or one robot's reservation        *)
(* (_dispatch_next, _rebalance and _check_reservation_release).            *)
THEOREM TasksInOnePlace == NoTroubles => (Spec => []SinglePlace)
<1> SUFFICES ASSUME NoTroubles PROVE Spec => []SinglePlace
  OBVIOUS
<1>1. Init => NothingTaken /\ SinglePlace
  <2> SUFFICES ASSUME Init PROVE NothingTaken /\ SinglePlace
    OBVIOUS
  <2>1. TypeOK /\ recovered = <<>>
    BY InitInv DEF IInv, Init
  <2>2. Single(queues, waiting)
    BY NothingTwice
       DEF Init, Holds, Single, OnceQueued, QueuedApart, ReservedApart
  <2>3. NothingTaken
    BY DEF Init, NothingTaken, Registered
  <2> QED
    BY <2>1, <2>2, <2>3, SingleParts
<1>2. IInv /\ IInv' /\ NothingTaken /\ SinglePlace /\ [Next]_vars
        => NothingTaken' /\ SinglePlace'
  <2> SUFFICES ASSUME IInv, IInv', NothingTaken, SinglePlace, [Next]_vars
               PROVE  NothingTaken' /\ SinglePlace'
    OBVIOUS
  <2>1. NothingTaken'
    BY NothingTakenNext
  <2> QED
    BY <2>1, StaysSingle DEF NothingTaken
<1> QED
  BY <1>1, <1>2, Invariant, PTL DEF Spec

(* As long as robots neither fall silent nor have to charge, a task never  *)
(* has two reservations (_dispatch_next): what the run that violates this  *)
(* shows cannot happen without one of the two.                             *)
THEOREM OneReservation == NoTroubles => (Spec => []OneReservationPerTask)
<1> SUFFICES ASSUME NoTroubles PROVE Spec => []OneReservationPerTask
  OBVIOUS
<1>1. IInv /\ SinglePlace => OneReservationPerTask
  <2> SUFFICES ASSUME IInv, SinglePlace,
                      NEW r \in Robot, NEW s \in Robot \ {r}, Holds(r), Holds(s)
               PROVE  reservations[r].task # reservations[s].task
    BY DEF OneReservationPerTask
  <2>1. /\ Contains(WorkOf(r), reservations[r].task)
        /\ Contains(WorkOf(s), reservations[s].task)
    BY WorkOfElements DEF IInv
  <2>2. reservations[r].task \in Task
    BY HoldsFields DEF IInv
  <2> QED
    BY <2>1, <2>2 DEF SinglePlace
<1> QED
  BY <1>1, Invariant, TasksInOnePlace, PTL


-----------------------------------------------------------------------------
(* What a step, other than a registration, does to r's reservation: it may *)
(* be a new one, which is not activated, or the one it was.                *)
Steady(r) ==
  Holds(r)' =>
    IF Holds(r) THEN /\ reservations'[r].task = reservations[r].task
                     /\ reservations'[r].activated = reservations[r].activated
                ELSE ~reservations'[r].activated

LEMMA SameSteady ==
  ASSUME NEW r, reservations'[r] = reservations[r]
  PROVE  Steady(r)
BY DEF Steady, Holds

LEMMA DispatchNextSteady ==
  ASSUME TypeOK, NEW r \in Robot, NEW q, DispatchNext(r, q)
  PROVE  \A s \in Robot : Steady(s) /\ (Holds(s) => Holds(s)')
<1>1. CASE UNCHANGED traffic
  BY <1>1, SameSteady DEF traffic, Holds
<1>2. ASSUME NEW i, CanStart(r, q[r][i]),
             reservations' = [reservations EXCEPT ![r] =
               [task |-> q[r][i], index |-> 1, reserved |-> InitialWindow(q[r][i]),
                activated |-> FALSE]]
      PROVE  \A s \in Robot : Steady(s) /\ (Holds(s) => Holds(s)')
  <2>1. ~Holds(r) /\ ~reservations'[r].activated
    BY <1>2 DEF CanStart, TypeOK
  <2>2. \A s \in Robot : s # r => reservations'[s] = reservations[s]
    BY <1>2 DEF TypeOK
  <2> QED
    BY <2>1, <2>2, SameSteady DEF Steady, Holds
<1> QED
  BY <1>1, <1>2 DEF DispatchNext

LEMMA ScheduleSteady ==
  ASSUME TypeOK, NEW t, NEW also, Schedule(t, also)
  PROVE  \A s \in Robot : Steady(s) /\ (Holds(s) => Holds(s)')
<1>1. CASE UNCHANGED traffic
  BY <1>1, SameSteady DEF traffic, Holds
<1>2. CASE \E r \in Best(t) : DispatchNext(r, [queues EXCEPT ![r] = Append(@, t)])
  BY <1>2, BestType, DispatchNextSteady
<1> QED
  BY <1>1, <1>2 DEF Schedule

LEMMA TakeWorkSteady ==
  ASSUME TypeOK, NEW r \in Robot, TakeWork(r)
  PROVE  \A s \in Robot : Steady(s) /\ (Holds(s) /\ s # r => Holds(s)')
<1>1. \A s \in Robot : s # r => reservations'[s] = reservations[s]
  BY DEF TakeWork, Release, traffic, TypeOK
<1>2. ~Holds(r)'
  BY DEF TakeWork, Release, traffic, TypeOK, Holds
<1> QED
  BY <1>1, <1>2, SameSteady DEF Steady, Holds

LEMMA CheckTrafficSteady ==
  ASSUME IInv, NEW r \in Robot, CheckTraffic(r)
  PROVE  \A s \in Robot : Steady(s) /\ (Holds(s) => Holds(s)')
<1>1. \A s \in Robot : s # r => reservations'[s] = reservations[s]
  BY DEF CheckTraffic, IInv, TypeOK
<1>2. PICK cur, window : reservations' = [reservations EXCEPT ![r].index = cur,
                                            ![r].reserved = window]
  BY DEF CheckTraffic
<1>3. Holds(r) /\ reservations[r] \in Reservation
  BY HoldsType DEF CheckTraffic, IInv, LoopsOK
<1>4. reservations'[r] = [reservations[r] EXCEPT !.index = cur, !.reserved = window]
  BY <1>2 DEF IInv, TypeOK
<1>5. reservations'[r].activated = reservations[r].activated
  BY ONLY <1>3, <1>4 DEF Reservation
<1>6. Holds(r)' /\ reservations'[r].task = reservations[r].task
  BY <1>3, CheckTrafficStep
<1> QED
  BY <1>1, <1>3, <1>5, <1>6, SameSteady DEF Steady, Holds

LEMMA AddTaskSteady ==
  ASSUME IInv, NEW t, AddTask(t)
  PROVE  \A s \in Robot : Steady(s) /\ (Holds(s) => Holds(s)')
BY ScheduleSteady DEF AddTask, IInv

(* In a callback it may also be taken away: by _recover_robot, or by       *)
(* _check_battery.                                                         *)
LEMMA CallbackSteady ==
  ASSUME IInv, Callback
  PROVE  \A s \in Robot : /\ Steady(s)
                          /\ Holds(s) => Holds(s)' \/ RecoverRobot(s) \/ ReleaseForCharging(s)
<1>1. TypeOK
  BY DEF IInv
<1>2. CASE UNCHANGED traffic
  BY <1>2, SameSteady DEF traffic, Holds
<1>3. ASSUME NEW r \in Robot, RecoverRobot(r) \/ ReleaseForCharging(r)
      PROVE  \A s \in Robot : /\ Steady(s)
                              /\ Holds(s) => Holds(s)' \/ RecoverRobot(s) \/ ReleaseForCharging(s)
  BY <1>1, <1>3, TakeWorkSteady DEF RecoverRobot, ReleaseForCharging
<1>4. CASE Requeue
  BY <1>1, <1>2, <1>4, ScheduleSteady DEF Requeue
<1>5. CASE \E r \in Robot : CheckTraffic(r)
  BY <1>5, CheckTrafficSteady
<1>6. CASE \E r \in Robot : Dispatch(r) \/ Steal(r)
  BY <1>1, <1>6, DispatchNextSteady DEF Dispatch, Steal
<1>7. CASE PlaceWaiting
  BY <1>1, <1>2, <1>7, BestType, DispatchNextSteady DEF PlaceWaiting
<1> QED
  BY <1>2, <1>3, <1>4, <1>5, <1>6, <1>7
     DEF Callback, HeartbeatsDone, BatteryDone, TrafficDone, DispatchDone, WaitingDone, StealDone

(* What a registration does to the robot's own reservation.                *)
LEMMA RegisterReservation ==
  ASSUME TypeOK, NEW r \in Robot, NEW report, NEW t, Register(r, report, t)
  PROVE  /\ \A s \in Robot : s # r => reservations'[s] = reservations[s]
         /\ \/ /\ Holds(r) /\ reservations[r].task = t
               /\ Holds(r)' /\ reservations'[r].task = t /\ reservations'[r].activated
            \/ Holds(r) /\ t = None /\ reservations[r].activated /\ ~Holds(r)'
            \/ /\ reservations'[r] = reservations[r]
               /\ Holds(r) => /\ reservations[r].task # t
                              /\ t = None => ~reservations[r].activated
<1>1. CASE /\ Holds(r) /\ reservations[r].task = t
           /\ reservations' = [reservations EXCEPT ![r].activated = TRUE]
  <2>1. reservations[r] \in Reservation
    BY <1>1, HoldsType
  <2>2. reservations'[r] = [reservations[r] EXCEPT !.activated = TRUE]
    BY <1>1 DEF TypeOK
  <2>3. reservations'[r].task = reservations[r].task /\ reservations'[r].activated
    BY ONLY <2>1, <2>2 DEF Reservation
  <2>4. reservations'[r] \in Reservation
    BY ONLY <2>1, <2>2 DEF Reservation
  <2>5. \A s \in Robot : s # r => reservations'[s] = reservations[s]
    BY <1>1 DEF TypeOK
  <2> QED
    BY <1>1, <2>3, <2>4, <2>5, NoneAssumption DEF Holds
<1>2. CASE Holds(r) /\ t = None /\ reservations[r].activated /\ Release(r)
  BY <1>2 DEF Release, TypeOK, Holds
<1>3. CASE /\ Holds(r) => /\ reservations[r].task # t
                          /\ t = None => ~reservations[r].activated
           /\ UNCHANGED traffic
  BY <1>3 DEF traffic
<1> QED
  BY <1>1, <1>2, <1>3 DEF Register
-----------------------------------------------------------------------------
(* The tasks that are somewhere in the fleet manager are the accepted      *)
(* ones, when each is in one place: a registration that ends a reservation *)
(* takes the task from the accepted ones and from its place.               *)
KnownTasks == \A t \in Task : TaskExists(t) => t \in accepted

LEMMA RemovedFrom ==
  ASSUME NEW s \in Seq(Task), NEW i \in 1..Len(s), NEW t, Contains(RemoveAt(s, i), t)
  PROVE  Contains(s, t)
<1> DEFINE u == RemoveAt(s, i)
<1>1. /\ u \in Seq(Task) /\ Len(u) = Len(s) - 1
      /\ \A j \in 1..(Len(s) - 1) : u[j] = IF j < i THEN s[j] ELSE s[j + 1]
  BY RemoveAtElements
<1>2. Contains(u, t)
  OBVIOUS
<1> HIDE DEF u
<1>3. PICK j \in 1..Len(u) : u[j] = t
  BY <1>2 DEF Contains
<1>4. (j \in 1..Len(s) /\ s[j] = t) \/ (j + 1 \in 1..Len(s) /\ s[j + 1] = t)
  BY <1>1, <1>3
<1> QED
  BY <1>4 DEF Contains

(* Where a task that is committed after a step was before.                 *)
LEMMA DispatchNextFrom ==
  ASSUME TypeOK, NEW r \in Robot, NEW q \in [Robot -> Seq(Task)], DispatchNext(r, q),
         NEW t, Committed(t, queues)'
  PROVE  Committed(t, q)
<1>1. PICK s \in Robot : (Holds(s)' /\ reservations'[s].task = t) \/ Contains(queues'[s], t)
  BY DEF Committed, Reserved, Contains
<1>2. CASE queues' = q /\ UNCHANGED <<robots, traffic>>
  BY <1>1, <1>2 DEF Committed, Reserved, traffic, Holds
<1>3. ASSUME NEW i \in BestIndices(q[r]), CanStart(r, q[r][i]),
             queues' = [q EXCEPT ![r] = RemoveAt(@, i)],
             reservations' = [reservations EXCEPT ![r] =
               [task |-> q[r][i], index |-> 1, reserved |-> InitialWindow(q[r][i]),
                activated |-> FALSE]]
      PROVE  Committed(t, q)
  <2>1. i \in 1..Len(q[r]) /\ q[r] \in Seq(Task)
    BY BestIndicesType
  <2>2. CASE Contains(queues'[s], t)
    <3>1. queues'[s] = IF s = r THEN RemoveAt(q[r], i) ELSE q[s]
      BY <1>3
    <3>2. Contains(q[s], t)
      BY <2>1, <2>2, <3>1, RemovedFrom
    <3> QED
      BY <3>2 DEF Committed
  <2>3. CASE s = r /\ reservations'[s].task = t
    <3>1. t = q[r][i]
      BY <1>3, <2>3 DEF TypeOK
    <3>2. Contains(q[r], t)
      BY <2>1, <3>1 DEF Contains
    <3> QED
      BY <3>2 DEF Committed
  <2>4. CASE s # r /\ Holds(s)' /\ reservations'[s].task = t
    BY <1>3, <2>4 DEF Committed, Reserved, Holds, TypeOK
  <2> QED
    BY <1>1, <2>2, <2>3, <2>4
<1> QED
  BY <1>2, <1>3 DEF DispatchNext

LEMMA CommitFrom ==
  ASSUME TypeOK, NEW r \in Robot, NEW u \in Task, NEW t,
         Committed(t, [queues EXCEPT ![r] = Append(@, u)])
  PROVE  Committed(t, queues) \/ t = u
<1> DEFINE q == [queues EXCEPT ![r] = Append(@, u)]
<1>1. queues[r] \in Seq(Task) /\ q[r] = Append(queues[r], u)
  BY DEF TypeOK
<1>2. \A s \in Robot : s # r => q[s] = queues[s]
  BY DEF TypeOK
<1> HIDE DEF q
<1>3. Contains(q[r], t) => Contains(queues[r], t) \/ t = u
  BY <1>1, AppendOnce
<1>4. Committed(t, q)
  BY DEF q
<1> QED
  BY <1>2, <1>3, <1>4 DEF Committed

LEMMA ScheduleFrom ==
  ASSUME TypeOK, NEW u \in Task, Schedule(u, <<>>), NEW t, TaskExists(t)'
  PROVE  TaskExists(t) \/ t = u
<1>1. Committed(t, queues)' \/ Contains(waiting', t)
  BY TaskExistsParts DEF TaskExists, Committed, Reserved, Contains
<1>2. CASE waiting' = Append(waiting, u) \o <<>> /\ UNCHANGED <<robots, queues, traffic>>
  <2>1. waiting \in Seq(Task) /\ Append(waiting, u) \in Seq(Task)
    BY AppendProperties DEF TypeOK
  <2>2. waiting' = Append(waiting, u)
    BY <1>2, <2>1, ConcatEmptySeq
  <2>3. Contains(waiting', t) => Contains(waiting, t) \/ t = u
    BY <2>1, <2>2, AppendOnce
  <2>4. Committed(t, queues)' => Committed(t, queues)
    BY <1>2 DEF Committed, Reserved, Holds, traffic, Contains
  <2> QED
    BY <1>1, <2>3, <2>4, TaskExistsParts
<1>3. ASSUME NEW r \in Best(u), DispatchNext(r, [queues EXCEPT ![r] = Append(@, u)]),
             UNCHANGED waiting
      PROVE  TaskExists(t) \/ t = u
  <2> DEFINE q == [queues EXCEPT ![r] = Append(@, u)]
  <2>1. q \in [Robot -> Seq(Task)] /\ r \in Robot
    BY BestType, AppendProperties DEF TypeOK
  <2>2. Committed(t, queues)' => Committed(t, q)
    BY <1>3, <2>1, DispatchNextFrom
  <2>3. Committed(t, q) => Committed(t, queues) \/ t = u
    BY <2>1, CommitFrom
  <2> QED
    BY <1>1, <1>3, <2>2, <2>3, TaskExistsParts
<1> QED
  BY <1>2, <1>3 DEF Schedule

LEMMA PlaceWaitingFrom ==
  ASSUME TypeOK, PlaceWaiting, NEW t, TaskExists(t)'
  PROVE  TaskExists(t)
<1>1. Committed(t, queues)' \/ Contains(waiting', t)
  BY TaskExistsParts DEF TaskExists, Committed, Reserved, Contains
<1>2. index \in 1..Len(waiting) /\ waiting \in Seq(Task) /\ waiting[index] \in Task
  BY DEF PlaceWaiting, TypeOK
<1>3. CASE UNCHANGED <<registry, traffic>>
  BY <1>1, <1>3, TaskExistsParts DEF Committed, Reserved, Holds, registry, traffic, Contains
<1>4. ASSUME NEW r \in Best(waiting[index]),
             DispatchNext(r, [queues EXCEPT ![r] = Append(@, waiting[index])]),
             waiting' = RemoveAt(waiting, index)
      PROVE  TaskExists(t)
  <2> DEFINE u == waiting[index]
             q == [queues EXCEPT ![r] = Append(@, u)]
  <2>1. q \in [Robot -> Seq(Task)] /\ r \in Robot
    BY <1>2, BestType, AppendProperties DEF TypeOK
  <2>2. Contains(waiting, u)
    BY <1>2 DEF Contains
  <2>3. Contains(waiting', t) => Contains(waiting, t)
    BY <1>2, <1>4, RemovedFrom
  <2>4. Committed(t, queues)' => Committed(t, q)
    BY <1>4, <2>1, DispatchNextFrom
  <2>5. Committed(t, q) => Committed(t, queues) \/ t = u
    BY <1>2, <2>1, CommitFrom
  <2> QED
    BY <1>1, <2>2, <2>3, <2>4, <2>5, TaskExistsParts
<1> QED
  BY <1>3, <1>4 DEF PlaceWaiting

LEMMA StealFrom ==
  ASSUME TypeOK, NEW r \in Robot, Steal(r), NEW t, TaskExists(t)'
  PROVE  TaskExists(t)
<1>1. Committed(t, queues)' \/ Contains(waiting, t)
  BY TaskExistsParts DEF TaskExists, Committed, Reserved, Contains, Steal
<1>2. PICK d \in Donors(r) : \E i \in BestIndices(queues[d]) :
        DispatchNext(r, [queues EXCEPT ![d] = RemoveAt(@, i), ![r] = <<queues[d][i]>>])
  BY DEF Steal
<1>3. PICK i \in BestIndices(queues[d]) :
        DispatchNext(r, [queues EXCEPT ![d] = RemoveAt(@, i), ![r] = <<queues[d][i]>>])
  BY <1>2
<1> DEFINE u == queues[d][i]
           q == [queues EXCEPT ![d] = RemoveAt(@, i), ![r] = <<u>>]
<1>4. d \in Robot /\ d # r /\ queues \in [Robot -> Seq(Task)]
  BY DEF Donors, Steal, CanSteal, TypeOK
<1>5. i \in 1..Len(queues[d]) /\ u \in Task /\ Contains(queues[d], u)
  <2>1. i \in 1..Len(queues[d]) /\ u \in Task
    BY <1>4, BestIndicesType
  <2> QED
    BY <2>1 DEF Contains
<1>6. RemoveAt(queues[d], i) \in Seq(Task) /\ <<u>> \in Seq(Task)
  BY <1>4, <1>5, RemoveAtType
<1>7. /\ q \in [Robot -> Seq(Task)]
      /\ q[d] = RemoveAt(queues[d], i) /\ q[r] = <<u>>
      /\ \A s \in Robot : s # d /\ s # r => q[s] = queues[s]
  BY <1>4, <1>6
<1>8. Contains(q[r], t) => t = u
  BY <1>6, <1>7 DEF Contains
<1>9. Contains(q[d], t) => Contains(queues[d], t)
  BY <1>4, <1>5, <1>7, RemovedFrom
<1>10. DispatchNext(r, q)
  BY <1>3
<1> HIDE DEF q, u
<1>11. Committed(t, queues)' => Committed(t, q)
  BY <1>7, <1>10, DispatchNextFrom
<1>12. Committed(t, q) => Committed(t, queues)
  BY <1>4, <1>5, <1>7, <1>8, <1>9 DEF Committed
<1> QED
  BY <1>1, <1>11, <1>12, TaskExistsParts

LEMMA KnownNext ==
  ASSUME IInv, Single(queues, waiting), recovered = <<>>, recovered' = <<>>, KnownTasks,
         [Next]_vars
  PROVE  KnownTasks'
<1> SUFFICES ASSUME NEW t \in Task, TaskExists(t)' PROVE t \in accepted'
  BY DEF KnownTasks
<1>1. TypeOK /\ (TaskExists(t) => t \in accepted)
  BY DEF IInv, KnownTasks
<1>2. CASE UNCHANGED <<queues, waiting, reservations, accepted>>
  BY <1>1, <1>2 DEF TaskExists, Holds, Contains
<1>3. ASSUME NEW r \in Robot, NEW report \in Reports, NEW u \in Task \cup {None},
             Register(r, report, u)
      PROVE  t \in accepted'
  <2>1. UNCHANGED <<queues, waiting>>
    BY <1>3 DEF Register
  <2>2. CASE Holds(r) /\ reservations[r].task = u
             /\ reservations' = [reservations EXCEPT ![r].activated = TRUE]
             /\ UNCHANGED <<cellOwners, accepted, control>>
    <3>1. reservations[r] \in Reservation
      BY <1>1, <2>2, HoldsType
    <3>2. reservations'[r] = [reservations[r] EXCEPT !.activated = TRUE]
      BY <1>1, <2>2 DEF TypeOK
    <3>3. reservations'[r].task = reservations[r].task
      BY ONLY <3>1, <3>2 DEF Reservation
    <3>4. \A s \in Robot : s # r => reservations'[s] = reservations[s]
      BY <1>1, <2>2 DEF TypeOK
    <3>5. TaskExists(t)
      BY <2>1, <2>2, <3>3, <3>4 DEF TaskExists, Holds, Contains
    <3> QED
      BY <1>1, <2>2, <3>5
  <2>3. CASE Holds(r) /\ accepted' = accepted \ {reservations[r].task} /\ Release(r)
    <3> DEFINE done == reservations[r].task
    <3>1. /\ \A s \in Robot : s # r => reservations'[s] = reservations[s]
          /\ ~Holds(r)'
      BY <1>1, <2>3 DEF Release, TypeOK, Holds
    <3>2. TaskExists(t)
      BY <2>1, <3>1 DEF TaskExists, Holds, Contains
    <3>3. /\ ~Contains(waiting, done) /\ \A s \in Robot : ~Contains(queues[s], done)
          /\ \A s \in Robot \ {r} : Holds(s) => reservations[s].task # done
      <4>1. Reserved(done) /\ done \in Task
        BY <1>1, <2>3, HoldsFields DEF Reserved
      <4> QED
        BY <2>3, <4>1 DEF Single, QueuedApart, ReservedApart
    <3>4. t # done
      BY <2>1, <3>1, <3>3 DEF TaskExists, Holds, Contains
    <3> QED
      BY <1>1, <2>3, <3>2, <3>4
  <2>4. CASE UNCHANGED <<traffic, accepted, control>>
    BY <1>2, <2>1, <2>4 DEF traffic
  <2> QED
    BY <1>3, <2>2, <2>3, <2>4 DEF Register
<1>4. ASSUME NEW u \in Task, AddTask(u) PROVE t \in accepted'
  BY <1>1, <1>4, ScheduleFrom DEF AddTask
<1>5. ASSUME NEW r \in Robot, CheckTraffic(r) PROVE t \in accepted'
  <2>1. Holds(r) /\ UNCHANGED <<queues, waiting, accepted>>
    BY <1>5 DEF CheckTraffic, IInv, LoopsOK, registry
  <2>2. \A s \in Robot : s # r => reservations'[s] = reservations[s]
    BY <1>1, <1>5 DEF CheckTraffic, TypeOK
  <2>3. \A s \in Robot : Holds(s) => reservations'[s].task = reservations[s].task
    BY <1>5, CheckTrafficStep
  <2>4. TaskExists(t)
    BY <2>1, <2>2, <2>3 DEF TaskExists, Holds, Contains
  <2> QED
    BY <1>1, <2>1, <2>4
<1>6. CASE Message
  BY <1>2, <1>3, <1>4, <1>6, DataAssumption DEF Message, Pose, Heartbeat, Silence, traffic
<1>7. CASE Callback
  <2>1. ASSUME NEW r \in Robot, RecoverRobot(r) \/ ReleaseForCharging(r)
        PROVE  t \in accepted'
    BY <1>1, <1>2, <2>1, TakeNothing DEF RecoverRobot, ReleaseForCharging
  <2>2. ASSUME NEW r \in Robot, Dispatch(r) PROVE t \in accepted'
    <3>1. /\ DispatchNext(r, queues) /\ queues \in [Robot -> Seq(Task)]
          /\ UNCHANGED <<waiting, accepted>>
      BY <1>1, <2>2 DEF Dispatch, TypeOK
    <3>2. Committed(t, queues)' \/ Contains(waiting, t)
      BY <3>1 DEF TaskExists, Committed, Reserved, Contains
    <3> QED
      BY <1>1, <3>1, <3>2, DispatchNextFrom, TaskExistsParts
  <2>3. CASE PlaceWaiting
    <3>1. accepted' = accepted
      BY <2>3 DEF PlaceWaiting, registry
    <3> QED
      BY <1>1, <2>3, <3>1, PlaceWaitingFrom
  <2>4. ASSUME NEW r \in Robot, Steal(r) PROVE t \in accepted'
    BY <1>1, <2>4, StealFrom DEF Steal
  <2> QED
    BY <1>2, <1>5, <1>7, <2>1, <2>2, <2>3, <2>4
       DEF Callback, Requeue, HeartbeatsDone, BatteryDone, TrafficDone, DispatchDone,
           WaitingDone, StealDone, registry, traffic
<1> QED
  BY <1>2, <1>6, <1>7 DEF Next, Tick, vars, registry, traffic

(***************************************************************************)
(* The loops of a callback end                                             *)
(***************************************************************************)

(* The loops run in this order, those of _rebalance together.              *)
Phase ==
  IF pc = "heartbeats" THEN 4 ELSE IF pc = "battery" THEN 3 ELSE IF pc = "traffic" THEN 2
  ELSE IF pc = "idle" THEN 0 ELSE 1

(* The robots the loop has still to visit; in _rebalance, those it may     *)
(* still dispatch a task to.                                               *)
Open ==
  IF pc = "heartbeats" THEN {r \in Robot : TimedOut(r)}
  ELSE IF pc = "battery" THEN {r \in Robot : MustRelease(r)}
  ELSE IF pc = "traffic" THEN visit
  ELSE {r \in Robot : ~Holds(r)}

(* The tasks it has still to place.                                        *)
Unplaced == IF pc \in {"heartbeats", "battery"} THEN Len(recovered) ELSE Len(waiting)

(* The robots that _rebalance may still find other robots' work for.       *)
Idle == {r \in Robot : ~Busy(r) /\ queues[r] = <<>>}

(* The loops of _rebalance that are left, and the round after this one.    *)
Stage ==
  (IF progress THEN 3 ELSE 0) +
  (IF pc = "dispatch" THEN 3 ELSE IF pc = "waiting" THEN 2 ELSE IF pc = "steal" THEN 1 ELSE 0)

Rest == IF index <= Len(waiting) THEN Len(waiting) + 1 - index ELSE 0

(* What a callback has still to do.                                        *)
WorkLeft == <<Phase, Cardinality(Open), Unplaced, Cardinality(Idle), Stage, Rest>>

Below == {p \in Nat \X Nat : p[1] < p[2]}

(* Lexicographic order: less is left.                                      *)
Less == LexProductOrdering(Below, Nat, 6)

LEMMA LessWellFounded == IsWellFoundedOn(Less, [1..6 -> Nat])
<1>1. IsWellFoundedOn(OpToRel(<, Nat), Nat)
  BY NatLessThanWellFounded
<1>2. OpToRel(<, Nat) = Below
  BY DEF OpToRel, Below
<1>3. IsWellFoundedOn(Below, Nat)
  BY <1>1, <1>2
<1>4. 6 \in Nat
  OBVIOUS
<1> QED
  BY <1>3, <1>4, WFLexProductOrdering DEF Less

(* A step that leaves less to do, from the first component to the last.    *)
Descends ==
  \/ Phase' < Phase
  \/ /\ Phase' = Phase /\ Open' \subseteq Open
     /\ \/ Open' # Open \/ Unplaced' < Unplaced
        \/ /\ Unplaced' = Unplaced /\ Idle' \subseteq Idle
           /\ \/ Idle' # Idle \/ Stage' < Stage
              \/ Stage' = Stage /\ Rest' < Rest

LEMMA Fewer ==
  ASSUME IsFiniteSet(Robot), NEW S \in SUBSET Robot, NEW T \in SUBSET S
  PROVE  /\ Cardinality(S) \in Nat /\ Cardinality(T) \in Nat
         /\ Cardinality(T) <= Cardinality(S)
         /\ T # S => Cardinality(T) < Cardinality(S)
<1>1. IsFiniteSet(S)
  BY FS_Subset
<1>2. IsFiniteSet(T) /\ Cardinality(T) <= Cardinality(S) /\ (Cardinality(S) = Cardinality(T) => S = T)
  BY <1>1, FS_Subset
<1> QED
  BY <1>1, <1>2, FS_CardinalityType

Measured ==
  /\ Phase \in Nat /\ Open \in SUBSET Robot /\ Unplaced \in Nat
  /\ Idle \in SUBSET Robot /\ Stage \in Nat /\ Rest \in Nat

LEMMA IsMeasured == TypeOK => Measured
<1> SUFFICES ASSUME TypeOK PROVE Measured
  OBVIOUS
<1>1. Len(waiting) \in Nat /\ Len(recovered) \in Nat /\ index \in Nat
  BY DEF TypeOK
<1>2. Open \in SUBSET Robot /\ Idle \in SUBSET Robot
  BY DEF TypeOK, Open, Idle
<1> QED
  BY <1>1, <1>2 DEF Measured, Phase, Unplaced, Stage, Rest

LEMMA InLess ==
  ASSUME NEW a \in [1..6 -> Nat], NEW b \in [1..6 -> Nat],
         \E j \in 1..6 : (\A i \in 1..(j - 1) : a[i] = b[i]) /\ a[j] < b[j]
  PROVE  <<a, b>> \in Less
<1>1. PICK j \in 1..6 : (\A i \in 1..(j - 1) : a[i] = b[i]) /\ a[j] < b[j]
  OBVIOUS
<1>2. <<a[j], b[j]>> \in Below
  BY <1>1 DEF Below
<1>3. PICK ff : ff = <<a, b>>
  OBVIOUS
<1>4. ff[1] = a /\ ff[2] = b /\ ff \in [1..6 -> Nat] \X [1..6 -> Nat]
  BY <1>3
<1>5. ff \in Less
  BY <1>1, <1>2, <1>4 DEF Less, LexProductOrdering
<1> QED
  BY <1>3, <1>5

LEMMA DescendsIsLess ==
  ASSUME IsFiniteSet(Robot), TypeOK, TypeOK', Descends
  PROVE  <<WorkLeft', WorkLeft>> \in Less
<1>1. Measured /\ Measured'
  <2>1. TypeOK' => Measured'
    BY IsMeasured, PTL
  <2> QED
    BY <2>1, IsMeasured
<1>2. PICK o, p, k, l : o = Open /\ p = Open' /\ k = Idle /\ l = Idle'
  OBVIOUS
<1>3. PICK b2, a2, b4, a4 : /\ b2 = Cardinality(o) /\ a2 = Cardinality(p)
                            /\ b4 = Cardinality(k) /\ a4 = Cardinality(l)
  OBVIOUS
<1>4. /\ o \in SUBSET Robot /\ p \in SUBSET Robot /\ k \in SUBSET Robot /\ l \in SUBSET Robot
      /\ Phase \in Nat /\ Phase' \in Nat /\ Unplaced \in Nat /\ Unplaced' \in Nat
      /\ Stage \in Nat /\ Stage' \in Nat /\ Rest \in Nat /\ Rest' \in Nat
  BY <1>1, <1>2 DEF Measured
<1>5. /\ b2 \in Nat /\ a2 \in Nat /\ b4 \in Nat /\ a4 \in Nat
      /\ p \subseteq o => a2 <= b2 /\ (p # o => a2 < b2)
      /\ l \subseteq k => a4 <= b4 /\ (l # k => a4 < b4)
  BY <1>3, <1>4, Fewer
<1>6. /\ WorkLeft = <<Phase, b2, Unplaced, b4, Stage, Rest>>
      /\ WorkLeft' = <<Phase', a2, Unplaced', a4, Stage', Rest'>>
  BY <1>2, <1>3 DEF WorkLeft
<1>7. \/ Phase' < Phase
      \/ Phase' = Phase /\ a2 < b2
      \/ Phase' = Phase /\ a2 = b2 /\ Unplaced' < Unplaced
      \/ Phase' = Phase /\ a2 = b2 /\ Unplaced' = Unplaced /\ a4 < b4
      \/ Phase' = Phase /\ a2 = b2 /\ Unplaced' = Unplaced /\ a4 = b4 /\ Stage' < Stage
      \/ /\ Phase' = Phase /\ a2 = b2 /\ Unplaced' = Unplaced /\ a4 = b4
         /\ Stage' = Stage /\ Rest' < Rest
  BY <1>2, <1>3, <1>4, <1>5 DEF Descends
<1>8. PICK a, b : a = WorkLeft' /\ b = WorkLeft
  OBVIOUS
<1>9. /\ a[1] = Phase' /\ a[2] = a2 /\ a[3] = Unplaced' /\ a[4] = a4
      /\ a[5] = Stage' /\ a[6] = Rest'
      /\ b[1] = Phase /\ b[2] = b2 /\ b[3] = Unplaced /\ b[4] = b4
      /\ b[5] = Stage /\ b[6] = Rest
  BY <1>6, <1>8
<1>10. a \in [1..6 -> Nat] /\ b \in [1..6 -> Nat]
  BY <1>4, <1>5, <1>6, <1>8
<1>11. \E j \in 1..6 : (\A i \in 1..(j - 1) : a[i] = b[i]) /\ a[j] < b[j]
  BY <1>7, <1>9
<1> QED
  BY <1>8, <1>10, <1>11, InLess

-----------------------------------------------------------------------------
(* What a dispatch does to robots that hold nothing.                       *)
LEMMA DispatchNextOpen ==
  ASSUME TypeOK, NEW r \in Robot, NEW q \in [Robot -> Seq(Task)], DispatchNext(r, q)
  PROVE  /\ {s \in Robot : ~Holds(s)'} \subseteq {s \in Robot : ~Holds(s)}
         /\ \/ r \in {s \in Robot : ~Holds(s)} \ {s \in Robot : ~Holds(s)'}
            \/ /\ \A i \in BestIndices(q[r]) : ~CanStart(r, q[r][i])
               /\ queues' = q /\ UNCHANGED <<robots, traffic>>
         /\ \A s \in Robot : /\ Registered(s)' = Registered(s)
                             /\ s # r => robots'[s] = robots[s] /\ reservations'[s] = reservations[s]
                                         /\ queues'[s] = q[s]
<1>1. CASE queues' = q /\ UNCHANGED <<robots, traffic>>
           /\ \A i \in BestIndices(q[r]) : ~CanStart(r, q[r][i])
  BY <1>1 DEF traffic, Holds, Registered
<1>2. ASSUME NEW i \in BestIndices(q[r]),
             CanStart(r, q[r][i]),
             queues' = [q EXCEPT ![r] = RemoveAt(@, i)],
             reservations' = [reservations EXCEPT ![r] =
               [task |-> q[r][i], index |-> 1, reserved |-> InitialWindow(q[r][i]),
                activated |-> FALSE]],
             robots' = [robots EXCEPT ![r].currentTask = q[r][i]]
      PROVE  /\ r \in {s \in Robot : ~Holds(s)} \ {s \in Robot : ~Holds(s)'}
             /\ {s \in Robot : ~Holds(s)'} \subseteq {s \in Robot : ~Holds(s)}
             /\ \A s \in Robot : /\ Registered(s)' = Registered(s)
                                 /\ s # r => robots'[s] = robots[s] /\ reservations'[s] = reservations[s]
                                             /\ queues'[s] = q[s]
  <2>1. q[r][i] \in Task
    BY BestIndicesType
  <2>2. PICK res \in Reservation : reservations' = [reservations EXCEPT ![r] = res]
    <3>1. [task |-> q[r][i], index |-> 1, reserved |-> InitialWindow(q[r][i]),
           activated |-> FALSE] \in Reservation
      BY <2>1, InitialWindowType DEF Reservation
    <3> QED
      BY <1>2, <3>1
  <2>3. reservations'[r] = res /\ res # None
    BY <2>2, NoneAssumption DEF TypeOK
  <2>4. /\ ~Holds(r) /\ Holds(r)' /\ Registered(r)
    BY <1>2, <2>3 DEF CanStart, Holds, Eligible
  <2>5. \A s \in Robot : s # r => /\ robots'[s] = robots[s] /\ reservations'[s] = reservations[s]
                                  /\ queues'[s] = q[s]
    BY <1>2, <2>2 DEF TypeOK
  <2>6. Registered(r)'
    <3>1. [robots[r] EXCEPT !.currentTask = q[r][i]] \in Entry
      <4>1. robots[r] \in Entry /\ q[r][i] \in Task \cup {None}
        BY <2>1, <2>4, RegisteredType
      <4> QED
        BY <4>1, EntryChange, Zenon
    <3>2. robots'[r] = [robots[r] EXCEPT !.currentTask = q[r][i]]
      BY <1>2 DEF TypeOK
    <3> QED
      BY <3>1, <3>2, NoneAssumption DEF Registered
  <2> QED
    BY <2>4, <2>5, <2>6 DEF Holds, Registered
<1> QED
  BY <1>1, <1>2 DEF DispatchNext

LEMMA RecoverDescends ==
  ASSUME TypeOK, NEW r \in Robot, RecoverRobot(r) PROVE Descends
<1>1. /\ pc = "heartbeats" /\ pc' = pc /\ TimedOut(r)
      /\ robots' = [robots EXCEPT ![r].status = "OFFLINE", ![r].currentTask = None]
  BY DEF RecoverRobot
<1>2. robots[r] \in Entry
  BY <1>1, RegisteredType DEF TimedOut
<1>3. robots'[r] = [robots[r] EXCEPT !.status = "OFFLINE", !.currentTask = None]
      /\ \A s \in Robot : s # r => robots'[s] = robots[s]
  BY <1>1 DEF TypeOK
<1>4. robots'[r].status = "OFFLINE"
  BY <1>2, <1>3 DEF Entry
<1>5. ~TimedOut(r)' /\ \A s \in Robot : s # r => TimedOut(s)' = TimedOut(s)
  BY <1>3, <1>4 DEF TimedOut, Registered
<1>6. Open = {s \in Robot : TimedOut(s)} /\ Open' = {s \in Robot : TimedOut(s)'}
  BY <1>1 DEF Open
<1>7. Open' \subseteq Open /\ Open' # Open
  BY <1>1, <1>5, <1>6
<1>8. Phase' = Phase
  BY <1>1 DEF Phase
<1> QED
  BY <1>7, <1>8 DEF Descends

LEMMA ReleaseDescends ==
  ASSUME TypeOK, NEW r \in Robot, ReleaseForCharging(r) PROVE Descends
<1>1. /\ pc = "battery" /\ pc' = pc /\ MustRelease(r) /\ TakeWork(r)
      /\ robots' = [robots EXCEPT ![r].currentTask = None]
  BY DEF ReleaseForCharging
<1>2. /\ queues' = [queues EXCEPT ![r] = <<>>]
      /\ Holds(r) => reservations' = [reservations EXCEPT ![r] = None]
      /\ ~Holds(r) => reservations' = reservations
  BY <1>1 DEF TakeWork, Release, traffic
<1>3. queues'[r] = <<>> /\ ~Holds(r)'
  BY <1>2 DEF Holds, TypeOK
<1>4. WorkOf(r)' = <<>>
  BY <1>3 DEF WorkOf
<1>5. \A s \in Robot : s # r => /\ robots'[s] = robots[s] /\ queues'[s] = queues[s]
                                /\ reservations'[s] = reservations[s]
  BY <1>1, <1>2 DEF TypeOK
<1>6. ~MustRelease(r)' /\ \A s \in Robot : s # r => MustRelease(s)' = MustRelease(s)
  BY <1>4, <1>5 DEF MustRelease, Registered, NeedsCharge, WorkOf, Holds
<1>7. Open = {s \in Robot : MustRelease(s)} /\ Open' = {s \in Robot : MustRelease(s)'}
  BY <1>1 DEF Open
<1>8. Open' \subseteq Open /\ Open' # Open
  BY <1>1, <1>6, <1>7
<1>9. Phase' = Phase
  BY <1>1 DEF Phase
<1> QED
  BY <1>8, <1>9 DEF Descends

(* A requeue gives work to no robot that is silent or must charge.         *)
LEMMA RequeueDescends ==
  ASSUME IInv, Requeue PROVE Descends
<1>1. /\ TypeOK /\ pc \in {"heartbeats", "battery"} /\ pc' = pc
      /\ recovered \in Seq(Task) /\ recovered # <<>> /\ recovered' = Tail(recovered)
  BY DEF IInv, LoopsOK, TypeOK, Requeue
<1>2. Unplaced' < Unplaced
  <2>1. Len(recovered') < Len(recovered)
    BY <1>1
  <2> QED
    BY <1>1, <2>1 DEF Unplaced
<1>3. ASSUME NEW s \in Robot
      PROVE  (TimedOut(s)' => TimedOut(s)) /\ (MustRelease(s)' => MustRelease(s))
  <2>1. CASE UNCHANGED <<robots, queues, reservations>>
    BY <2>1 DEF TimedOut, MustRelease, Registered, NeedsCharge, WorkOf, Holds
  <2>2. ASSUME NEW t \in Task, NEW r \in Best(t),
               DispatchNext(r, [queues EXCEPT ![r] = Append(@, t)])
        PROVE  (TimedOut(s)' => TimedOut(s)) /\ (MustRelease(s)' => MustRelease(s))
    <3> DEFINE q == [queues EXCEPT ![r] = Append(@, t)]
    <3>1. r \in Robot /\ Eligible(r) /\ robots[r] \in Entry
      BY <1>1, BestType, RegisteredType DEF Best, Capable
    <3>2. q \in [Robot -> Seq(Task)] /\ \A u \in Robot : u # r => q[u] = queues[u]
      BY <1>1, <3>1, AppendProperties DEF TypeOK
    <3>3. CASE s # r
      <4>1. /\ robots'[s] = robots[s] /\ reservations'[s] = reservations[s]
            /\ queues'[s] = queues[s]
        BY <1>1, <2>2, <3>1, <3>2, <3>3, DispatchNextOpen
      <4> QED
        BY <4>1 DEF TimedOut, MustRelease, Registered, NeedsCharge, WorkOf, Holds
    <3>4. CASE s = r
      <4>1. \/ robots' = robots
            \/ \E u \in Task : robots'[r] = [robots[r] EXCEPT !.currentTask = u]
        <5>1. ASSUME NEW i \in BestIndices(q[r]), robots' = [robots EXCEPT ![r].currentTask = q[r][i]]
              PROVE  \E u \in Task : robots'[r] = [robots[r] EXCEPT !.currentTask = u]
          <6>1. q[r][i] \in Task
            BY <3>1, <3>2, BestIndicesType
          <6> QED
            BY <1>1, <3>1, <5>1, <6>1 DEF TypeOK
        <5> QED
          BY <2>2, <5>1 DEF DispatchNext
      <4>2. /\ robots'[r].status = robots[r].status /\ robots'[r].fresh = robots[r].fresh
            /\ robots'[r].battery = robots[r].battery /\ robots'[r].charging = robots[r].charging
        BY <3>1, <4>1 DEF Entry
      <4>3. Registered(r) /\ ~NeedsCharge(r)
        <5>1. robots[r].battery \in Nat
          BY <3>1 DEF Entry
        <5> QED
          BY <3>1, <5>1, ThresholdAssumption DEF Eligible, NeedsCharge
      <4>4. ~NeedsCharge(r)'
        BY <4>2, <4>3 DEF NeedsCharge
      <4> QED
        BY <3>4, <4>2, <4>3, <4>4 DEF TimedOut, MustRelease
    <3> QED
      BY <3>3, <3>4
  <2> QED
    <3>1. \/ UNCHANGED <<robots, queues, reservations>>
          \/ \E t \in Task : \E r \in Best(t) : DispatchNext(r, [queues EXCEPT ![r] = Append(@, t)])
      <4>1. Head(recovered) \in Task
        BY <1>1
      <4> QED
        BY <4>1 DEF Requeue, Schedule, traffic
    <3> QED
      BY <2>1, <2>2, <3>1
<1>4. Open' \subseteq Open
  BY <1>1, <1>3 DEF Open
<1>5. Phase' = Phase
  BY <1>1 DEF Phase
<1> QED
  BY <1>2, <1>4, <1>5 DEF Descends

(* The next loop starts.                                                   *)
LEMMA LoopDoneDescends ==
  ASSUME \/ HeartbeatsDone \/ BatteryDone \/ TrafficDone
         \/ DispatchDone \/ WaitingDone \/ StealDone
  PROVE  Descends
<1>1. CASE HeartbeatsDone \/ BatteryDone \/ TrafficDone \/ (StealDone /\ ~progress)
  <2>1. Phase' < Phase
    BY <1>1 DEF HeartbeatsDone, BatteryDone, TrafficDone, StealDone, Phase
  <2> QED
    BY <2>1 DEF Descends
<1>2. CASE DispatchDone \/ WaitingDone \/ (StealDone /\ progress)
  <2>1. /\ pc \in {"dispatch", "waiting", "steal"} /\ pc' \in {"dispatch", "waiting", "steal"}
        /\ UNCHANGED <<robots, queues, waiting, reservations>>
    BY <1>2 DEF DispatchDone, WaitingDone, StealDone, registry, traffic
  <2>2. Phase' = Phase /\ Open' = Open /\ Unplaced' = Unplaced /\ Idle' = Idle
    BY <2>1 DEF Phase, Open, Unplaced, Idle, Holds, Busy
  <2>3. Stage' < Stage
    BY <1>2 DEF DispatchDone, WaitingDone, StealDone, Stage
  <2> QED
    BY <2>2, <2>3 DEF Descends
<1> QED
  BY <1>1, <1>2

LEMMA CheckTrafficDescends ==
  ASSUME NEW r \in Robot, CheckTraffic(r) PROVE Descends
<1>1. pc = "traffic" /\ pc' = pc /\ r \in visit /\ visit' = visit \ {r}
  BY DEF CheckTraffic
<1>2. Phase' = Phase /\ Open = visit /\ Open' = visit'
  BY <1>1 DEF Phase, Open
<1> QED
  BY <1>1, <1>2 DEF Descends

LEMMA DispatchDescends ==
  ASSUME TypeOK, NEW r \in Robot, Dispatch(r) PROVE Descends
<1>1. /\ pc = "dispatch" /\ pc' = pc /\ queues \in [Robot -> Seq(Task)]
      /\ DispatchNext(r, queues)
      /\ \E i \in BestIndices(queues[r]) : CanStart(r, queues[r][i])
  BY DEF Dispatch, CanDispatch, TypeOK
<1>2. /\ r \in {s \in Robot : ~Holds(s)} \ {s \in Robot : ~Holds(s)'}
      /\ {s \in Robot : ~Holds(s)'} \subseteq {s \in Robot : ~Holds(s)}
  BY <1>1, DispatchNextOpen
<1>3. Open = {s \in Robot : ~Holds(s)} /\ Open' = {s \in Robot : ~Holds(s)'} /\ Phase' = Phase
  BY <1>1 DEF Open, Phase
<1> QED
  BY <1>2, <1>3 DEF Descends

LEMMA PlaceWaitingDescends ==
  ASSUME TypeOK, PlaceWaiting PROVE Descends
<1>1. /\ pc = "waiting" /\ pc' = pc /\ index <= Len(waiting) /\ index \in 1..Len(waiting)
      /\ waiting[index] \in Task
  BY DEF PlaceWaiting, TypeOK
<1>2. /\ Phase' = Phase /\ Unplaced = Len(waiting) /\ Unplaced' = Len(waiting')
      /\ Open = {s \in Robot : ~Holds(s)} /\ Open' = {s \in Robot : ~Holds(s)'}
  BY <1>1 DEF Open, Phase, Unplaced
<1>3. CASE index' = index + 1 /\ UNCHANGED <<registry, traffic, progress>>
  <2>1. UNCHANGED <<robots, queues, waiting, reservations>>
    BY <1>3 DEF registry, traffic
  <2>2. Open' = Open /\ Unplaced' = Unplaced /\ Idle' = Idle /\ Stage' = Stage
    BY <1>1, <1>2, <1>3, <2>1 DEF Idle, Stage, Holds, Busy
  <2>3. Rest' < Rest
    BY <1>1, <1>3, <2>1 DEF Rest, TypeOK
  <2> QED
    BY <1>2, <2>2, <2>3 DEF Descends
<1>4. ASSUME NEW r \in Best(waiting[index]),
             DispatchNext(r, [queues EXCEPT ![r] = Append(@, waiting[index])]),
             waiting' = RemoveAt(waiting, index)
      PROVE  Descends
  <2>1. r \in Robot /\ [queues EXCEPT ![r] = Append(@, waiting[index])] \in [Robot -> Seq(Task)]
    BY <1>1, BestType, AppendProperties DEF TypeOK
  <2>2. Open' \subseteq Open
    BY <1>2, <1>4, <2>1, DispatchNextOpen
  <2>3. Len(waiting') < Len(waiting)
    BY <1>1, <1>4, RemoveAtElements DEF TypeOK
  <2> QED
    BY <1>2, <2>2, <2>3 DEF Descends
<1> QED
  BY <1>3, <1>4 DEF PlaceWaiting

LEMMA StealDescends ==
  ASSUME TypeOK, NEW r \in Robot, Steal(r) PROVE Descends
<1>1. PICK d \in Donors(r) : \E i \in BestIndices(queues[d]) :
        DispatchNext(r, [queues EXCEPT ![d] = RemoveAt(@, i), ![r] = <<queues[d][i]>>])
  BY DEF Steal
<1>2. PICK i \in BestIndices(queues[d]) :
        DispatchNext(r, [queues EXCEPT ![d] = RemoveAt(@, i), ![r] = <<queues[d][i]>>])
  BY <1>1
<1>3. /\ d \in Robot \ {r} /\ Busy(d) /\ ~Busy(r) /\ queues[r] = <<>>
      /\ pc = "steal" /\ pc' = "dispatch" /\ waiting' = waiting
  BY <1>1 DEF Steal, CanSteal, Donors, CanDonate
<1>4. PICK q : q = [queues EXCEPT ![d] = RemoveAt(@, i), ![r] = <<queues[d][i]>>]
  OBVIOUS
<1>5. q \in [Robot -> Seq(Task)] /\ q[r] # <<>> /\ \A s \in Robot \ {d, r} : q[s] = queues[s]
  <2>1. queues[d][i] \in Task /\ RemoveAt(queues[d], i) \in Seq(Task)
    BY <1>2, <1>3, BestIndicesType, RemoveAtType DEF TypeOK
  <2>2. PICK x, y : x = RemoveAt(queues[d], i) /\ y = <<queues[d][i]>>
    OBVIOUS
  <2>3. x \in Seq(Task) /\ y \in Seq(Task) /\ y # <<>>
    BY <2>1, <2>2
  <2>4. q = [queues EXCEPT ![d] = x, ![r] = y]
    BY <1>4, <2>2
  <2>5. d \in Robot /\ r \in Robot /\ d # r /\ queues \in [Robot -> Seq(Task)]
    BY <1>3 DEF TypeOK
  <2> QED
    BY <2>3, <2>4, <2>5
<1>6. /\ Phase' = Phase /\ Unplaced' = Unplaced
      /\ Open = {s \in Robot : ~Holds(s)} /\ Open' = {s \in Robot : ~Holds(s)'}
  BY <1>3 DEF Open, Phase, Unplaced
<1>7. DispatchNext(r, q)
  BY <1>2, <1>4
<1>8. CASE r \in {s \in Robot : ~Holds(s)} \ {s \in Robot : ~Holds(s)'}
  BY <1>5, <1>6, <1>7, <1>8, DispatchNextOpen DEF Descends
<1>9. CASE queues' = q /\ UNCHANGED <<robots, traffic>>
  <2>1. Open' = Open
    BY <1>6, <1>9 DEF Holds, traffic
  <2>2. r \in Idle /\ r \notin Idle'
    BY <1>3, <1>5, <1>9 DEF Idle
  <2>3. ASSUME NEW s \in Idle' PROVE s \in Idle
    <3>1. s \in Robot /\ ~Busy(s) /\ q[s] = <<>>
      BY <1>9 DEF Idle, Busy
    <3>2. s \in Robot \ {d, r}
      BY <1>3, <1>5, <3>1
    <3> QED
      BY <1>5, <3>1, <3>2 DEF Idle
  <2> QED
    BY <1>6, <2>1, <2>2, <2>3 DEF Descends
<1> QED
  BY <1>5, <1>7, <1>8, <1>9, DispatchNextOpen

(* Every callback returns, for any finite number of robots and whatever    *)
(* work they have: each step of its loops leaves less to do, in an order   *)
(* in which nothing falls for ever.  A loop of _rebalance that makes the   *)
(* others run again has placed a task or found an idle robot work.         *)
THEOREM CallbacksEnd ==
  IsFiniteSet(Robot) =>
    /\ IsWellFoundedOn(Less, [1..6 -> Nat])
    /\ Spec => [][Callback => <<WorkLeft', WorkLeft>> \in Less]_vars
<1> SUFFICES ASSUME IsFiniteSet(Robot)
             PROVE  Spec => [][Callback => <<WorkLeft', WorkLeft>> \in Less]_vars
  BY LessWellFounded
<1>1. IInv /\ IInv' /\ [Next]_vars => [Callback => <<WorkLeft', WorkLeft>> \in Less]_vars
  <2> SUFFICES ASSUME IInv, IInv', Callback PROVE <<WorkLeft', WorkLeft>> \in Less
    OBVIOUS
  <2>1. TypeOK /\ TypeOK'
    BY DEF IInv
  <2>2. Descends
    BY <2>1, RecoverDescends, ReleaseDescends, RequeueDescends, LoopDoneDescends,
       CheckTrafficDescends, DispatchDescends, PlaceWaitingDescends, StealDescends
       DEF Callback
  <2> QED
    BY <2>1, <2>2, DescendsIsLess
<1> QED
  BY <1>1, Invariant, PTL DEF Spec

-----------------------------------------------------------------------------
(* Whom work is given to.                                                  *)

(* Task t is in r's queue, of the queues q, or in its reservation.         *)
Has(r, t, q) == Contains(q[r], t) \/ (Holds(r) /\ reservations[r].task = t)

(* r may be given t: it is registered, online, charged and not charging,   *)
(* and can carry t.  _pick_donor asks what the donor can carry, so what r  *)
(* takes from another robot it may not be able to.                         *)
Fit(r, t) ==
  Eligible(r) /\ (pc = "steal" \/ PayloadCapacity[r] >= RequiredPayload[t])

GivenToTheFit ==
  \A r \in Robot, t \in Task : Has(r, t, queues)' => Has(r, t, queues) \/ Fit(r, t)

LEMMA SameHas ==
  ASSUME NEW r, UNCHANGED <<queues, reservations>>
  PROVE  \A t : Has(r, t, queues)' => Has(r, t, queues)
BY DEF Has, Holds, Contains

(* A dispatch moves a task from the robot's queue to its reservation.      *)
LEMMA DispatchNextHas ==
  ASSUME TypeOK, NEW r \in Robot, NEW q \in [Robot -> Seq(Task)], DispatchNext(r, q),
         NEW s \in Robot, NEW t, Has(s, t, queues)'
  PROVE  Has(s, t, q)
<1>1. (Holds(s)' /\ reservations'[s].task = t) \/ Contains(queues'[s], t)
  BY DEF Has, Contains
<1>2. CASE queues' = q /\ UNCHANGED <<robots, traffic>>
  BY <1>1, <1>2 DEF Has, traffic, Holds
<1>3. ASSUME NEW i \in BestIndices(q[r]), CanStart(r, q[r][i]),
             queues' = [q EXCEPT ![r] = RemoveAt(@, i)],
             reservations' = [reservations EXCEPT ![r] =
               [task |-> q[r][i], index |-> 1, reserved |-> InitialWindow(q[r][i]),
                activated |-> FALSE]]
      PROVE  Has(s, t, q)
  <2>1. i \in 1..Len(q[r]) /\ q[r] \in Seq(Task)
    BY BestIndicesType
  <2>2. CASE Contains(queues'[s], t)
    <3>1. queues'[s] = IF s = r THEN RemoveAt(q[r], i) ELSE q[s]
      BY <1>3
    <3>2. Contains(q[s], t)
      BY <2>1, <2>2, <3>1, RemovedFrom
    <3> QED
      BY <3>2 DEF Has
  <2>3. CASE s = r /\ reservations'[s].task = t
    <3>1. t = q[r][i]
      BY <1>3, <2>3 DEF TypeOK
    <3>2. Contains(q[r], t)
      BY <2>1, <3>1 DEF Contains
    <3> QED
      BY <2>3, <3>2 DEF Has
  <2>4. CASE s # r /\ Holds(s)' /\ reservations'[s].task = t
    BY <1>3, <2>4 DEF Has, Holds, TypeOK
  <2> QED
    BY <1>1, <2>2, <2>3, <2>4
<1> QED
  BY <1>2, <1>3 DEF DispatchNext

(* _commit, of a task for which _select_robot has chosen r.                *)
LEMMA CommitFit ==
  ASSUME TypeOK, NEW u \in Task, NEW r \in Best(u),
         DispatchNext(r, [queues EXCEPT ![r] = Append(@, u)])
  PROVE  GivenToTheFit
<1> SUFFICES ASSUME NEW s \in Robot, NEW t \in Task, Has(s, t, queues)'
             PROVE  Has(s, t, queues) \/ Fit(s, t)
  BY DEF GivenToTheFit
<1>1. r \in Robot /\ Eligible(r) /\ PayloadCapacity[r] >= RequiredPayload[u]
  BY DEF Best, Capable
<1>2. queues[r] \in Seq(Task) /\ queues \in [Robot -> Seq(Task)]
  BY <1>1 DEF TypeOK
<1>3. PICK q : q = [queues EXCEPT ![r] = Append(@, u)]
  OBVIOUS
<1>4. q \in [Robot -> Seq(Task)]
  BY <1>2, <1>3, AppendProperties
<1>5. Has(s, t, q)
  BY <1>1, <1>3, <1>4, DispatchNextHas
<1>6. CASE s # r
  BY <1>2, <1>3, <1>5, <1>6 DEF Has
<1>7. CASE s = r
  <2>1. q[s] = Append(queues[s], u)
    BY <1>1, <1>2, <1>3, <1>7
  <2>2. Contains(q[s], t) => Contains(queues[s], t) \/ t = u
    BY <1>2, <1>7, <2>1, AppendOnce
  <2> QED
    BY <1>1, <1>5, <1>7, <2>2 DEF Has, Fit
<1> QED
  BY <1>6, <1>7

LEMMA ScheduleFit ==
  ASSUME TypeOK, NEW u \in Task, NEW also, Schedule(u, also)
  PROVE  GivenToTheFit
<1>1. CASE UNCHANGED <<robots, queues, traffic>>
  BY <1>1, SameHas DEF GivenToTheFit, traffic
<1> QED
  BY <1>1, CommitFit DEF Schedule

LEMMA StealFit ==
  ASSUME TypeOK, NEW r \in Robot, Steal(r)
  PROVE  GivenToTheFit
<1> SUFFICES ASSUME NEW s \in Robot, NEW t \in Task, Has(s, t, queues)'
             PROVE  Has(s, t, queues) \/ Fit(s, t)
  BY DEF GivenToTheFit
<1>1. PICK d \in Donors(r) : \E i \in BestIndices(queues[d]) :
        DispatchNext(r, [queues EXCEPT ![d] = RemoveAt(@, i), ![r] = <<queues[d][i]>>])
  BY DEF Steal
<1>2. PICK i \in BestIndices(queues[d]) :
        DispatchNext(r, [queues EXCEPT ![d] = RemoveAt(@, i), ![r] = <<queues[d][i]>>])
  BY <1>1
<1> DEFINE u == queues[d][i]
           q == [queues EXCEPT ![d] = RemoveAt(@, i), ![r] = <<u>>]
<1>3. d \in Robot /\ d # r /\ queues \in [Robot -> Seq(Task)] /\ Eligible(r) /\ pc = "steal"
  BY DEF Donors, Steal, CanSteal, TypeOK
<1>4. i \in 1..Len(queues[d]) /\ u \in Task
  BY <1>3, BestIndicesType
<1>5. RemoveAt(queues[d], i) \in Seq(Task) /\ <<u>> \in Seq(Task)
  BY <1>3, <1>4, RemoveAtType
<1>6. /\ q \in [Robot -> Seq(Task)]
      /\ q[d] = RemoveAt(queues[d], i)
      /\ \A w \in Robot : w # d /\ w # r => q[w] = queues[w]
  BY <1>3, <1>5
<1>7. Contains(q[d], t) => Contains(queues[d], t)
  BY <1>3, <1>4, <1>6, RemovedFrom
<1>8. DispatchNext(r, q)
  BY <1>2
<1> HIDE DEF q, u
<1>9. Has(s, t, q)
  BY <1>6, <1>8, DispatchNextHas
<1> QED
  BY <1>3, <1>6, <1>7, <1>9 DEF Has, Fit

LEMMA RegisterFit ==
  ASSUME TypeOK, NEW r \in Robot, NEW report, NEW u, Register(r, report, u)
  PROVE  GivenToTheFit
<1>1. UNCHANGED queues
  BY DEF Register
<1>2. CASE Holds(r) /\ reservations' = [reservations EXCEPT ![r].activated = TRUE]
  <2>1. reservations[r] \in Reservation
    BY <1>2, HoldsType
  <2>2. reservations'[r] = [reservations[r] EXCEPT !.activated = TRUE]
    BY <1>2 DEF TypeOK
  <2>3. reservations'[r].task = reservations[r].task
    BY ONLY <2>1, <2>2 DEF Reservation
  <2>4. \A s \in Robot : s # r => reservations'[s] = reservations[s]
    BY <1>2 DEF TypeOK
  <2> QED
    BY <1>1, <1>2, <2>3, <2>4 DEF GivenToTheFit, Has, Holds, Contains
<1>3. CASE Release(r)
  <2>1. ~Holds(r)' /\ \A s \in Robot : s # r => reservations'[s] = reservations[s]
    BY <1>3 DEF Release, TypeOK, Holds
  <2> QED
    BY <1>1, <2>1 DEF GivenToTheFit, Has, Holds, Contains
<1>4. CASE UNCHANGED traffic
  BY <1>1, <1>4, SameHas DEF GivenToTheFit, traffic
<1> QED
  BY <1>2, <1>3, <1>4 DEF Register

LEMMA TakeWorkFit ==
  ASSUME TypeOK, NEW r \in Robot, TakeWork(r)
  PROVE  GivenToTheFit /\ queues'[r] = <<>> /\ ~Holds(r)'
<1>1. /\ queues' = [queues EXCEPT ![r] = <<>>]
      /\ Holds(r) => reservations' = [reservations EXCEPT ![r] = None]
      /\ ~Holds(r) => reservations' = reservations
  BY DEF TakeWork, Release, traffic
<1>2. /\ queues'[r] = <<>> /\ ~Holds(r)'
      /\ \A s \in Robot : s # r => /\ queues'[s] = queues[s]
                                   /\ reservations'[s] = reservations[s]
  BY <1>1 DEF Holds, TypeOK
<1>3. \A t : ~Contains(queues'[r], t)
  BY <1>2 DEF Contains
<1> QED
  BY <1>2, <1>3 DEF GivenToTheFit, Has, Holds, Contains

LEMMA NextFit == IInv /\ [Next]_vars => GivenToTheFit
<1> SUFFICES ASSUME IInv, [Next]_vars PROVE GivenToTheFit
  OBVIOUS
<1>1. TypeOK
  BY DEF IInv
<1>2. CASE UNCHANGED <<queues, reservations>>
  BY <1>2, SameHas DEF GivenToTheFit
<1>3. CASE Message
  <2>1. ASSUME NEW t \in Task, AddTask(t) PROVE GivenToTheFit
    BY <1>1, <2>1, ScheduleFit DEF AddTask
  <2> QED
    BY <1>1, <1>2, <1>3, <2>1, RegisterFit DEF Message, Pose, Heartbeat, Silence, traffic
<1>4. ASSUME NEW r \in Robot, CheckTraffic(r) PROVE GivenToTheFit
  <2>1. Holds(r) /\ UNCHANGED queues
    BY <1>4 DEF CheckTraffic, IInv, LoopsOK, registry
  <2>2. \A s \in Robot : s # r => reservations'[s] = reservations[s]
    BY <1>1, <1>4 DEF CheckTraffic, TypeOK
  <2>3. \A s \in Robot : Holds(s) => reservations'[s].task = reservations[s].task
    BY <1>4, CheckTrafficStep
  <2> QED
    BY <2>1, <2>2, <2>3 DEF GivenToTheFit, Has, Holds, Contains
<1>5. CASE Callback
  <2>1. ASSUME NEW r \in Robot, RecoverRobot(r) \/ ReleaseForCharging(r)
        PROVE  GivenToTheFit
    BY <1>1, <2>1, TakeWorkFit DEF RecoverRobot, ReleaseForCharging
  <2>2. CASE Requeue
    <3>1. Head(recovered) \in Task
      BY <1>1, <2>2 DEF Requeue, TypeOK
    <3> QED
      BY <1>1, <1>2, <2>2, <3>1, ScheduleFit DEF Requeue, traffic
  <2>3. ASSUME NEW r \in Robot, Dispatch(r) PROVE GivenToTheFit
    <3>1. DispatchNext(r, queues) /\ queues \in [Robot -> Seq(Task)]
      BY <1>1, <2>3 DEF Dispatch, TypeOK
    <3> QED
      BY <1>1, <3>1, DispatchNextHas DEF GivenToTheFit
  <2>4. CASE PlaceWaiting
    <3>1. waiting[index] \in Task
      BY <1>1, <2>4 DEF PlaceWaiting, TypeOK
    <3> QED
      BY <1>1, <1>2, <2>4, <3>1, CommitFit DEF PlaceWaiting, registry, traffic
  <2> QED
    BY <1>1, <1>2, <1>4, <1>5, <2>1, <2>2, <2>3, <2>4, StealFit
       DEF Callback, HeartbeatsDone, BatteryDone, TrafficDone, DispatchDone,
           WaitingDone, StealDone, registry, traffic
<1> QED
  BY <1>2, <1>3, <1>5 DEF Next, Tick, vars, registry, traffic

(* A robot is given a task only while it is registered, online, charged,   *)
(* not charging and able to carry it; when _rebalance lets it take one     *)
(* from another robot, the weight alone is not looked at.                  *)
THEOREM WorkForTheFit == Spec => [][GivenToTheFit]_vars
<1>1. IInv /\ [Next]_vars => [GivenToTheFit]_vars
  BY NextFit
<1> QED
  BY <1>1, Invariant, PTL DEF Spec

(* The beacon reports OFFLINE of no robot; _check_heartbeats does not look *)
(* at the silence of one that reported it.                                 *)
NoneOffline == \A report \in Reports : report[1] # "OFFLINE"

Nothing(r) == queues[r] = <<>> /\ ~Holds(r)
Offline(r) == Registered(r) /\ robots[r].status = "OFFLINE"

SilentInv ==
  /\ \A r \in Robot : Offline(r) => Nothing(r)
  /\ pc \in {"battery", "traffic"} =>
       \A r \in Robot : Registered(r) /\ ~robots[r].fresh => Offline(r)

(* No work stays with a robot that was found silent, and between           *)
(* _check_heartbeats and the end of _check_traffic with none that is.      *)
SilentHaveNothing ==
  \A r \in Robot :
    /\ Registered(r)
    /\ robots[r].status = "OFFLINE" \/ (pc \in {"battery", "traffic"} /\ ~robots[r].fresh)
    => WorkOf(r) = <<>>

NothingMeansNone ==
  \A r \in Robot : Nothing(r) <=> \A t \in Task : ~Has(r, t, queues)

LEMMA NothingIsGiven == TypeOK => NothingMeansNone
<1> SUFFICES ASSUME TypeOK, NEW r \in Robot
             PROVE  Nothing(r) <=> \A t \in Task : ~Has(r, t, queues)
  BY DEF NothingMeansNone
<1>1. ASSUME Nothing(r), NEW t \in Task PROVE ~Has(r, t, queues)
  BY <1>1 DEF Nothing, Has, Contains
<1>2. ASSUME \A t \in Task : ~Has(r, t, queues) PROVE Nothing(r)
  <2>1. queues[r] \in Seq(Task)
    BY DEF TypeOK
  <2>2. queues[r] = <<>>
    <3>1. ASSUME queues[r] # <<>> PROVE FALSE
      <4>1. 1 \in 1..Len(queues[r]) /\ queues[r][1] \in Task
        BY <2>1, <3>1
      <4> QED
        BY <1>2, <4>1 DEF Has, Contains
    <3> QED
      BY <3>1
  <2>3. ~Holds(r)
    BY <1>2, HoldsFields DEF Has
  <2> QED
    BY <2>2, <2>3 DEF Nothing
<1> QED
  BY <1>1, <1>2

(* When a robot was last seen, and as what, is left alone.                 *)
SeenSame ==
  \A r \in Robot : /\ Registered(r)' = Registered(r)
                   /\ Registered(r) => /\ robots'[r].status = robots[r].status
                                       /\ robots'[r].fresh = robots[r].fresh

(* A change of the task or the pose of one entry.                          *)
LEMMA EntrySeen ==
  ASSUME TypeOK, NEW r \in Robot, Registered(r),
         \/ \E t \in Task \cup {None} : robots' = [robots EXCEPT ![r].currentTask = t]
         \/ \E c \in Cell : robots' = [robots EXCEPT ![r].cell = c]
  PROVE  SeenSame
<1>1. robots[r] \in Entry /\ robots[r] # None
  BY RegisteredType DEF Registered
<1>2. \A s \in Robot : s # r => robots'[s] = robots[s]
  BY DEF TypeOK
<1>3. \/ \E t \in Task \cup {None} : robots'[r] = [robots[r] EXCEPT !.currentTask = t]
      \/ \E c \in Cell : robots'[r] = [robots[r] EXCEPT !.cell = c]
  BY DEF TypeOK
<1>4. robots'[r].status = robots[r].status /\ robots'[r].fresh = robots[r].fresh
  BY <1>1, <1>3 DEF Entry
<1>5. robots'[r] \in Entry
  <2>1. ASSUME NEW c \in Cell PROVE [robots[r] EXCEPT !.cell = c] \in Entry
    BY <1>1, ZenonT(90) DEF Entry
  <2> QED
    BY <1>1, <1>3, <2>1, EntryChange
<1> QED
  BY <1>2, <1>4, <1>5, NoneAssumption DEF SeenSame, Registered

LEMMA DispatchNextSeen ==
  ASSUME TypeOK, NEW r \in Robot, NEW q \in [Robot -> Seq(Task)], DispatchNext(r, q)
  PROVE  SeenSame
<1>1. CASE UNCHANGED robots
  BY <1>1 DEF SeenSame, Registered
<1>2. ASSUME NEW i \in BestIndices(q[r]), CanStart(r, q[r][i]),
             robots' = [robots EXCEPT ![r].currentTask = q[r][i]]
      PROVE  SeenSame
  <2>1. q[r][i] \in Task /\ Registered(r)
    BY <1>2, BestIndicesType DEF CanStart, Eligible
  <2> QED
    BY <1>2, <2>1, EntrySeen
<1> QED
  BY <1>1, <1>2 DEF DispatchNext

LEMMA CommitSeen ==
  ASSUME TypeOK, NEW u \in Task, NEW r \in Best(u),
         DispatchNext(r, [queues EXCEPT ![r] = Append(@, u)])
  PROVE  SeenSame
<1>1. r \in Robot /\ [queues EXCEPT ![r] = Append(@, u)] \in [Robot -> Seq(Task)]
  BY BestType, AppendProperties DEF TypeOK
<1> QED
  BY <1>1, DispatchNextSeen

LEMMA ScheduleSeen ==
  ASSUME TypeOK, NEW u \in Task, NEW also, Schedule(u, also)
  PROVE  SeenSame
<1>1. CASE UNCHANGED <<robots, queues, traffic>>
  BY <1>1 DEF SeenSame, Registered
<1> QED
  BY <1>1, CommitSeen DEF Schedule

LEMMA StealSeen ==
  ASSUME TypeOK, NEW r \in Robot, Steal(r)
  PROVE  SeenSame
<1>1. PICK d \in Donors(r) : \E i \in BestIndices(queues[d]) :
        DispatchNext(r, [queues EXCEPT ![d] = RemoveAt(@, i), ![r] = <<queues[d][i]>>])
  BY DEF Steal
<1>2. PICK i \in BestIndices(queues[d]) :
        DispatchNext(r, [queues EXCEPT ![d] = RemoveAt(@, i), ![r] = <<queues[d][i]>>])
  BY <1>1
<1>3. d \in Robot /\ queues \in [Robot -> Seq(Task)]
  BY DEF Donors, TypeOK
<1>4. RemoveAt(queues[d], i) \in Seq(Task) /\ <<queues[d][i]>> \in Seq(Task)
  BY <1>3, BestIndicesType, RemoveAtType
<1>5. [queues EXCEPT ![d] = RemoveAt(@, i), ![r] = <<queues[d][i]>>] \in [Robot -> Seq(Task)]
  BY <1>3, <1>4
<1> QED
  BY <1>2, <1>5, DispatchNextSeen

(* A callback, but for the recovery of a robot.                            *)
LEMMA CallbackSeen ==
  ASSUME IInv, Callback, \A r \in Robot : ~RecoverRobot(r)
  PROVE  SeenSame
<1>1. TypeOK
  BY DEF IInv
<1>2. CASE UNCHANGED robots
  BY <1>2 DEF SeenSame, Registered
<1>3. ASSUME NEW r \in Robot, ReleaseForCharging(r) PROVE SeenSame
  BY <1>1, <1>3, EntrySeen DEF ReleaseForCharging, MustRelease
<1>4. CASE Requeue
  <2>1. Head(recovered) \in Task
    BY <1>1, <1>4 DEF Requeue, TypeOK
  <2> QED
    BY <1>1, <1>2, <1>4, <2>1, ScheduleSeen DEF Requeue
<1>5. ASSUME NEW r \in Robot, Dispatch(r) PROVE SeenSame
  <2>1. DispatchNext(r, queues) /\ queues \in [Robot -> Seq(Task)]
    BY <1>1, <1>5 DEF Dispatch, TypeOK
  <2> QED
    BY <1>1, <2>1, DispatchNextSeen
<1>6. CASE PlaceWaiting
  <2>1. waiting[index] \in Task
    BY <1>1, <1>6 DEF PlaceWaiting, TypeOK
  <2> QED
    BY <1>1, <1>2, <1>6, <2>1, CommitSeen DEF PlaceWaiting, registry
<1> QED
  BY <1>1, <1>2, <1>3, <1>4, <1>5, <1>6, StealSeen
     DEF Callback, CheckTraffic, HeartbeatsDone, BatteryDone, TrafficDone, DispatchDone,
         WaitingDone, StealDone, registry

(* Only its recovery makes a robot OFFLINE.                                *)
LEMMA OfflineFrom ==
  ASSUME NoneOffline, IInv, IInv', [Next]_vars, NEW r \in Robot, Offline(r)'
  PROVE  Offline(r) \/ RecoverRobot(r)
<1>1. TypeOK
  BY DEF IInv
<1>2. CASE SeenSame
  BY <1>2 DEF SeenSame, Offline
<1>3. CASE UNCHANGED robots
  BY <1>3 DEF Offline, Registered
<1>4. ASSUME NEW s \in Robot, NEW report \in Reports, NEW t \in Task \cup {None},
             Register(s, report, t)
      PROVE  Offline(r)
  <2>1. /\ s = r => robots'[r].status = report[1]
        /\ s # r => robots'[r] = robots[r]
    BY <1>1, <1>4 DEF Register, TypeOK
  <2> QED
    BY <1>4, <2>1 DEF NoneOffline, Offline, Registered
<1>5. ASSUME NEW s \in Robot, Heartbeat(s) \/ Silence(s) PROVE Offline(r)
  <2>1. Registered(s) /\ robots[s] \in Entry
    BY <1>1, <1>5, RegisteredType DEF Heartbeat, Silence
  <2>2. /\ s # r => robots'[r] = robots[r]
        /\ s = r => \/ robots'[r] = [robots[r] EXCEPT !.fresh = TRUE, !.status = "ONLINE"]
                    \/ robots'[r] = [robots[r] EXCEPT !.fresh = FALSE]
    BY <1>1, <1>5 DEF Heartbeat, Silence, TypeOK
  <2>3. CASE s = r
    <3>1. robots'[r].status = "ONLINE" \/ robots'[r].status = robots[r].status
      BY <2>1, <2>2, <2>3 DEF Entry
    <3> QED
      BY <2>1, <2>3, <3>1 DEF Offline
  <2> QED
    BY <2>2, <2>3 DEF Offline, Registered
<1>6. CASE Message
  <2>1. ASSUME NEW s \in Robot, NEW c \in Cell, Pose(s, c) PROVE SeenSame
    BY <1>1, <2>1, EntrySeen DEF Pose
  <2>2. ASSUME NEW t \in Task, AddTask(t) PROVE SeenSame
    BY <1>1, <2>2, ScheduleSeen DEF AddTask
  <2> QED
    BY <1>2, <1>4, <1>5, <1>6, <2>1, <2>2 , DataAssumption DEF Message
<1>7. CASE Callback
  <2>1. ASSUME NEW s \in Robot, RecoverRobot(s), s # r PROVE Offline(r)
    <3>1. robots'[r] = robots[r]
      BY <1>1, <2>1 DEF RecoverRobot, TypeOK
    <3> QED
      BY <3>1 DEF Offline, Registered
  <2> QED
    BY <1>2, <1>7, <2>1, CallbackSeen
<1> QED
  BY <1>3, <1>6, <1>7 DEF Next, Tick, vars, registry

LEMMA SilentNext ==
  ASSUME NoneOffline, IInv, IInv', SilentInv, [Next]_vars
  PROVE  SilentInv'
<1>1. TypeOK /\ TypeOK'
  BY DEF IInv
<1>2. ASSUME NEW r \in Robot, Offline(r)' PROVE Nothing(r)'
  <2>1. CASE RecoverRobot(r)
    BY <1>1, <2>1, TakeWorkFit DEF RecoverRobot, Nothing, Holds
  <2>2. CASE Offline(r)
    <3>1. \A t \in Task : ~Has(r, t, queues)
      BY <1>1, <2>2, NothingIsGiven DEF SilentInv, NothingMeansNone
    <3>2. ~Eligible(r)
      BY <2>2 DEF Offline, Eligible
    <3>3. \A t \in Task : ~Has(r, t, queues)'
      BY <3>1, <3>2, NextFit DEF GivenToTheFit, Fit
    <3>4. TypeOK' => NothingMeansNone'
      BY NothingIsGiven, PTL
    <3> QED
      BY <1>1, <3>3, <3>4 DEF NothingMeansNone
  <2> QED
    BY <1>2, <2>1, <2>2, OfflineFrom
<1>3. ASSUME pc' \in {"battery", "traffic"}, NEW r \in Robot, Registered(r)', ~robots'[r].fresh
      PROVE  Offline(r)'
  <2>1. CASE HeartbeatsDone
    BY <1>3, <2>1 DEF HeartbeatsDone, TimedOut, Offline, Registered, registry
  <2>2. CASE pc \in {"battery", "traffic"}
    <3>1. CASE UNCHANGED robots
      BY <1>3, <2>2, <3>1 DEF SilentInv, Offline, Registered
    <3>2. CASE Callback
      <4>1. SeenSame
        BY <2>2, <3>2, CallbackSeen DEF RecoverRobot
      <4> QED
        BY <1>3, <2>2, <4>1 DEF SilentInv, Offline, SeenSame
    <3> QED
      BY <2>2, <3>1, <3>2
         DEF Next, Message, Register, Pose, Heartbeat, Silence, AddTask, Tick, vars, registry
  <2>3. HeartbeatsDone \/ pc \in {"battery", "traffic"}
    BY <1>3 DEF Next, Message, Register, Pose, Heartbeat, Silence, AddTask, Tick, Callback,
       RecoverRobot, ReleaseForCharging, Requeue, BatteryDone, CheckTraffic, TrafficDone,
       Dispatch, Steal, DispatchDone, PlaceWaiting, WaitingDone, StealDone, vars, control
  <2> QED
    BY <2>1, <2>2, <2>3
<1> QED
  BY <1>2, <1>3 DEF SilentInv

(* A robot found silent has no work from then on until it is heard of, and *)
(* once _check_heartbeats has passed no silent robot has any before the    *)
(* callback dispatches again, whatever was queued, reserved or recovered.  *)
THEOREM SilentLoseWork == NoneOffline => (Spec => []SilentHaveNothing)
<1> SUFFICES ASSUME NoneOffline PROVE Spec => []SilentHaveNothing
  OBVIOUS
<1>1. Init => SilentInv
  BY DEF Init, SilentInv, Offline, Registered
<1>2. IInv /\ IInv' /\ SilentInv /\ [Next]_vars => SilentInv'
  BY SilentNext
<1>3. IInv /\ SilentInv => SilentHaveNothing
  <2> SUFFICES ASSUME IInv, SilentInv, NEW r \in Robot, Nothing(r) PROVE WorkOf(r) = <<>>
    BY DEF SilentInv, SilentHaveNothing, Offline
  <2>1. queues[r] = <<>> /\ ~Holds(r)
    BY DEF Nothing
  <2> QED
    BY <2>1 DEF WorkOf
<1> QED
  BY <1>1, <1>2, <1>3, Invariant, PTL DEF Spec

=============================================================================
