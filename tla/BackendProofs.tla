---------------------------- MODULE BackendProofs ----------------------------
(***************************************************************************)
(* RelayedOncePerLife, CompletionsAreRecorded, SessionsArePaired and       *)
(* ArchivedOncePerLife for any robots, tasks, events and requests, and any *)
(* number of faults.                                                       *)
(***************************************************************************)
EXTENDS Bridge, Services, Retention, FiniteSetTheorems, TLAPS

-----------------------------------------------------------------------------
(* The relay of the bridge.                                                *)

(* What has been relayed in this life of the bridge is in _assignments.    *)
RelayInv ==
  /\ relayed \in [Task -> Nat] /\ lives \in Nat \ {0}
  /\ assignments \in [Task -> Robot \cup {Nobody, NoRow}]
  /\ RelayedOncePerLife
  /\ \A t \in Task : assignments[t] = NoRow => relayed[t] < lives

LEMMA RelayInitial == Init => RelayInv
BY DEF Init, RelayInv, RelayedOncePerLife

(* A step that leaves the relay's variables alone.                         *)
LEMMA RelayUntouched ==
  RelayInv /\ UNCHANGED <<relayed, lives, assignments>> => RelayInv'
BY DEF RelayInv, RelayedOncePerLife

(* Assignments that are heard of are not forgotten.                        *)
LEMMA RelayHears ==
  ASSUME RelayInv, NEW r \in Robot, NEW t \in Task, HearAssignment(r, t)
  PROVE  RelayInv'
<1>1. /\ assignments' = [assignments EXCEPT ![t] = r]
      /\ UNCHANGED <<relayed, lives>>
  BY DEF HearAssignment
<1>2. r # NoRow
  BY NoRowAssumption
<1> QED
  BY <1>1, <1>2 DEF RelayInv, RelayedOncePerLife

LEMMA RelayRelays ==
  ASSUME RelayInv, NEW t \in Task, Relay(t)
  PROVE  RelayInv'
<1>1. UNCHANGED lives
  BY DEF Relay
<1>2. CASE assignments[t] = NoRow
  <2>1. /\ relayed' = [relayed EXCEPT ![t] = @ + 1]
        /\ assignments' = [assignments EXCEPT ![t] = Nobody]
    BY <1>2 DEF Relay
  <2>2. relayed[t] < lives /\ Nobody # NoRow
    BY <1>2, NoRowAssumption DEF RelayInv
  <2> QED
    BY <1>1, <2>1, <2>2 DEF RelayInv, RelayedOncePerLife
<1>3. CASE assignments[t] # NoRow
  BY <1>1, <1>3, RelayUntouched DEF Relay
<1> QED
  BY <1>2, <1>3

LEMMA RelayRestarts ==
  ASSUME RelayInv, BridgeRestart
  PROVE  RelayInv'
<1>1. /\ assignments' = [t \in Task |-> NoRow]
      /\ lives' = lives + 1 /\ UNCHANGED relayed
  BY DEF BridgeRestart
<1> QED
  BY <1>1 DEF RelayInv, RelayedOncePerLife

LEMMA RelayStep == RelayInv /\ [Next]_vars => RelayInv'
<1> SUFFICES ASSUME RelayInv, [Next]_vars
             PROVE  RelayInv'
  OBVIOUS
<1>1. CASE FleetStep
  <2>1. UNCHANGED bridgeVars
    BY <1>1 DEF FleetStep, Assign, Start, Finish, SetFree, TakeBack
  <2> QED
    BY <2>1, RelayUntouched DEF bridgeVars, cacheVars
<1>2. CASE BridgeStep
  <2>1. CASE HearFleet \/ \E r \in Robot : HearList(r)
    BY <2>1, RelayUntouched DEF HearFleet, HearList
  <2>2. CASE \E r \in Robot, t \in Task : HearAssignment(r, t)
    BY <2>2, RelayHears
  <2>3. ASSUME NEW q \in Request,
               \/ IngestTick(q) \/ Answered(q) \/ AnsweredTwice(q)
               \/ TimeOut(q) \/ Unheard(q)
        PROVE  RelayInv'
    BY <2>3, RelayUntouched
       DEF IngestTick, Answered, Post, AnsweredTwice, TimeOut, Unheard, bridgeVars, cacheVars
  <2>4. CASE RelayTick
    BY <2>4, RelayUntouched DEF RelayTick, cacheVars
  <2>5. CASE \E t \in Task : Relay(t)
    BY <2>5, RelayRelays
  <2>6. CASE BridgeRestart
    BY <2>6, RelayRestarts
  <2> QED
    BY <1>2, <2>1, <2>2, <2>3, <2>4, <2>5, <2>6 DEF BridgeStep
<1>3. CASE Intervene
  BY <1>3, RelayUntouched DEF Intervene, bridgeVars, cacheVars
<1>4. ASSUME NEW q \in Request, BackendStep(q)
      PROVE  RelayInv'
  BY <1>4, RelayUntouched DEF BackendStep, bridgeVars, cacheVars
<1>5. ASSUME NEW t \in Task, Create(t)
      PROVE  RelayInv'
  BY <1>5, RelayUntouched DEF Create, bridgeVars, cacheVars
<1>6. CASE UNCHANGED vars
  BY <1>6, RelayUntouched DEF vars, bridgeVars, cacheVars
<1> QED
  BY <1>1, <1>2, <1>3, <1>4, <1>5, <1>6 DEF Next

(* The relay publishes a task at most once for each start of the bridge    *)
(* (_relay_tick), through any faults, late batches and interventions.      *)
THEOREM RelayedOnce == Spec => []RelayedOncePerLife
<1>1. RelayInv => RelayedOncePerLife
  BY DEF RelayInv
<1> QED
  BY <1>1, RelayInitial, RelayStep, PTL DEF Spec
-----------------------------------------------------------------------------
RetentionSpec == RetentionInit /\ [][RetentionNext]_retentionVars

(* A row that is still in the table has been copied by crashes only.       *)
RetentionInv ==
  /\ rows \in [Event -> {"absent", "young", "old", "deleted"}]
  /\ archived \in [Event -> Nat] /\ deaths \in Nat
  /\ \A e \in Event :
       archived[e] <= IF rows[e] = "deleted" THEN deaths + 1 ELSE deaths

LEMMA RetentionInitial == RetentionInit => RetentionInv
BY DEF RetentionInit, RetentionInv

LEMMA RetentionStep == RetentionInv /\ [RetentionNext]_retentionVars => RetentionInv'
<1> SUFFICES ASSUME RetentionInv, [RetentionNext]_retentionVars
             PROVE  RetentionInv'
  OBVIOUS
<1>1. ASSUME NEW e \in Event, WriteEvent(e) \/ GrowOld(e)
      PROVE  RetentionInv'
  BY <1>1 DEF WriteEvent, GrowOld, RetentionInv
<1>2. CASE Cleanup
  BY <1>2 DEF Cleanup, Prune, Old, RetentionInv
<1>3. CASE Archive
  <2>1. CASE Prune /\ UNCHANGED deaths
    BY <1>3, <2>1 DEF Archive, Prune, Old, RetentionInv
  <2>2. CASE deaths' = deaths + 1 /\ UNCHANGED rows
    BY <1>3, <2>2 DEF Archive, Old, RetentionInv
  <2> QED
    BY <1>3, <2>1, <2>2 DEF Archive
<1>4. ASSUME NEW name \in Service, Pause(name) \/ Resume(name)
      PROVE  RetentionInv'
  BY <1>4 DEF Pause, Resume, RetentionInv
<1>5. CASE UNCHANGED retentionVars
  BY <1>5 DEF retentionVars, RetentionInv
<1> QED
  BY <1>1, <1>2, <1>3, <1>4, <1>5 DEF RetentionNext

(* A row is copied to the archive once, and once more for each crash       *)
(* between the copy and the deletion (archive, prune), whatever the other  *)
(* service does.                                                           *)
THEOREM ArchivedOnce == RetentionSpec => []ArchivedOncePerLife
<1>1. ASSUME RetentionInv PROVE ArchivedOncePerLife
  <2> SUFFICES ASSUME NEW e \in Event PROVE archived[e] <= deaths + 1
    BY DEF ArchivedOncePerLife
  <2>1. archived[e] \in Nat /\ deaths \in Nat
    BY <1>1 DEF RetentionInv
  <2>2. archived[e] <= deaths + 1 \/ archived[e] <= deaths
    BY <1>1 DEF RetentionInv
  <2> QED
    BY <2>1, <2>2
<1> QED
  BY <1>1, RetentionInitial, RetentionStep, PTL DEF RetentionSpec

-----------------------------------------------------------------------------
(* The tables.                                                             *)

Opening == [step : {"store", "derive"}, batch : Batch,
            robots : [Robot -> Report \cup {NoRow}], tasks : List]

LedgerType ==
  /\ db \in Database
  /\ requests \in [Request -> [step : {"idle", "done"}] \cup Opening]
  /\ overdue \subseteq Robot /\ restarts \in Nat

(* The tables of d that no transition reads are left out of what is said   *)
(* of the statements: the reservations, the events and the alerts.         *)
SameRobots(d, e) == e.robots = d.robots
SameTasks(d, e) == e.tasks = d.tasks /\ e.history = d.history
SameSessions(d, e) == e.open = d.open

LEMMA MoreRows ==
  ASSUME NEW n \in Rows, NEW k \in Nat
  PROVE  /\ More(n, k) \in Rows
         /\ n > 0 \/ k > 0 => More(n, k) > 0
         /\ k = 0 => More(n, k) = n
BY RowAssumption DEF More, Rows

LEMMA UpsertRobotsEffect ==
  ASSUME NEW d \in Database, NEW reports \in [Robot -> Report \cup {NoRow}]
  PROVE  LET e == UpsertRobots(d, reports)
         IN /\ e \in Database /\ SameTasks(d, e) /\ SameSessions(d, e)
            /\ \A r \in Robot : e.robots[r] = IF reports[r] = NoRow THEN d.robots[r] ELSE reports[r]
<1> DEFINE new == [r \in Robot |-> IF reports[r] = NoRow THEN d.robots[r] ELSE reports[r]]
<1>1. d.robots \in [Robot -> Report \cup {NoRow}]
  BY DEF Database
<1>2. new \in [Robot -> Report \cup {NoRow}]
  BY <1>1
<1>3. UpsertRobots(d, reports) = [d EXCEPT !.robots = new]
  BY DEF UpsertRobots
<1> HIDE DEF new
<1>4. [d EXCEPT !.robots = new] \in Database
  BY <1>2 DEF Database
<1>5. LET e == [d EXCEPT !.robots = new]
      IN SameTasks(d, e) /\ SameSessions(d, e) /\ e.robots = new
  BY DEF Database, SameTasks, SameSessions
<1> QED
  BY <1>3, <1>4, <1>5 DEF new

LEMMA UpsertTasksEffect ==
  ASSUME NEW d \in Database, NEW entries \in Seq(List)
  PROVE  LET e == UpsertTasks(d, entries)
         IN /\ e \in Database /\ SameRobots(d, e) /\ SameSessions(d, e)
            /\ e.history = d.history
            /\ \A t \in Task : \/ e.tasks[t] = d.tasks[t]
                               \/ \E i \in DOMAIN entries : e.tasks[t] = entries[i][t]
<1> DEFINE row(t) == IF LastOf(entries, t) = {} THEN d.tasks[t]
                     ELSE entries[CHOOSE i \in LastOf(entries, t) : TRUE][t]
           new == [t \in Task |-> row(t)]
<1>1. d.tasks \in List
  BY DEF Database, List
<1>2. ASSUME NEW t \in Task
      PROVE  row(t) = d.tasks[t] \/ \E i \in DOMAIN entries : row(t) = entries[i][t]
  <2>1. CASE LastOf(entries, t) = {}
    BY <2>1
  <2>2. CASE LastOf(entries, t) # {}
    <3>1. (CHOOSE i \in LastOf(entries, t) : TRUE) \in LastOf(entries, t)
      BY <2>2
    <3>2. (CHOOSE i \in LastOf(entries, t) : TRUE) \in DOMAIN entries
      BY <3>1 DEF LastOf
    <3> QED
      BY <2>2, <3>2
  <2> QED
    BY <2>1, <2>2
<1> HIDE DEF row
<1>3. new \in List
  <2>1. ASSUME NEW t \in Task PROVE row(t) \in TaskRow \cup {NoRow}
    <3>1. ASSUME NEW i \in DOMAIN entries PROVE entries[i] \in List
      BY <3>1
    <3> QED
      BY <1>1, <1>2, <3>1 DEF List
  <2> QED
    BY <2>1 DEF List
<1>4. UpsertTasks(d, entries) = [d EXCEPT !.tasks = new]
  BY DEF UpsertTasks, row
<1>5. \A t \in Task : new[t] = row(t)
  OBVIOUS
<1> HIDE DEF new
<1>6. [d EXCEPT !.tasks = new] \in Database
  BY <1>3 DEF Database, List
<1>7. LET e == [d EXCEPT !.tasks = new]
      IN /\ SameRobots(d, e) /\ SameSessions(d, e) /\ e.history = d.history
         /\ e.tasks = new
  BY DEF Database, SameRobots, SameSessions
<1> QED
  BY <1>2, <1>4, <1>5, <1>6, <1>7

LEMMA StoredEffect ==
  ASSUME db \in Database, NEW batch \in Batch
  PROVE  /\ Stored(batch) \in Database
         /\ Stored(batch).open = db.open /\ Stored(batch).history = db.history
         /\ \A r \in Robot : Stored(batch).robots[r] =
              IF batch.robots[r] = NoRow THEN db.robots[r] ELSE batch.robots[r]
         /\ \A t \in Task : \/ Stored(batch).tasks[t] = db.tasks[t]
                            \/ \E i \in DOMAIN batch.tasks : Stored(batch).tasks[t] = batch.tasks[i][t]
<1>1. /\ batch.robots \in [Robot -> Report \cup {NoRow}] /\ batch.tasks \in Seq(List)
      /\ batch.reservations \subseteq Robot \X Task
  BY DEF Batch
<1>2. PICK d : d = UpsertRobots(db, batch.robots)
  OBVIOUS
<1>3. /\ d \in Database /\ SameTasks(db, d) /\ SameSessions(db, d)
      /\ \A r \in Robot : d.robots[r] = IF batch.robots[r] = NoRow THEN db.robots[r] ELSE batch.robots[r]
  BY <1>1, <1>2, UpsertRobotsEffect
<1>4. PICK e : e = UpsertTasks(d, batch.tasks)
  OBVIOUS
<1>5. /\ e \in Database /\ SameRobots(d, e) /\ SameSessions(d, e)
      /\ e.history = d.history
      /\ \A t \in Task : \/ e.tasks[t] = d.tasks[t]
                         \/ \E i \in DOMAIN batch.tasks : e.tasks[t] = batch.tasks[i][t]
  BY <1>1, <1>3, <1>4, UpsertTasksEffect
<1>6. Stored(batch) = [e EXCEPT !.reservations = @ \cup batch.reservations]
  BY <1>2, <1>4 DEF Stored, AddReservations
<1>7. LET f == [e EXCEPT !.reservations = @ \cup batch.reservations]
      IN f \in Database /\ SameRobots(e, f) /\ SameTasks(e, f) /\ SameSessions(e, f)
  BY <1>1, <1>5 DEF Database, SameRobots, SameTasks, SameSessions
<1> QED
  BY <1>3, <1>5, <1>6, <1>7 DEF SameRobots, SameTasks, SameSessions

LEMMA CompletionsCount ==
  ASSUME NEW req \in Opening, NEW t \in Task
  PROVE  /\ Completions(req, t) \in Nat
         /\ Completing(req, t) # {} => Completions(req, t) > 0
<1> DEFINE C == Completing(req, t)
<1>1. req.batch.tasks \in Seq(List)
  BY DEF Opening, Batch
<1>2. DOMAIN req.batch.tasks = 1..Len(req.batch.tasks) /\ Len(req.batch.tasks) \in Nat
  BY <1>1
<1>3. IsFiniteSet(1..Len(req.batch.tasks))
  BY <1>2, FS_Interval
<1>4. C \subseteq 1..Len(req.batch.tasks)
  BY <1>2 DEF Completing
<1>5. IsFiniteSet(C)
  BY <1>3, <1>4, FS_Subset
<1>6. Cardinality(C) \in Nat /\ (Cardinality(C) = 0 <=> C = {})
  BY <1>5, FS_CardinalityType, FS_EmptySet
<1>7. t \in GoneIdle(req) => C = {}
  BY DEF GoneIdle
<1> QED
  BY <1>6, <1>7 DEF Completions

LEMMA CompleteTasksEffect ==
  ASSUME db \in Database, NEW req \in Opening
  PROVE  LET e == CompleteTasks(req)
         IN /\ e \in Database /\ SameRobots(db, e) /\ SameSessions(db, e)
            /\ \A t \in Task :
                 /\ e.history[t]["COMPLETED"] = More(db.history[t]["COMPLETED"], Completions(req, t))
                 /\ \/ e.tasks[t] = db.tasks[t]
                    \/ e.history[t]["COMPLETED"] > 0
<1> DEFINE row(t) == IF db.tasks[t] = NoRow \/ Completions(req, t) = 0 THEN db.tasks[t]
                     ELSE [db.tasks[t] EXCEPT !.status = "COMPLETED"]
           kept == [t \in Task |-> row(t)]
           past(t) == [db.history[t] EXCEPT !["COMPLETED"] = More(@, Completions(req, t))]
           pasts == [t \in Task |-> past(t)]
<1>1. db.tasks \in List /\ db.history \in [Task -> [Past -> Rows]]
  BY DEF Database, List
<1>2. ASSUME NEW t \in Task
      PROVE  /\ row(t) \in TaskRow \cup {NoRow} /\ past(t) \in [Past -> Rows]
             /\ past(t)["COMPLETED"] = More(db.history[t]["COMPLETED"], Completions(req, t))
             /\ row(t) = db.tasks[t] \/ past(t)["COMPLETED"] > 0
  <2>1. "COMPLETED" \in Past /\ "COMPLETED" \in Status
    BY DEF Past, Status, ListStatus
  <2>2. db.history[t] \in [Past -> Rows] /\ db.history[t]["COMPLETED"] \in Rows
    BY <1>1, <2>1
  <2>3. Completions(req, t) \in Nat
    BY CompletionsCount
  <2>4. /\ More(db.history[t]["COMPLETED"], Completions(req, t)) \in Rows
        /\ Completions(req, t) > 0 => More(db.history[t]["COMPLETED"], Completions(req, t)) > 0
    BY <2>2, <2>3, MoreRows
  <2>5. /\ past(t) \in [Past -> Rows]
        /\ past(t)["COMPLETED"] = More(db.history[t]["COMPLETED"], Completions(req, t))
    BY <2>1, <2>2, <2>4
  <2>6. row(t) \in TaskRow \cup {NoRow}
    <3>1. db.tasks[t] \in TaskRow \cup {NoRow}
      BY <1>1 DEF List
    <3>2. \A x \in TaskRow : [x EXCEPT !.status = "COMPLETED"] \in TaskRow
      BY <2>1 DEF TaskRow
    <3> QED
      BY <3>1, <3>2
  <2>7. row(t) = db.tasks[t] \/ Completions(req, t) > 0
    BY <2>3
  <2> QED
    BY <2>4, <2>5, <2>6, <2>7
<1>3. CompleteTasks(req) = [db EXCEPT !.tasks = kept, !.history = pasts]
  BY DEF CompleteTasks
<1> HIDE DEF row, past
<1>4. kept \in List /\ pasts \in [Task -> [Past -> Rows]]
  BY <1>2 DEF List
<1>5. \A t \in Task : kept[t] = row(t) /\ pasts[t] = past(t)
  OBVIOUS
<1> HIDE DEF kept, pasts
<1>6. [db EXCEPT !.tasks = kept, !.history = pasts] \in Database
  BY <1>4 DEF Database, List
<1>7. LET e == [db EXCEPT !.tasks = kept, !.history = pasts]
      IN SameRobots(db, e) /\ SameSessions(db, e) /\ e.tasks = kept /\ e.history = pasts
  BY DEF Database, SameRobots, SameSessions
<1> QED
  BY <1>2, <1>3, <1>5, <1>6, <1>7

LEMMA SessionsEffect ==
  ASSUME NEW d \in Database, NEW R \in SUBSET Robot
  PROVE  /\ LET e == AddChargingSessions(d, R)
            IN /\ e \in Database /\ SameRobots(d, e) /\ SameTasks(d, e)
               /\ \A r \in Robot : e.open[r] = IF r \in R THEN More(d.open[r], 1) ELSE d.open[r]
         /\ LET e == EndChargingSessions(d, R)
            IN /\ e \in Database /\ SameRobots(d, e) /\ SameTasks(d, e)
               /\ \A r \in Robot : e.open[r] = IF r \in R /\ d.open[r] > 0 THEN d.open[r] - 1
                                               ELSE d.open[r]
<1> DEFINE more == [r \in Robot |-> IF r \in R THEN More(d.open[r], 1) ELSE d.open[r]]
           less == [r \in Robot |-> IF r \in R /\ d.open[r] > 0 THEN d.open[r] - 1 ELSE d.open[r]]
<1>1. d.open \in [Robot -> Rows]
  BY DEF Database
<1>2. more \in [Robot -> Rows] /\ less \in [Robot -> Rows]
  <2>1. \A n \in Rows : More(n, 1) \in Rows /\ (n > 0 => n - 1 \in Rows)
    BY MoreRows, RowAssumption DEF Rows
  <2> QED
    BY <1>1, <2>1
<1>3. /\ AddChargingSessions(d, R) = [d EXCEPT !.open = more]
      /\ EndChargingSessions(d, R) = [d EXCEPT !.open = less]
  BY DEF AddChargingSessions, EndChargingSessions
<1>4. ASSUME NEW open \in [Robot -> Rows]
      PROVE  LET e == [d EXCEPT !.open = open]
             IN e \in Database /\ SameRobots(d, e) /\ SameTasks(d, e) /\ e.open = open
  BY DEF Database, SameRobots, SameTasks
<1> HIDE DEF more, less
<1>5. /\ [d EXCEPT !.open = more] \in Database
      /\ SameRobots(d, [d EXCEPT !.open = more]) /\ SameTasks(d, [d EXCEPT !.open = more])
      /\ [d EXCEPT !.open = more].open = more
      /\ [d EXCEPT !.open = less] \in Database
      /\ SameRobots(d, [d EXCEPT !.open = less]) /\ SameTasks(d, [d EXCEPT !.open = less])
      /\ [d EXCEPT !.open = less].open = less
  BY <1>2, <1>4
<1> QED
  BY <1>3, <1>5 DEF more, less

LEMMA AlertsEffect ==
  ASSUME NEW d \in Database, NEW R \in SUBSET Robot,
         NEW kind \in {"robot_offline", "low_battery"}
  PROVE  /\ LET e == AddAlerts(d, R, kind)
            IN e \in Database /\ SameRobots(d, e) /\ SameTasks(d, e) /\ SameSessions(d, e)
         /\ LET e == Offline(d, R)
            IN e \in Database /\ SameRobots(d, e) /\ SameTasks(d, e) /\ SameSessions(d, e)
<1>1. ASSUME NEW c \in Database, NEW k \in {"robot_offline", "low_battery"}
      PROVE  LET e == AddAlerts(c, R, k)
             IN e \in Database /\ SameRobots(c, e) /\ SameTasks(c, e) /\ SameSessions(c, e)
  <2>1. c.alerts \cup (R \X {k}) \subseteq Robot \X {"robot_offline", "low_battery"}
    BY DEF Database
  <2> QED
    BY <2>1 DEF AddAlerts, Database, SameRobots, SameTasks, SameSessions
<1>2. PICK c : c = [d EXCEPT !.events = @ \cup R]
  OBVIOUS
<1>3. c \in Database /\ SameRobots(d, c) /\ SameTasks(d, c) /\ SameSessions(d, c)
  BY <1>2 DEF Database, SameRobots, SameTasks, SameSessions
<1>4. Offline(d, R) = AddAlerts(c, R, "robot_offline")
  BY <1>2 DEF Offline
<1> QED
  BY <1>1, <1>3, <1>4 DEF SameRobots, SameTasks, SameSessions

LEMMA DerivedEffect ==
  ASSUME db \in Database, NEW req \in Opening
  PROVE  /\ Derived(req) \in Database /\ Derived(req).robots = db.robots
         /\ \A r \in Robot : Derived(req).open[r] =
              LET n == IF r \in Began(req) THEN More(db.open[r], 1) ELSE db.open[r]
              IN  IF r \in Ended(req) /\ n > 0 THEN n - 1 ELSE n
         /\ \A t \in Task :
              /\ Derived(req).history[t]["COMPLETED"]
                   = More(db.history[t]["COMPLETED"], Completions(req, t))
              /\ \/ Derived(req).tasks[t] = db.tasks[t]
                 \/ Derived(req).history[t]["COMPLETED"] > 0
<1>1. Began(req) \subseteq Robot /\ Ended(req) \subseteq Robot
      /\ WentOffline(req) \subseteq Robot /\ RanLow(req) \subseteq Robot
  BY DEF Began, Ended, WentOffline, RanLow, HadRow, Reported
<1>2. PICK a : a = CompleteTasks(req)
  OBVIOUS
<1>3. /\ a \in Database /\ SameRobots(db, a) /\ SameSessions(db, a)
      /\ \A t \in Task :
           /\ a.history[t]["COMPLETED"] = More(db.history[t]["COMPLETED"], Completions(req, t))
           /\ a.tasks[t] = db.tasks[t] \/ a.history[t]["COMPLETED"] > 0
  BY <1>2, CompleteTasksEffect
<1>4. PICK b : b = AddChargingSessions(a, Began(req))
  OBVIOUS
<1>5. /\ b \in Database /\ SameRobots(a, b) /\ SameTasks(a, b)
      /\ \A r \in Robot : b.open[r] = IF r \in Began(req) THEN More(a.open[r], 1) ELSE a.open[r]
  BY <1>1, <1>3, <1>4, SessionsEffect
<1>6. PICK c : c = EndChargingSessions(b, Ended(req))
  OBVIOUS
<1>7. /\ c \in Database /\ SameRobots(b, c) /\ SameTasks(b, c)
      /\ \A r \in Robot : c.open[r] = IF r \in Ended(req) /\ b.open[r] > 0 THEN b.open[r] - 1
                                      ELSE b.open[r]
  BY <1>1, <1>5, <1>6, SessionsEffect
<1>8. PICK e : e = Offline(c, WentOffline(req))
  OBVIOUS
<1>9. e \in Database /\ SameRobots(c, e) /\ SameTasks(c, e) /\ SameSessions(c, e)
  BY <1>1, <1>7, <1>8, AlertsEffect
<1>10. Derived(req) = AddAlerts(e, RanLow(req), "low_battery")
  BY <1>2, <1>4, <1>6, <1>8 DEF Derived
<1>11. PICK f : f = AddAlerts(e, RanLow(req), "low_battery")
  OBVIOUS
<1>12. f \in Database /\ SameRobots(e, f) /\ SameTasks(e, f) /\ SameSessions(e, f)
  BY <1>1, <1>9, <1>11, AlertsEffect
<1>13. /\ f.robots = db.robots /\ f.tasks = a.tasks /\ f.history = a.history /\ f.open = c.open
       /\ a.open = db.open
  BY <1>3, <1>5, <1>7, <1>9, <1>12 DEF SameRobots, SameTasks, SameSessions
<1>14. \A r \in Robot : c.open[r] =
         LET n == IF r \in Began(req) THEN More(db.open[r], 1) ELSE db.open[r]
         IN  IF r \in Ended(req) /\ n > 0 THEN n - 1 ELSE n
  BY <1>5, <1>7, <1>13
<1> QED
  BY <1>3, <1>10, <1>11, <1>12, <1>13, <1>14

-----------------------------------------------------------------------------
(* What a step of the backend does to the tables and the requests, in the  *)
(* terms of the invariants.                                                *)

LEMMA OpenedEffect ==
  ASSUME LedgerType, NEW batch \in Batch
  PROVE  /\ Opened(batch) \in Opening
         /\ Opened(batch).step = "store" /\ Opened(batch).batch = batch
         /\ \A r \in Robot : Opened(batch).robots[r] =
              IF batch.robots[r] = NoRow THEN NoRow ELSE db.robots[r]
         /\ \A t \in Task : Opened(batch).tasks[t] \in {db.tasks[t], NoRow}
<1> DEFINE R == [r \in Robot |-> IF r \in Reported(batch) THEN db.robots[r] ELSE NoRow]
           T == [t \in Task |-> IF t \in Listed(batch) THEN db.tasks[t] ELSE NoRow]
<1>1. db.robots \in [Robot -> Report \cup {NoRow}] /\ db.tasks \in List
  BY DEF LedgerType, Database, List
<1>2. R \in [Robot -> Report \cup {NoRow}] /\ T \in List
  BY <1>1 DEF List
<1>3. /\ \A r \in Robot : R[r] = IF batch.robots[r] = NoRow THEN NoRow ELSE db.robots[r]
      /\ \A t \in Task : T[t] \in {db.tasks[t], NoRow}
  BY DEF Reported
<1>4. Opened(batch) = [step |-> "store", batch |-> batch, robots |-> R, tasks |-> T]
  BY DEF Opened
<1> HIDE DEF R, T
<1> QED
  BY <1>2, <1>3, <1>4 DEF Opening

LEMMA RequestSteps ==
  ASSUME LedgerType, NEW q \in Request
  PROVE  /\ requests[q].step \in {"store", "derive"} => requests[q] \in Opening
         /\ requests[q].step \in {"store", "derive", "idle", "done"}
BY DEF LedgerType, Opening

LEMMA StoreEffect ==
  ASSUME LedgerType, NEW q \in Request, Store(q)
  PROVE  /\ requests[q] \in Opening
         /\ requests' = [requests EXCEPT ![q] = requests'[q]]
         /\ requests'[q] \in Opening
         /\ requests'[q].step = "derive" /\ requests'[q].batch = requests[q].batch
         /\ requests'[q].robots = requests[q].robots /\ requests'[q].tasks = requests[q].tasks
         /\ db' \in Database /\ UNCHANGED <<overdue, restarts>>
<1>1. requests[q] \in Opening
  BY RequestSteps DEF Store
<1>2. requests[q].batch \in Batch
  BY <1>1 DEF Opening
<1>3. db' = Stored(requests[q].batch) /\ UNCHANGED <<overdue, restarts>>
  BY DEF Store
<1>4. db' \in Database
  BY <1>2, <1>3, StoredEffect DEF LedgerType
<1>5. requests' = [requests EXCEPT ![q] = [requests[q] EXCEPT !.step = "derive"]]
  BY DEF Store
<1>6. PICK new : new = [requests[q] EXCEPT !.step = "derive"]
  OBVIOUS
<1>7. /\ new \in Opening /\ new.step = "derive" /\ new.batch = requests[q].batch
      /\ new.robots = requests[q].robots /\ new.tasks = requests[q].tasks
  BY <1>1, <1>6 DEF Opening
<1>8. requests' = [requests EXCEPT ![q] = new] /\ requests'[q] = new
  BY <1>5, <1>6 DEF LedgerType
<1> QED
  BY <1>1, <1>3, <1>4, <1>7, <1>8

LEMMA DeriveEffect ==
  ASSUME LedgerType, NEW q \in Request, Derive(q)
  PROVE  /\ requests[q] \in Opening
         /\ requests' = [requests EXCEPT ![q] = [step |-> "done"]]
         /\ db' = Derived(requests[q]) /\ db' \in Database
         /\ UNCHANGED <<overdue, restarts>>
<1>1. requests[q] \in Opening
  BY RequestSteps DEF Derive
<1>2. Derived(requests[q]) \in Database
  BY <1>1, DerivedEffect DEF LedgerType
<1> QED
  BY <1>1, <1>2 DEF Derive

(* The rows of tasks and their history under the handlers of the API.      *)
LEMMA HandlersEffect ==
  ASSUME LedgerType, NEW t \in Task,
         \/ TaskCreate(t) \/ TaskDelete(t)
         \/ \E s \in {"ASSIGNED", "COMPLETED", "CANCELLED"} : TaskPatch(t, s)
  PROVE  /\ db' \in Database /\ UNCHANGED <<requests, overdue, restarts>>
         /\ \A u \in Task :
              /\ db.history[u]["COMPLETED"] > 0 => db'.history[u]["COMPLETED"] > 0
              /\ StatusOf(db'.tasks[u]) = "COMPLETED" =>
                   StatusOf(db.tasks[u]) = "COMPLETED" \/ db'.history[u]["COMPLETED"] > 0
<1>0. "COMPLETED" \in Status /\ "PENDING" \in Status /\ "CANCELLED" \in Status
      /\ "ASSIGNED" \in Status /\ "COMPLETED" \in Past /\ "PENDING" \in Past
      /\ "ASSIGNED" \notin Past /\ "CANCELLED" \notin Past
  BY DEF Status, ListStatus, Past
<1>1. db.tasks \in [Task -> TaskRow \cup {NoRow}] /\ db.history \in [Task -> [Past -> Rows]]
  BY DEF LedgerType, Database
<1>2. \A n \in Rows : More(n, 1) \in Rows /\ More(n, 1) > 0
  BY MoreRows
<1>3. Pending \in TaskRow /\ NoRow \notin TaskRow /\ Nobody # "COMPLETED"
  BY <1>0, NobodyAssumption, NoRowAssumption DEF Pending, TaskRow
(* A statement on a row, and one on the history, of t.                     *)
<1>4. ASSUME NEW d \in Database, NEW s \in Past
      PROVE  /\ AddTaskHistory(d, t, s) \in Database /\ AddTaskHistory(d, t, s).tasks = d.tasks
             /\ AddTaskHistory(d, t, s).history[t][s] > 0
             /\ \A u \in Task : d.history[u]["COMPLETED"] > 0 =>
                  AddTaskHistory(d, t, s).history[u]["COMPLETED"] > 0
  <2> DEFINE past == [d.history EXCEPT ![t] = [d.history[t] EXCEPT ![s] = More(d.history[t][s], 1)]]
  <2>1. d.history \in [Task -> [Past -> Rows]]
    BY DEF Database
  <2>2. /\ past \in [Task -> [Past -> Rows]] /\ past[t][s] > 0
        /\ \A u \in Task : d.history[u]["COMPLETED"] > 0 => past[u]["COMPLETED"] > 0
    <3>1. d.history[t] \in [Past -> Rows] /\ d.history[t][s] \in Rows
      BY <2>1
    <3>2. PICK n \in Rows : n = More(d.history[t][s], 1) /\ n > 0
      BY <3>1, <1>2
    <3>3. past = [d.history EXCEPT ![t] = [d.history[t] EXCEPT ![s] = n]]
      BY <3>2
    <3> QED
      BY <2>1, <3>1, <3>2, <3>3, <1>0
  <2>3. AddTaskHistory(d, t, s) = [d EXCEPT !.history = past]
    BY DEF AddTaskHistory, Database
  <2> HIDE DEF past
  <2>4. [d EXCEPT !.history = past] \in Database
        /\ [d EXCEPT !.history = past].tasks = d.tasks /\ [d EXCEPT !.history = past].history = past
    BY <2>2 DEF Database
  <2> QED
    BY <2>2, <2>3, <2>4
<1>5. ASSUME NEW d \in Database, NEW row \in TaskRow \cup {NoRow}
      PROVE  /\ [d EXCEPT !.tasks[t] = row] \in Database
             /\ [d EXCEPT !.tasks[t] = row].history = d.history
             /\ [d EXCEPT !.tasks[t] = row].tasks = [d.tasks EXCEPT ![t] = row]
  BY DEF Database
<1>6. CASE TaskCreate(t)
  <2>1. PICK e : e = UpsertTasks(db, <<[NoEntries EXCEPT ![t] = Pending]>>)
    OBVIOUS
  <2>2. [NoEntries EXCEPT ![t] = Pending] \in List
    BY <1>3 DEF NoEntries, List
  <2>3. <<[NoEntries EXCEPT ![t] = Pending]>> \in Seq(List)
    BY <2>2
  <2>4. /\ e \in Database /\ e.history = db.history
        /\ \A u \in Task : \/ e.tasks[u] = db.tasks[u]
                           \/ \E i \in DOMAIN <<[NoEntries EXCEPT ![t] = Pending]>> :
                                e.tasks[u] = <<[NoEntries EXCEPT ![t] = Pending]>>[i][u]
    BY <2>1, <2>3, UpsertTasksEffect DEF LedgerType
  <2>5. \A u \in Task : e.tasks[u] \in {db.tasks[u], NoRow, Pending}
    BY <2>4 DEF NoEntries
  <2>6. \A u \in Task : StatusOf(e.tasks[u]) = "COMPLETED" => StatusOf(db.tasks[u]) = "COMPLETED"
    BY <2>5, <1>3 DEF StatusOf, Pending
  <2>7. db' = AddTaskHistory(e, t, "PENDING") /\ UNCHANGED <<requests, overdue, restarts>>
    BY <1>6, <2>1 DEF TaskCreate
  <2> QED
    BY <2>4, <2>6, <2>7, <1>0, <1>4
<1>7. CASE TaskDelete(t)
  <2>1. db' = [db EXCEPT !.tasks[t] = NoRow] /\ UNCHANGED <<requests, overdue, restarts>>
    BY <1>7 DEF TaskDelete, DeleteTask
  <2>2. /\ db' \in Database /\ db'.history = db.history
        /\ db'.tasks = [db.tasks EXCEPT ![t] = NoRow]
    BY <1>5, <2>1 DEF LedgerType
  <2> QED
    BY <1>1, <1>3, <2>1, <2>2 DEF StatusOf
<1>8. ASSUME NEW s \in {"ASSIGNED", "COMPLETED", "CANCELLED"}, TaskPatch(t, s)
      PROVE  /\ db' \in Database /\ UNCHANGED <<requests, overdue, restarts>>
             /\ \A u \in Task :
                  /\ db.history[u]["COMPLETED"] > 0 => db'.history[u]["COMPLETED"] > 0
                  /\ StatusOf(db'.tasks[u]) = "COMPLETED" =>
                       StatusOf(db.tasks[u]) = "COMPLETED" \/ db'.history[u]["COMPLETED"] > 0
  <2>1. db.tasks[t] \in TaskRow /\ db.tasks[t] # NoRow
    BY <1>1, <1>8 DEF TaskPatch
  <2>2. PICK d : d = IF s = "COMPLETED" THEN AddTaskHistory(db, t, "COMPLETED") ELSE db
    OBVIOUS
  <2>3. db' = UpdateTask(d, t, s) /\ UNCHANGED <<requests, overdue, restarts>>
    <3>1. s = "ASSIGNED" => AddTaskHistory(db, t, s) = db
      BY <1>0 DEF AddTaskHistory
    <3>2. db' = Patched(t, s) /\ UNCHANGED <<requests, overdue, restarts>>
      BY <1>8 DEF TaskPatch
    <3> QED
      BY <2>2, <3>1, <3>2 DEF Patched
  <2>4. /\ d \in Database /\ d.tasks = db.tasks
        /\ \A u \in Task : db.history[u]["COMPLETED"] > 0 => d.history[u]["COMPLETED"] > 0
        /\ s = "COMPLETED" => d.history[t]["COMPLETED"] > 0
    BY <1>0, <1>4, <2>2 DEF LedgerType
  <2>5. [db.tasks[t] EXCEPT !.status = s] \in TaskRow
        /\ [db.tasks[t] EXCEPT !.status = s].status = s
    BY <1>0, <2>1 DEF TaskRow
  <2>6. PICK row \in TaskRow : row = [db.tasks[t] EXCEPT !.status = s] /\ row.status = s
    BY <2>5
  <2>7. UpdateTask(d, t, s) = [d EXCEPT !.tasks[t] = row]
    <3>1. UpdateTask(d, t, s) = [d EXCEPT !.tasks[t] = [@ EXCEPT !.status = s]]
      BY <2>1, <2>4 DEF UpdateTask
    <3> QED
      BY <3>1, <2>4, <2>6 DEF Database
  <2>8. db' \in Database /\ db'.history = d.history /\ db'.tasks = [db.tasks EXCEPT ![t] = row]
    BY <1>5, <2>3, <2>4, <2>7
  <2>9. ASSUME NEW u \in Task, StatusOf(db'.tasks[u]) = "COMPLETED"
        PROVE  StatusOf(db.tasks[u]) = "COMPLETED" \/ db'.history[u]["COMPLETED"] > 0
    <3>1. CASE u = t
      BY <1>1, <1>3, <2>4, <2>6, <2>8, <2>9, <3>1 DEF StatusOf
    <3>2. CASE u # t
      BY <1>1, <2>8, <2>9, <3>2
    <3> QED
      BY <3>1, <3>2
  <2> QED
    BY <2>3, <2>4, <2>8, <2>9
<1> QED
  BY <1>6, <1>7, <1>8

-----------------------------------------------------------------------------
(* The completions of tasks.                                               *)

(* A completion of t is in the history, or a request owes it.              *)
Recorded(t) ==
  \/ db.history[t]["COMPLETED"] > 0
  \/ \E q \in Request : requests[q].step = "derive" /\ Completing(requests[q], t) # {}

(* A request that read a task as COMPLETED will not note it again.         *)
RecordedInv ==
  \A t \in Task :
    /\ StatusOf(db.tasks[t]) = "COMPLETED" => Recorded(t)
    /\ \A q \in Request :
         requests[q].step = "store" /\ StatusOf(requests[q].tasks[t]) = "COMPLETED" => Recorded(t)

LEMMA HistoryType ==
  ASSUME db \in Database, NEW t \in Task
  PROVE  db.history[t]["COMPLETED"] \in Rows /\ db.history[t]["COMPLETED"] \in Nat
<1>1. "COMPLETED" \in Past /\ db.history \in [Task -> [Past -> Rows]]
  BY DEF Database, Past
<1> QED
  BY <1>1, RowAssumption DEF Rows

(* What has been recorded stays recorded when no history is lost and no    *)
(* request stops to owe a transition.                                      *)
LEMMA RecordedKept ==
  ASSUME \A u \in Task : db.history[u]["COMPLETED"] > 0 => db'.history[u]["COMPLETED"] > 0,
         \A p \in Request : requests[p].step = "derive" => requests'[p] = requests[p]
  PROVE  \A u \in Task : Recorded(u) => Recorded(u)'
BY DEF Recorded, Completing

LEMMA RecordedReceive ==
  ASSUME LedgerType, RecordedInv, NEW q \in Request, NEW batch \in Batch,
         requests[q].step \in {"idle", "done"}, Receive(q, batch)
  PROVE  RecordedInv'
<1>1. /\ requests' = [requests EXCEPT ![q] = Opened(batch)]
      /\ UNCHANGED <<db, overdue, restarts>>
  BY DEF Receive
<1>2. /\ Opened(batch) \in Opening /\ Opened(batch).step = "store"
      /\ \A t \in Task : Opened(batch).tasks[t] \in {db.tasks[t], NoRow}
  BY OpenedEffect
<1> HIDE DEF Opened
<1>4. \A p \in Request : p # q => requests'[p] = requests[p]
  BY <1>1 DEF LedgerType
<1>5. requests'[q] = Opened(batch)
  BY <1>1 DEF LedgerType
<1>6. \A u \in Task : Recorded(u) => Recorded(u)'
  BY <1>1, <1>4, RecordedKept
<1>7. StatusOf(NoRow) # "COMPLETED"
  BY NobodyAssumption DEF StatusOf, Status, ListStatus
<1>8. \A t \in Task : StatusOf(requests'[q].tasks[t]) = "COMPLETED" => StatusOf(db.tasks[t]) = "COMPLETED"
  BY <1>2, <1>5, <1>7
<1> QED
  BY <1>1, <1>4, <1>6, <1>8 DEF RecordedInv

LEMMA RecordedStore ==
  ASSUME LedgerType, RecordedInv, NEW q \in Request, Store(q)
  PROVE  RecordedInv'
<1>1. /\ requests[q] \in Opening
      /\ requests' = [requests EXCEPT ![q] = requests'[q]]
      /\ requests'[q] \in Opening
      /\ requests'[q].step = "derive" /\ requests'[q].batch = requests[q].batch
      /\ requests'[q].tasks = requests[q].tasks
      /\ db' \in Database /\ UNCHANGED <<overdue, restarts>>
  BY StoreEffect
<1>3. \A p \in Request : p # q => requests'[p] = requests[p]
  BY <1>1 DEF LedgerType
<1>4. requests[q].batch \in Batch /\ requests[q].step = "store" /\ db' = Stored(requests[q].batch)
  BY <1>1 DEF Opening, Store
<1>5. /\ db'.history = db.history
      /\ \A t \in Task : \/ db'.tasks[t] = db.tasks[t]
                         \/ \E i \in DOMAIN requests[q].batch.tasks :
                              db'.tasks[t] = requests[q].batch.tasks[i][t]
  BY <1>4, StoredEffect DEF LedgerType
<1>6. \A u \in Task : Recorded(u) => Recorded(u)'
  BY <1>3, <1>4, <1>5, RecordedKept
(* An entry of the batch makes t COMPLETED: either it was read so, or the  *)
(* request owes the completion.                                            *)
<1>7. ASSUME NEW t \in Task, StatusOf(db'.tasks[t]) = "COMPLETED"
      PROVE  Recorded(t)'
  <2>1. CASE db'.tasks[t] = db.tasks[t]
    BY <1>6, <1>7, <2>1 DEF RecordedInv
  <2>2. CASE StatusOf(requests[q].tasks[t]) = "COMPLETED"
    BY <1>4, <1>6, <2>2 DEF RecordedInv
  <2>3. ASSUME NEW i \in DOMAIN requests[q].batch.tasks,
               db'.tasks[t] = requests[q].batch.tasks[i][t],
               StatusOf(requests[q].tasks[t]) # "COMPLETED"
        PROVE  Recorded(t)'
    <3>1. i \in Completing(requests'[q], t)
      BY <1>1, <1>7, <2>3 DEF Completing
    <3>2. \E p \in Request : requests'[p].step = "derive" /\ Completing(requests'[p], t) # {}
      BY <1>1, <3>1
    <3> QED
      BY <3>2 DEF Recorded, Completing
  <2> QED
    BY <1>5, <2>1, <2>2, <2>3
<1>8. ASSUME NEW t \in Task, NEW p \in Request,
             requests'[p].step = "store", StatusOf(requests'[p].tasks[t]) = "COMPLETED"
      PROVE  Recorded(t)'
  BY <1>1, <1>3, <1>6, <1>8 DEF RecordedInv
<1> QED
  BY <1>7, <1>8 DEF RecordedInv

LEMMA RecordedDerive ==
  ASSUME LedgerType, RecordedInv, NEW q \in Request, Derive(q)
  PROVE  RecordedInv'
<1>1. /\ requests[q] \in Opening
      /\ requests' = [requests EXCEPT ![q] = [step |-> "done"]]
      /\ db' = Derived(requests[q]) /\ db' \in Database
      /\ UNCHANGED <<overdue, restarts>>
  BY DeriveEffect
<1>3. \A p \in Request : p # q => requests'[p] = requests[p]
  BY <1>1 DEF LedgerType
<1>4. requests'[q].step = "done"
  BY <1>1 DEF LedgerType
<1>5. \A t \in Task :
        /\ db'.history[t]["COMPLETED"]
             = More(db.history[t]["COMPLETED"], Completions(requests[q], t))
        /\ db'.tasks[t] = db.tasks[t] \/ db'.history[t]["COMPLETED"] > 0
  BY <1>1, DerivedEffect DEF LedgerType
<1>6. ASSUME NEW t \in Task
      PROVE  /\ db.history[t]["COMPLETED"] > 0 => db'.history[t]["COMPLETED"] > 0
             /\ Completing(requests[q], t) # {} => db'.history[t]["COMPLETED"] > 0
  <2>1. db.history[t]["COMPLETED"] \in Rows
    BY HistoryType DEF LedgerType
  <2>2. /\ Completions(requests[q], t) \in Nat
        /\ Completing(requests[q], t) # {} => Completions(requests[q], t) > 0
    BY <1>1, CompletionsCount
  <2> QED
    BY <1>5, <2>1, <2>2, MoreRows
<1>7. ASSUME NEW t \in Task, Recorded(t) PROVE Recorded(t)'
  <2>1. CASE db.history[t]["COMPLETED"] > 0
    BY <1>6, <2>1 DEF Recorded
  <2>2. ASSUME NEW p \in Request, requests[p].step = "derive", Completing(requests[p], t) # {}
        PROVE  Recorded(t)'
    <3>1. CASE p = q
      BY <1>6, <2>2, <3>1 DEF Recorded
    <3>2. CASE p # q
      <4>1. requests'[p] = requests[p]
        BY <1>3, <3>2
      <4> QED
        BY <2>2, <4>1 DEF Recorded, Completing
    <3> QED
      BY <3>1, <3>2
  <2> QED
    BY <1>7, <2>1, <2>2 DEF Recorded
<1>8. ASSUME NEW t \in Task, StatusOf(db'.tasks[t]) = "COMPLETED" PROVE Recorded(t)'
  <2>1. CASE db'.history[t]["COMPLETED"] > 0
    BY <2>1 DEF Recorded
  <2>2. CASE db'.tasks[t] = db.tasks[t]
    BY <1>7, <1>8, <2>2 DEF RecordedInv
  <2> QED
    BY <1>5, <2>1, <2>2
<1>9. ASSUME NEW t \in Task, NEW p \in Request,
             requests'[p].step = "store", StatusOf(requests'[p].tasks[t]) = "COMPLETED"
      PROVE  Recorded(t)'
  BY <1>3, <1>4, <1>7, <1>9 DEF RecordedInv
<1> QED
  BY <1>8, <1>9 DEF RecordedInv

LEMMA RecordedHandlers ==
  ASSUME LedgerType, RecordedInv, NEW t \in Task,
         \/ TaskCreate(t) \/ TaskDelete(t)
         \/ \E s \in {"ASSIGNED", "COMPLETED", "CANCELLED"} : TaskPatch(t, s)
  PROVE  RecordedInv'
<1>1. /\ db' \in Database /\ UNCHANGED <<requests, overdue, restarts>>
      /\ \A u \in Task :
           /\ db.history[u]["COMPLETED"] > 0 => db'.history[u]["COMPLETED"] > 0
           /\ StatusOf(db'.tasks[u]) = "COMPLETED" =>
                StatusOf(db.tasks[u]) = "COMPLETED" \/ db'.history[u]["COMPLETED"] > 0
  BY HandlersEffect
<1>3. \A u \in Task : Recorded(u) => Recorded(u)'
  BY <1>1, RecordedKept
<1>4. \A u \in Task : db'.history[u]["COMPLETED"] > 0 => Recorded(u)'
  BY DEF Recorded
<1> QED
  BY <1>1, <1>3, <1>4 DEF RecordedInv

(* A request is answered.                                                  *)
LEMMA RecordedAnswered ==
  ASSUME LedgerType, RecordedInv, NEW q \in Request, requests[q].step = "done",
         requests' = [requests EXCEPT ![q] = Idle], UNCHANGED <<db, overdue, restarts>>
  PROVE  RecordedInv'
<1>2. \A p \in Request : requests'[p] = requests[p] \/ requests'[p].step = "idle"
  BY DEF LedgerType, Idle
<1>3. \A p \in Request : requests[p].step = "derive" => requests'[p] = requests[p]
  BY DEF LedgerType
<1>4. \A u \in Task : Recorded(u) => Recorded(u)'
  BY <1>3, RecordedKept
<1> QED
  BY <1>2, <1>4 DEF RecordedInv

(* The steps of the backend that the bridge and an operator cause.         *)
LedgerMove ==
  \/ UNCHANGED ledgerVars
  \/ \E q \in Request, batch \in Batch :
       requests[q].step \in {"idle", "done"} /\ Receive(q, batch)
  \/ \E q \in Request : Store(q) \/ Derive(q)
  \/ \E q \in Request : /\ requests[q].step = "done"
                        /\ requests' = [requests EXCEPT ![q] = Idle]
                        /\ UNCHANGED <<db, overdue, restarts>>
  \/ \E t \in Task :
       \/ TaskCreate(t) \/ TaskDelete(t)
       \/ \E s \in {"ASSIGNED", "COMPLETED", "CANCELLED"} : TaskPatch(t, s)
  \/ Restart

LEMMA LedgerTypeKept ==
  ASSUME LedgerType, LedgerMove
  PROVE  LedgerType' /\ (restarts' = restarts \/ restarts' # 0)
<1>1. CASE UNCHANGED ledgerVars
  BY <1>1 DEF LedgerType, ledgerVars
<1>2. ASSUME NEW q \in Request, NEW batch \in Batch, Receive(q, batch)
      PROVE  LedgerType' /\ restarts' = restarts
  <2>1. Opened(batch) \in Opening
    BY OpenedEffect
  <2> QED
    BY <1>2, <2>1 DEF Receive, LedgerType
<1>3. ASSUME NEW q \in Request, Store(q)
      PROVE  LedgerType' /\ restarts' = restarts
  <2>1. /\ requests' = [requests EXCEPT ![q] = requests'[q]]
        /\ requests'[q] \in Opening /\ db' \in Database /\ UNCHANGED <<overdue, restarts>>
    BY <1>3, StoreEffect
  <2> QED
    BY <2>1 DEF LedgerType
<1>4. ASSUME NEW q \in Request, Derive(q)
      PROVE  LedgerType' /\ restarts' = restarts
  <2>1. /\ requests' = [requests EXCEPT ![q] = [step |-> "done"]]
        /\ db' \in Database /\ UNCHANGED <<overdue, restarts>>
    BY <1>4, DeriveEffect
  <2> QED
    BY <2>1 DEF LedgerType
<1>5. ASSUME NEW q \in Request, requests' = [requests EXCEPT ![q] = Idle],
             UNCHANGED <<db, overdue, restarts>>
      PROVE  LedgerType' /\ restarts' = restarts
  BY <1>5 DEF LedgerType, Idle
<1>6. ASSUME NEW t \in Task,
             \/ TaskCreate(t) \/ TaskDelete(t)
             \/ \E s \in {"ASSIGNED", "COMPLETED", "CANCELLED"} : TaskPatch(t, s)
      PROVE  LedgerType' /\ restarts' = restarts
  <2>1. db' \in Database /\ UNCHANGED <<requests, overdue, restarts>>
    BY <1>6, HandlersEffect
  <2> QED
    BY <2>1 DEF LedgerType
<1>7. CASE Restart
  BY <1>7 DEF LedgerType, Restart, Idle
<1> QED
  BY <1>1, <1>2, <1>3, <1>4, <1>5, <1>6, <1>7 DEF LedgerMove

LEMMA RecordedStep ==
  ASSUME LedgerType, RecordedInv, LedgerMove
  PROVE  RecordedInv' \/ restarts' # 0
<1>1. CASE UNCHANGED ledgerVars
  BY <1>1 DEF RecordedInv, Recorded, Completing, ledgerVars
<1>2. CASE Restart
  BY <1>2 DEF LedgerType, Restart
<1> QED
  BY <1>1, <1>2, RecordedReceive, RecordedStore, RecordedDerive, RecordedAnswered,
     RecordedHandlers DEF LedgerMove

-----------------------------------------------------------------------------
(* The bridge: what it posts is a batch.                                   *)

SeenType ==
  /\ lists \in [Robot -> [Task -> ListStatus \cup {Nobody}]]
  /\ seenLists \in [Robot -> [Task -> ListStatus \cup {Nobody}]]
  /\ fleet \in [Robot -> Task \cup {Nobody}]
  /\ seenFleet \in [Robot -> Task \cup {Nobody}] \cup {NoRow}

LEMMA SeenInitial == Init => SeenType
BY DEF Init, SeenType, NoList

LEMMA SeenStep ==
  ASSUME SeenType, [Next]_vars
  PROVE  SeenType'
<1>1. CASE FleetStep
  <2>1. ASSUME NEW r \in Robot, NEW t \in Task, NEW s \in ListStatus \cup {Nobody},
               lists' = [lists EXCEPT ![r][t] = s]
        PROVE  lists' \in [Robot -> [Task -> ListStatus \cup {Nobody}]]
    BY <2>1 DEF SeenType
  <2>2. ASSUME NEW r \in Robot, NEW t \in Task, Assign(r, t) \/ TakeBack(r, t)
        PROVE  SeenType'
    <3>1. lists' = [lists EXCEPT ![r][t] = "WAITING"] \/ lists' = [lists EXCEPT ![r][t] = Nobody]
      BY <2>2 DEF Assign, TakeBack
    <3>2. fleet' = [fleet EXCEPT ![r] = t] \/ fleet' = [fleet EXCEPT ![r] = Nobody]
      BY <2>2 DEF Assign, TakeBack
    <3>3. UNCHANGED <<seenLists, seenFleet>>
      BY <2>2 DEF Assign, TakeBack, bridgeVars, cacheVars
    <3> QED
      BY <2>1, <3>1, <3>2, <3>3 DEF SeenType, ListStatus
  <2>3. ASSUME NEW r \in Robot, NEW t \in Task, Start(r, t) \/ Finish(r, t)
        PROVE  SeenType'
    <3>1. lists' = [lists EXCEPT ![r][t] = "ACTIVE"] \/ lists' = [lists EXCEPT ![r][t] = "COMPLETED"]
      BY <2>3 DEF Start, Finish
    <3>2. UNCHANGED <<seenLists, seenFleet, fleet>>
      BY <2>3 DEF Start, Finish, bridgeVars, cacheVars
    <3> QED
      BY <2>1, <3>1, <3>2 DEF SeenType, ListStatus
  <2>4. ASSUME NEW r \in Robot, SetFree(r) PROVE SeenType'
    BY <2>4 DEF SetFree, SeenType, bridgeVars, cacheVars
  <2> QED
    BY <1>1, <2>2, <2>3, <2>4 DEF FleetStep
<1>2. CASE BridgeStep
  <2>1. CASE HearFleet
    BY <2>1 DEF HearFleet, SeenType, fleetVars
  <2>2. ASSUME NEW r \in Robot, HearList(r) PROVE SeenType'
    BY <2>2 DEF HearList, SeenType, fleetVars
  <2>3. ASSUME NEW r \in Robot, NEW t \in Task, HearAssignment(r, t) PROVE SeenType'
    BY <2>3 DEF HearAssignment, SeenType, fleetVars
  <2>4. ASSUME NEW q \in Request,
               \/ IngestTick(q) \/ Answered(q) \/ AnsweredTwice(q)
               \/ TimeOut(q) \/ Unheard(q)
        PROVE  SeenType'
    BY <2>4 DEF IngestTick, Answered, Post, AnsweredTwice, TimeOut, Unheard, bridgeVars,
                cacheVars, fleetVars, SeenType
  <2>5. CASE RelayTick \/ \E t \in Task : Relay(t)
    BY <2>5 DEF RelayTick, Relay, cacheVars, fleetVars, SeenType
  <2>6. CASE BridgeRestart
    BY <2>6 DEF BridgeRestart, NoList, fleetVars, SeenType
  <2> QED
    BY <1>2, <2>1, <2>2, <2>3, <2>4, <2>5, <2>6 DEF BridgeStep
<1>3. CASE UNCHANGED <<fleetVars, seenFleet, seenLists>>
  BY <1>3 DEF fleetVars, SeenType
<1> QED
  BY <1>1, <1>2, <1>3 DEF Next, Intervene, BackendStep, Create, vars, bridgeVars, cacheVars

LEMMA BuildsBatch ==
  ASSUME SeenType, RelayInv
  PROVE  BuildBatch \in Batch
<1>1. ASSUME NEW r \in Robot PROVE ListOf(r) \in List
  <2>1. ASSUME NEW t \in Task, t \in InList(r)
        PROVE  [status |-> seenLists[r][t], robot |-> r] \in TaskRow
    BY <2>1 DEF InList, SeenType, TaskRow, Status
  <2> QED
    BY <2>1 DEF ListOf, List
<1>2. AssignmentList \in List
  <2>1. ASSUME NEW t \in Task, t \in Unlisted
        PROVE  [status |-> "ASSIGNED", robot |-> assignments[t]] \in TaskRow
    BY <2>1 DEF Unlisted, RelayInv, TaskRow, Status
  <2> QED
    BY <2>1 DEF AssignmentList, List
<1> HIDE DEF ListOf, AssignmentList
<1>3. Entries \in Seq(List)
  <2>1. \A i \in 1..(Len(Order) + 1) :
          (IF i <= Len(Order) THEN ListOf(Order[i]) ELSE AssignmentList) \in List
    BY <1>1, <1>2, OrderAssumption
  <2>2. Len(Order) + 1 \in Nat
    BY OrderAssumption
  <2> QED
    BY <2>1, <2>2 DEF Entries
<1> DEFINE reports == IF seenFleet = NoRow THEN NoReports
                      ELSE [r \in Robot |->
                             [status |-> "ONLINE", charging |-> FALSE, low |-> FALSE,
                              current |-> seenFleet[r], fresh |-> TRUE]]
<1>4. reports \in [Robot -> Report \cup {NoRow}]
  BY DEF SeenType, NoReports, Report
<1>5. BuildBatch = [robots |-> reports, tasks |-> Entries, reservations |-> {}]
  BY DEF BuildBatch
<1> HIDE DEF reports, Entries
<1> QED
  BY <1>3, <1>4, <1>5 DEF Batch

CompletionInv ==
  /\ LedgerType /\ SeenType /\ RelayInv
  /\ restarts = 0 => RecordedInv

LEMMA CompletionInitial == Init => CompletionInv
<1> SUFFICES ASSUME Init PROVE CompletionInv
  OBVIOUS
<1>1. SeenType /\ RelayInv
  BY SeenInitial, RelayInitial
<1>2. /\ db = EmptyDatabase /\ requests = [q \in Request |-> Idle]
      /\ overdue = {} /\ restarts = 0
  BY DEF Init, LedgerInit
<1>3. EmptyDatabase \in Database
  <2>1. 0 \in Rows
    BY RowAssumption DEF Rows
  <2> QED
    BY <2>1 DEF EmptyDatabase, Database
<1>4. LedgerType
  BY <1>2, <1>3 DEF LedgerType, Idle
<1>5. \A t \in Task : db.tasks[t] = NoRow
  BY <1>2 DEF EmptyDatabase
<1>6. StatusOf(NoRow) # "COMPLETED"
  BY NobodyAssumption DEF StatusOf, Status, ListStatus
<1>7. \A q \in Request : requests[q].step = "idle"
  BY <1>2 DEF Idle
<1> QED
  BY <1>1, <1>4, <1>5, <1>6, <1>7 DEF CompletionInv, RecordedInv

(* The steps of the bridge, of its surroundings and of the backend as      *)
(* steps of the ledger.                                                    *)
LEMMA LedgerSteps ==
  ASSUME SeenType, RelayInv, LedgerType, [Next]_vars
  PROVE  LedgerMove
<1>1. CASE FleetStep
  BY <1>1 DEF FleetStep, Assign, Start, Finish, TakeBack, SetFree, LedgerMove
<1>2. CASE BridgeStep
  <2>1. CASE \/ HearFleet \/ RelayTick \/ BridgeRestart
             \/ \E r \in Robot : HearList(r) \/ \E t \in Task : HearAssignment(r, t)
             \/ \E q \in Request : TimeOut(q)
    BY <2>1 DEF HearFleet, RelayTick, BridgeRestart, HearList, HearAssignment, TimeOut,
                LedgerMove
  <2>2. ASSUME NEW q \in Request, IngestTick(q) \/ Answered(q)
        PROVE  \E batch \in Batch : requests[q].step \in {"idle", "done"} /\ Receive(q, batch)
    <3>1. Receive(q, BuildBatch)
      BY <2>2 DEF IngestTick, Answered, Post
    <3>2. requests[q].step \in {"idle", "done"}
      BY <2>2 DEF IngestTick, Answered, Idle
    <3> QED
      BY <3>1, <3>2, BuildsBatch
  <2>3. ASSUME NEW q \in Request, AnsweredTwice(q) \/ Unheard(q)
        PROVE  /\ requests[q].step = "done"
               /\ requests' = [requests EXCEPT ![q] = Idle]
               /\ UNCHANGED <<db, overdue, restarts>>
    BY <2>3 DEF AnsweredTwice, Unheard
  <2>4. ASSUME NEW t \in Task, Relay(t)
        PROVE  UNCHANGED ledgerVars \/ TaskPatch(t, "ASSIGNED")
    BY <2>4 DEF Relay
  <2> QED
    BY <1>2, <2>1, <2>2, <2>3, <2>4 DEF BridgeStep, LedgerMove
<1>3. CASE Intervene
  BY <1>3 DEF Intervene, LedgerMove
<1>4. CASE \E q \in Request : BackendStep(q)
  BY <1>4 DEF BackendStep, LedgerMove
<1>5. CASE \E t \in Task : Create(t)
  BY <1>5 DEF Create, LedgerMove
<1>6. CASE UNCHANGED vars
  BY <1>6 DEF vars, LedgerMove
<1> QED
  BY <1>1, <1>2, <1>3, <1>4, <1>5, <1>6 DEF Next

LEMMA CompletionStep == CompletionInv /\ [Next]_vars => CompletionInv'
<1> SUFFICES ASSUME CompletionInv, [Next]_vars PROVE CompletionInv'
  OBVIOUS
<1>1. LedgerType /\ SeenType /\ RelayInv /\ (restarts = 0 => RecordedInv) /\ restarts \in Nat
  BY DEF CompletionInv, LedgerType
<1>2. SeenType' /\ RelayInv'
  BY <1>1, SeenStep, RelayStep
<1>3. LedgerMove
  BY <1>1, LedgerSteps
<1>4. LedgerType' /\ (restarts' = restarts \/ restarts' # 0)
  BY <1>1, <1>3, LedgerTypeKept
<1>5. restarts = 0 => RecordedInv' \/ restarts' # 0
  BY <1>1, <1>3, RecordedStep
<1> QED
  BY <1>2, <1>4, <1>5 DEF CompletionInv

(* While the backend does not die (process_batch, the handlers of tasks),  *)
(* a task COMPLETED in the database has a completion in its history, or a  *)
(* request in progress is about to write it.                               *)
THEOREM CompletionsRecorded == Spec => []CompletionsAreRecorded
<1>1. CompletionInv => CompletionsAreRecorded
  BY DEF CompletionInv, RecordedInv, Recorded, CompletionsAreRecorded
<1> QED
  BY <1>1, CompletionInitial, CompletionStep, PTL DEF Spec

-----------------------------------------------------------------------------
(* The charging sessions of robots.                                        *)

ServicesSpec == ServicesInit /\ [][ServicesNext]_allVars

Charges(row) == row # NoRow /\ row.charging

(* A request has read what the table still says, when it has not stored    *)
(* its batch; when it has, the table says what the batch reports, and a    *)
(* session is open only if the robot charged before.                       *)
ReadsRow(req, r) ==
  /\ req.step = "store" =>
       /\ req.batch.robots[r] \in Report
       /\ req.robots[r] = NoRow <=> db.robots[r] = NoRow
       /\ Charges(req.robots[r]) <=> Charges(db.robots[r])
  /\ req.step = "derive" =>
       /\ req.batch.robots[r] \in Report
       /\ Charges(db.robots[r]) <=> req.batch.robots[r].charging
       /\ db.open[r] = 1 => Charges(req.robots[r])
  /\ req.step # "derive" => (db.open[r] = 1 => Charges(db.robots[r]))

Paired(r) ==
  /\ db.open[r] <= 1 /\ (Request = {} => db.open[r] = 0)
  /\ \A q \in Request : ReadsRow(requests[q], r)

SessionInv ==
  /\ view \in [Robot -> Report] /\ upsets \in Nat
  /\ (\A p, q \in Request : p = q) /\ upsets = 0 =>
       LedgerType /\ \A r \in Robot : Paired(r)

LEMMA OpenType ==
  ASSUME LedgerType, NEW r \in Robot
  PROVE  /\ db.open[r] \in Nat /\ db.open[r] \in Rows
         /\ db.robots[r] \in Report \cup {NoRow}
BY RowAssumption DEF LedgerType, Database, Rows

LEMMA ReportsAreRows == NoRow \notin Report /\ \A x \in Report : Charges(x) <=> x.charging
BY NoRowAssumption DEF Charges

LEMMA SessionInitial == ServicesInit => SessionInv
<1> SUFFICES ASSUME ServicesInit PROVE SessionInv
  OBVIOUS
<1>1. /\ db = EmptyDatabase /\ requests = [q \in Request |-> Idle]
      /\ overdue = {} /\ restarts = 0
      /\ view = [r \in Robot |-> Alive] /\ upsets = 0
  BY DEF ServicesInit, LedgerInit
<1>2. LedgerType
  <2>1. 0 \in Rows
    BY RowAssumption DEF Rows
  <2>2. EmptyDatabase \in Database
    BY <2>1 DEF EmptyDatabase, Database
  <2> QED
    BY <1>1, <2>2 DEF LedgerType, Idle
<1>3. Alive \in Report
  BY DEF Alive, Report
<1>4. \A r \in Robot : db.open[r] = 0
  BY <1>1 DEF EmptyDatabase
<1>5. \A q \in Request : requests[q].step = "idle"
  BY <1>1 DEF Idle
<1> QED
  BY <1>1, <1>2, <1>3, <1>4, <1>5 DEF SessionInv, Paired, ReadsRow

LEMMA SessionReceive ==
  ASSUME LedgerType, \A p, q \in Request : p = q, \A r \in Robot : Paired(r),
         NEW q \in Request, requests[q] = Idle, view \in [Robot -> Report],
         Receive(q, [robots |-> view, tasks |-> <<>>, reservations |-> {}])
  PROVE  LedgerType' /\ \A r \in Robot : Paired(r)'
<1>1. PICK batch : batch = [robots |-> view, tasks |-> <<>>, reservations |-> {}]
  OBVIOUS
<1>2. batch \in Batch /\ batch.robots = view
  BY <1>1 DEF Batch
<1>3. Receive(q, batch)
  BY <1>1
<1>4. /\ requests' = [requests EXCEPT ![q] = Opened(batch)]
      /\ UNCHANGED <<db, overdue, restarts>>
  BY <1>3 DEF Receive
<1>5. requests[q].step = "idle"
  BY DEF Idle
<1>6. LedgerType'
  BY <1>2, <1>3, <1>5, LedgerTypeKept DEF LedgerMove
<1>7. /\ requests'[q] = Opened(batch)
      /\ Opened(batch).step = "store" /\ Opened(batch).batch = batch
      /\ \A r \in Robot : Opened(batch).robots[r] =
           IF batch.robots[r] = NoRow THEN NoRow ELSE db.robots[r]
  BY <1>2, <1>4, OpenedEffect DEF LedgerType
<1> HIDE DEF Opened
<1>8. ASSUME NEW r \in Robot PROVE Paired(r)'
  <2>1. batch.robots[r] \in Report
    BY <1>2
  <2>2. requests'[q].robots[r] = db.robots[r]
    BY <1>7, <2>1, ReportsAreRows
  <2>3. db.open[r] <= 1 /\ (db.open[r] = 1 => Charges(db.robots[r]))
    BY <1>5 DEF Paired, ReadsRow
  <2>4. ReadsRow(requests[q], r)'
    BY <1>4, <1>7, <2>1, <2>2, <2>3 DEF ReadsRow, Charges
  <2> QED
    BY <1>4, <2>3, <2>4 DEF Paired
<1> QED
  BY <1>6, <1>8

LEMMA SessionStore ==
  ASSUME LedgerType, \A p, q \in Request : p = q, \A r \in Robot : Paired(r),
         NEW q \in Request, Store(q)
  PROVE  LedgerType' /\ \A r \in Robot : Paired(r)'
<1>1. LedgerType'
  BY LedgerTypeKept DEF LedgerMove
<1>2. /\ requests'[q].step = "derive" /\ requests'[q].batch = requests[q].batch
      /\ requests'[q].robots = requests[q].robots
      /\ requests[q] \in Opening
  BY StoreEffect
<1>3. requests[q].batch \in Batch /\ requests[q].step = "store" /\ db' = Stored(requests[q].batch)
  BY <1>2 DEF Opening, Store
<1>4. /\ db'.open = db.open
      /\ \A r \in Robot : db'.robots[r] =
           IF requests[q].batch.robots[r] = NoRow THEN db.robots[r]
           ELSE requests[q].batch.robots[r]
  BY <1>3, StoredEffect DEF LedgerType
<1>5. ASSUME NEW r \in Robot PROVE Paired(r)'
  <2>1. /\ db.open[r] <= 1 /\ requests[q].batch.robots[r] \in Report
        /\ Charges(requests[q].robots[r]) <=> Charges(db.robots[r])
        /\ db.open[r] = 1 => Charges(db.robots[r])
    BY <1>3 DEF Paired, ReadsRow
  <2>2. db'.robots[r] = requests[q].batch.robots[r]
    BY <1>4, <2>1, ReportsAreRows
  <2>3. Charges(db'.robots[r]) <=> requests[q].batch.robots[r].charging
    BY <2>1, <2>2, ReportsAreRows
  <2>4. ReadsRow(requests[q], r)'
    BY <1>2, <1>4, <2>1, <2>3 DEF ReadsRow, Charges
  <2> QED
    BY <1>4, <2>1, <2>4 DEF Paired
<1> QED
  BY <1>1, <1>5

LEMMA SessionDerive ==
  ASSUME LedgerType, \A p, q \in Request : p = q, \A r \in Robot : Paired(r),
         NEW q \in Request, Derive(q)
  PROVE  LedgerType' /\ \A r \in Robot : Paired(r)'
<1>1. LedgerType'
  BY LedgerTypeKept DEF LedgerMove
<1>2. /\ requests[q] \in Opening /\ requests' = [requests EXCEPT ![q] = [step |-> "done"]]
      /\ db' = Derived(requests[q])
  BY DeriveEffect
<1>3. requests[q].step = "derive" /\ requests'[q].step = "done"
  BY <1>2 DEF Derive, LedgerType
<1>4. /\ db'.robots = db.robots
      /\ \A r \in Robot : db'.open[r] =
           LET n == IF r \in Began(requests[q]) THEN More(db.open[r], 1) ELSE db.open[r]
           IN  IF r \in Ended(requests[q]) /\ n > 0 THEN n - 1 ELSE n
  BY <1>2, DerivedEffect DEF LedgerType
<1>5. ASSUME NEW r \in Robot PROVE Paired(r)'
  <2> DEFINE prev == requests[q].robots[r]
             now == requests[q].batch.robots[r]
  <2>1. /\ db.open[r] <= 1 /\ now \in Report
        /\ Charges(db.robots[r]) <=> now.charging
        /\ db.open[r] = 1 => Charges(prev)
    BY <1>3 DEF Paired, ReadsRow
  <2>2. db.open[r] \in Nat
    BY OpenType
  <2>3. r \in HadRow(requests[q]) <=> prev # NoRow
    BY <2>1, ReportsAreRows DEF HadRow, Reported
  <2>4. /\ r \in Began(requests[q]) <=> prev # NoRow /\ ~prev.charging /\ now.charging
        /\ r \in Ended(requests[q]) <=> prev # NoRow /\ prev.charging /\ ~now.charging
    BY <2>3 DEF Began, Ended
  <2>5. \/ ~ Charges(prev) /\ now.charging /\ db.open[r] = 0 /\ db'.open[r] \in {0, 1}
        \/ Charges(prev) /\ ~now.charging /\ db'.open[r] = 0
        \/ db'.open[r] = db.open[r] /\ (Charges(prev) => now.charging)
    <3>1. CASE r \in Began(requests[q])
      <4>1. ~Charges(prev) /\ now.charging /\ db.open[r] = 0
        BY <2>1, <2>2, <2>4, <3>1 DEF Charges
      <4>2. r \notin Ended(requests[q])
        BY <2>4, <4>1
      <4>3. More(0, 1) = 1
        BY RowAssumption DEF More
      <4> QED
        BY <1>4, <3>1, <4>1, <4>2, <4>3
    <3>2. CASE r \notin Began(requests[q]) /\ r \in Ended(requests[q])
      <4>1. Charges(prev) /\ ~now.charging
        BY <2>4, <3>2 DEF Charges
      <4>2. db'.open[r] = IF db.open[r] > 0 THEN db.open[r] - 1 ELSE db.open[r]
        BY <1>4, <3>2
      <4> QED
        BY <2>1, <2>2, <4>1, <4>2
    <3>3. CASE r \notin Began(requests[q]) /\ r \notin Ended(requests[q])
      <4>1. db'.open[r] = db.open[r]
        BY <1>4, <3>3
      <4> QED
        BY <2>4, <3>3, <4>1 DEF Charges
    <3> QED
      BY <3>1, <3>2, <3>3
  <2>6. db'.open[r] <= 1 /\ (db'.open[r] = 1 => Charges(db'.robots[r]))
    BY <1>4, <2>1, <2>2, <2>5
  <2>7. ReadsRow(requests[q], r)'
    BY <1>3, <2>6 DEF ReadsRow, Charges
  <2> QED
    BY <2>6, <2>7 DEF Paired
<1> QED
  BY <1>1, <1>5

LEMMA SessionRespond ==
  ASSUME LedgerType, \A r \in Robot : Paired(r), NEW q \in Request, Respond(q)
  PROVE  LedgerType' /\ \A r \in Robot : Paired(r)'
<1>1. /\ requests[q].step = "done" /\ requests' = [requests EXCEPT ![q] = Idle]
      /\ UNCHANGED <<db, overdue, restarts>>
  BY DEF Respond
<1>2. LedgerType'
  BY <1>1, LedgerTypeKept DEF LedgerMove
<1>3. ASSUME NEW p \in Request, NEW r \in Robot, ReadsRow(requests[p], r), ReadsRow(requests[q], r)
      PROVE  ReadsRow(requests[p], r)'
  <2>1. CASE p = q
    <3>1. requests'[p].step = "idle"
      BY <1>1, <2>1 DEF LedgerType, Idle
    <3> QED
      BY <1>1, <1>3, <3>1 DEF ReadsRow, Charges
  <2>2. CASE p # q
    <3>1. requests'[p] = requests[p]
      BY <1>1, <2>2 DEF LedgerType
    <3> QED
      BY <1>1, <1>3, <3>1 DEF ReadsRow, Charges
  <2> QED
    BY <2>1, <2>2
<1> QED
  BY <1>1, <1>2, <1>3 DEF Paired

(* The verification of heartbeats, and time, change the rows of robots but *)
(* not whether there is one, nor whether it charges.                       *)
LEMMA SessionVerify ==
  ASSUME LedgerType, \A r \in Robot : Paired(r),
         VerifyHeartbeats \/ \E s \in Robot : FlagOffline(s) \/ Overdue(s)
  PROVE  LedgerType' /\ \A r \in Robot : Paired(r)'
<1>1. ASSUME LedgerType', requests' = requests, db'.open = db.open,
             \A r \in Robot : /\ db'.robots[r] = NoRow <=> db.robots[r] = NoRow
                              /\ Charges(db'.robots[r]) <=> Charges(db.robots[r])
      PROVE  LedgerType' /\ \A r \in Robot : Paired(r)'
  BY <1>1 DEF Paired, ReadsRow, Charges
<1>2. CASE VerifyHeartbeats
  <2>1. UNCHANGED <<db, requests, restarts>> /\ overdue' \subseteq Robot
    BY <1>2 DEF VerifyHeartbeats, OverdueRobots
  <2>2. LedgerType'
    BY <2>1 DEF LedgerType
  <2> QED
    BY <1>1, <2>1, <2>2 DEF Charges
<1>3. ASSUME NEW s \in Robot, NEW x \in Report, db.robots[s] \in Report,
             x.charging = db.robots[s].charging
      PROVE  LET d == [db EXCEPT !.robots[s] = x]
             IN /\ d \in Database /\ d.open = db.open
                /\ \A r \in Robot : /\ d.robots[r] = NoRow <=> db.robots[r] = NoRow
                                    /\ Charges(d.robots[r]) <=> Charges(db.robots[r])
  <2>1. db \in Database /\ db.robots \in [Robot -> Report \cup {NoRow}]
    BY DEF LedgerType, Database
  <2>2. PICK d : d = [db EXCEPT !.robots[s] = x]
    OBVIOUS
  <2>3. d \in Database /\ d.open = db.open /\ d.robots = [db.robots EXCEPT ![s] = x]
    BY <2>1, <2>2 DEF Database
  <2>4. ASSUME NEW r \in Robot
        PROVE  /\ d.robots[r] = NoRow <=> db.robots[r] = NoRow
               /\ Charges(d.robots[r]) <=> Charges(db.robots[r])
    <3>1. CASE r = s
      BY <1>3, <2>1, <2>3, <3>1, ReportsAreRows
    <3>2. CASE r # s
      BY <2>1, <2>3, <3>2
    <3> QED
      BY <3>1, <3>2
  <2> QED
    BY <2>2, <2>3, <2>4
<1>4. ASSUME NEW s \in Robot, FlagOffline(s)
      PROVE  LedgerType' /\ \A r \in Robot : Paired(r)'
  <2>1. PICK d : d = UpdateRobotStatus(db, s, "OFFLINE")
    OBVIOUS
  <2>2. /\ d \in Database /\ d.open = db.open
        /\ \A r \in Robot : /\ d.robots[r] = NoRow <=> db.robots[r] = NoRow
                            /\ Charges(d.robots[r]) <=> Charges(db.robots[r])
    <3>1. CASE db.robots[s] = NoRow
      BY <2>1, <3>1 DEF UpdateRobotStatus, LedgerType
    <3>2. CASE db.robots[s] # NoRow
      <4>1. db.robots[s] \in Report
        BY <3>2, OpenType
      <4>2. PICK x : x = [db.robots[s] EXCEPT !.status = "OFFLINE"]
        OBVIOUS
      <4>3. x \in Report /\ x.charging = db.robots[s].charging
        BY <4>1, <4>2 DEF Report
      <4>4. d = [db EXCEPT !.robots[s] = x]
        BY <2>1, <3>2, <4>2 DEF UpdateRobotStatus, LedgerType, Database
      <4> QED
        BY <1>3, <4>1, <4>3, <4>4
    <3> QED
      BY <3>1, <3>2
  <2>3. /\ db' = Offline(d, {s}) /\ overdue' = overdue \ {s}
        /\ UNCHANGED <<requests, restarts>>
    BY <1>4, <2>1 DEF FlagOffline
  <2>4. db' \in Database /\ db'.robots = d.robots /\ db'.open = d.open
    <3>1. {s} \in SUBSET Robot
      OBVIOUS
    <3> QED
      BY <2>2, <2>3, <3>1, AlertsEffect DEF SameRobots, SameSessions
  <2>5. LedgerType'
    BY <2>3, <2>4 DEF LedgerType
  <2> QED
    BY <1>1, <2>2, <2>3, <2>4, <2>5
<1>5. ASSUME NEW s \in Robot, Overdue(s)
      PROVE  LedgerType' /\ \A r \in Robot : Paired(r)'
  <2>1. /\ db.robots[s] # NoRow /\ UNCHANGED <<requests, overdue, restarts>>
        /\ db' = [db EXCEPT !.robots[s].fresh = FALSE]
    BY <1>5 DEF Overdue
  <2>2. db.robots[s] \in Report
    BY <2>1, OpenType
  <2>3. PICK x : x = [db.robots[s] EXCEPT !.fresh = FALSE]
    OBVIOUS
  <2>4. x \in Report /\ x.charging = db.robots[s].charging
    BY <2>2, <2>3 DEF Report
  <2>5. db' = [db EXCEPT !.robots[s] = x]
    BY <2>1, <2>3 DEF LedgerType, Database
  <2>6. /\ db' \in Database /\ db'.open = db.open
        /\ \A r \in Robot : /\ db'.robots[r] = NoRow <=> db.robots[r] = NoRow
                            /\ Charges(db'.robots[r]) <=> Charges(db.robots[r])
    BY <1>3, <2>2, <2>4, <2>5
  <2>7. LedgerType'
    BY <2>1, <2>6 DEF LedgerType
  <2> QED
    BY <1>1, <2>1, <2>6, <2>7
<1> QED
  BY <1>2, <1>4, <1>5

LEMMA SessionStep == SessionInv /\ [ServicesNext]_allVars => SessionInv'
<1> SUFFICES ASSUME SessionInv, [ServicesNext]_allVars PROVE SessionInv'
  OBVIOUS
<1>1. view \in [Robot -> Report] /\ upsets \in Nat
  BY DEF SessionInv
<1>2. view' \in [Robot -> Report]
  <2>0. ASSUME NEW r \in Robot, NEW x \in Report PROVE [view EXCEPT ![r] = x] \in [Robot -> Report]
    BY <1>1
  <2>1. ASSUME NEW r \in Robot, Change(r) \/ Seen(r) PROVE view' \in [Robot -> Report]
    <3>1. view[r] \in Report
      BY <1>1
    <3>2. PICK a, b, c, d, e :
            /\ a = [view[r] EXCEPT !.charging = ~view[r].charging]
            /\ b = [view[r] EXCEPT !.low = ~view[r].low]
            /\ c = [view[r] EXCEPT !.status = "OFFLINE", !.fresh = FALSE]
            /\ d = [view[r] EXCEPT !.fresh = FALSE]
            /\ e = [view[r] EXCEPT !.status = "ONLINE", !.fresh = TRUE]
      OBVIOUS
    <3>3. {a, b, c, d, e} \subseteq Report
      BY <3>1, <3>2 DEF Report
    <3>4. CASE Change(r)
      BY <1>1, <2>0, <3>2, <3>3, <3>4 DEF Change
    <3>5. CASE Seen(r)
      BY <1>1, <2>0, <3>2, <3>3, <3>5 DEF Seen
    <3> QED
      BY <2>1, <3>4, <3>5
  <2>3. CASE UNCHANGED view
    BY <1>1, <2>3
  <2> QED
    BY <2>1, <2>3
       DEF ServicesNext, Late, PostBatch, Upset, Heartbeat, Process, Respond, clientVars, allVars
<1>3. CASE Upset
  <2>1. upsets' = upsets + 1
    BY <1>3 DEF Upset
  <2> QED
    BY <1>1, <1>2, <2>1 DEF SessionInv
<1>4. CASE ~Upset
  <2>1. upsets' = upsets
    BY <1>4 DEF ServicesNext, Change, Seen, Late, PostBatch, Heartbeat, Process, Respond,
                clientVars, allVars
  <2> SUFFICES ASSUME \A p, q \in Request : p = q, upsets = 0
               PROVE  LedgerType' /\ \A r \in Robot : Paired(r)'
    BY <1>1, <1>2, <2>1 DEF SessionInv
  <2>2. LedgerType /\ \A r \in Robot : Paired(r)
    BY DEF SessionInv
  <2>3. CASE UNCHANGED ledgerVars
    <3>1. LedgerType'
      BY <2>2, <2>3 DEF LedgerType, ledgerVars
    <3> QED
      BY <2>2, <2>3, <3>1 DEF Paired, ReadsRow, Charges, ledgerVars
  <2>4. CASE PostBatch
    <3>1. PICK q : /\ q = CHOOSE p \in Request : requests[p] = Idle
                   /\ Receive(q, [robots |-> view, tasks |-> <<>>, reservations |-> {}])
      BY <2>4 DEF PostBatch
    <3>2. q \in Request /\ requests[q] = Idle
      BY <2>4, <3>1 DEF PostBatch
    <3> QED
      BY <1>1, <2>2, <3>1, <3>2, SessionReceive
  <2>5. ASSUME NEW q \in Request, Process(q) \/ Respond(q)
        PROVE  LedgerType' /\ \A r \in Robot : Paired(r)'
    BY <2>2, <2>5, SessionStore, SessionDerive, SessionRespond DEF Process
  <2>6. CASE Heartbeat \/ \E r \in Robot : Late(r)
    BY <2>2, <2>6, SessionVerify DEF Heartbeat, Late
  <2> QED
    BY <1>4, <2>3, <2>4, <2>5, <2>6 DEF ServicesNext, Change, Seen, allVars
<1> QED
  BY <1>3, <1>4

(* As long as batches follow one another and the operator leaves robots    *)
(* alone, a robot has at most one charging session open, and only while    *)
(* its row says it charges (_derive_transitions), whatever the             *)
(* verification of heartbeats does meanwhile.                              *)
THEOREM SessionsPaired == ServicesSpec => []SessionsArePaired
<1>1. ASSUME SessionInv PROVE SessionsArePaired
  <2> SUFFICES ASSUME \A p, q \in Request : p = q, upsets = 0,
                      \A q \in Request : requests[q].step # "derive",
                      NEW r \in Robot
               PROVE  db.open[r] <= 1 /\ (db.open[r] = 1 => db.robots[r].charging)
    BY DEF SessionsArePaired
  <2>1. LedgerType /\ Paired(r)
    BY <1>1 DEF SessionInv
  <2> QED
    BY <2>1 DEF Paired, ReadsRow, Charges
<1> QED
  BY <1>1, SessionInitial, SessionStep, PTL DEF ServicesSpec
=============================================================================
