------------------------------- MODULE Ledger -------------------------------
(***************************************************************************)
(* The backend: its database, the ingest of batches from the bridge, the   *)
(* REST handlers that change robots and tasks, and the verification of     *)
(* heartbeats.  Every statement of the repository commits on its own, and  *)
(* the handlers run in the threads of a pool, so a batch is processed in   *)
(* three steps -- read the previous state, store the batch, derive the     *)
(* transitions -- between which other requests run and the process may die.*)
(***************************************************************************)
EXTENDS Naturals, Sequences, FiniteSets

CONSTANTS
  Robot,     \* the robots
  Task,      \* the ids of tasks
  Nobody,    \* no robot, no task: an empty string in the database
  NoRow,     \* what a query of a row that does not exist returns
  Request,   \* ingest requests that may be in progress at the same time
  MaxRows    \* bound: rows of one kind that are told apart

ASSUME RowAssumption == MaxRows \in Nat \ {0}

VARIABLES
  db,        \* the tables
  requests,  \* the ingest requests in progress
  overdue,   \* robots the heartbeat verification has read as overdue
  restarts   \* how often the backend has died and come back

ledgerVars == <<db, requests, overdue, restarts>>

Idle == [step |-> "idle"]

(* A report on a robot, in a batch as in the table; "fresh" says that      *)
(* last_seen is within heartbeat_timeout of the clock.                     *)
Report == [status : {"ONLINE", "OFFLINE"}, charging : BOOLEAN, low : BOOLEAN,
           current : Task \cup {Nobody}, fresh : BOOLEAN]
ListStatus == {"WAITING", "ACTIVE", "COMPLETED"}
Status == ListStatus \cup {"PENDING", "ASSIGNED", "CANCELLED"}
TaskRow == [status : Status, robot : Robot \cup {Nobody}]
Past == {"PENDING", "COMPLETED"}   \* the rows of task_history that are told apart
Rows == 0..MaxRows

ASSUME NobodyAssumption == Nobody \notin Robot \cup Task \cup Status
ASSUME NoRowAssumption == NoRow \notin Robot \cup {Nobody} \cup Report \cup TaskRow

(* The tables.  Of the charging sessions those that have no end are        *)
(* counted; of the events and alerts, those that a robot is offline or low *)
(* are followed, and they and a reservation are there or not.              *)
Database ==
  [robots : [Robot -> Report \cup {NoRow}], tasks : [Task -> TaskRow \cup {NoRow}],
   history : [Task -> [Past -> Rows]], open : [Robot -> Rows],
   reservations : SUBSET (Robot \X Task), events : SUBSET Robot,
   alerts : SUBSET (Robot \X {"robot_offline", "low_battery"})]

EmptyDatabase ==
  [robots |-> [r \in Robot |-> NoRow], tasks |-> [t \in Task |-> NoRow],
   history |-> [t \in Task |-> [p \in Past |-> 0]], open |-> [r \in Robot |-> 0],
   reservations |-> {}, events |-> {}, alerts |-> {}]

(* Rows are added up to the bound.                                         *)
More(n, k) == IF n + k < MaxRows THEN n + k ELSE MaxRows

-----------------------------------------------------------------------------
(* The repository: a statement maps the tables to the tables.  The ones    *)
(* that are run for the rows of a batch, one by one, take all of them.     *)

(* Mutant: a robot that is known keeps its status.                         *)
UpsertRobotsKeep(d, reports) ==
  [d EXCEPT !.robots = [r \in Robot |->
     IF reports[r] = NoRow THEN d.robots[r]
     ELSE IF d.robots[r] = NoRow THEN reports[r]
     ELSE [reports[r] EXCEPT !.status = d.robots[r].status]]]

UpsertRobots(d, reports) ==
  [d EXCEPT !.robots = [r \in Robot |->
     IF reports[r] = NoRow THEN d.robots[r] ELSE reports[r]]]

UpdateRobotStatus(d, r, status) ==
  IF d.robots[r] = NoRow THEN d ELSE [d EXCEPT !.robots[r].status = status]

DeleteRobot(d, r) == [d EXCEPT !.robots[r] = NoRow]

(* Of several entries of a task the last one stays.                        *)
LastOf(lists, t) ==
  {i \in DOMAIN lists : /\ lists[i][t] # NoRow
                        /\ \A j \in DOMAIN lists : lists[j][t] # NoRow => j <= i}

UpsertTasks(d, lists) ==
  [d EXCEPT !.tasks = [t \in Task |->
     IF LastOf(lists, t) = {} THEN d.tasks[t]
     ELSE lists[CHOOSE i \in LastOf(lists, t) : TRUE][t]]]

UpdateTask(d, t, status) ==
  IF d.tasks[t] = NoRow THEN d ELSE [d EXCEPT !.tasks[t].status = status]

DeleteTask(d, t) == [d EXCEPT !.tasks[t] = NoRow]

AddTaskHistory(d, t, status) ==
  IF status \in Past THEN [d EXCEPT !.history[t][status] = More(@, 1)] ELSE d

AddReservations(d, K) == [d EXCEPT !.reservations = @ \cup K]

AddChargingSessions(d, R) ==
  [d EXCEPT !.open = [r \in Robot |-> IF r \in R THEN More(d.open[r], 1) ELSE d.open[r]]]

(* The latest session that has no end, if there is one.                    *)
EndChargingSessions(d, R) ==
  [d EXCEPT !.open = [r \in Robot |->
     IF r \in R /\ d.open[r] > 0 THEN d.open[r] - 1 ELSE d.open[r]]]

AddAlerts(d, R, kind) == [d EXCEPT !.alerts = @ \cup (R \X {kind})]
Offline(d, R) == AddAlerts([d EXCEPT !.events = @ \cup R], R, "robot_offline")

StatusOf(row) == IF row = NoRow THEN Nobody ELSE row.status
PendingTasks(d) == {t \in Task : StatusOf(d.tasks[t]) = "PENDING"}

-----------------------------------------------------------------------------
(* process_batch.  A batch has the reports on robots, the entries of task  *)
(* lists, one list after the other, and reservations.                      *)

NoReports == [r \in Robot |-> NoRow]
NoEntries == [t \in Task |-> NoRow]
List == [Task -> TaskRow \cup {NoRow}]

Batch == [robots : [Robot -> Report \cup {NoRow}], tasks : Seq(List),
          reservations : SUBSET (Robot \X Task)]

Reported(batch) == {r \in Robot : batch.robots[r] # NoRow}
Listed(batch) == {t \in Task : \E i \in DOMAIN batch.tasks : batch.tasks[i][t] # NoRow}

(* A request that has read the rows it is about to change.                 *)
Opened(batch) ==
  [step |-> "store", batch |-> batch,
   robots |-> [r \in Robot |-> IF r \in Reported(batch) THEN db.robots[r] ELSE NoRow],
   tasks |-> [t \in Task |-> IF t \in Listed(batch) THEN db.tasks[t] ELSE NoRow]]

Receive(q, batch) ==
  /\ requests' = [requests EXCEPT ![q] = Opened(batch)]
  /\ UNCHANGED <<db, overdue, restarts>>

Stored(batch) ==
  AddReservations(UpsertTasks(UpsertRobots(db, batch.robots), batch.tasks), batch.reservations)

(* Mutant: the previous rows of the tasks are read after they are stored.  *)
StoreThenOpen(q) ==
  /\ requests[q].step = "store"
  /\ db' = Stored(requests[q].batch)
  /\ requests' = [requests EXCEPT ![q].step = "derive", ![q].tasks = db'.tasks]
  /\ UNCHANGED <<overdue, restarts>>

Store(q) ==
  /\ requests[q].step = "store"
  /\ db' = Stored(requests[q].batch)
  /\ requests' = [requests EXCEPT ![q].step = "derive"]
  /\ UNCHANGED <<overdue, restarts>>

-----------------------------------------------------------------------------
(* _derive_transitions compares the reports and the entries of a batch     *)
(* with the rows that were read before the batch was stored.  A robot that *)
(* had no row is left out.                                                 *)

HadRow(req) == {r \in Reported(req.batch) : req.robots[r] # NoRow}

WentOffline(req) ==
  {r \in HadRow(req) :
     req.robots[r].status # "OFFLINE" /\ req.batch.robots[r].status = "OFFLINE"}

(* Mutant: every report of a robot that charges begins a session.          *)
BeganAlways(req) == {r \in HadRow(req) : req.batch.robots[r].charging}

Began(req) == {r \in HadRow(req) : ~req.robots[r].charging /\ req.batch.robots[r].charging}
Ended(req) == {r \in HadRow(req) : req.robots[r].charging /\ ~req.batch.robots[r].charging}

RanLow(req) ==
  {r \in HadRow(req) : /\ ~req.robots[r].low
                      /\ req.batch.robots[r].low /\ ~req.batch.robots[r].charging}

(* The entries in which t was not COMPLETED before and is now.             *)
Completing(req, t) ==
  {i \in DOMAIN req.batch.tasks : /\ StatusOf(req.batch.tasks[i][t]) = "COMPLETED"
                                  /\ StatusOf(req.tasks[t]) # "COMPLETED"}

(* A robot that was on t reports no task any more: t counts as completed.  *)
GoneIdle(req) ==
  {t \in Task :
     /\ Completing(req, t) = {}
     /\ db.tasks[t] # NoRow /\ StatusOf(db.tasks[t]) # "COMPLETED"
     /\ \E r \in HadRow(req) :
          /\ req.robots[r].current = t /\ req.batch.robots[r].current = Nobody
          /\ req.batch.robots[r].status = "ONLINE" /\ ~req.batch.robots[r].charging}

(* update_task and add_task_history, as often as t is found completed.     *)
Completions(req, t) ==
  IF t \in GoneIdle(req) THEN 1 ELSE Cardinality(Completing(req, t))

CompleteTasks(req) ==
  [db EXCEPT
     !.tasks = [t \in Task |->
       IF db.tasks[t] = NoRow \/ Completions(req, t) = 0 THEN db.tasks[t]
       ELSE [db.tasks[t] EXCEPT !.status = "COMPLETED"]],
     !.history = [t \in Task |->
       [db.history[t] EXCEPT !["COMPLETED"] = More(@, Completions(req, t))]]]

Derived(req) ==
  LET sessions == EndChargingSessions(AddChargingSessions(CompleteTasks(req), Began(req)),
                                      Ended(req))
  IN AddAlerts(Offline(sessions, WentOffline(req)), RanLow(req), "low_battery")

Derive(q) ==
  /\ requests[q].step = "derive"
  /\ db' = Derived(requests[q])
  /\ requests' = [requests EXCEPT ![q] = [step |-> "done"]]
  /\ UNCHANGED <<overdue, restarts>>

-----------------------------------------------------------------------------
(* The REST handlers.                                                      *)

Pending == [status |-> "PENDING", robot |-> Nobody]

(* POST /api/tasks, refused when the id is known.                          *)
TaskCreate(t) ==
  /\ db.tasks[t] = NoRow
  /\ db' = AddTaskHistory(UpsertTasks(db, <<[NoEntries EXCEPT ![t] = Pending]>>), t, "PENDING")
  /\ UNCHANGED <<requests, overdue, restarts>>

(* PATCH /api/tasks/{id} with a status.                                    *)
Patched(t, status) ==
  LET noted == IF \/ status = "COMPLETED"
                  \/ status = "ASSIGNED" /\ db.tasks[t].status # "ASSIGNED"
               THEN AddTaskHistory(db, t, status) ELSE db
  IN UpdateTask(noted, t, status)

TaskPatch(t, status) ==
  /\ db.tasks[t] # NoRow
  /\ db' = Patched(t, status)
  /\ UNCHANGED <<requests, overdue, restarts>>

TaskDelete(t) ==
  /\ db.tasks[t] # NoRow
  /\ db' = DeleteTask(db, t)
  /\ UNCHANGED <<requests, overdue, restarts>>

RobotDelete(r) ==
  /\ db.robots[r] # NoRow
  /\ db' = DeleteRobot(db, r)
  /\ UNCHANGED <<requests, overdue, restarts>>

-----------------------------------------------------------------------------
(* _heartbeat_verification reads the overdue robots, then flags each one.  *)

OverdueRobots(d) ==
  {r \in Robot : d.robots[r] # NoRow /\ d.robots[r].status = "ONLINE" /\ ~d.robots[r].fresh}

VerifyHeartbeats ==
  /\ overdue = {}
  /\ OverdueRobots(db) # {}
  /\ overdue' = OverdueRobots(db)
  /\ UNCHANGED <<db, requests, restarts>>

FlagOffline(r) ==
  /\ r \in overdue
  /\ db' = Offline(UpdateRobotStatus(db, r, "OFFLINE"), {r})
  /\ overdue' = overdue \ {r}
  /\ UNCHANGED <<requests, restarts>>

(* More than heartbeat_timeout passes since the robot was last seen.       *)
Overdue(r) ==
  /\ db.robots[r] # NoRow /\ db.robots[r].fresh
  /\ db' = [db EXCEPT !.robots[r].fresh = FALSE]
  /\ UNCHANGED <<requests, overdue, restarts>>

(* The process dies and comes back: the tables are all that is left.       *)
Restart ==
  /\ requests' = [q \in Request |-> Idle]
  /\ overdue' = {}
  /\ restarts' = restarts + 1
  /\ UNCHANGED db

LedgerInit ==
  /\ db = EmptyDatabase
  /\ requests = [q \in Request |-> Idle]
  /\ overdue = {}
  /\ restarts = 0
=============================================================================
