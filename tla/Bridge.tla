------------------------------- MODULE Bridge -------------------------------
(***************************************************************************)
(* The bridge between ROS and the backend, with the backend it reports to  *)
(* and, as its surroundings, the fleet it observes and an operator of the  *)
(* REST interface.  The bridge keeps the last message of every topic.  A   *)
(* tick of its ingest timer posts a batch built from them, twice; a tick   *)
(* of its relay timer publishes on /add_task what the backend has pending. *)
(* It has one thread: while it waits for an answer it hears nothing.  A    *)
(* request may be lost, may fail, or may time out and be processed all the *)
(* same.                                                                   *)
(***************************************************************************)
EXTENDS Ledger

CONSTANTS
  Order,      \* the robots in the order in which the bridge heard of them
  MaxFaults   \* bound: faults, and interventions of the operator

ASSUME OrderAssumption == Order \in Seq(Robot) /\ MaxFaults \in Nat

VARIABLES
  lists,        \* the task lists of the task managers: a status, or Nobody
  fleet,        \* the task each robot is on, as the fleet manager sees it
  seenFleet,    \* _fleet: the last fleet status heard, or Nobody
  seenLists,    \* _per_robot_tasks
  assignments,  \* _assignments: the robot, Nobody if relayed, NoRow if absent
  waiting,      \* what the bridge is doing
  polled,       \* the pending tasks that the relay has still to publish
  relayed,      \* how often a task has been published on /add_task
  lives,        \* how often the bridge has been started
  faults        \* the faults and interventions so far

fleetVars == <<lists, fleet>>
cacheVars == <<seenFleet, seenLists, assignments>>
bridgeVars == <<cacheVars, waiting, polled, relayed, lives>>
vars == <<ledgerVars, fleetVars, bridgeVars, faults>>

NoList == [t \in Task |-> Nobody]
Listens == waiting = <<"nothing">>

Fault == faults < MaxFaults /\ faults' = faults + 1

-----------------------------------------------------------------------------
(* The fleet: a task that has been relayed is given to a robot, started    *)
(* and finished, or taken back before it is finished.                      *)

Assign(r, t) ==
  /\ relayed[t] > 0
  /\ fleet[r] = Nobody
  /\ \A s \in Robot : lists[s][t] = Nobody
  /\ lists' = [lists EXCEPT ![r][t] = "WAITING"]
  /\ fleet' = [fleet EXCEPT ![r] = t]
  /\ UNCHANGED <<ledgerVars, bridgeVars, faults>>

Start(r, t) ==
  /\ lists[r][t] = "WAITING"
  /\ lists' = [lists EXCEPT ![r][t] = "ACTIVE"]
  /\ UNCHANGED <<ledgerVars, fleet, bridgeVars, faults>>

Finish(r, t) ==
  /\ lists[r][t] = "ACTIVE"
  /\ lists' = [lists EXCEPT ![r][t] = "COMPLETED"]
  /\ UNCHANGED <<ledgerVars, fleet, bridgeVars, faults>>

(* The fleet manager hears from the beacon that the robot is free again.   *)
SetFree(r) ==
  /\ fleet[r] # Nobody /\ lists[r][fleet[r]] = "COMPLETED"
  /\ fleet' = [fleet EXCEPT ![r] = Nobody]
  /\ UNCHANGED <<ledgerVars, lists, bridgeVars, faults>>

(* The fleet manager takes the task back: the manager drops the entry.     *)
TakeBack(r, t) ==
  /\ Fault
  /\ fleet[r] = t /\ lists[r][t] \in {"WAITING", "ACTIVE"}
  /\ lists' = [lists EXCEPT ![r][t] = Nobody]
  /\ fleet' = [fleet EXCEPT ![r] = Nobody]
  /\ UNCHANGED <<ledgerVars, bridgeVars>>

FleetStep ==
  \E r \in Robot :
    \/ \E t \in Task : Assign(r, t) \/ Start(r, t) \/ Finish(r, t) \/ TakeBack(r, t)
    \/ SetFree(r)

-----------------------------------------------------------------------------
(* The observers.  A topic may skip messages and no order relates topics.  *)

HearFleet ==
  /\ Listens /\ seenFleet # fleet
  /\ seenFleet' = fleet
  /\ UNCHANGED <<ledgerVars, fleetVars, seenLists, assignments, waiting, polled,
                 relayed, lives, faults>>

(* The subscription to a task list exists once the fleet has been heard.   *)
HearList(r) ==
  /\ Listens /\ seenFleet # NoRow
  /\ seenLists[r] # lists[r]
  /\ seenLists' = [seenLists EXCEPT ![r] = lists[r]]
  /\ UNCHANGED <<ledgerVars, fleetVars, seenFleet, assignments, waiting, polled,
                 relayed, lives, faults>>

HearAssignment(r, t) ==
  /\ Listens /\ fleet[r] = t
  /\ assignments[t] # r
  /\ assignments' = [assignments EXCEPT ![t] = r]
  /\ UNCHANGED <<ledgerVars, fleetVars, seenFleet, seenLists, waiting, polled,
                 relayed, lives, faults>>

-----------------------------------------------------------------------------
(* _build_batch: the entries of the lists, then the assignments that are   *)
(* in no list.                                                             *)

InList(r) == {t \in Task : seenLists[r][t] # Nobody}

(* Mutant: assignments that are in a list follow the lists too.            *)
Assigned == {t \in Task : assignments[t] # NoRow}

Unlisted == {t \in Task : assignments[t] # NoRow /\ \A r \in Robot : t \notin InList(r)}

ListOf(r) == [t \in Task |->
  IF t \in InList(r) THEN [status |-> seenLists[r][t], robot |-> r] ELSE NoRow]

AssignmentList == [t \in Task |->
  IF t \in Unlisted THEN [status |-> "ASSIGNED", robot |-> assignments[t]] ELSE NoRow]

Entries ==
  [i \in 1..(Len(Order) + 1) |->
     IF i <= Len(Order) THEN ListOf(Order[i]) ELSE AssignmentList]

BuildBatch ==
  [robots |-> IF seenFleet = NoRow THEN NoReports
              ELSE [r \in Robot |->
                     [status |-> "ONLINE", charging |-> FALSE, low |-> FALSE,
                      current |-> seenFleet[r], fresh |-> TRUE]],
   tasks |-> Entries, reservations |-> {}]

(* _ingest_tick posts a batch and, when that is answered, another one.  A  *)
(* post that is lost on its way changes nothing.                           *)
Post(q, nth) ==
  /\ Receive(q, BuildBatch)
  /\ waiting' = <<nth, q>>
  /\ UNCHANGED <<fleetVars, cacheVars, polled, relayed, lives, faults>>

IngestTick(q) ==
  /\ Listens
  /\ requests[q] = Idle /\ q = CHOOSE p \in Request : requests[p] = Idle
  /\ Post(q, "first")

Answered(q) == waiting = <<"first", q>> /\ requests[q].step = "done" /\ Post(q, "second")

AnsweredTwice(q) ==
  /\ waiting = <<"second", q>> /\ requests[q].step = "done"
  /\ requests' = [requests EXCEPT ![q] = Idle]
  /\ waiting' = <<"nothing">>
  /\ UNCHANGED <<db, overdue, restarts, fleetVars, cacheVars, polled, relayed, lives, faults>>

AwaitsAnswer(q) == waiting \in {<<"first", q>>, <<"second", q>>}

(* No answer in time, and what has reached the backend goes on there; or   *)
(* the backend has died and the connection with it.                        *)
TimeOut(q) ==
  /\ AwaitsAnswer(q)
  /\ IF requests[q] = Idle THEN UNCHANGED faults ELSE Fault
  /\ waiting' = <<"nothing">>
  /\ UNCHANGED <<ledgerVars, fleetVars, cacheVars, polled, relayed, lives>>

(* The answer to a request nobody waits for.                               *)
Unheard(q) ==
  /\ ~AwaitsAnswer(q)
  /\ requests[q].step = "done"
  /\ requests' = [requests EXCEPT ![q] = Idle]
  /\ UNCHANGED <<db, overdue, restarts, fleetVars, bridgeVars, faults>>

-----------------------------------------------------------------------------
(* _relay_tick: the backend is asked for its pending tasks; the ones that  *)
(* the bridge knows no assignment of are published and patched, one by one.*)

RelayTick ==
  /\ Listens
  /\ \E t \in PendingTasks(db) : assignments[t] = NoRow
  /\ polled' = PendingTasks(db)
  /\ waiting' = <<"relay">>
  /\ UNCHANGED <<ledgerVars, fleetVars, cacheVars, relayed, lives, faults>>

(* Mutants: what has been relayed is not noted, and is relayed only if noted.*)
RelayUnnoted(t) ==
  /\ waiting = <<"relay">> /\ t \in polled
  /\ polled' = polled \ {t}
  /\ waiting' = IF polled = {t} THEN <<"nothing">> ELSE <<"relay">>
  /\ relayed' = [relayed EXCEPT ![t] = IF assignments[t] = NoRow THEN @ + 1 ELSE @]
  /\ IF db.tasks[t] # NoRow /\ faults = 0 THEN TaskPatch(t, "ASSIGNED") ELSE UNCHANGED ledgerVars
  /\ UNCHANGED <<fleetVars, cacheVars, lives, faults>>
RelayKnown(t) ==
  /\ waiting = <<"relay">> /\ t \in polled
  /\ polled' = polled \ {t}
  /\ waiting' = IF polled = {t} THEN <<"nothing">> ELSE <<"relay">>
  /\ relayed' = [relayed EXCEPT ![t] = IF assignments[t] = NoRow THEN @ ELSE @ + 1]
  /\ UNCHANGED <<ledgerVars, fleetVars, cacheVars, lives, faults>>

Relay(t) ==
  /\ waiting = <<"relay">> /\ t \in polled
  /\ polled' = polled \ {t}
  /\ waiting' = IF polled = {t} THEN <<"nothing">> ELSE <<"relay">>
  /\ IF assignments[t] = NoRow
     THEN /\ relayed' = [relayed EXCEPT ![t] = @ + 1]
          /\ assignments' = [assignments EXCEPT ![t] = Nobody]
          /\ \/ db.tasks[t] # NoRow /\ TaskPatch(t, "ASSIGNED") /\ UNCHANGED faults
             \/ db.tasks[t] = NoRow /\ UNCHANGED <<ledgerVars, faults>>
             \/ Fault /\ UNCHANGED ledgerVars
     ELSE UNCHANGED <<ledgerVars, relayed, assignments, faults>>
  /\ UNCHANGED <<fleetVars, seenFleet, seenLists, lives>>

(* The bridge dies and comes back with nothing.                            *)
BridgeRestart ==
  /\ Fault
  /\ seenFleet' = NoRow
  /\ seenLists' = [r \in Robot |-> NoList]
  /\ assignments' = [t \in Task |-> NoRow]
  /\ waiting' = <<"nothing">> /\ polled' = {}
  /\ lives' = lives + 1
  /\ UNCHANGED <<ledgerVars, fleetVars, relayed>>

-----------------------------------------------------------------------------
BackendStep(q) ==
  /\ Store(q) \/ Derive(q)
  /\ UNCHANGED <<fleetVars, bridgeVars, faults>>

(* The operator creates a task once; to patch or delete it, and to kill    *)
(* the backend, is an intervention.                                        *)
Create(t) ==
  /\ db.history[t]["PENDING"] = 0
  /\ TaskCreate(t)
  /\ UNCHANGED <<fleetVars, bridgeVars, faults>>

Intervene ==
  /\ Fault
  /\ \/ \E t \in Task : TaskDelete(t) \/ \E s \in {"COMPLETED", "CANCELLED"} : TaskPatch(t, s)
     \/ Restart
  /\ UNCHANGED <<fleetVars, bridgeVars>>

BridgeStep ==
  \/ HearFleet
  \/ \E r \in Robot : HearList(r) \/ \E t \in Task : HearAssignment(r, t)
  \/ \E q \in Request : IngestTick(q) \/ Answered(q) \/ AnsweredTwice(q)
                          \/ TimeOut(q) \/ Unheard(q)
  \/ RelayTick
  \/ \E t \in Task : Relay(t)
  \/ BridgeRestart

Init ==
  /\ LedgerInit
  /\ lists = [r \in Robot |-> NoList]
  /\ fleet = [r \in Robot |-> Nobody]
  /\ seenFleet = NoRow
  /\ seenLists = [r \in Robot |-> NoList]
  /\ assignments = [t \in Task |-> NoRow]
  /\ waiting = <<"nothing">> /\ polled = {}
  /\ relayed = [t \in Task |-> 0]
  /\ lives = 1 /\ faults = 0

Next ==
  \/ FleetStep \/ BridgeStep \/ Intervene
  \/ \E q \in Request : BackendStep(q)
  \/ \E t \in Task : Create(t)

(* The callbacks of the bridge and the threads of the backend run as long  *)
(* as there is something for them to do; the faults, the fleet and the     *)
(* operator are under no obligation.                                       *)
Fairness ==
  /\ SF_vars(HearFleet)
  /\ \A r \in Robot : SF_vars(HearList(r))
  /\ WF_vars(\E q \in Request : IngestTick(q))
  /\ \A q \in Request :
       /\ WF_vars(Answered(q)) /\ WF_vars(AnsweredTwice(q))
       /\ WF_vars(Unheard(q)) /\ WF_vars(requests[q] = Idle /\ TimeOut(q))
       /\ WF_vars(BackendStep(q))
  /\ SF_vars(RelayTick)
  /\ \A t \in Task : WF_vars(Relay(t))

Spec == Init /\ [][Next]_vars /\ Fairness

-----------------------------------------------------------------------------
(* A task is published on /add_task at most once for each time the bridge  *)
(* is started, whatever becomes of the PATCH that marks it ASSIGNED, of    *)
(* late batches and of the operator's changes to its row.                  *)
RelayedOncePerLife == \A t \in Task : relayed[t] <= lives

(* While the backend does not die, a task that is COMPLETED in the         *)
(* database has a completion in its history, in whatever order overlapping *)
(* ingest requests and the operator have written its row; only a request   *)
(* that has still to derive its transitions may owe one.                   *)
CompletionsAreRecorded ==
  restarts = 0 /\ (\A q \in Request : requests[q].step # "derive") =>
    \A t \in Task : StatusOf(db.tasks[t]) = "COMPLETED" => db.history[t]["COMPLETED"] > 0

(* A task that waits in the backend is relayed, through failures of the    *)
(* relay and restarts of either side, unless the operator takes it away.   *)
PendingIsRelayed ==
  \A t \in Task :
    (StatusOf(db.tasks[t]) = "PENDING" /\ relayed[t] = 0)
      ~> (relayed[t] > 0 \/ StatusOf(db.tasks[t]) # "PENDING")

(* When a task manager reports a task completed, the database ends up      *)
(* saying so for good, whatever was written, deleted or lost before.       *)
LedgerCatchesUp ==
  \A r \in Robot, t \in Task :
    <>[](lists[r][t] = "COMPLETED") => <>[](StatusOf(db.tasks[t]) = "COMPLETED")
=============================================================================
