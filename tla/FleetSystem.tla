----------------------------- MODULE FleetSystem -----------------------------
(***************************************************************************)
(* The fleet manager, one task manager and one status beacon per robot,    *)
(* an operator, and the topics between them:                               *)
(*                                                                         *)
(*   fleet manager --/task_assignment, /cancel_task--> task manager        *)
(*   operator --/add_task--> fleet manager                                 *)
(*   operator --/cancel_task--> task manager                               *)
(*   task manager --/task_state--> beacon --/robot_registration--> fleet   *)
(*                                                                         *)
(* A topic is reliable and ordered by itself; a message may take any time, *)
(* and nothing orders one topic against another.  Of a topic published     *)
(* periodically a subscriber may miss all but the last message.            *)
(***************************************************************************)
EXTENDS FleetManager

CONSTANTS
  MaxRuns,      \* bound: runs of a task after which it is not submitted again
  MaxEntries,   \* bound: length of the list of a task manager
  MaxTroubles   \* bound: how often a robot falls silent or a task is cancelled

ASSUME BoundAssumption == {MaxRuns, MaxEntries, MaxTroubles} \subseteq Nat

VARIABLES
  tasks, active, state, told,  \* of the task managers
  knows,        \* the beacons' _current_task
  announced,    \* the task in the registration on its way, {} if none is
  assignments,  \* the assignments on their way to each task manager
  cancels,      \* the cancels on their way to each task manager
  troubles,     \* the robots that have fallen silent, the tasks cancelled
  taken         \* history: <<r, pc>> when r's work was taken back in loop pc

managers == <<tasks, active, state, told>>
beacons == <<knows, announced>>
orders == <<assignments, cancels>>
history == <<troubles, taken>>
sysVars == <<vars, managers, beacons, orders, history>>

TM == INSTANCE TaskManager

-----------------------------------------------------------------------------
(* A step of the fleet manager publishes an assignment for every new       *)
(* reservation, and cancels for all the work of a robot that must charge.  *)
Assigned(r) ==
  Holds(r)' /\ (Holds(r) => reservations'[r].task # reservations[r].task)

Publish ==
  /\ assignments' = [r \in Robot |->
       IF Assigned(r) THEN Append(assignments[r], reservations'[r].task)
       ELSE assignments[r]]
  /\ cancels' = [r \in Robot |->
       IF pc = "battery" /\ recovered = <<>> /\ WorkOf(r)' # WorkOf(r)
       THEN cancels[r] \o WorkOf(r) ELSE cancels[r]]

(* The robots whose work this step takes back: _recover_robot does it in   *)
(* the loop "heartbeats", and _check_battery in the loop "battery".        *)
TakenBack ==
  {r \in Robot : /\ pc \in {"heartbeats", "battery"} /\ recovered = <<>>
                 /\ WorkOf(r)' # WorkOf(r)}

FleetTick == UNCHANGED <<managers, beacons, history>> /\ Tick /\ Publish
FleetCallback ==
  /\ Callback /\ Publish
  /\ taken' = taken \cup {<<r, pc>> : r \in TakenBack}
  /\ UNCHANGED <<managers, beacons, troubles>>

(* The operator submits t, unless it has been executed often enough.       *)
Runs(t) ==
  MapThenSumSet(LAMBDA r : Cardinality({i \in 1..Len(tasks[r]) : tasks[r][i].id = t}), Robot)

Submit(t) ==
  /\ Runs(t) < MaxRuns
  /\ AddTask(t) /\ Publish
  /\ UNCHANGED <<managers, beacons, history>>

(* The operator cancels t on the robot that the control center tracks as   *)
(* executing it (_cmd_cancel_task).  The fleet manager does not listen.    *)
OperatorCancel(t) ==
  /\ Len(troubles) < MaxTroubles
  /\ \E r \in Robot :
       /\ active[r] # 0 /\ tasks[r][active[r]].id = t
       /\ cancels' = [cancels EXCEPT ![r] = Append(@, t)]
  /\ troubles' = Append(troubles, t)
  /\ UNCHANGED <<vars, managers, beacons, assignments, taken>>

(* The messages of r's beacon are held up, and the robot goes on working;  *)
(* its next heartbeat or registration ends that.                           *)
FallSilent(r) ==
  /\ Len(troubles) < MaxTroubles
  /\ Silence(r)
  /\ troubles' = Append(troubles, r)
  /\ UNCHANGED <<managers, beacons, orders, taken>>

Resume(r) ==
  /\ Registered(r) /\ ~robots[r].fresh
  /\ Heartbeat(r)
  /\ UNCHANGED <<managers, beacons, orders, history>>

-----------------------------------------------------------------------------
(* The task manager and the beacon of a robot.                             *)

ReceiveAssignment(r) ==
  /\ assignments[r] # <<>>
  /\ assignments' = [assignments EXCEPT ![r] = Tail(@)]
  /\ TM!Assign(r, Head(assignments[r]))
  /\ UNCHANGED <<vars, beacons, cancels, history>>

ReceiveCancel(r) ==
  /\ cancels[r] # <<>>
  /\ cancels' = [cancels EXCEPT ![r] = Tail(@)]
  /\ TM!Cancel(r, Head(cancels[r]))
  /\ UNCHANGED <<vars, beacons, assignments, history>>

Work(r) ==
  /\ UNCHANGED <<vars, beacons, orders, history>>
  /\ TM!ControlLoop(r)

(* The robot has arrived, or is done with the package.                     *)
MoveOn(r) == Work(r) /\ state'[r] # state[r]

(* Mutant: a message without an active task is not taken over.             *)
HearActiveState(r) ==
  /\ told[r].active # None
  /\ knows' = [knows EXCEPT ![r] = told[r].active]
  /\ UNCHANGED <<vars, managers, announced, orders, history>>

(* _state_callback of the beacon.                                          *)
HearState(r) ==
  /\ knows' = [knows EXCEPT ![r] = told[r].active]
  /\ UNCHANGED <<vars, managers, announced, orders, history>>

(* _publish_registration of the beacon, and its arrival at the fleet.      *)
Announce(r) ==
  /\ announced[r] = {}
  /\ announced' = [announced EXCEPT ![r] = {knows[r]}]
  /\ UNCHANGED <<vars, managers, knows, orders, history>>

ReceiveRegistration(r) ==
  /\ announced[r] # {}
  /\ announced' = [announced EXCEPT ![r] = {}]
  /\ \E t \in announced[r], report \in Reports : Register(r, report, t)
  /\ UNCHANGED <<managers, knows, orders, history>>

-----------------------------------------------------------------------------
SysInit ==
  /\ Init
  /\ TM!TMInit
  /\ knows = [r \in Robot |-> None]
  /\ announced = [r \in Robot |-> {}]
  /\ assignments = [r \in Robot |-> <<>>]
  /\ cancels = [r \in Robot |-> <<>>]
  /\ troubles = <<>> /\ taken = {}

SysNext ==
  \/ FleetTick \/ FleetCallback
  \/ \E t \in Task : Submit(t) \/ OperatorCancel(t)
  \/ \E r \in Failing : FallSilent(r) \/ Resume(r)
  \/ \E r \in Robot :
       \/ ReceiveAssignment(r) \/ ReceiveCancel(r) \/ Work(r)
       \/ HearState(r) \/ Announce(r) \/ ReceiveRegistration(r)

SysSpec == SysInit /\ [][SysNext]_sysVars

(* Picking takes pickup_delay, 2 seconds, and the state and registration   *)
(* of a robot are published every half second and every second: before the *)
(* robot goes on, a registration with the task reaches the fleet manager.  *)
Timely ==
  \A r \in Robot : state[r] = "PICKING" /\ state'[r] = "GO_TO_DROPOFF" =>
    (Holds(r) /\ reservations[r].task = tasks[r][active[r]].id
       => reservations[r].activated)

(* Every node serves its timer and each of its subscriptions again and     *)
(* again, and a robot that drives or handles a package is done some time.  *)
(* The fleet manager takes registrations between its callbacks only, hence *)
(* strong fairness.                                                        *)
Fairness ==
  /\ WF_sysVars(FleetCallback) /\ SF_sysVars(FleetTick)
  /\ \A r \in Robot :
       /\ WF_sysVars(ReceiveAssignment(r)) /\ WF_sysVars(ReceiveCancel(r))
       /\ WF_sysVars(MoveOn(r) /\ Timely) /\ WF_sysVars(Work(r))
       /\ WF_sysVars(HearState(r)) /\ WF_sysVars(Announce(r))
       /\ SF_sysVars(ReceiveRegistration(r))

TimelySpec == SysInit /\ [][SysNext /\ Timely]_sysVars /\ Fairness

-----------------------------------------------------------------------------
(* Properties.                                                             *)

Executes(r, t) == active[r] # 0 /\ tasks[r][active[r]].id = t

Unfinished(r) ==
  {i \in 1..Len(tasks[r]) : tasks[r][i].status # "COMPLETED"}

(* No two robots execute the same task at once, as long as the fleet has   *)
(* not taken any work back: _recover_robot hands a task out anew and sends *)
(* no cancel, and a cancel of _check_battery may be late.  Registrations   *)
(* that are older than an assignment or a cancel, cancels of an operator,  *)
(* and a resubmission at any moment, do not suffice.                       *)
OneExecutor ==
  taken = {} =>
    \A r, s \in Robot, t \in Task : Executes(r, t) /\ Executes(s, t) => r = s

(* The list that a task manager keeps in order of priority never has more  *)
(* than one task to order, those on their way to it included, unless work  *)
(* of the robot has been taken back: the fleet manager keeps the others.   *)
OneTaskPerManager ==
  \A r \in Robot : (\A loop \in {"heartbeats", "battery"} : <<r, loop>> \notin taken) =>
    Cardinality(Unfinished(r)) + Len(assignments[r]) <= 1

(* Who may have had t cancelled on r: an operator, or the fleet manager    *)
(* when r had to charge.                                                   *)
MayBeCancelled(r, t) ==
  (\E i \in 1..Len(troubles) : troubles[i] = t) \/ <<r, "battery">> \in taken

Finished(r, t) ==
  \E i \in 1..Len(tasks[r]) : tasks[r][i] = [id |-> t, status |-> "COMPLETED"]

(* A completion the fleet manager counts was one: the robot that held the  *)
(* reservation has the task on its list as COMPLETED, unless it was        *)
(* cancelled there.  Robots may fall silent and come back.                 *)
CompletionIsTrue ==
  [][\A r \in Robot : pc = "idle" /\ Holds(r) /\ ~Holds(r)' =>
       \/ Finished(r, reservations[r].task)
       \/ MayBeCancelled(r, reservations[r].task)]_sysVars

(* Every task the fleet accepts is completed and counted, whichever topic  *)
(* is slow and however assignment, state and registration cross.           *)
TasksCompleted == \A t \in Task : t \in accepted ~> t \notin accepted

(* The life of a task in the whole system: TaskLife, with a task over when *)
(* it is still reserved, its assignment has arrived, and no robot executes *)
(* it.  Hence a task is executed once for each time that it is accepted,   *)
(* and counted after that, in all that topics may do and a silence that is *)
(* over in time; _recover_robot and _check_battery end the promise.        *)
Over(t) ==
  /\ \E r \in Robot : Holds(r) /\ reservations[r].task = t /\ assignments[r] = <<>>
  /\ \A r \in Robot : ~Executes(r, t)

Life == INSTANCE TaskLife WITH
  open <- accepted,
  runs <- [t \in Task |-> {r \in Robot : Executes(r, t)}],
  over <- {t \in accepted : Over(t)},
  disturbed <- taken # {}

LifeSpec == Life!Spec

=============================================================================
