------------------------------ MODULE RobotStack ------------------------------
(***************************************************************************)
(* The nodes of one robot and the goals they send to one planner: the task *)
(* manager, the beacon, the publisher of a static home goal, the planner,  *)
(* the controller behind the obstacle monitor, and the package carrier.    *)
(*                                                                         *)
(*   task manager, beacon, home --/goal_pose--> planner --/plan--> drive   *)
(*   task manager --/task_state--> beacon, home, carrier                   *)
(*                                                                         *)
(* The map is a few places with a road between any two of them.  Of the    *)
(* goals of one publisher the planner may miss all but the last.  The pose *)
(* is published far more often than anything it decides changes, and is    *)
(* what every node knows.                                                  *)
(***************************************************************************)
EXTENDS Beacon, Sequences

CONSTANTS
  Self, Task, Priority, MaxEntries,        \* of the task manager
  Dock, Pickup, Dropoff, Home, Road,       \* where the robot is
  NoGoal

Place == {Dock, Pickup, Dropoff, Home}
Publisher == {"task", "beacon", "home"}

ASSUME PlaceAssumption ==
  Road \notin Place /\ NoGoal \notin Place /\ Dropoff \notin {Dock, Pickup, Home}

VARIABLES
  tasks, active, state, told,   \* of the task manager
  goals,     \* the last goal of each publisher on its way to the planner
  goal,      \* _current_goal of the planner
  path,      \* where the path leads that the controller follows
  pos,       \* where the robot is
  home,      \* a static goal is published (navigation.launch.py)
  carrying,  \* _carrying of the package carrier
  delivered  \* the package was last placed at the dropoff

managerVars == <<tasks, active, state, told>>
planVars == <<goals, goal, path>>
cargoVars == <<carrying, delivered>>
stackVars == <<managerVars, planVars, pos, home, cargoVars>>
robotVars == <<beaconVars, stackVars>>

TM == INSTANCE TaskManager WITH Robot <- {Self}, None <- NoTask

Publish(p, place) == goals' = [goals EXCEPT ![p] = place]

-----------------------------------------------------------------------------
(* The task manager.  Its goal is published when a task is activated, when *)
(* the robot goes on to the dropoff, and again by every timer callback on  *)
(* the way (_publish_active_goal).                                         *)

TaskGoal == [GO_TO_PICKUP |-> Pickup, GO_TO_DROPOFF |-> Dropoff]
Driving(s) == s \in DOMAIN TaskGoal

(* Mutant: the goal is published when it changes only.                     *)
PublishOnce(s) == IF Driving(s) /\ state' # state THEN Publish("task", TaskGoal[s]) ELSE UNCHANGED goals

PublishGoal(s) == IF Driving(s) THEN Publish("task", TaskGoal[s]) ELSE UNCHANGED goals

(* The fleet manager assigns a task when the robot has none, and is not low*)
(* on battery.                                                             *)
Assign(t) ==
  /\ state[Self] = "IDLE" /\ battery > Critical
  /\ TM!Assign(Self, t)
  /\ PublishGoal(state'[Self])
  /\ UNCHANGED <<beaconVars, goal, path, pos, home, cargoVars>>

CancelTask(t) ==
  /\ state[Self] # "IDLE"
  /\ TM!Cancel(Self, t)
  /\ UNCHANGED <<beaconVars, planVars, pos, home, cargoVars>>

(* _check_arrival moves on exactly when the robot is at the target.        *)
Work ==
  /\ TM!ControlLoop(Self)
  /\ Driving(state[Self]) => (state' # state <=> pos = TaskGoal[state[Self]])
  /\ PublishGoal(IF Driving(state[Self]) THEN state[Self] ELSE state'[Self])
  /\ UNCHANGED <<beaconVars, goal, path, pos, home, cargoVars>>

MoveOn == Work /\ state' # state
Completes == state'[Self] # state[Self] /\ Len(tasks'[Self]) = Len(tasks[Self])

-----------------------------------------------------------------------------
(* The beacon and the home goal.  The goal at the charging station is      *)
(* published once, when the robot begins to want to charge.  What a tick   *)
(* publishes of the robot, and a reboot, are left to the Beacon.           *)

Senses ==
  [fsm |-> told[Self].state, task |-> told[Self].active # NoTask, plan |-> path # NoGoal,
   speed |-> pos = Road, changing |-> pos = Road, pad |-> pos = Dock]

BeaconLoop ==
  /\ UpdateBattery(Senses)
  /\ IF Summoned(Senses) THEN Publish("beacon", Dock) ELSE UNCHANGED goals
  /\ UNCHANGED <<status, restart, exec, commands, managerVars, goal, path, pos, home, cargoVars>>

OperatorRecharge ==
  /\ commands < MaxCommands /\ commands' = commands + 1
  /\ Recharge
  /\ IF want_charge THEN UNCHANGED goals ELSE Publish("beacon", Dock)
  /\ UNCHANGED <<status, restart, exec, managerVars, goal, path, pos, home, cargoVars>>

(* _publish_goal of goal_publisher.py; it is silent while a task is active.*)
PublishHome ==
  /\ home /\ told[Self].state = "IDLE"
  /\ Publish("home", Home)
  /\ UNCHANGED <<beaconVars, managerVars, goal, path, pos, home, cargoVars>>

-----------------------------------------------------------------------------
(* The planner replaces its goal and plans at once, and plans again as the *)
(* pose changes or time passes.  The controller follows the last path to   *)
(* its end; the obstacle monitor may hold the robot up.                    *)

HearGoal(p) ==
  /\ goals[p] # NoGoal
  /\ goal' = goals[p] /\ path' = goals[p]
  /\ Publish(p, NoGoal)
  /\ UNCHANGED <<beaconVars, managerVars, pos, home, cargoVars>>

Replan ==
  /\ goal # NoGoal /\ path' = goal
  /\ UNCHANGED <<beaconVars, managerVars, goals, goal, pos, home, cargoVars>>

Drive ==
  /\ path # NoGoal
  /\ IF pos = path
     THEN path' = NoGoal /\ UNCHANGED pos
     ELSE pos' = (IF pos = Road THEN path ELSE Road) /\ UNCHANGED path
  /\ UNCHANGED <<beaconVars, managerVars, goals, goal, home, cargoVars>>

-----------------------------------------------------------------------------
(* Mutant: the package is placed by the first message after the robot left.*)
PlacesLate ==
  /\ \/ told[Self].state = "PICKING" /\ carrying' = TRUE /\ UNCHANGED delivered
     \/ told[Self].state = "DROPPING" /\ carrying' = FALSE /\ UNCHANGED delivered
     \/ told[Self].state = "IDLE" /\ ~carrying /\ delivered' = (pos = Dropoff) /\ UNCHANGED carrying
  /\ UNCHANGED <<beaconVars, managerVars, planVars, pos, home>>

(* The carrier's _on_state: the package is attached while the robot picks, *)
(* and placed where the robot is by every message that it is dropping.     *)

PackageHears ==
  /\ \/ told[Self].state = "PICKING" /\ carrying' = TRUE /\ UNCHANGED delivered
     \/ told[Self].state = "DROPPING" /\ carrying' = FALSE /\ delivered' = (pos = Dropoff)
  /\ UNCHANGED <<beaconVars, managerVars, planVars, pos, home>>

-----------------------------------------------------------------------------
RobotInit ==
  /\ BeaconInit /\ TM!TMInit
  /\ goals = [p \in Publisher |-> NoGoal] /\ goal = NoGoal /\ path = NoGoal
  /\ pos = Home
  /\ home \in BOOLEAN
  /\ carrying = FALSE /\ delivered = FALSE

RobotNext ==
  \/ \E t \in Task : Assign(t) \/ CancelTask(t)
  \/ Work \/ BeaconLoop \/ OperatorRecharge \/ PublishHome
  \/ \E p \in Publisher : HearGoal(p)
  \/ Replan \/ Drive \/ PackageHears

(* The task manager publishes its goal twice a second, and a message takes *)
(* far less: both are done before the robot has gone from one place to     *)
(* another, or its battery has changed by a step.  Picking and dropping    *)
(* take two seconds, in which the package carrier hears of it.             *)
Settled ==
  /\ \A p \in Publisher : goals[p] = NoGoal
  /\ Driving(state[Self]) => goal = TaskGoal[state[Self]]

Timely ==
  /\ <<pos, battery>>' # <<pos, battery>> => Settled
  /\ state[Self] = "PICKING" /\ state'[Self] = "GO_TO_DROPOFF" => carrying
  /\ state[Self] = "DROPPING" /\ Completes => told[Self].state = "DROPPING" /\ ~carrying

(* The timers fire for ever, a message arrives, and an obstacle that holds *)
(* the robot up goes away.                                                 *)
RobotFairness ==
  /\ WF_robotVars(Work) /\ WF_robotVars(MoveOn /\ Timely)
  /\ WF_robotVars(BeaconLoop)
  /\ \A p \in Publisher : WF_robotVars(HearGoal(p))
  /\ WF_robotVars(Replan) /\ SF_robotVars(Drive /\ Timely /\ pos' # pos)
  /\ WF_robotVars(PackageHears)

-----------------------------------------------------------------------------
(* A task that a robot has begun is finished or cancelled: whatever goals  *)
(* the beacon and the home publisher send meanwhile, the task manager's is *)
(* the one that the robot drives to.                                       *)
TaskEnds == state[Self] # "IDLE" ~> state[Self] = "IDLE"

(* A robot that gets no task and has no home goal comes to charge once the *)
(* planner has the goal at the charging station.                           *)
IdleRobotCharges ==
  want_charge /\ goal = Dock /\ ~home /\ state[Self] = "IDLE" /\ goals["task"] = NoGoal
    ~> charging \/ state[Self] # "IDLE"

(* When a task is completed, its package lies at the dropoff, unless the   *)
(* robot was called away to the charging station while it was dropping it. *)
PackageDelivered ==
  [][state[Self] = "DROPPING" /\ Completes /\ goal = Dropoff =>
       delivered /\ ~carrying]_robotVars

(* At critical_battery_threshold a robot navigates to its charging station *)
(* (docs/FLEET.md).                                                        *)
CriticalRobotCharges == want_charge /\ battery <= Critical ~> charging
=============================================================================
