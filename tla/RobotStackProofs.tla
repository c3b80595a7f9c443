--------------------------- MODULE RobotStackProofs ---------------------------
(***************************************************************************)
(* PackageDelivered for a robot with any tasks, any sizes of its lists and *)
(* any behaviour of its battery.                                           *)
(***************************************************************************)
EXTENDS RobotStack, TLAPS

RobotSpec == RobotInit /\ [][RobotNext /\ Timely]_robotVars

(* The robot was called away while it was dropping, and no goal brings it  *)
(* back to the dropoff: nobody but the task manager sends one there, and   *)
(* it sends none while it drops.                                           *)
CalledAway == goal # Dropoff /\ goals["task"] = NoGoal

(* The plan leads to the goal, the beacon and the home publisher send the  *)
(* robot to their places only, and a message of the task manager is of the *)
(* state it is in or of the state before it.                               *)
GoalsInv ==
  /\ DOMAIN goals = Publisher
  /\ path \in {goal, NoGoal}
  /\ goals["beacon"] \in {NoGoal, Dock} /\ goals["home"] \in {NoGoal, Home}

NewsInv ==
  /\ DOMAIN state = {Self} /\ DOMAIN told = {Self}
  /\ state[Self] = "PICKING" => told[Self].state \in {"GO_TO_PICKUP", "PICKING"}
  /\ state[Self] = "GO_TO_DROPOFF" => told[Self].state \in {"PICKING", "GO_TO_DROPOFF"}
  /\ state[Self] = "DROPPING" => told[Self].state \in {"GO_TO_DROPOFF", "DROPPING"}

(* The package is on the robot all the way to the dropoff, and once it is  *)
(* off the robot, it lies there.                                           *)
PackageInv ==
  /\ state[Self] = "GO_TO_DROPOFF" => carrying
  /\ state[Self] = "DROPPING" => /\ pos = Dropoff \/ CalledAway
                                 /\ carrying \/ delivered \/ CalledAway

StackInv == GoalsInv /\ NewsInv /\ PackageInv

Early == {"IDLE", "GO_TO_PICKUP"}

-----------------------------------------------------------------------------
(* What the actions of a task manager do to its state and its messages.    *)
LEMMA ActivateNextStack ==
  ASSUME NEW list, DOMAIN state = {Self}, TM!ActivateNext(Self, list)
  PROVE  DOMAIN state' = {Self} /\ state'[Self] \in Early
BY DEF TM!ActivateNext, Early

LEMMA AssignStack ==
  ASSUME NEW t, DOMAIN state = {Self}, TM!Assign(Self, t)
  PROVE  /\ told' = told /\ DOMAIN state' = {Self}
         /\ state' = state \/ state'[Self] \in Early
BY ActivateNextStack DEF TM!Assign

LEMMA CancelStack ==
  ASSUME NEW t, DOMAIN state = {Self}, TM!Cancel(Self, t)
  PROVE  /\ told' = told /\ DOMAIN state' = {Self}
         /\ state' = state \/ state'[Self] \in Early
BY ActivateNextStack DEF TM!Cancel, TM!RemoveWaiting, TM!RemoveActive

LEMMA ControlStack ==
  ASSUME DOMAIN state = {Self}, DOMAIN told = {Self}, TM!ControlLoop(Self)
  PROVE  /\ DOMAIN told' = {Self} /\ told'[Self].state = state[Self]
         /\ DOMAIN state' = {Self}
         /\ \/ state' = state
            \/ <<state[Self], state'[Self]>> \in TM!Following
            \/ state'[Self] \in Early
<1>1. ASSUME TM!Tell(Self) PROVE DOMAIN told' = {Self} /\ told'[Self].state = state[Self]
  BY <1>1 DEF TM!Tell, TM!Current
<1>2. CASE TM!Report(Self)
  BY <1>1, <1>2 DEF TM!Report
<1>3. CASE TM!Advance(Self)
  BY <1>1, <1>3 DEF TM!Advance
<1>4. CASE TM!Complete(Self)
  BY <1>1, <1>4, ActivateNextStack DEF TM!Complete
<1> QED
  BY <1>2, <1>3, <1>4 DEF TM!ControlLoop

-----------------------------------------------------------------------------
LEMMA StackInitInv == RobotInit => StackInv
BY PlaceAssumption DEF RobotInit, TM!TMInit, StackInv, GoalsInv, NewsInv, PackageInv, Publisher

LEMMA StackStep ==
  ASSUME StackInv, RobotNext, Timely PROVE StackInv'
<1>1. GoalsInv /\ NewsInv /\ PackageInv
  BY DEF StackInv
<1>2. ASSUME NEW t \in Task, Assign(t) PROVE StackInv'
  <2>1. /\ told' = told /\ DOMAIN state' = {Self}
        /\ state' = state \/ state'[Self] \in Early
    BY <1>1, <1>2, AssignStack DEF Assign, NewsInv
  <2>2. state[Self] = "IDLE" /\ UNCHANGED <<goal, path, pos, home, carrying, delivered>>
    BY <1>2 DEF Assign, cargoVars
  <2>3. DOMAIN goals' = Publisher /\ goals'["beacon"] = goals["beacon"] /\ goals'["home"] = goals["home"]
    BY <1>1, <1>2 DEF Assign, PublishGoal, Publish, GoalsInv, Publisher
  <2> QED
    BY <1>1, <2>1, <2>2, <2>3 DEF StackInv, GoalsInv, NewsInv, PackageInv, Early
<1>3. ASSUME NEW t \in Task, CancelTask(t) PROVE StackInv'
  <2>1. /\ told' = told /\ DOMAIN state' = {Self}
        /\ state' = state \/ state'[Self] \in Early
    BY <1>1, <1>3, CancelStack DEF CancelTask, NewsInv
  <2>2. UNCHANGED <<goals, goal, path, pos, home, carrying, delivered>>
    BY <1>3 DEF CancelTask, cargoVars, planVars
  <2> QED
    BY <1>1, <2>1, <2>2 DEF StackInv, GoalsInv, NewsInv, PackageInv, Early, CalledAway
<1>4. ASSUME Work PROVE StackInv'
  <2>1. /\ DOMAIN told' = {Self} /\ told'[Self].state = state[Self]
        /\ DOMAIN state' = {Self}
        /\ \/ state' = state
           \/ <<state[Self], state'[Self]>> \in TM!Following
           \/ state'[Self] \in Early
    BY <1>1, <1>4, ControlStack DEF Work, NewsInv
  <2>2. UNCHANGED <<goal, path, pos, home, carrying, delivered>>
    BY <1>4 DEF Work, cargoVars
  <2>3. /\ DOMAIN goals' = Publisher /\ goals'["beacon"] = goals["beacon"] /\ goals'["home"] = goals["home"]
    BY <1>1, <1>4 DEF Work, PublishGoal, Publish, GoalsInv, Publisher
  <2>4. GoalsInv'
    BY <1>1, <2>2, <2>3 DEF GoalsInv
  <2>5. NewsInv'
    BY <1>1, <2>1 DEF NewsInv, TM!Following, Early
  <2>6. state'[Self] = "GO_TO_DROPOFF" => carrying'
    BY <1>1, <2>1, <2>2 DEF PackageInv, TM!Following, Early, Timely
  <2>7. state[Self] = "DROPPING" /\ state' = state => goals' = goals
    BY <1>4 DEF Work, PublishGoal, Driving, TaskGoal
  <2>8. state[Self] = "GO_TO_DROPOFF" /\ state'[Self] = "DROPPING" => pos = Dropoff /\ carrying
    BY <1>1, <1>4 DEF Work, Driving, TaskGoal, PackageInv
  <2>9. PackageInv'
    BY <1>1, <2>1, <2>2, <2>6, <2>7, <2>8 DEF PackageInv, CalledAway, TM!Following, Early
  <2> QED
    BY <2>4, <2>5, <2>9 DEF StackInv
<1>5. ASSUME \/ goals' = goals \/ Publish("beacon", Dock) \/ Publish("home", Home),
             UNCHANGED <<state, told, goal, path, pos, carrying, delivered>>
      PROVE  StackInv'
  <2>1. /\ DOMAIN goals' = Publisher /\ goals'["task"] = goals["task"]
        /\ goals'["beacon"] \in {NoGoal, Dock} /\ goals'["home"] \in {NoGoal, Home}
    BY <1>1, <1>5 DEF Publish, GoalsInv, Publisher
  <2> QED
    BY <1>1, <1>5, <2>1 DEF StackInv, GoalsInv, NewsInv, PackageInv, CalledAway
<1>6. CASE BeaconLoop
  BY <1>5, <1>6 DEF BeaconLoop, managerVars, cargoVars
<1>7. CASE OperatorRecharge
  BY <1>5, <1>7 DEF OperatorRecharge, managerVars, cargoVars
<1>8. CASE PublishHome
  BY <1>5, <1>8 DEF PublishHome, managerVars, cargoVars
<1>9. ASSUME NEW p \in Publisher, HearGoal(p) PROVE StackInv'
  <2>1. /\ goal' = goals[p] /\ path' = goals[p] /\ goals[p] # NoGoal
        /\ UNCHANGED <<state, told, pos, carrying, delivered>>
    BY <1>9 DEF HearGoal, managerVars, cargoVars
  <2>2. /\ DOMAIN goals' = Publisher /\ goals'[p] = NoGoal
        /\ \A q \in Publisher \ {p} : goals'[q] = goals[q]
    BY <1>1, <1>9 DEF HearGoal, Publish, GoalsInv
  <2>3. GoalsInv'
    BY <1>1, <2>1, <2>2 DEF GoalsInv, Publisher
  <2>4. CalledAway => CalledAway'
    BY <1>1, <2>1, <2>2, PlaceAssumption DEF CalledAway, GoalsInv, Publisher
  <2> QED
    BY <1>1, <2>1, <2>3, <2>4 DEF StackInv, NewsInv, PackageInv
<1>10. CASE Replan
  BY <1>1, <1>10 DEF Replan, managerVars, cargoVars, StackInv, GoalsInv, NewsInv, PackageInv, CalledAway
<1>11. CASE Drive
  <2>1. /\ UNCHANGED <<goals, goal, state, told, carrying, delivered>>
        /\ path' \in {path, NoGoal}
    BY <1>11 DEF Drive, managerVars, cargoVars
  <2>2. pos = Dropoff /\ pos' # pos => CalledAway
    BY <1>1, <1>11 DEF Drive, GoalsInv, Timely, Settled, CalledAway, Publisher
  <2> QED
    BY <1>1, <2>1, <2>2 DEF StackInv, GoalsInv, NewsInv, PackageInv, CalledAway
<1>12. CASE PackageHears
  <2>1. UNCHANGED <<goals, goal, path, state, told, pos>>
    BY <1>12 DEF PackageHears, managerVars, planVars
  <2>2. state[Self] = "GO_TO_DROPOFF" => carrying'
    BY <1>1, <1>12 DEF PackageHears, NewsInv, PackageInv
  <2>3. state[Self] = "DROPPING" => carrying' \/ delivered' \/ CalledAway
    BY <1>1, <1>12 DEF PackageHears, NewsInv, PackageInv
  <2> QED
    BY <1>1, <2>1, <2>2, <2>3 DEF StackInv, GoalsInv, NewsInv, PackageInv, CalledAway
<1> QED
  BY <1>2, <1>3, <1>4, <1>6, <1>7, <1>8, <1>9, <1>10, <1>11, <1>12 DEF RobotNext

(* Whatever goals the nodes of a robot send and in whichever order the     *)
(* planner hears them, the package is where the task manager takes it to   *)
(* be, or the robot was called away.                                       *)
THEOREM StackInvariant == RobotSpec => []StackInv
<1>1. StackInv /\ UNCHANGED robotVars => StackInv'
  BY DEF StackInv, GoalsInv, NewsInv, PackageInv, CalledAway, robotVars, stackVars,
     managerVars, planVars, cargoVars
<1> QED
  BY <1>1, StackInitInv, StackStep, PTL DEF RobotSpec

(* When a task is completed, its package lies at the dropoff, unless the   *)
(* robot was called away to the charging station while it was dropping it  *)
(* (_control_loop, _on_state of the package carrier).                      *)
THEOREM PackagePlaced == RobotSpec => PackageDelivered
<1>1. StackInv /\ [RobotNext /\ Timely]_robotVars
        => [state[Self] = "DROPPING" /\ Completes /\ goal = Dropoff =>
              delivered /\ ~carrying]_robotVars
  BY DEF StackInv, PackageInv, CalledAway, Timely
<1> QED
  BY <1>1, StackInvariant, PTL DEF RobotSpec, PackageDelivered

=============================================================================
