-------------------------------- MODULE Beacon --------------------------------
(***************************************************************************)
(* The status beacon of a robot (robot_status_publisher.py): it simulates  *)
(* the battery, decides when the robot wants to charge, sends it to the    *)
(* charging station, simulates a reboot, and derives the execution state   *)
(* that the fleet sees from what it senses.  What it senses -- task state, *)
(* plan, motion, pose -- is a parameter of a tick.                         *)
(***************************************************************************)
EXTENDS Naturals

CONSTANTS
  NoTask,       \* no active task
  Full,         \* charge_complete_threshold, in steps of what one tick changes
  Critical,     \* critical_battery_threshold, in the same steps
  MaxCommands   \* bound: commands of the operator

ASSUME BatteryAssumption ==
  {Full, Critical, MaxCommands} \subseteq Nat /\ Critical < Full

VARIABLES
  battery, want_charge, charging, forced_drain,
  status,       \* _status
  restart,      \* _restart_until: "none", "running" or "over" when that is past
  exec,         \* the execution state last published
  commands      \* the commands given so far

batteryVars == <<battery, want_charge, charging, forced_drain>>
beaconVars == <<batteryVars, status, restart, exec, commands>>

FsmState == {"IDLE", "GO_TO_PICKUP", "PICKING", "GO_TO_DROPOFF", "DROPPING"}

(* What a tick finds: the last /task_state heard, a plan with two poses or *)
(* more, the speed, whether the pose changes, and whether it is on the pad.*)
Sensed == [fsm : FsmState, task : BOOLEAN, plan : BOOLEAN,
           speed : BOOLEAN, changing : BOOLEAN, pad : BOOLEAN]

(* _FSM_EXEC *)
FsmExec == [GO_TO_PICKUP |-> "MOVING_TO_PICKUP", PICKING |-> "PICKING",
            GO_TO_DROPOFF |-> "CARRYING", DROPPING |-> "DROPPING"]

Moving(s) == s.plan /\ s.speed /\ s.changing

(* _exec_state *)
ExecState(s) ==
  IF status' # "ONLINE" THEN "OFFLINE"
  ELSE IF charging' THEN "CHARGING"
  ELSE IF want_charge' THEN "RETURNING"
  ELSE IF ~s.task THEN IF Moving(s) THEN "RETURNING" ELSE "IDLE"
  ELSE IF s.fsm = "IDLE" THEN "ASSIGNED"
  ELSE IF FsmExec[s.fsm] \in {"MOVING_TO_PICKUP", "CARRYING"} /\ ~Moving(s) THEN "PLANNING"
  ELSE FsmExec[s.fsm]

(* _update_battery: the robot charges when it wants to and is on the pad,  *)
(* and discharges while it has a task, or when the operator says so.  It   *)
(* wants to charge when it becomes critical: Summoned says that this tick  *)
(* publishes the goal at the charging station (_publish_charging_goal).    *)
Level(s) ==
  IF want_charge /\ s.pad THEN IF battery < Full THEN battery + 1 ELSE battery
  ELSE IF (forced_drain \/ (s.task /\ ~want_charge)) /\ battery > 0 THEN battery - 1
  ELSE battery

(* Mutant: a full battery ends the wish to charge, on the pad or not.      *)
ChargedAnywhere(s) == want_charge /\ Level(s) >= Full

Charged(s) == want_charge /\ s.pad /\ Level(s) >= Full
Summoned(s) == (~want_charge \/ Charged(s)) /\ Level(s) <= Critical

UpdateBattery(s) ==
  /\ battery' = Level(s)
  /\ charging' = (want_charge /\ s.pad)
  /\ want_charge' = (Summoned(s) \/ (want_charge /\ ~Charged(s)))
  /\ forced_drain' = (forced_drain /\ ~Charged(s))

(* _control_loop: the end of a reboot, the battery, and the registration.  *)
ControlLoop(s) ==
  /\ IF restart = "over"
     THEN restart' = "none" /\ status' = "ONLINE"
     ELSE UNCHANGED <<restart, status>>
  /\ UpdateBattery(s)
  /\ exec' = ExecState(s)
  /\ UNCHANGED commands

(* The two seconds of a reboot are over.                                   *)
Elapse ==
  /\ restart = "running"
  /\ restart' = "over"
  /\ UNCHANGED <<batteryVars, status, exec, commands>>

-----------------------------------------------------------------------------
(* The operator: _battery_command_callback and _control_callback.          *)

Drain ==
  /\ forced_drain' = TRUE
  /\ UNCHANGED <<battery, want_charge, charging>>

(* The goal at the charging station is published unless the robot already  *)
(* wants to charge.                                                        *)
Recharge ==
  /\ forced_drain' = FALSE
  /\ want_charge' = TRUE
  /\ UNCHANGED <<battery, charging>>

SetBattery(pct) ==
  /\ battery' = pct
  /\ UNCHANGED <<want_charge, charging, forced_drain>>

(* Mutant: each restart begins the two seconds anew.                       *)
RestartAnew ==
  /\ restart' = "running" /\ status' = "OFFLINE"
  /\ UNCHANGED <<batteryVars, exec, commands>>

(* Further restarts do not prolong a reboot.                               *)
Restart ==
  /\ IF restart = "none"
     THEN restart' = "running" /\ status' = "OFFLINE"
     ELSE UNCHANGED <<restart, status>>
  /\ UNCHANGED <<batteryVars, exec, commands>>

Command ==
  /\ commands < MaxCommands /\ commands' = commands + 1
  /\ Drain \/ Recharge \/ \E pct \in 0..Full : SetBattery(pct)
  /\ UNCHANGED <<status, restart, exec>>

-----------------------------------------------------------------------------
BeaconInit ==
  /\ battery = Full
  /\ want_charge = FALSE /\ charging = FALSE /\ forced_drain = FALSE
  /\ status = "ONLINE" /\ restart = "none" /\ exec = "IDLE" /\ commands = 0

BeaconTick == \E s \in Sensed : ControlLoop(s)
BeaconNext == BeaconTick \/ Elapse \/ Restart \/ Command

(* The timer fires for ever, and time passes.                              *)
BeaconFairness == WF_beaconVars(BeaconTick) /\ WF_beaconVars(Elapse)

-----------------------------------------------------------------------------
(* A reboot that an operator asks for ends, however often it is asked for  *)
(* again meanwhile: the robot is back online.                              *)
BackOnline == []<>(status = "ONLINE")
=============================================================================
