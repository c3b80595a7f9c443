------------------------------- MODULE Operator -------------------------------
(***************************************************************************)
(* The manual control of a robot by control_center_node.py.  Commands come *)
(* in over HTTP, each in a thread of its own; a handler changes the state  *)
(* under _lock and publishes afterwards, while the timer of the node       *)
(* publishes the manual drive under the lock.  The obstacle monitor of the *)
(* robot publishes on the same topic.  Robots share nothing, so there is   *)
(* one.                                                                    *)
(***************************************************************************)
EXTENDS FiniteSets

CONSTANT Thread  \* threads of the HTTP server

ASSUME OperatorAssumption == IsFiniteSet(Thread)

VARIABLES
  manual,    \* _manual: "none", "drive", or "over" when its time has passed
  flags,     \* which of estop, paused and disabled are set
  estop,     \* the alert "Emergency stop" is active
  cmd_vel,   \* the last velocity published: "zero", "manual", or "path"
  path,      \* the controller of the robot follows a path
  handler    \* what each thread has left to do, and for which command

operatorVars == <<manual, flags, estop, cmd_vel, path, handler>>

Idle == [todo |-> "nothing", command |-> "none"]

(* _cmd_move and _cmd_rotate; _cmd_stop and _cmd_cancel_goal; _cmd_goal,   *)
(* _cmd_home and _cmd_charger; _cmd_resume and _cmd_resume_task; and those *)
(* that bear the name of their command.                                    *)
Command == {"move", "stop", "goal", "resume", "estop", "pause", "disable", "enable"}

Engaged(c) ==
  CASE c = "estop" -> {"estop"} [] c = "pause" -> {"paused"}
    [] c = "disable" -> {"disabled"} [] OTHER -> {}
Released(c) ==
  CASE c = "resume" -> {"estop", "paused"} [] c = "enable" -> {"disabled"}
    [] OTHER -> {}

-----------------------------------------------------------------------------
(* Under the lock.                                                         *)
Begin(h, c) ==
  /\ handler[h] = Idle
  /\ flags' = (flags \ Released(c)) \cup Engaged(c)
  /\ manual' = CASE c = "move" -> "drive" [] c = "enable" -> manual [] OTHER -> "none"
  /\ handler' = IF c \in {"move", "enable"} THEN handler
                ELSE [handler EXCEPT ![h] = [todo |-> "publish", command |-> c]]
  /\ UNCHANGED <<estop, cmd_vel, path>>

(* _publish_twist of a zero velocity, after the lock is released.          *)
Publish(h) ==
  /\ handler[h].todo = "publish"
  /\ cmd_vel' = "zero"
  /\ handler' = [handler EXCEPT ![h] =
       IF @.command \in {"estop", "resume", "goal"} THEN [@ EXCEPT !.todo = "finish"]
       ELSE Idle]
  /\ UNCHANGED <<manual, flags, estop, path>>

(* The alert is raised or cleared, or the goal published, to which the     *)
(* planner answers with a path.                                            *)
FinishCommand(h) ==
  /\ handler[h].todo = "finish"
  /\ estop' = CASE handler[h].command = "estop" -> TRUE
                [] handler[h].command = "resume" -> FALSE
                [] OTHER -> estop
  /\ path' = (path \/ handler[h].command = "goal")
  /\ handler' = [handler EXCEPT ![h] = Idle]
  /\ UNCHANGED <<manual, flags, cmd_vel>>

(* Mutant: a drive that is over is only removed.                           *)
DriveTickRemoves ==
  /\ manual # "none"
  /\ manual' = (IF manual = "drive" THEN "drive" ELSE "none")
  /\ cmd_vel' = (IF manual = "drive" THEN "manual" ELSE cmd_vel)
  /\ UNCHANGED <<flags, estop, path, handler>>

(* _manual_drive_tick, all of it under the lock.                           *)
DriveTick ==
  /\ manual # "none"
  /\ IF manual = "drive" THEN cmd_vel' = "manual" /\ UNCHANGED manual
     ELSE cmd_vel' = "zero" /\ manual' = "none"
  /\ UNCHANGED <<flags, estop, path, handler>>

TimePasses ==
  /\ manual = "drive" /\ manual' = "over"
  /\ UNCHANGED <<flags, estop, cmd_vel, path, handler>>

(* The obstacle monitor forwards what the controller wants, ten times a    *)
(* second: the speed along the path, or zero.                              *)
MonitorForwards ==
  /\ cmd_vel' = IF path THEN "path" ELSE "zero"
  /\ UNCHANGED <<manual, flags, estop, path, handler>>

ReachGoal ==
  /\ path /\ path' = FALSE
  /\ UNCHANGED <<manual, flags, estop, cmd_vel, handler>>

-----------------------------------------------------------------------------
OperatorInit ==
  /\ manual = "none" /\ flags = {} /\ estop = FALSE
  /\ cmd_vel = "zero" /\ path = FALSE
  /\ handler = [h \in Thread |-> Idle]

OperatorNext ==
  \/ \E h \in Thread : (\E c \in Command : Begin(h, c)) \/ Publish(h) \/ FinishCommand(h)
  \/ DriveTick \/ TimePasses \/ MonitorForwards \/ ReachGoal

-----------------------------------------------------------------------------
(* A robot that drives by a manual command has a drive that is going to    *)
(* end, or the handler that ended it has its zero velocity to publish: no  *)
(* interleaving of two handlers and the timer leaves the robot driving.    *)
NoRunaway ==
  cmd_vel = "manual" =>
    manual # "none" \/ \E h \in Thread : handler[h].todo = "publish"
=============================================================================
