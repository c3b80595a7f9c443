------------------------------- MODULE Corridor -------------------------------
(***************************************************************************)
(* The drive of a robot along a path: the controller turns the path into   *)
(* velocities, the obstacle monitor forwards them or stops the robot, and  *)
(* the simulated world moves it and scans.  Each has a timer of its own.   *)
(*                                                                         *)
(* The path is a corridor of cells and its end is the goal; a speed is the *)
(* cells that one tick of the world moves the robot by.  The steering      *)
(* keeps the robot on the path and is not modelled.                        *)
(***************************************************************************)
EXTENDS Integers

CONSTANTS
  Goal,          \* the cell where the path ends
  LinearSpeed,   \* linear_speed
  MaxSpeed,      \* max_speed of the simulated world
  Bound,         \* the last cell of the simulated world
  Lookahead,     \* lookahead_distance: the robot slows down within twice as far
  Tolerance,     \* goal_tolerance
  StopDistance,  \* stop_distance
  Ticks,         \* ticks of the world between two of the other timers
  Clear          \* no obstacle

ASSUME CorridorAssumption ==
  /\ {Goal, LinearSpeed, MaxSpeed, Bound, Lookahead,
       Tolerance, StopDistance, Ticks} \subseteq Nat \ {0}
  /\ StopDistance > MaxSpeed * Ticks
  /\ Tolerance > MaxSpeed * Ticks   \* or the robot would run past the goal and turn
  /\ Clear \notin Int

VARIABLES
  pos,          \* the cell of the robot
  obstacle,     \* the cell of the obstacle, or Clear
  following,    \* _path is not None
  last_linear,  \* _last_linear of the controller
  last_cmd,     \* _last_cmd of the monitor
  lin,          \* the velocity in the simulated world
  blocked,      \* _blocked
  scan,         \* the last scan: "fresh", or "old" after scan_timeout
  lidar,        \* the lidar works
  ticks         \* ticks of the world since the controller and the monitor

corridorVars == <<pos, obstacle, following, last_linear, last_cmd, lin, blocked, scan, lidar, ticks>>

Lower(a, b) == IF a < b THEN a ELSE b
Upper(a, b) == IF a < b THEN b ELSE a

-----------------------------------------------------------------------------
(* _control_loop of the controller: it stops at the end of the path, slows *)
(* down on the way there, and changes its speed by at most 1 at a time.    *)

RateLimit(desired, previous) == Upper(previous - 1, Lower(desired, previous + 1))

(* It slows down in proportion to the way left, to no less than a cell.    *)
Desired ==
  IF Goal - pos < 2 * Lookahead
  THEN Upper(1, (LinearSpeed * (Goal - pos)) \div (2 * Lookahead)) ELSE LinearSpeed

Control ==
  /\ ticks' = [ticks EXCEPT !.control = 0]
  /\ IF following /\ Goal - pos >= Tolerance
     THEN /\ last_linear' = RateLimit(Desired, last_linear)
          /\ last_cmd' = last_linear'
          /\ UNCHANGED following
     ELSE last_cmd' = 0 /\ following' = FALSE /\ UNCHANGED last_linear
  /\ UNCHANGED <<pos, obstacle, lin, blocked, scan, lidar>>

(* A new path to the same end (_plan_callback).                            *)
Plan ==
  /\ following' = TRUE /\ last_linear' = 0
  /\ UNCHANGED <<pos, obstacle, last_cmd, lin, blocked, scan, lidar, ticks>>

-----------------------------------------------------------------------------
(* The obstacle monitor.  Without a fresh scan it passes commands through. *)

(* Mutant: an obstacle counts when there is no fresh scan.                 *)
SafeWhenOld == IF blocked /\ scan = "old" THEN 0 ELSE last_cmd

Safe == IF blocked /\ scan = "fresh" THEN 0 ELSE last_cmd

Forward ==
  /\ lin' = Lower(Safe, MaxSpeed)
  /\ ticks' = [ticks EXCEPT !.forward = 0]
  /\ UNCHANGED <<pos, obstacle, following, last_linear, last_cmd, blocked, scan, lidar>>

ScanTimeout ==
  /\ ~lidar /\ scan' = "old"
  /\ UNCHANGED <<pos, obstacle, following, last_linear, last_cmd, lin, blocked, lidar, ticks>>

-----------------------------------------------------------------------------
(* A tick of the simulated world moves the robot, with what the monitor    *)
(* makes of the scan that follows (_check_obstacle).  The scans of         *)
(* sim_world show no obstacle; those of Gazebo, which is not part of the   *)
(* code, do.                                                               *)
Near(cell) == obstacle # Clear /\ obstacle - cell < StopDistance

World ==
  /\ ticks.control < Ticks /\ ticks.forward < Ticks
  /\ ticks' = [control |-> ticks.control + 1, forward |-> ticks.forward + 1]
  /\ pos' = Lower(pos + lin, Bound)
  /\ IF lidar
     THEN blocked' = Near(pos') /\ scan' = "fresh"
     ELSE UNCHANGED <<blocked, scan>>
  /\ UNCHANGED <<obstacle, following, last_linear, last_cmd, lin, lidar>>

(* An obstacle comes into view no nearer than the monitor looks for it.    *)
Appear ==
  /\ obstacle = Clear
  /\ obstacle' \in (pos + StopDistance)..Bound
  /\ UNCHANGED <<pos, following, last_linear, last_cmd, lin, blocked, scan, lidar, ticks>>

Vanish ==
  /\ obstacle # Clear /\ obstacle' = Clear
  /\ UNCHANGED <<pos, following, last_linear, last_cmd, lin, blocked, scan, lidar, ticks>>

LoseLidar ==
  /\ lidar /\ lidar' = FALSE
  /\ UNCHANGED <<pos, obstacle, following, last_linear, last_cmd, lin, blocked, scan, ticks>>

-----------------------------------------------------------------------------
CorridorInit ==
  /\ pos = 0 /\ obstacle = Clear /\ following = FALSE
  /\ last_linear = 0 /\ last_cmd = 0 /\ lin = 0
  /\ blocked = FALSE /\ scan = "old" /\ lidar = TRUE
  /\ ticks = [control |-> 0, forward |-> 0]

CorridorNext ==
  Control \/ Plan \/ Forward \/ ScanTimeout \/ World \/ Appear \/ Vanish \/ LoseLidar

-----------------------------------------------------------------------------
(* As long as the lidar works the robot comes to a stand before an obstacle*)
(* although the three timers are not in step and a command that was given  *)
(* before the scan is still in force.                                      *)
StopsInTime == lidar /\ obstacle # Clear => pos < obstacle
=============================================================================
