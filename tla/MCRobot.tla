------------------------------- MODULE MCRobot -------------------------------
(***************************************************************************)
(* Instances for TLC: the nodes of one robot, or its beacon alone with any *)
(* readings of its sensors.                                                *)
(***************************************************************************)
EXTENDS RobotStack

VARIABLE part

vars == <<robotVars, part>>

Init == RobotInit /\ part \in {"robot", "beacon"}

Next ==
  /\ \/ part = "robot" /\ RobotNext /\ Timely
     \/ part = "beacon" /\ BeaconNext /\ UNCHANGED stackVars
  /\ UNCHANGED part

Spec ==
  /\ Init /\ [][Next]_vars
  /\ part = "robot" => RobotFairness
  /\ part = "beacon" => BeaconFairness

NormalPriority == [t \in Task |-> 1]

(* A robot to which nobody sends a static goal, and that becomes critical, *)
(* comes to charge (docs/FLEET.md).                                        *)
CriticalCharges == part = "robot" /\ ~home => CriticalRobotCharges

(* A robot gets through with what it has begun: a task, and a reboot.      *)
BegunEnds == TaskEnds /\ (part = "beacon" => BackOnline)
=============================================================================
