------------------------------- MODULE MCFleet -------------------------------
(* Instances of FleetManager for TLC: which tasks, routes and reports each  *)
(* run uses.  The routes are on a corridor of cells numbered 1..Corridor.   *)
EXTENDS FleetManager, TLC

CONSTANT Corridor

Cells == 1..Corridor

(* The first task drives up the corridor one cell per segment, any other    *)
(* drives down it: head-on routes that share every cell.                    *)
HeadOnRoutes ==
  [t \in Task |-> LET up == CHOOSE u \in Task : TRUE
                  IN  [i \in 1..Corridor |-> {IF t = up THEN i ELSE Corridor + 1 - i}]]

(* Every task is a one-segment route through the same crossing.             *)
CrossingRoutes == [t \in Task |-> <<{1}>>]

SamePriority == [t \in Task |-> 1]
DistinctPriorities == [t \in Task |-> IF t = (CHOOSE u \in Task : TRUE) THEN 0 ELSE 2]
NoPayload == [t \in Task |-> 0]
OneCapacity == [r \in Robot |-> 1]

Healthy == {<<"ONLINE", 100, FALSE>>}
(* Charged, too low for new work, and critical and charging.               *)
EveryBattery == {<<"ONLINE", 100, FALSE>>, <<"ONLINE", 20, FALSE>>, <<"ONLINE", 10, TRUE>>}

RobotSymmetry == Permutations(Robot)

=============================================================================
