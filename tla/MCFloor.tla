------------------------------- MODULE MCFloor -------------------------------
(***************************************************************************)
(* Instances for TLC of what goes on on the floor, in parts that share no  *)
(* state: the lists of the task managers, the choice of a robot, routes    *)
(* and paths, how a robot drives along one and is driven by hand, and what *)
(* analytics counts of it.  A behaviour is one of a part, while the others *)
(* stand still.                                                            *)
(***************************************************************************)
EXTENDS TaskManager, DispatchSelect, Route, Planner, Corridor, Operator, Analytics

CONSTANT Part  \* parts to check

VARIABLE part

(* A task of each priority, or the first urgent and the others not.         *)
ManyPriorities ==
  LET low == CHOOSE t \in Task : TRUE
      high == CHOOSE t \in Task \ {low} : TRUE
  IN  [t \in Task |-> IF t = low THEN 0 ELSE IF t = high THEN 2 ELSE 1]

(* Queues of no task, of one long task and of two short ones that take     *)
(* less time than the long one.                                            *)
Queues == {<<>>, <<4>>, <<1, 1>>}

(* Routes on both sides of the axes, and paths around a bend.              *)
Coordinates == -4..5
Origins == {<<-3, -3>>, <<0, 1>>}
OccupiedSites == {<<1, 0>>, <<1, 1>>, <<2, 1>>, <<1, 2>>}

-----------------------------------------------------------------------------
(* Parts that have several initial states have one of them in the          *)
(* behaviours of the others.                                               *)
Init ==
  /\ part \in Part
  /\ TMInit /\ SelectInit /\ CorridorInit /\ OperatorInit
  /\ RouteInit /\ (part # "routes" => way = <<<<0, 1>>, <<0, 1>>>>)
  /\ PlannerInit /\ (part # "paths" => map = {} /\ inflation = 0)
  /\ AnalyticsInit /\ (part # "analytics" => window = 1)

Still(p, variables) == part = p \/ UNCHANGED variables

Next ==
  /\ \/ part = "lists" /\ TMNext
     \/ part = "choice" /\ SelectNext
     \/ part = "routes" /\ RouteNext
     \/ part = "paths" /\ PlannerNext
     \/ part = "corridor" /\ CorridorNext
     \/ part = "operator" /\ OperatorNext
     \/ part = "analytics" /\ AnalyticsNext
  /\ Still("lists", tmVars) /\ Still("choice", eligible)
  /\ Still("routes", routeVars) /\ Still("paths", plannerVars)
  /\ Still("corridor", corridorVars) /\ Still("operator", operatorVars)
  /\ Still("analytics", analyticsVars)
  /\ UNCHANGED part

vars ==
  <<tmVars, eligible, routeVars, plannerVars, corridorVars, operatorVars,
    analyticsVars, part>>

Spec == Init /\ [][Next]_vars
=============================================================================
