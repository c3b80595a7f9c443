------------------------------ MODULE MCProgress ------------------------------
(***************************************************************************)
(* Instances for TLC of what must eventually happen in the fleet, in two   *)
(* parts: the fleet manager, with any messages, robots that fall silent    *)
(* among them, and the system, of the nodes that run, without trouble.  A  *)
(* behaviour is one of a part.                                             *)
(***************************************************************************)
EXTENDS MCSystem

CONSTANT Running  \* the robots that run in the part "system"

VARIABLE part

progressVars == <<sysVars, part>>

(* Every task goes through the one crossing, in one segment.               *)
Crossing == {1}
CrossingRoutes == [t \in Task |-> <<Crossing>>]
DistinctPriorities == [t \in Task |-> IF t = (CHOOSE u \in Task : TRUE) THEN 0 ELSE 2]

-----------------------------------------------------------------------------
ProgressInit == SysInit /\ part \in {"fleet", "system"}

(* The beacon of a robot that does not run announces nothing.              *)
ProgressNext ==
  /\ \/ part = "fleet" /\ Next /\ UNCHANGED <<managers, beacons, orders, history>>
     \/ /\ part = "system" /\ SysNext /\ Timely
        /\ \A r \in Robot \ Running : announced'[r] = {}
  /\ UNCHANGED part

(* FairSpec and Fairness, each in the behaviours of its part.              *)
ProgressSpec ==
  /\ ProgressInit /\ [][ProgressNext]_progressVars
  /\ WF_vars(part = "fleet" /\ Callback) /\ SF_vars(part = "fleet" /\ Tick)
  /\ WF_sysVars(part = "system" /\ FleetCallback)
  /\ SF_sysVars(part = "system" /\ FleetTick)
  /\ \A r \in Running :
       /\ WF_sysVars(part = "system" /\ ReceiveAssignment(r))
       /\ WF_sysVars(part = "system" /\ ReceiveCancel(r))
       /\ WF_sysVars(part = "system" /\ MoveOn(r) /\ Timely)
       /\ WF_sysVars(part = "system" /\ Work(r))
       /\ WF_sysVars(part = "system" /\ HearState(r))
       /\ WF_sysVars(part = "system" /\ Announce(r))
       /\ SF_sysVars(part = "system" /\ ReceiveRegistration(r))

-----------------------------------------------------------------------------
(* What the nodes of the system promise of a task that the fleet accepts.  *)
EveryTaskCompletes == part = "system" => TasksCompleted
=============================================================================
