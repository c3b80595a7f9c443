------------------------------- MODULE MCSystem -------------------------------
(* Instances of FleetSystem for TLC: one-segment routes that do not meet.   *)
EXTENDS FleetSystem

Cells == Task
OwnRoutes == [t \in Task |-> <<{t}>>]
SamePriority == [t \in Task |-> 1]
NoPayload == [t \in Task |-> 0]
OneCapacity == [r \in Robot |-> 1]
Healthy == {<<"ONLINE", 100, FALSE>>}

=============================================================================
