------------------------------ MODULE TaskLife ------------------------------
(***************************************************************************)
(* What the fleet promises of each task, whatever topics, nodes and the    *)
(* operator do: a task is accepted, executed once, by one robot, and then  *)
(* counted.  The promise is void from the moment the fleet manager takes   *)
(* work back from a robot, which may go on with it.  FleetSystem           *)
(* implements this module (Life).                                          *)
(***************************************************************************)
CONSTANTS Robot, Task

VARIABLES
  open,       \* the tasks accepted and not yet counted as completed
  runs,       \* the robots that execute each task
  over,       \* the open tasks of which the execution has ended
  disturbed   \* whether work has been taken back

Init ==
  /\ open = {} /\ over = {} /\ disturbed = FALSE
  /\ runs = [t \in Task |-> {}]

Accept(t) ==
  /\ ~disturbed /\ t \notin open
  /\ open' = open \cup {t}
  /\ UNCHANGED <<runs, over, disturbed>>

Begin(r, t) ==
  /\ ~disturbed /\ t \in open \ over /\ runs[t] = {}
  /\ runs' = [runs EXCEPT ![t] = {r}]
  /\ UNCHANGED <<open, over, disturbed>>

(* The task is completed, or cancelled by the operator.                    *)
End(r, t) ==
  /\ ~disturbed /\ t \in open \ over /\ runs[t] = {r}
  /\ runs' = [runs EXCEPT ![t] = {}]
  /\ over' = over \cup {t}
  /\ UNCHANGED <<open, disturbed>>

Count(t) ==
  /\ ~disturbed /\ t \in over
  /\ open' = open \ {t} /\ over' = over \ {t}
  /\ UNCHANGED <<runs, disturbed>>

Disturb == disturbed' = TRUE

Next ==
  \/ \E t \in Task : Accept(t) \/ Count(t)
  \/ \E r \in Robot, t \in Task : Begin(r, t) \/ End(r, t)
  \/ Disturb

lifeVars == <<open, runs, over, disturbed>>

Spec == Init /\ [][Next]_lifeVars

=============================================================================
