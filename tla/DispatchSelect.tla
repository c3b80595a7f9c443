---------------------------- MODULE DispatchSelect ----------------------------
(***************************************************************************)
(* How the fleet manager chooses among the robots eligible for a task:     *)
(* _select_robot and _estimate_eta of fleet_manager_node.py.  The weighted *)
(* score of _score_robot is published with the choice and does not enter   *)
(* it.                                                                     *)
(* FleetManager leaves the choice open within Best; this module says what  *)
(* it is, while robots register one after the other.                       *)
(*                                                                         *)
(* Lengths are in metres and every robot drives at 1 m/s, so that a length *)
(* is also the seconds it takes.                                           *)
(***************************************************************************)
EXTENDS Integers, Sequences, FiniteSets

CONSTANTS
  Id,            \* robot ids, numbered in the order of their names
  NoPose,        \* no pose has been received
  Distance,      \* distances to the pickup that are tried
  Battery,       \* battery percentages that are tried
  Remaining,     \* segments left on a busy robot's route that are tried
  Queue,         \* queues that are tried, as the lengths of their tasks
  SegmentLength  \* segment_size * cell_size

ASSUME SelectAssumption ==
  /\ Id \subseteq Nat /\ NoPose \notin Nat
  /\ Distance \subseteq Nat \cup {NoPose}
  /\ Battery \subseteq 0..100
  /\ Remaining \subseteq Nat
  /\ Queue \subseteq Seq(Nat)
  /\ SegmentLength \in Nat

VARIABLE eligible  \* the eligible robots, in registration order

Candidate ==
  {c \in [id: Id, busy: BOOLEAN, remaining: Remaining \cup {0}, queue: Queue,
          distance: Distance, battery: Battery] : ~c.busy => c.remaining = 0}

-----------------------------------------------------------------------------
(* The sum of the lengths of a queue: one for each metre of each task.     *)
Total(lengths) ==
  Cardinality(UNION {{i} \X (1..lengths[i]) : i \in DOMAIN lengths})

(* _estimate_eta *)
Eta(c) == IF c.busy THEN c.remaining * SegmentLength + Total(c.queue) ELSE 0

(* "_robot_distance(..) or 999.0": not only no pose counts as 999 metres,  *)
(* but a distance of 0, which is false in Python, does too.                *)
KeyDistance(c) == IF c.distance \in {NoPose, 0} THEN 999 ELSE c.distance

(* Mutant: a queue is not looked at.                                       *)
KeyWithoutQueue(c) ==
  <<IF c.busy THEN 1 ELSE 0, Eta(c), KeyDistance(c), -c.battery>>

(* _key: idle robots first, then by ETA, queue, distance and battery.      *)
Key(c) ==
  <<IF c.busy THEN 1 ELSE 0, Eta(c), Len(c.queue), KeyDistance(c), -c.battery>>

(* The order of Python's tuples.                                           *)
Less(k, l) ==
  \E i \in 1..Len(k) : k[i] < l[i] /\ \A j \in 1..(i - 1) : k[j] = l[j]

Least(list) ==
  {i \in 1..Len(list) : \A j \in 1..Len(list) : ~Less(Key(list[j]), Key(list[i]))}

(* sorted(eligible, key = _key)[0]; the sort is stable.                    *)
Selected(list) == list[CHOOSE i \in Least(list) : \A j \in Least(list) : i <= j]

-----------------------------------------------------------------------------
SelectInit == eligible = <<>>

(* _registration_callback adds an eligible robot to the end of _robots.    *)
Register(c) ==
  /\ \A i \in 1..Len(eligible) : eligible[i].id # c.id
  /\ eligible' = Append(eligible, c)

SelectNext == \E c \in Candidate : Register(c)

-----------------------------------------------------------------------------
Others == {eligible[i] : i \in 1..Len(eligible)}

(* The choice is one that FleetManager's Best allows: an idle robot when   *)
(* there is one, and then one with the shortest queue among the idle, for  *)
(* which alone _estimate_eta is no obstacle.                               *)
WithinBest ==
  eligible # <<>> =>
    \A c \in Others : ~c.busy =>
      ~Selected(eligible).busy /\ Len(Selected(eligible).queue) <= Len(c.queue)
=============================================================================
