-------------------------------- MODULE Alerts --------------------------------
(***************************************************************************)
(* How control_center_node.py raises and clears the alerts of a robot: the *)
(* callbacks of the topics it observes, the supervisor timer, and the      *)
(* operator who acknowledges.  The callbacks and the timer run in one      *)
(* thread; the operator's thread takes the same lock for the alerts.  The  *)
(* log of events and the history of alerts are left out: only the page     *)
(* reads them.                                                             *)
(***************************************************************************)
CONSTANTS
  RobotEntry,  \* entries of the robot in /fleet_status that are tried
  Traffic,     \* messages of /reservation_status that are tried
  NoEntry      \* the robot is not in the message

(* Not started, started, and started longer ago than its time-out.         *)
Clock == {"off", "running", "over"}

ASSUME AlertsAssumption ==
  /\ NoEntry \notin RobotEntry
  /\ \A e \in RobotEntry :
       /\ e.status \in {"ONLINE", "OFFLINE"} /\ e.charging \in BOOLEAN
       /\ e.low \in BOOLEAN     \* battery at or below low_battery_threshold
       /\ e.task \in STRING     \* current_task, "" for none
  /\ \A m \in Traffic :
       /\ m.reserved \in BOOLEAN   \* the robot has a reservation
       /\ m.blocked \in BOOLEAN    \* which has no segment yet
       /\ m.congested \in BOOLEAN  \* two pending dispatches, or a head-on route

VARIABLES
  fleet,      \* the robot's entry in _fleet
  last,       \* _last_status, _last_charging, _prev_fleet_task: an entry
  traffic,    \* _reservations
  clocks,     \* since amcl_ts, plan_ts, _task_timeout_start, _blocked_start
  alerts      \* the types of the robot's alerts in _alerts

alertsVars == <<fleet, last, traffic, clocks, alerts>>

Known == fleet # NoEntry
Busy == Known /\ fleet.task # ""

-----------------------------------------------------------------------------
(* The callbacks.                                                          *)

(* _on_fleet; a fleet manager that has restarted does not list the robot.  *)
(* _derive_fleet_events and the end of _update_task_tracker compare an     *)
(* entry with the one before it.                                           *)
OnFleet(entry) ==
  LET changed == last # NoEntry /\ last.status # entry.status
      charged == last # NoEntry /\ last.charging /\ ~entry.charging
      left == last # NoEntry /\ last.task # "" /\ last.task # entry.task
  IN  /\ fleet' = entry
      /\ IF entry = NoEntry THEN UNCHANGED <<last, alerts>>
         ELSE /\ last' = entry
              /\ alerts' =
                   (alerts \ ((IF changed THEN {"robot_offline"} ELSE {})
                              \cup (IF charged THEN {"battery_low"} ELSE {})
                              \cup (IF left THEN {"task_timeout"} ELSE {})))
                   \cup (IF changed /\ entry.status = "OFFLINE"
                         THEN {"robot_offline"} ELSE {})
      /\ UNCHANGED <<traffic, clocks>>

(* _on_reservations with _derive_reservation_events.                       *)
OnReservations(message) ==
  /\ traffic' = message
  /\ alerts' = IF message.reserved /\ ~traffic.reserved
               THEN alerts \ {"reservation_timeout"} ELSE alerts
  /\ UNCHANGED <<fleet, last, clocks>>

(* _on_recovery, of a robot that has failed.                               *)
OnRecovery ==
  /\ alerts' = alerts \cup {"goal_failure"}
  /\ UNCHANGED <<fleet, last, traffic, clocks>>

(* _on_amcl *)
OnAmcl ==
  /\ clocks' = [clocks EXCEPT !.amcl = "running"]
  /\ alerts' = alerts \ {"localization_lost"}
  /\ UNCHANGED <<fleet, last, traffic>>

(* _on_plan, of a plan with the ends and the length of the last, or not.   *)
OnPlan(another) ==
  /\ another \/ clocks.plan # "off"
  /\ clocks' = [clocks EXCEPT !.plan = "running"]
  /\ alerts' = IF another THEN alerts \ {"planner_failure"} ELSE alerts
  /\ UNCHANGED <<fleet, last, traffic>>

(* _on_assignment, and _on_task_status when it finds a task completed.     *)
OnAssignment ==
  /\ alerts' = alerts \ {"task_timeout"}
  /\ UNCHANGED <<fleet, last, traffic, clocks>>

(* ack_alert *)
Acknowledge(key) ==
  /\ key \in alerts /\ alerts' = alerts \ {key}
  /\ UNCHANGED <<fleet, last, traffic, clocks>>

Elapse(clock) ==
  /\ clocks[clock] = "running" /\ clocks' = [clocks EXCEPT ![clock] = "over"]
  /\ UNCHANGED <<fleet, last, traffic, alerts>>

-----------------------------------------------------------------------------
(* _supervisor_tick.  What it raises an alert for and what it clears one   *)
(* for are not each other's negations.                                     *)

ToRaise ==
  {k \in {"robot_offline"} : Known /\ fleet.status = "OFFLINE"}
  \cup {k \in {"battery_low"} : Known /\ fleet.low /\ ~fleet.charging}
  \cup {k \in {"task_timeout"} : Busy /\ clocks.task = "over"}
  \cup {k \in {"localization_lost"} : Known /\ clocks.amcl = "over"}
  \cup {k \in {"planner_failure"} : Busy /\ clocks.plan # "running"}
  \cup {k \in {"reservation_timeout"} :
          traffic.reserved /\ traffic.blocked /\ clocks.blocked = "over"}
  \cup {k \in {"traffic_congestion"} : traffic.congested}

ToClear ==
  ((IF Known THEN {"robot_offline", "battery_low"} ELSE {})
   \cup (IF Known /\ ~Busy THEN {"task_timeout", "planner_failure"} ELSE {})
   \cup (IF traffic.reserved /\ ~traffic.blocked THEN {"reservation_timeout"} ELSE {})
   \cup {"traffic_congestion"}) \ ToRaise

Started(clock, on) == IF ~on THEN "off" ELSE IF clock = "off" THEN "running" ELSE clock

(* Mutant: a low battery is only cleared when charging is over.            *)
SupervisorTickForgets ==
  /\ alerts' = (alerts \ (ToClear \ {"battery_low"})) \cup ToRaise
  /\ clocks' = [clocks EXCEPT
       !.task = IF Known THEN Started(@, Busy) ELSE @,
       !.blocked = IF traffic.reserved THEN Started(@, traffic.blocked) ELSE @]
  /\ UNCHANGED <<fleet, last, traffic>>

SupervisorTick ==
  /\ alerts' = (alerts \ ToClear) \cup ToRaise
  /\ clocks' = [clocks EXCEPT
       !.task = IF Known THEN Started(@, Busy) ELSE @,
       !.blocked = IF traffic.reserved THEN Started(@, traffic.blocked) ELSE @]
  /\ UNCHANGED <<fleet, last, traffic>>

-----------------------------------------------------------------------------
AlertsInit ==
  /\ fleet = NoEntry /\ last = NoEntry
  /\ traffic = [reserved |-> FALSE, blocked |-> FALSE, congested |-> FALSE]
  /\ clocks = [amcl |-> "off", plan |-> "off", task |-> "off", blocked |-> "off"]
  /\ alerts = {}

(* Topics about the robot and its task, and about its place and traffic.   *)
RobotTopics ==
  \/ \E e \in RobotEntry \cup {NoEntry} : OnFleet(e)
  \/ \E another \in BOOLEAN : OnPlan(another)
  \/ OnAssignment \/ Elapse("plan") \/ Elapse("task")

TrafficTopics ==
  \/ \E m \in Traffic : OnReservations(m)
  \/ OnRecovery \/ OnAmcl \/ Elapse("amcl") \/ Elapse("blocked")

Supervision == SupervisorTick \/ \E k \in alerts : Acknowledge(k)

AlertsNext == RobotTopics \/ TrafficTopics \/ Supervision

-----------------------------------------------------------------------------
(* A condition that lasts has its alert, however often the operator        *)
(* acknowledges it; a condition that is over for good loses it.  Of a      *)
(* robot that the fleet manager does not list any more, and of the alerts  *)
(* not named here, the second does not hold.                               *)
Settles(key) ==
  /\ <>[](key \in ToRaise) => []<>(key \in alerts)
  /\ <>[](Known /\ key \notin ToRaise) => <>[](key \notin alerts)

AlertsSettle ==
  /\ Settles("robot_offline") /\ Settles("battery_low") /\ Settles("task_timeout")
  /\ Settles("localization_lost") /\ Settles("traffic_congestion")
=============================================================================
