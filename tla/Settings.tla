------------------------------- MODULE Settings -------------------------------
(***************************************************************************)
(* The settings that control_center_node.py shows, of one parameter of the *)
(* fleet manager and one of analytics.  The operator's value goes into the *)
(* view and, by a call without waiting, to the node; a timer reads the     *)
(* parameters back into the view.                                          *)
(*                                                                         *)
(* The parameter services of the two nodes are external: a call is served  *)
(* while its node runs, in any order.  A timer period is long enough for   *)
(* the calls that are answered at all.                                     *)
(***************************************************************************)
EXTENDS Naturals

CONSTANT MaxEdits  \* bound: settings the operator applies, and restarts

ASSUME SettingsAssumption == MaxEdits \in Nat

Server == {"fleet_manager", "analytics"}

(* Values as parameter types: the parameter is a double, and a whole       *)
(* number that the operator enters is sent as an integer.                  *)
Value == {"0.5", "0.7", "1"}
IsDouble(value) == value # "1"

VARIABLES
  shown,    \* the value in _settings
  param,    \* the node's parameter
  up,       \* nodes that run
  setting,  \* SetParameters calls: the value on its way, or "none"
  getting,  \* GetParameters calls: "none", "asked", or the value answered
  edits     \* values applied and nodes restarted so far

settingsVars == <<shown, param, up, setting, getting, edits>>

(* apply_setting and _set_ros_param: the view changes also when the node   *)
(* does not run or rejects the value; nothing looks at the answer.         *)
Apply(n, value) ==
  /\ edits < MaxEdits /\ edits' = edits + 1
  /\ shown' = [shown EXCEPT ![n] = value]
  /\ setting' = IF n \in up THEN [setting EXCEPT ![n] = value] ELSE setting
  /\ UNCHANGED <<param, up, getting>>

(* A value of another type is rejected.                                    *)
ServeSet(n) ==
  /\ n \in up /\ setting[n] # "none"
  /\ param' = IF IsDouble(setting[n]) THEN [param EXCEPT ![n] = setting[n]] ELSE param
  /\ setting' = [setting EXCEPT ![n] = "none"]
  /\ UNCHANGED <<shown, up, getting, edits>>

ServeGet(n) ==
  /\ n \in up /\ getting[n] = "asked"
  /\ getting' = [getting EXCEPT ![n] = param[n]]
  /\ UNCHANGED <<shown, param, up, setting, edits>>

Answered == {n \in Server : getting[n] \notin {"none", "asked"}}

(* _refresh_params: a client and a call for each node.                     *)
Refresh ==
  /\ \A n \in up : getting[n] = "none"
  /\ getting' = [n \in Server |-> IF n \in up THEN "asked" ELSE "none"]
  /\ UNCHANGED <<shown, param, up, setting, edits>>

(* Mutant: whichever answer comes first, the other one is lost.            *)
TakeAnswerOfOne(n) ==
  /\ n \in Answered
  /\ shown' = [shown EXCEPT ![n] = getting[n]]
  /\ getting' = [m \in Server |-> "none"]
  /\ UNCHANGED <<param, up, setting, edits>>

(* Its _cb: both callbacks destroy what the variable client holds after    *)
(* the loop, which is the client of analytics; an answer that is not in    *)
(* yet is lost.                                                            *)
TakeAnswer(n) ==
  /\ n \in Answered
  /\ shown' = [shown EXCEPT ![n] = getting[n]]
  /\ getting' = [getting EXCEPT ![n] = "none", !["analytics"] = "none"]
  /\ UNCHANGED <<param, up, setting, edits>>

(* A node that stops loses its calls; it starts with its default.          *)
StopNode(n) ==
  /\ n \in up /\ edits < MaxEdits /\ edits' = edits + 1
  /\ up' = up \ {n}
  /\ setting' = [setting EXCEPT ![n] = "none"]
  /\ getting' = [getting EXCEPT ![n] = "none"]
  /\ UNCHANGED <<shown, param>>

StartNode(n) ==
  /\ n \notin up /\ up' = up \cup {n}
  /\ param' = [param EXCEPT ![n] = "0.5"]
  /\ UNCHANGED <<shown, setting, getting, edits>>

-----------------------------------------------------------------------------
SettingsInit ==
  /\ shown = [n \in Server |-> "0.5"]
  /\ param \in [Server -> {v \in Value : IsDouble(v)}]  \* as launched
  /\ up = Server
  /\ setting = [n \in Server |-> "none"] /\ getting = [n \in Server |-> "none"]
  /\ edits = 0

SettingsNext ==
  \/ Refresh
  \/ \E n \in Server :
       \/ \E value \in Value : Apply(n, value)
       \/ ServeSet(n) \/ ServeGet(n) \/ TakeAnswer(n) \/ StopNode(n) \/ StartNode(n)

-----------------------------------------------------------------------------
(* What the operator sees becomes what the fleet manager works with:       *)
(* values that were rejected, that reached a stopped node, or that a late  *)
(* answer has overwritten do not stay in the view.                         *)
FleetViewAgrees == <>[](shown["fleet_manager"] = param["fleet_manager"])

(* The same of analytics, as _refresh_params says of both: "Read current   *)
(* ROS parameters into the settings view (async)."                         *)
AnalyticsViewAgrees == <>[](shown["analytics"] = param["analytics"])
=============================================================================
