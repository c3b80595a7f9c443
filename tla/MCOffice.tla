------------------------------ MODULE MCOffice ------------------------------
(***************************************************************************)
(* Instances for TLC of what goes on off the floor, in parts that share no *)
(* state: the services that keep the backend's rows of robots, its         *)
(* retention of events, its logins and tokens, and the alerts, tasks and   *)
(* settings that the control center shows.  A behaviour is one of a part,  *)
(* while the others stand still.                                           *)
(***************************************************************************)
EXTENDS Services, Retention, Access, Alerts, Tracks, Settings

CONSTANT Part  \* parts to check

VARIABLE part

(* A robot at rest, offline, low, charging, and with a task.               *)
AnEntry(status, charging, low, task) ==
  [status |-> status, charging |-> charging, low |-> low, task |-> task]
FleetEntries ==
  {AnEntry("ONLINE", FALSE, FALSE, ""), AnEntry("OFFLINE", FALSE, FALSE, ""),
   AnEntry("ONLINE", FALSE, TRUE, ""), AnEntry("ONLINE", TRUE, TRUE, ""),
   AnEntry("ONLINE", FALSE, FALSE, "a")}

(* No reservation, a blocked one, and one of a head-on route.              *)
TrafficMessages ==
  {[reserved |-> FALSE, blocked |-> FALSE, congested |-> FALSE],
   [reserved |-> TRUE, blocked |-> TRUE, congested |-> FALSE],
   [reserved |-> TRUE, blocked |-> FALSE, congested |-> TRUE]}

-----------------------------------------------------------------------------
(* Parts that have several initial states have one of them in the          *)
(* behaviours of the others.                                               *)
Init ==
  /\ part \in Part
  /\ ServicesInit /\ RetentionInit /\ AccessInit /\ AlertsInit
  /\ TracksInit /\ (part # "tracks" => phase = "unknown")
  /\ SettingsInit /\ (part # "settings" => param = shown)

Still(p, variables) == part = p \/ UNCHANGED variables

Next ==
  /\ \/ part = "robots" /\ ServicesNext
     \/ part = "events" /\ RetentionNext
     \/ part = "access" /\ AccessNext
     \/ part = "alerts" /\ AlertsNext
     \/ part = "tracks" /\ TracksNext
     \/ part = "settings" /\ SettingsNext
  /\ Still("robots", allVars) /\ Still("events", retentionVars)
  /\ Still("access", accessVars) /\ Still("alerts", alertsVars)
  /\ Still("tracks", tracksVars) /\ Still("settings", settingsVars)
  /\ UNCHANGED part

vars == <<allVars, retentionVars, accessVars, alertsVars, tracksVars, settingsVars, part>>

-----------------------------------------------------------------------------
(* Fairness, each in the behaviours of its part.                           *)

(* The fleet keeps hearing of a robot, the bridge keeps posting, and the   *)
(* threads run on.                                                         *)
ServicesFairness ==
  /\ \A r \in Robot : WF_allVars(part = "robots" /\ Seen(r))
  /\ WF_allVars(part = "robots" /\ PostBatch)
  /\ \A q \in Request : WF_allVars(part = "robots" /\ (Process(q) \/ Respond(q)))

(* The timers of the bridge fire for ever, and so do the minutes.          *)
AccessFairness ==
  /\ SF_accessVars(part = "access" /\ Login("bridge"))
  /\ WF_accessVars(part = "access" /\ Ask("bridge"))
  /\ WF_accessVars(part = "access" /\ NextMinute)

(* The supervisor timer goes on.                                           *)
AlertsFairness == WF_alertsVars(part = "alerts" /\ SupervisorTick)

(* Every list and the fleet are published for ever, messages are taken and *)
(* commands return; the fleet manager lets go of a task that is over.      *)
TracksFairness ==
  /\ WF_tracksVars(part = "tracks" /\ (AssignTask \/ Leave))
  /\ WF_tracksVars(part = "tracks" /\ PublishFleet)
  /\ WF_tracksVars(part = "tracks" /\ OnGiven)
  /\ WF_tracksVars(part = "tracks" /\ OnFleetEntry)
  /\ WF_tracksVars(part = "tracks" /\ Write)
  /\ \A r \in Holder : /\ WF_tracksVars(part = "tracks" /\ PublishStatus(r))
                       /\ WF_tracksVars(part = "tracks" /\ OnTaskStatus(r))

(* The refresh timer goes on, the nodes serve, the thread of the control   *)
(* center takes what they answer; the operator starts a node again.        *)
SettingsFairness ==
  /\ WF_settingsVars(part = "settings" /\ Refresh)
  /\ \A n \in Server :
       /\ WF_settingsVars(part = "settings" /\ ServeSet(n))
       /\ WF_settingsVars(part = "settings" /\ ServeGet(n))
       /\ WF_settingsVars(part = "settings" /\ TakeAnswer(n))
       /\ WF_settingsVars(part = "settings" /\ StartNode(n))

Spec ==
  /\ Init /\ [][Next]_vars
  /\ ServicesFairness /\ AccessFairness
  /\ AlertsFairness /\ TracksFairness /\ SettingsFairness

-----------------------------------------------------------------------------
(* The properties of behaviours of their part.                             *)
RobotsOnlineAgain == part = "robots" => OnlineAgain
ReportsAgain == part = "access" => BridgeReportsAgain
EveryAlertSettles == part = "alerts" => AlertsSettle
EveryCompletionStays == part = "tracks" => CompletionStays
EveryFleetViewAgrees == part = "settings" => FleetViewAgrees
EveryAnalyticsViewAgrees == part = "settings" => AnalyticsViewAgrees
=============================================================================
