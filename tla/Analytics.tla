------------------------------ MODULE Analytics ------------------------------
(***************************************************************************)
(* What analytics_node.py counts of a robot: completed tasks, from the     *)
(* statuses that the fleet manager publishes, and the waits of its         *)
(* reservation, from the windows reserved.  The fleet manager takes any    *)
(* registration that the robot's beacon can send, late ones too.  Times,   *)
(* distances and the means published are left out: a rolling list of       *)
(* samples is its length.                                                  *)
(***************************************************************************)
EXTENDS Integers

CONSTANTS
  Job,        \* tasks
  NoJob,      \* no task
  Lengths,    \* numbers of segments of a route that are tried
  Windows,    \* values of rolling_window that are tried
  MaxCounts   \* bound: tasks that are over, and marks that are cleared

ASSUME AnalyticsAssumption ==
  /\ NoJob \notin Job /\ MaxCounts \in Nat
  /\ Lengths \subseteq Nat \ {0} /\ Windows \subseteq Nat \ {0}

NoSegment == -1

VARIABLES
  robot,      \* the robot's entry, and what its beacon says, see below
  given,      \* the tasks that the robot may have in its list
  published,  \* history: statuses published with it marked busy, in a row: 2 for more
  ended,      \* history: tasks that it named in registrations, and then no more
  cleared,    \* history: marks of tasks not over, cleared after two statuses
  streak,     \* _busy_streak: 0, 1, or 2 for more
  completed,  \* its completed tasks
  maxSeg,     \* _max_seg
  isWaiting,  \* it is in _blocked_since
  window,     \* _window
  samples     \* lengths of _task_durations and _reservation_waits

(* The entry is "busy" when it has a current_task; else "idle" is ONLINE   *)
(* and not charging.  The reservation is for the task .reserved, on a      *)
(* route of .length segments reserved up to .top.  The task .named is the  *)
(* one in the last registration.                                           *)
Mode == {"busy", "idle", "charging", "offline"}
Entries == [mode : Mode, reserved : Job \cup {NoJob}, activated : BOOLEAN,
            length : Nat, top : Int, named : Job \cup {NoJob}]

history == <<published, ended, cleared>>
counts == <<streak, completed, maxSeg, isWaiting, window, samples>>
analyticsVars == <<robot, given, history, counts>>

More(n) == IF n = 0 THEN 1 ELSE 2

-----------------------------------------------------------------------------
(* _push_sample removes one sample at most, also when the window shrank.   *)
Pushed(n) == IF n + 1 > window THEN n ELSE n + 1

(* Mutant: a mark that was published once is counted already.              *)
FleetCallbackAtOnce(mode) ==
  /\ IF mode = "busy"
     THEN streak' = More(streak) /\ UNCHANGED <<completed, samples>>
     ELSE /\ IF streak # 0 /\ mode = "idle"
             THEN /\ completed' = completed + 1
                  /\ samples' = [samples EXCEPT !.durations = Pushed(@)]
             ELSE UNCHANGED <<completed, samples>>
          /\ streak' = 0
  /\ UNCHANGED <<maxSeg, isWaiting, window>>

(* _fleet_callback                                                         *)
FleetCallback(mode) ==
  /\ IF mode = "busy"
     THEN streak' = More(streak) /\ UNCHANGED <<completed, samples>>
     ELSE /\ IF streak = 2 /\ mode = "idle"
             THEN /\ completed' = completed + 1
                  /\ samples' = [samples EXCEPT !.durations = Pushed(@)]
             ELSE UNCHANGED <<completed, samples>>
          /\ streak' = 0
  /\ UNCHANGED <<maxSeg, isWaiting, window>>

(* _reservation_callback: a window that has not grown since the last       *)
(* message is blocked, unless it is empty or reaches the end of the route. *)
ReservationCallback ==
  LET reserved == robot.reserved # NoJob
      waitsOn == reserved /\ robot.top # NoSegment
                     /\ robot.top < robot.length - 1 /\ robot.top <= maxSeg
  IN  /\ isWaiting' = waitsOn
      /\ maxSeg' = IF reserved THEN robot.top ELSE maxSeg
      /\ samples' = IF isWaiting /\ ~waitsOn
                    THEN [samples EXCEPT !.waits = Pushed(@)] ELSE samples
      /\ UNCHANGED <<robot, given, history, streak, completed, window>>

(* _publish_analytics reads the parameter.                                 *)
PublishAnalytics ==
  /\ window' \in Windows
  /\ UNCHANGED <<robot, given, history, streak, completed, maxSeg, isWaiting, samples>>

-----------------------------------------------------------------------------
(* What the fleet manager does with the robot.  Statuses are heard in the  *)
(* order in which they are published, and only they change what is counted *)
(* of them: that they are heard at once is no loss.                        *)

(* _publish_fleet, of an entry with this mode.                             *)
PublishEntry(mode) ==
  /\ FleetCallback(mode)
  /\ published' = IF mode = "busy" THEN More(published) ELSE 0

(* Of the timer, of a task submitted, or of what another robot sends.      *)
PublishFleetStatus == PublishEntry(robot.mode) /\ UNCHANGED <<robot, given, ended, cleared>>

(* _try_dispatch marks the entry, which some later callback publishes.     *)
Dispatch(job) ==
  /\ robot.mode = "idle" /\ robot.reserved = NoJob
  /\ ended + cleared < MaxCounts
  /\ \E length \in Lengths :
       robot' = [mode |-> "busy", reserved |-> job, activated |-> FALSE,
                 length |-> length, top |-> 0, named |-> robot.named]
  /\ given' = given \cup {job}
  /\ UNCHANGED <<history, counts>>

ReserveSegment ==
  /\ robot.reserved # NoJob /\ robot.top < robot.length - 1
  /\ robot' = [robot EXCEPT !.top = @ + 1]
  /\ UNCHANGED <<given, history, counts>>

(* The mark is cleared although the task is not over.                      *)
ClearMark(mode) ==
  cleared' = IF published = 2 /\ mode = "idle" THEN cleared + 1 ELSE cleared

(* _registration_callback, of a beacon that names a task of the robot: one *)
(* named before, and no more, is over.                                     *)
RegisterTask(job) ==
  /\ job \in given \/ job = robot.reserved
  /\ ended + cleared < MaxCounts
  /\ robot' = [robot EXCEPT !.mode = "busy", !.named = job,
                            !.activated = robot.activated \/ robot.reserved = job]
  /\ given' = given \ ({robot.named} \ {job})
  /\ ended' = IF robot.named \in {NoJob, job} THEN ended ELSE ended + 1
  /\ PublishEntry("busy") /\ UNCHANGED cleared

(* The same, of a beacon that names none: it may not have heard yet of the *)
(* task.  _check_reservation_release ends an activated reservation.        *)
RegisterNone(mode) ==
  /\ robot' = [robot EXCEPT !.mode = mode, !.named = NoJob, !.activated = FALSE,
                 !.reserved = IF robot.activated THEN NoJob ELSE robot.reserved]
  /\ given' = given \ {robot.named}
  /\ \/ robot.named # NoJob /\ ended' = ended + 1 /\ UNCHANGED cleared
     \/ robot.named = NoJob /\ robot.reserved # NoJob /\ ClearMark(mode) /\ UNCHANGED ended
     \/ robot.named = NoJob /\ robot.reserved = NoJob /\ UNCHANGED <<ended, cleared>>
  /\ PublishEntry(mode)

(* _heartbeat_callback                                                     *)
Heartbeat ==
  /\ robot.mode = "offline"
  /\ \E mode \in {"idle", "charging"} :
       robot' = [robot EXCEPT !.mode = mode] /\ PublishEntry(mode)
  /\ UNCHANGED <<given, ended, cleared>>

(* The fleet manager takes the task back.  The robot keeps it, until a     *)
(* cancel reaches it or it has executed it.                                *)
TakeBack(mode) ==
  /\ robot' = [robot EXCEPT !.mode = mode, !.reserved = NoJob, !.activated = FALSE]
  /\ ClearMark(mode) /\ PublishEntry(mode) /\ UNCHANGED <<given, ended>>

(* _recover_robot                                                          *)
Recover == robot.mode # "offline" /\ TakeBack("offline")

(* _check_battery, of a robot that has work; it leaves the status alone.   *)
ReleaseToCharge ==
  /\ robot.mode = "busy" \/ robot.reserved # NoJob
  /\ \E mode \in Mode \ {"busy"} : TakeBack(mode)

-----------------------------------------------------------------------------
AnalyticsInit ==
  /\ robot = [mode |-> "idle", reserved |-> NoJob, activated |-> FALSE,
               length |-> 1, top |-> NoSegment, named |-> NoJob]
  /\ given = {}
  /\ published = 0 /\ ended = 0 /\ cleared = 0 /\ streak = 0 /\ completed = 0
  /\ maxSeg = NoSegment /\ isWaiting = FALSE
  /\ window \in Windows /\ samples = [durations |-> 0, waits |-> 0]

AnalyticsNext ==
  \/ \E job \in Job : Dispatch(job) \/ RegisterTask(job)
  \/ \E mode \in Mode \ {"busy"} : RegisterNone(mode)
  \/ ReserveSegment \/ Heartbeat \/ Recover \/ ReleaseToCharge \/ PublishFleetStatus
  \/ ReservationCallback \/ PublishAnalytics

-----------------------------------------------------------------------------
(* No task is counted twice, and none before it is over, unless its mark   *)
(* was cleared on the way after two statuses had shown it: by a            *)
(* registration from before the assignment, or by the fleet manager, which *)
(* takes the task back.                                                    *)
CountedTasksEnded == completed <= ended + cleared

(* A busy phase seen in two statuses "filters out the transient            *)
(* optimistic-busy flicker during dispatch" (_fleet_callback): nothing is  *)
(* counted of a robot that has not named a task since it was reserved for. *)
FlickersFiltered ==
  [][robot.named = NoJob /\ robot.reserved # NoJob /\ robot'.reserved = robot.reserved
       => completed' = completed]_analyticsVars
=============================================================================
