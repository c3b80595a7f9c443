-------------------------------- MODULE Tracks --------------------------------
(***************************************************************************)
(* What control_center_node.py knows of a task: its entry in _tasks, which *)
(* four topics and the operator's commands write, each from what it has    *)
(* seen last.  Tasks share nothing here, so there is one.                  *)
(*                                                                         *)
(* The fleet and the task managers are external, reduced to what they      *)
(* publish of the task.  What is decided and what is assigned write the    *)
(* same, and are one topic, which is a queue; what is published again and  *)
(* again is the one message that the control center has not yet taken.     *)
(* The topics overtake each other.  Commands come in threads of the HTTP   *)
(* server, which take no lock for _tasks: a command publishes first and    *)
(* writes the entry in a later step.                                       *)
(***************************************************************************)
EXTENDS Naturals, Sequences

CONSTANTS
  Holder,       \* robots the task may be given to
  NoHolder,     \* no robot
  Unset,        \* no entry, no message, no command
  MaxCommands   \* bound on the operator's commands

ASSUME TracksAssumption ==
  /\ NoHolder \notin Holder /\ Unset \notin {"absent", "OPEN", "COMPLETED"}
  /\ MaxCommands \in Nat

VARIABLES
  listed,    \* the task in the list of each task manager, or "absent"; "OPEN"
             \* for WAITING and ACTIVE, which nothing here tells apart
  current,   \* the robot the fleet manager gave the task to
  phase,     \* what the fleet manager has done with it
  topic,     \* .assignment, a queue, and the message on .fleet and, for each
             \* robot, on .status
  track,     \* the entry of the task in _tasks
  operator,  \* the command that has published and not yet written the entry
  commands   \* commands so far

fleetVars == <<listed, current, phase>>
tracksVars == <<fleetVars, topic, track, operator, commands>>

TrackEntry(status, robot) == [status |-> status, robot |-> robot, seen |-> FALSE]

(* setdefault and update *)
Updated(status, robot) ==
  IF track = Unset THEN TrackEntry(status, robot)
  ELSE [track EXCEPT !.status = status, !.robot = robot]

Sent(name, message) == topic' = [topic EXCEPT ![name] = message]
Given(r) == Sent("assignment", Append(topic.assignment, r))

-----------------------------------------------------------------------------
(* The fleet and the task managers.                                        *)

Commit(r) ==
  /\ phase = "queued" /\ phase' = "committed" /\ current' = r
  /\ Given(r)
  /\ UNCHANGED <<listed, track, operator, commands>>

AssignTask ==
  /\ phase = "committed" /\ phase' = "assigned"
  /\ listed' = [listed EXCEPT ![current] = "OPEN"]
  /\ Given(current)
  /\ UNCHANGED <<current, track, operator, commands>>

CompleteTask(r) ==
  /\ listed[r] = "OPEN" /\ listed' = [listed EXCEPT ![r] = "COMPLETED"]
  /\ UNCHANGED <<current, phase, topic, track, operator, commands>>

(* The fleet manager learns that the robot has left the task.              *)
Leave ==
  /\ phase = "assigned" /\ listed[current] \in {"absent", "COMPLETED"}
  /\ phase' = "unknown" /\ current' = NoHolder
  /\ UNCHANGED <<listed, topic, track, operator, commands>>

PublishStatus(r) ==
  /\ topic.status[r] = Unset
  /\ topic' = [topic EXCEPT !.status[r] = listed[r]]
  /\ UNCHANGED <<fleetVars, track, operator, commands>>

(* exec_state is one of running_states while the task is executed, and is  *)
(* heard late.                                                             *)
PublishFleet ==
  /\ topic.fleet = Unset
  /\ \E running \in BOOLEAN :
       /\ running => current # NoHolder /\ listed[current] \in {"OPEN", "COMPLETED"}
       /\ Sent("fleet", [robot |-> current, running |-> running])
  /\ UNCHANGED <<fleetVars, track, operator, commands>>

-----------------------------------------------------------------------------
(* The callbacks.                                                          *)

(* _on_decision and _on_assignment *)
OnGiven ==
  /\ topic.assignment # <<>> /\ Sent("assignment", Tail(topic.assignment))
  /\ track' = Updated("ASSIGNED", Head(topic.assignment))
  /\ UNCHANGED <<fleetVars, operator, commands>>

(* _update_task_tracker *)
OnFleetEntry ==
  /\ topic.fleet # Unset /\ Sent("fleet", Unset)
  /\ track' = IF topic.fleet.robot = NoHolder THEN track
              ELSE IF topic.fleet.running THEN Updated("RUNNING", topic.fleet.robot)
              ELSE IF track # Unset /\ track.status = "RUNNING" THEN track
              ELSE Updated("ASSIGNED", topic.fleet.robot)
  /\ UNCHANGED <<fleetVars, operator, commands>>

(* A list without the task: it was cancelled if it has been there.         *)
Missed(r) ==
  IF track = Unset \/ track.robot # r THEN track
  ELSE IF track.status # "ASSIGNED" THEN [track EXCEPT !.seen = TRUE]
  ELSE IF track.seen THEN [track EXCEPT !.status = "CANCELLED"]
  ELSE track

(* Mutant: only a task that was running completes.                         *)
OnTaskStatusOfRunning(r) ==
  /\ topic.status[r] # Unset /\ topic' = [topic EXCEPT !.status[r] = Unset]
  /\ track' =
       IF topic.status[r] = "absent" THEN Missed(r)
       ELSE IF /\ topic.status[r] = "COMPLETED" /\ track # Unset
               /\ track.status = "ASSIGNED"
       THEN track
       ELSE [Updated(topic.status[r], r) EXCEPT !.seen = TRUE]
  /\ UNCHANGED <<fleetVars, operator, commands>>

(* _on_task_status *)
OnTaskStatus(r) ==
  /\ topic.status[r] # Unset /\ topic' = [topic EXCEPT !.status[r] = Unset]
  /\ track' = IF topic.status[r] = "absent" THEN Missed(r)
              ELSE [Updated(topic.status[r], r) EXCEPT !.seen = TRUE]
  /\ UNCHANGED <<fleetVars, operator, commands>>

-----------------------------------------------------------------------------
(* The operator's commands, up to what they publish.                       *)

BeginCommand(command, target) ==
  /\ operator = Unset /\ commands < MaxCommands /\ commands' = commands + 1
  /\ operator' = [command |-> command, robot |-> target]
  /\ UNCHANGED track

(* What /cancel_task does to a list, and /add_task to the fleet manager,   *)
(* which takes no task that it has already.                                *)
Cancelled(holders) ==
  [r \in Holder |-> IF r \in holders /\ listed[r] # "COMPLETED" THEN "absent" ELSE listed[r]]
Added == phase' = IF phase = "unknown" THEN "queued" ELSE phase

(* _cmd_create_task *)
CreateTask ==
  /\ BeginCommand("create", NoHolder) /\ Added
  /\ UNCHANGED <<listed, current, topic>>

(* The robot of the entry, or all of them if it is not known: the page     *)
(* names none.                                                             *)
Targets == IF track = Unset \/ track.robot = NoHolder THEN Holder ELSE {track.robot}

(* _cmd_cancel_task and _cmd_delete_task                                   *)
CancelTask ==
  /\ BeginCommand("cancel", NoHolder)
  /\ listed' = Cancelled(Targets)
  /\ UNCHANGED <<current, phase, topic>>

(* _cmd_set_priority cancels the task, and adds it once more.              *)
SetPriority ==
  /\ track # Unset
  /\ BeginCommand("priority", NoHolder)
  /\ listed' = Cancelled(Targets)
  /\ UNCHANGED <<current, phase, topic>>

(* _cmd_assign_robot cancels it everywhere, and assigns it past the fleet. *)
AssignRobot(r) ==
  /\ track # Unset
  /\ BeginCommand("assign", r)
  /\ listed' = [Cancelled(Holder) EXCEPT ![r] = "OPEN"]
  /\ Given(r)
  /\ UNCHANGED <<current, phase>>

(* What a command writes at its end.  The entry of a task that is there    *)
(* stays when the task is created.                                         *)
Write ==
  /\ operator # Unset
  /\ IF operator.command = "priority"
     THEN Added /\ operator' = [operator EXCEPT !.command = "added"]
     ELSE operator' = Unset /\ UNCHANGED phase
  /\ track' = CASE operator.command = "create" ->
                     (IF track = Unset THEN TrackEntry("PENDING", NoHolder) ELSE track)
                [] operator.command = "cancel" /\ track = Unset -> track
                [] operator.command \in {"cancel", "priority"} /\ track # Unset ->
                     [track EXCEPT !.status = "CANCELLED"]
                [] operator.command = "added" -> [track EXCEPT !.status = "PENDING"]
                [] operator.command = "assign" -> Updated("ASSIGNED", operator.robot)
  /\ UNCHANGED <<listed, current, topic, commands>>

-----------------------------------------------------------------------------
TracksInit ==
  /\ listed = [r \in Holder |-> "absent"] /\ current = NoHolder
  /\ phase \in {"unknown", "queued"}
  /\ topic = [fleet |-> Unset, assignment |-> <<>>,
              status |-> [r \in Holder |-> Unset]]
  /\ track = Unset /\ operator = Unset /\ commands = 0

FleetStep ==
  \/ AssignTask \/ Leave \/ PublishFleet
  \/ \E r \in Holder : Commit(r) \/ CompleteTask(r) \/ PublishStatus(r)

Callback == OnGiven \/ OnFleetEntry \/ \E r \in Holder : OnTaskStatus(r)

OperatorCommand ==
  \/ CreateTask \/ SetPriority \/ Write
  \/ CancelTask
  \/ \E r \in Holder : AssignRobot(r)

TracksNext == FleetStep \/ Callback \/ OperatorCommand

-----------------------------------------------------------------------------
(* A task that some robot has completed, and that is in no list otherwise, *)
(* is shown as completed in the end, whatever old messages of the fleet    *)
(* and of other robots are still to come.                                  *)
Done == /\ \E r \in Holder : listed[r] = "COMPLETED"
        /\ \A r \in Holder : listed[r] \in {"absent", "COMPLETED"}
        /\ phase = "unknown"

CompletionStays ==
  <>[]Done => <>[](track # Unset /\ track.status = "COMPLETED")
=============================================================================
