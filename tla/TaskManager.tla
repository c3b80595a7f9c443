----------------------------- MODULE TaskManager -----------------------------
(***************************************************************************)
(* The task manager nodes (task_manager_node.py), one per robot: each      *)
(* keeps the list of the tasks it was assigned and executes them one after *)
(* the other, the most urgent first.                                       *)
(*                                                                         *)
(* A node is single-threaded, so a callback is one action.  Entries are    *)
(* appended in the order of _insert_idx and removed in place, so the       *)
(* position in the list stands for _insert_idx.  Where the robot is and    *)
(* how long it has been picking or dropping decide when a timer callback   *)
(* goes to the next state; here any of them may, or may only publish.      *)
(***************************************************************************)
EXTENDS Integers, SequencesExt

CONSTANTS
  Robot,      \* robot ids, one task manager each
  Task,       \* task ids
  None,       \* no task
  Priority,   \* Priority[t], clamped to 0..2
  MaxEntries  \* bound on the length of a list, which never shrinks by itself

ASSUME TaskAssumption ==
  /\ None \notin Task
  /\ Priority \in [Task -> 0..2]
  /\ MaxEntries \in Nat

State == {"IDLE", "GO_TO_PICKUP", "PICKING", "GO_TO_DROPOFF", "DROPPING"}
TaskEntry == [id: Task, status: {"WAITING", "ACTIVE", "COMPLETED"}]

VARIABLES
  tasks,   \* _tasks
  active,  \* _active_task_idx counted from 1, and 0 for -1
  state,   \* _state
  told     \* the last /task_state published: [state, active_task]

tmVars == <<tasks, active, state, told>>

-----------------------------------------------------------------------------
(* What _activate_next chooses from a list: the first of the most urgent   *)
(* entries that wait.                                                      *)
Waiting(list) == {i \in 1..Len(list) : list[i].status = "WAITING"}

NextWaiting(list) ==
  {i \in Waiting(list) : \A j \in Waiting(list) :
     /\ Priority[list[j].id] <= Priority[list[i].id]
     /\ Priority[list[j].id] = Priority[list[i].id] => i <= j}

SetStatus(list, i, status) == [list EXCEPT ![i].status = status]

(* _activate_next, on the list its caller leaves.                          *)
ActivateNext(r, list) ==
  \/ /\ Waiting(list) = {}
     /\ tasks' = [tasks EXCEPT ![r] = list]
     /\ active' = [active EXCEPT ![r] = 0]
     /\ state' = [state EXCEPT ![r] = "IDLE"]
  \/ \E i \in NextWaiting(list) :
       /\ tasks' = [tasks EXCEPT ![r] = SetStatus(list, i, "ACTIVE")]
       /\ active' = [active EXCEPT ![r] = i]
       /\ state' = [state EXCEPT ![r] = "GO_TO_PICKUP"]

(* _assignment_callback and _enqueue_task, on an assignment of t to r.     *)
Assign(r, t) ==
  /\ Len(tasks[r]) < MaxEntries
  /\ LET list == Append(tasks[r], [id |-> t, status |-> "WAITING"])
     IN  IF state[r] = "IDLE" /\ active[r] = 0
         THEN ActivateNext(r, list)
         ELSE tasks' = [tasks EXCEPT ![r] = list] /\ UNCHANGED <<active, state>>
  /\ UNCHANGED told

(* _cancel_task_callback, for a cancel of t that is addressed to r or to   *)
(* nobody: only the first entry of the id is looked at.                    *)
Named(r, t) ==
  {i \in 1..Len(tasks[r]) :
     tasks[r][i].id = t /\ \A j \in 1..(i - 1) : tasks[r][j].id # t}

(* Mutant: the index of the active task is not moved back.                *)
RemoveWaitingOnly(r, i) ==
  /\ tasks' = [tasks EXCEPT ![r] = RemoveAt(@, i)]
  /\ UNCHANGED <<active, state>>

RemoveWaiting(r, i) ==
  /\ tasks' = [tasks EXCEPT ![r] = RemoveAt(@, i)]
  /\ active' = [active EXCEPT ![r] = IF @ > i THEN @ - 1 ELSE @]
  /\ UNCHANGED state

(* Mutant: the robot stays idle after its active task is cancelled.        *)
RemoveActiveAndStop(r, i) ==
  /\ tasks' = [tasks EXCEPT ![r] = RemoveAt(@, i)]
  /\ active' = [active EXCEPT ![r] = 0]
  /\ state' = [state EXCEPT ![r] = "IDLE"]

RemoveActive(r, i) == ActivateNext(r, RemoveAt(tasks[r], i))

Cancel(r, t) ==
  /\ \/ \E i \in Named(r, t) :
          \/ tasks[r][i].status = "WAITING" /\ RemoveWaiting(r, i)
          \/ tasks[r][i].status = "ACTIVE" /\ RemoveActive(r, i)
          \/ tasks[r][i].status = "COMPLETED" /\ UNCHANGED <<tasks, active, state>>
     \/ Named(r, t) = {} /\ UNCHANGED <<tasks, active, state>>
  /\ UNCHANGED told

-----------------------------------------------------------------------------
(* The timer callback, _control_loop: it publishes the state it finds, and *)
(* then may find that the robot has arrived or that a delay is over.       *)
Current(r) ==
  [state |-> state[r], active |-> IF active[r] = 0 THEN None ELSE tasks[r][active[r]].id]

Tell(r) == told' = [told EXCEPT ![r] = Current(r)]

Report(r) == Tell(r) /\ UNCHANGED <<tasks, active, state>>

(* What follows when the robot has arrived or the delay is over.           *)
Following ==
  {<<"GO_TO_PICKUP", "PICKING">>, <<"PICKING", "GO_TO_DROPOFF">>,
   <<"GO_TO_DROPOFF", "DROPPING">>}

Advance(r) ==
  /\ \E next \in State :
       /\ <<state[r], next>> \in Following
       /\ state' = [state EXCEPT ![r] = next]
  /\ Tell(r)
  /\ UNCHANGED <<tasks, active>>

Complete(r) ==
  /\ state[r] = "DROPPING"
  /\ ActivateNext(r, SetStatus(tasks[r], active[r], "COMPLETED"))
  /\ Tell(r)

ControlLoop(r) == Report(r) \/ Advance(r) \/ Complete(r)

-----------------------------------------------------------------------------
TMInit ==
  /\ tasks = [r \in Robot |-> <<>>]
  /\ active = [r \in Robot |-> 0]
  /\ state = [r \in Robot |-> "IDLE"]
  /\ told = [r \in Robot |-> [state |-> "IDLE", active |-> None]]

TMNext ==
  \E r \in Robot :
    \/ \E t \in Task : Assign(r, t) \/ Cancel(r, t)
    \/ ControlLoop(r)

TMSpec == TMInit /\ [][TMNext]_tmVars

-----------------------------------------------------------------------------
(* The types of _tasks, _active_task_idx, _state and of the last message.  *)
TMTypeOK ==
  /\ tasks \in [Robot -> Seq(TaskEntry)]
  /\ active \in [Robot -> Nat]
  /\ state \in [Robot -> State]
  /\ told \in [Robot -> [state: State, active: Task \cup {None}]]

(* _active_task_idx, which cancels move, always points at the one entry    *)
(* that is ACTIVE, and the node is in a driving or handling state exactly  *)
(* when there is one: _control_loop indexes _tasks with it unchecked.      *)
ActiveIsActive ==
  \A r \in Robot :
    /\ {i \in 1..Len(tasks[r]) : tasks[r][i].status = "ACTIVE"} =
         (IF active[r] = 0 THEN {} ELSE {active[r]})
    /\ state[r] = "IDLE" <=> active[r] = 0

(* A node is never idle while a task waits: whichever of an assignment, a  *)
(* cancel and a completion comes, the next task is started.                *)
NeverIdleWithWork ==
  \A r \in Robot : state[r] = "IDLE" => Waiting(tasks[r]) = {}
=============================================================================
