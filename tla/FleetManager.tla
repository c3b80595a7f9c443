---------------------------- MODULE FleetManager ----------------------------
(***************************************************************************)
(* The fleet manager node (fleet_manager_node.py): the robot registry, the *)
(* per-robot task queues, the waiting pool, and the grid-cell reservations *)
(* that keep two robots out of the same stretch of a route.                *)
(*                                                                         *)
(* The node runs on a single-threaded executor, so a callback runs to its  *)
(* end before the next starts.  A callback that is a straight line is one  *)
(* action.  A callback that loops is a sequence of actions, one per        *)
(* iteration, and pc says which loop is running: every message handler and *)
(* the timer wait for pc = "idle".  The callback publishes while it loops, *)
(* so other nodes do see the state between two iterations.                 *)
(*                                                                         *)
(* Python dictionaries are visited in insertion order; here a loop over    *)
(* robots may visit them in any order.                                     *)
(***************************************************************************)
EXTENDS Integers, SequencesExt

CONSTANTS
  Robot,            \* robot ids
  Task,             \* task ids; the data of a task is a function of its id
  Cell,             \* grid cells
  None,             \* Python's None, and the empty string of current_task
  Segments,         \* Segments[t]: the segments, sets of cells, of t's route
  Priority,         \* Priority[t] in 0..2
  RequiredPayload,  \* RequiredPayload[t], kg
  PayloadCapacity,  \* PayloadCapacity[r], kg
  Lookahead,        \* traffic_lookahead
  LowBattery,       \* low_battery_threshold
  CriticalBattery,  \* critical_battery_threshold
  Reports,          \* <<status, battery, charging>> that a beacon may send
  Failing           \* the robots whose heartbeat may stop

Status == {"ONLINE", "OFFLINE"}

Entry == [status: Status, currentTask: Task \cup {None}, fresh: BOOLEAN,
          battery: 0..100, charging: BOOLEAN, cell: Cell \cup {None}]

Reservation == [task: Task, index: Nat, reserved: SUBSET Nat, activated: BOOLEAN]

ASSUME NoneAssumption ==
  /\ None \notin Robot /\ None \notin Task /\ None \notin Cell
  /\ None \notin Entry /\ None \notin Reservation

(* _partition_segments slices the rasterization of a straight line, which  *)
(* has at least one cell and never comes back to a cell it has left.       *)
ASSUME SegmentsAssumption ==
  /\ Segments \in [Task -> Seq(SUBSET Cell)]
  /\ \A t \in Task :
       /\ Len(Segments[t]) > 0
       /\ \A i, j \in 1..Len(Segments[t]) :
            i # j => Segments[t][i] \cap Segments[t][j] = {}

ASSUME DataAssumption ==
  /\ Priority \in [Task -> 0..2]
  /\ RequiredPayload \in [Task -> Nat]
  /\ PayloadCapacity \in [Robot -> Nat]
  /\ Reports \subseteq Status \X (0..100) \X BOOLEAN
  /\ Failing \subseteq Robot

(* Declared defaults 30 and 15; every release for charging relies on a     *)
(* robot that must charge not being eligible for new work.                 *)
ASSUME ThresholdAssumption ==
  /\ Lookahead \in Nat
  /\ LowBattery \in Nat /\ CriticalBattery \in Nat
  /\ CriticalBattery < LowBattery

VARIABLES
  robots,        \* _robots: registry entry of each registered robot, or None
  queues,        \* _robot_queues: the committed tasks of each robot
  waiting,       \* _waiting_tasks: the pool without an eligible robot
  earlier,       \* _seq: <<u, t>> when u, of t's priority, was scheduled first
  reservations,  \* _reservations: each robot's reservation, or None
  cellOwners,    \* _cell_owners: the robot that holds a cell, or None
  accepted,      \* tasks counted as submitted and not yet as completed
  pc,            \* the loop the running callback is in, "idle" between two
  visit,         \* the robots the loop of _check_traffic has still to visit
  recovered,     \* tasks _recover_robot or _check_battery has still to requeue
  index,         \* the position the loop over _waiting_tasks has reached
  progress       \* the flag of _rebalance's outer loop

registry == <<robots, queues, waiting, earlier, accepted>>
traffic == <<reservations, cellOwners>>
control == <<pc, visit, recovered, index, progress>>
vars == <<registry, traffic, control>>

-----------------------------------------------------------------------------
(* The state a callback reads.                                             *)

Registered(r) == robots[r] # None
Holds(r) == reservations[r] # None
Busy(r) == robots[r].currentTask # None

Eligible(r) ==
  /\ Registered(r)
  /\ robots[r].status = "ONLINE"
  /\ ~robots[r].charging
  /\ robots[r].battery >= LowBattery

Capable(t) == {r \in Robot : Eligible(r) /\ PayloadCapacity[r] >= RequiredPayload[t]}

(* The robots that _select_robot may choose among those capable of t: an   *)
(* idle robot with the shortest queue, or any robot when all are busy.     *)
(* Remaining distance, pose and battery decide between them in the code    *)
(* (module DispatchSelect), and nothing does here.                         *)
Best(t) ==
  LET idle == {r \in Capable(t) : ~Busy(r)}
  IN  IF idle = {} THEN Capable(t)
      ELSE {r \in idle : \A s \in idle : Len(queues[r]) <= Len(queues[s])}

(* max(queue, key = (priority, -seq)): where q has the first of its best   *)
(* tasks, one place unless q is empty.                                     *)
Precedes(t, u) ==
  \/ Priority[t] > Priority[u]
  \/ Priority[t] = Priority[u] /\ <<t, u>> \in earlier

BestIndices(q) ==
  {i \in 1..Len(q) : \A j \in 1..Len(q) :
     /\ ~Precedes(q[j], q[i])
     /\ j < i => Precedes(q[i], q[j])}

CellsOf(t, I) == UNION {Segments[t][i] : i \in I}
(* Mutant: one segment too many.                                           *)
WindowTooLong(t) == {i \in 1..Len(Segments[t]) : i <= Lookahead + 2}
InitialWindow(t) == {i \in 1..Len(Segments[t]) : i <= Lookahead + 1}

(* Mutant: one free cell is enough.                                        *)
ConflictAll(r, cells) == \A c \in cells : cellOwners[c] \notin {None, r}

(* _has_conflict *)
Conflict(r, cells) == \E c \in cells : cellOwners[c] \notin {None, r}

(* Mutant: a task that has left the queues is not looked for.              *)
TaskQueued(t) ==
  (\E r \in Robot : Contains(queues[r], t)) \/ Contains(waiting, t)

TaskExists(t) ==
  \/ \E r \in Robot : Contains(queues[r], t)
  \/ Contains(waiting, t)
  \/ \E r \in Robot : Holds(r) /\ reservations[r].task = t

NeedsCharge(r) == robots[r].charging \/ robots[r].battery <= CriticalBattery

-----------------------------------------------------------------------------
(* The steps callbacks are made of.                                        *)

(* _dispatch_next and _try_dispatch on robot r with its queue q[r]: reserve *)
(* the window of the best task and publish its assignment when the robot   *)
(* is idle and eligible, the window is free and it holds no reservation;   *)
(* otherwise leave the queue as it is.                                     *)
(* Mutants: the window, or the reservation the robot holds, is not checked. *)
CanStartAnyway(r, t) == Eligible(r) /\ ~Busy(r) /\ ~Holds(r)
CanStartAgain(r, t) ==
  Eligible(r) /\ ~Busy(r) /\ ~Conflict(r, CellsOf(t, InitialWindow(t)))

CanStart(r, t) ==
  /\ Eligible(r) /\ ~Busy(r) /\ ~Holds(r)
  /\ ~Conflict(r, CellsOf(t, InitialWindow(t)))

DispatchNext(r, q) ==
  \/ \E i \in BestIndices(q[r]) :
       LET t == q[r][i]
       IN  /\ CanStart(r, t)
           /\ queues' = [q EXCEPT ![r] = RemoveAt(@, i)]
           /\ reservations' = [reservations EXCEPT ![r] =
                [task |-> t, index |-> 1, reserved |-> InitialWindow(t),
                 activated |-> FALSE]]
           /\ cellOwners' = [c \in Cell |->
                IF c \in CellsOf(t, InitialWindow(t)) THEN r ELSE cellOwners[c]]
           /\ robots' = [robots EXCEPT ![r].currentTask = t]
  \/ /\ \A i \in BestIndices(q[r]) : ~CanStart(r, q[r][i])
     /\ queues' = q
     /\ UNCHANGED <<robots, traffic>>

(* _schedule_task; when no robot is capable it has put t in the waiting    *)
(* pool, and also is what its caller adds to the pool after that.          *)
Schedule(t, also) ==
  /\ earlier' = {p \in earlier : p[1] # t} \cup
                {<<u, t>> : u \in {v \in Task \ {t} : Priority[v] = Priority[t]}}
  /\ \/ /\ Capable(t) = {}
        /\ waiting' = Append(waiting, t) \o also
        /\ UNCHANGED <<robots, queues, traffic>>
     \/ \E r \in Best(t) :
          /\ DispatchNext(r, [queues EXCEPT ![r] = Append(@, t)])
          /\ UNCHANGED waiting

(* Mutant: the cells stay owned.                                           *)
ReleaseOnlyReservation(r) ==
  reservations' = [reservations EXCEPT ![r] = None] /\ UNCHANGED cellOwners

(* _release_reservations *)
Release(r) ==
  LET cells == CellsOf(reservations[r].task, reservations[r].reserved)
  IN  /\ reservations' = [reservations EXCEPT ![r] = None]
      /\ cellOwners' = [c \in Cell |->
           IF c \in cells /\ cellOwners[c] = r THEN None ELSE cellOwners[c]]

(* Mutants: the reserved task is left out, or its id read when there is none. *)
QueuedWorkOf(r) == queues[r]
AnyWorkOf(r) == <<IF Holds(r) THEN reservations[r].task ELSE None>> \o queues[r]

(* Both ways of taking all of r's work away: its reservation's task comes  *)
(* before the tasks of its queue.                                          *)
WorkOf(r) == (IF Holds(r) THEN <<reservations[r].task>> ELSE <<>>) \o queues[r]

TakeWork(r) ==
  /\ recovered' = WorkOf(r)
  /\ queues' = [queues EXCEPT ![r] = <<>>]
  /\ IF Holds(r) THEN Release(r) ELSE UNCHANGED traffic

-----------------------------------------------------------------------------
(* Message handlers: each waits for the running callback to end.            *)

(* Mutant: the reservation need not have been activated.                   *)
RegisterNotActivated(r, report, t) ==
  /\ pc = "idle"
  /\ robots' = [robots EXCEPT ![r] =
       [status |-> report[1], currentTask |-> t, fresh |-> TRUE,
        battery |-> report[2], charging |-> report[3],
        cell |-> IF Registered(r) THEN robots[r].cell ELSE None]]
  /\ \/ /\ Holds(r) /\ t = None
        /\ accepted' = accepted \ {reservations[r].task}
        /\ Release(r)
        /\ pc' = "dispatch" /\ progress' = FALSE
        /\ UNCHANGED <<visit, recovered, index>>
     \/ /\ ~(Holds(r) /\ t = None)
        /\ UNCHANGED <<traffic, accepted, control>>
  /\ UNCHANGED <<queues, waiting, earlier>>

(* _registration_callback, with _check_reservation_release: report is what *)
(* the beacon says of its status and battery, t of its current task.       *)
Register(r, report, t) ==
  /\ pc = "idle"
  /\ robots' = [robots EXCEPT ![r] =
       [status |-> report[1], currentTask |-> t, fresh |-> TRUE,
        battery |-> report[2], charging |-> report[3],
        cell |-> IF Registered(r) THEN robots[r].cell ELSE None]]
  /\ \/ /\ Holds(r) /\ reservations[r].task = t
        /\ reservations' = [reservations EXCEPT ![r].activated = TRUE]
        /\ UNCHANGED <<cellOwners, accepted, control>>
     \/ /\ Holds(r) /\ t = None /\ reservations[r].activated
        /\ accepted' = accepted \ {reservations[r].task}
        /\ Release(r)
        /\ pc' = "dispatch" /\ progress' = FALSE
        /\ UNCHANGED <<visit, recovered, index>>
     \/ /\ Holds(r) => /\ reservations[r].task # t
                       /\ t = None => ~reservations[r].activated
        /\ UNCHANGED <<traffic, accepted, control>>
  /\ UNCHANGED <<queues, waiting, earlier>>

(* _pose_callback, for a pose in cell c. *)
Pose(r, c) ==
  /\ pc = "idle" /\ Registered(r)
  /\ robots' = [robots EXCEPT ![r].cell = c]
  /\ UNCHANGED <<queues, waiting, earlier, accepted, traffic, control>>

(* _heartbeat_callback *)
Heartbeat(r) ==
  /\ pc = "idle" /\ Registered(r)
  /\ robots' = [robots EXCEPT ![r].fresh = TRUE, ![r].status = "ONLINE"]
  /\ UNCHANGED <<queues, waiting, earlier, accepted, traffic, control>>

(* More than heartbeat_timeout seconds pass since r was last seen.         *)
Silence(r) ==
  /\ pc = "idle" /\ Registered(r) /\ robots[r].fresh
  /\ robots' = [robots EXCEPT ![r].fresh = FALSE]
  /\ UNCHANGED <<queues, waiting, earlier, accepted, traffic, control>>

(* _task_callback: a duplicate of a task the fleet still has is ignored.   *)
AddTask(t) ==
  /\ pc = "idle" /\ ~TaskExists(t)
  /\ accepted' = accepted \cup {t}
  /\ Schedule(t, <<>>)
  /\ UNCHANGED control

-----------------------------------------------------------------------------
(* The timer callback, _control_loop.                                      *)

Tick ==
  /\ pc = "idle"
  /\ pc' = "heartbeats"
  /\ UNCHANGED <<registry, traffic, visit, recovered, index, progress>>

(* Mutants: the age of the heartbeat is not looked at, or a robot that      *)
(* executes a task is spared.                                              *)
TimedOutEarly(r) == Registered(r) /\ robots[r].status # "OFFLINE"
TimedOutIdle(r) == TimedOutEarly(r) /\ ~robots[r].fresh /\ ~Holds(r)

(* _check_heartbeats finds r silent, and _recover_robot takes its work.    *)
TimedOut(r) == Registered(r) /\ robots[r].status # "OFFLINE" /\ ~robots[r].fresh

RecoverRobot(r) ==
  /\ pc = "heartbeats" /\ recovered = <<>> /\ TimedOut(r)
  /\ TakeWork(r)
  /\ robots' = [robots EXCEPT ![r].status = "OFFLINE", ![r].currentTask = None]
  /\ UNCHANGED <<waiting, earlier, accepted, pc, visit, index, progress>>

HeartbeatsDone ==
  /\ pc = "heartbeats" /\ recovered = <<>> /\ \A r \in Robot : ~TimedOut(r)
  /\ pc' = "battery"
  /\ UNCHANGED <<registry, traffic, visit, recovered, index, progress>>

(* _check_battery takes the work of a robot that must charge.              *)
MustRelease(r) == Registered(r) /\ NeedsCharge(r) /\ WorkOf(r) # <<>>

ReleaseForCharging(r) ==
  /\ pc = "battery" /\ recovered = <<>> /\ MustRelease(r)
  /\ TakeWork(r)
  /\ robots' = [robots EXCEPT ![r].currentTask = None]
  /\ UNCHANGED <<waiting, earlier, accepted, pc, visit, index, progress>>

(* _requeue_task, on the next task of the list: when no robot is capable   *)
(* the task goes to the waiting pool in _schedule_task and again here.     *)
Requeue ==
  /\ recovered # <<>>
  /\ recovered' = Tail(recovered)
  /\ LET t == Head(recovered)
     IN  \/ TaskExists(t) /\ UNCHANGED <<robots, queues, waiting, earlier, traffic>>
         \/ ~TaskExists(t) /\ Schedule(t, <<t>>)
  /\ UNCHANGED <<accepted, pc, visit, index, progress>>

BatteryDone ==
  /\ pc = "battery" /\ recovered = <<>> /\ \A r \in Robot : ~MustRelease(r)
  /\ pc' = "traffic" /\ visit' = {r \in Robot : Holds(r)}
  /\ UNCHANGED <<registry, traffic, recovered, index, progress>>

(* _current_segment_index: the furthest segment the pose is in, and never  *)
(* one before the last it was in.                                          *)
Visited(r) ==
  {i \in 1..Len(Segments[reservations[r].task]) :
     \/ i = reservations[r].index
     \/ robots[r].cell \in Segments[reservations[r].task][i]}

(* _check_traffic on r's reservation: release the segments behind it, then *)
(* reserve those of the window ahead that no other robot holds a cell of.  *)
CheckTraffic(r) ==
  /\ pc = "traffic" /\ r \in visit
  /\ visit' = visit \ {r}
  /\ \E cur \in Visited(r) :
       LET t == reservations[r].task
           kept == {i \in reservations[r].reserved : i >= cur}
           behind == CellsOf(t, reservations[r].reserved \ kept)
           free == {i \in cur..Len(Segments[t]) :
                      i <= cur + Lookahead /\ ~Conflict(r, Segments[t][i])}
           ahead == CellsOf(t, free \ kept)
       IN  /\ \A i \in Visited(r) : i <= cur
           /\ reservations' = [reservations EXCEPT ![r].index = cur,
                                  ![r].reserved = kept \cup free]
           /\ cellOwners' = [c \in Cell |->
                IF c \in ahead THEN r
                ELSE IF c \in behind /\ cellOwners[c] = r THEN None
                ELSE cellOwners[c]]
  /\ UNCHANGED <<registry, pc, recovered, index, progress>>

TrafficDone ==
  /\ pc = "traffic" /\ visit = {}
  /\ pc' = "dispatch" /\ progress' = FALSE
  /\ UNCHANGED <<registry, traffic, visit, recovered, index>>

-----------------------------------------------------------------------------
(* _rebalance: three loops, run again as long as one of them did something. *)

(* 1. Dispatch the next queued task of every robot that can start it.      *)
CanDispatch(r) ==
  \E i \in BestIndices(queues[r]) : CanStart(r, queues[r][i])

Dispatch(r) ==
  /\ pc = "dispatch" /\ CanDispatch(r)
  /\ DispatchNext(r, queues)
  /\ progress' = TRUE
  /\ UNCHANGED <<waiting, earlier, accepted, pc, visit, recovered, index>>

(* Mutant: the loop over the waiting pool starts at its second task.       *)
DispatchDoneSkipping ==
  /\ pc = "dispatch" /\ \A r \in Robot : ~CanDispatch(r)
  /\ pc' = "waiting" /\ index' = 2
  /\ UNCHANGED <<registry, traffic, visit, recovered, progress>>

DispatchDone ==
  /\ pc = "dispatch" /\ \A r \in Robot : ~CanDispatch(r)
  /\ pc' = "waiting" /\ index' = 1
  /\ UNCHANGED <<registry, traffic, visit, recovered, progress>>

(* 2. Commit the waiting tasks that have a capable robot by now.  The code *)
(* collects the others and stores the list after the loop; nothing reads   *)
(* it before.                                                              *)
PlaceWaiting ==
  /\ pc = "waiting" /\ index <= Len(waiting)
  /\ LET t == waiting[index]
     IN  \/ /\ Capable(t) = {}
            /\ index' = index + 1
            /\ UNCHANGED <<registry, traffic, progress>>
         \/ \E r \in Best(t) :
              /\ DispatchNext(r, [queues EXCEPT ![r] = Append(@, t)])
              /\ waiting' = RemoveAt(waiting, index)
              /\ progress' = TRUE
              /\ UNCHANGED <<earlier, accepted, index>>
  /\ UNCHANGED <<pc, visit, recovered>>

WaitingDone ==
  /\ pc = "waiting" /\ index > Len(waiting)
  /\ pc' = "steal" /\ index' = 1
  /\ UNCHANGED <<registry, traffic, visit, recovered, progress>>

(* 3. An idle robot with an empty queue takes the best queued task of the  *)
(* busy robot with the longest queue, and the loops start again.           *)
(* Mutant: an idle robot donates as well.                                  *)
CanDonateIdle(d) ==
  /\ queues[d] # <<>> /\ Registered(d)
  /\ PayloadCapacity[d] >= RequiredPayload[queues[d][1]]

CanDonate(d) ==
  /\ queues[d] # <<>>
  /\ Registered(d) /\ Busy(d)
  /\ PayloadCapacity[d] >= RequiredPayload[queues[d][1]]

Donors(r) ==
  LET able == {d \in Robot \ {r} : CanDonate(d)}
  IN  {d \in able : \A e \in able : Len(queues[e]) <= Len(queues[d])}

CanSteal(r) == Eligible(r) /\ ~Busy(r) /\ queues[r] = <<>> /\ Donors(r) # {}

Steal(r) ==
  /\ pc = "steal" /\ CanSteal(r)
  /\ \E d \in Donors(r) : \E i \in BestIndices(queues[d]) :
       DispatchNext(r, [queues EXCEPT ![d] = RemoveAt(@, i), ![r] = <<queues[d][i]>>])
  /\ pc' = "dispatch" /\ progress' = FALSE
  /\ UNCHANGED <<waiting, earlier, accepted, visit, recovered, index>>

StealDone ==
  /\ pc = "steal" /\ \A r \in Robot : ~CanSteal(r)
  /\ pc' = IF progress THEN "dispatch" ELSE "idle"
  /\ progress' = FALSE
  /\ UNCHANGED <<registry, traffic, visit, recovered, index>>

-----------------------------------------------------------------------------
Init ==
  /\ robots = [r \in Robot |-> None]
  /\ queues = [r \in Robot |-> <<>>]
  /\ waiting = <<>>
  /\ earlier = {}
  /\ reservations = [r \in Robot |-> None]
  /\ cellOwners = [c \in Cell |-> None]
  /\ accepted = {}
  /\ pc = "idle"
  /\ visit = {}
  /\ recovered = <<>>
  /\ index = 1
  /\ progress = FALSE

(* What the rest of the system does to the node.                           *)
Message ==
  \/ \E r \in Robot, report \in Reports, t \in Task \cup {None} : Register(r, report, t)
  \/ \E r \in Robot, c \in Cell : Pose(r, c)
  \/ \E r \in Robot : Heartbeat(r)
  \/ \E r \in Failing : Silence(r)
  \/ \E t \in Task : AddTask(t)

(* The next step of the running callback.                                  *)
Callback ==
  \/ \E r \in Robot : RecoverRobot(r) \/ ReleaseForCharging(r)
  \/ HeartbeatsDone \/ Requeue \/ BatteryDone
  \/ \E r \in Robot : CheckTraffic(r)
  \/ TrafficDone
  \/ \E r \in Robot : Dispatch(r) \/ Steal(r)
  \/ DispatchDone \/ PlaceWaiting \/ WaitingDone \/ StealDone

Next == Message \/ Tick \/ Callback

Spec == Init /\ [][Next]_vars

(* A callback that has started runs on, and the executor, which serves a   *)
(* timer that is due before any message, starts the timer's again.         *)
FairSpec == Spec /\ WF_vars(Callback) /\ SF_vars(Tick)

-----------------------------------------------------------------------------
(* Properties.                                                             *)

(* Every variable keeps its type: the shape of _robots, _robot_queues,     *)
(* _waiting_tasks, _reservations and _cell_owners.                         *)
TypeOK ==
  /\ robots \in [Robot -> Entry \cup {None}]
  /\ queues \in [Robot -> Seq(Task)]
  /\ waiting \in Seq(Task)
  /\ earlier \subseteq Task \X Task
  /\ reservations \in [Robot -> Reservation \cup {None}]
  /\ cellOwners \in [Cell -> Robot \cup {None}]
  /\ accepted \subseteq Task
  /\ pc \in {"idle", "heartbeats", "battery", "traffic", "dispatch", "waiting", "steal"}
  /\ visit \subseteq Robot
  /\ recovered \in Seq(Task)
  /\ index \in Nat \ {0}
  /\ progress \in BOOLEAN

CellsHeld(r) ==
  IF Holds(r) THEN CellsOf(reservations[r].task, reservations[r].reserved) ELSE {}

(* _cell_owners and _reservations, updated cell by cell on every dispatch, *)
(* traffic tick, completion and recovery, always agree: no cell stays      *)
(* owned after its reservation is gone, and none that a reservation counts *)
(* as reserved is free or another robot's.                                 *)
OwnersMatchReservations ==
  \A r \in Robot, c \in Cell : cellOwners[c] = r <=> c \in CellsHeld(r)

(* Two robots never hold the same segment, nor two segments of different   *)
(* routes that share a cell, at once.                                      *)
ExclusiveSegments ==
  \A r, s \in Robot : r # s => CellsHeld(r) \cap CellsHeld(s) = {}

(* A robot holds no segment behind the one it is in and none beyond its    *)
(* lookahead, whatever poses it reports and whoever blocked it meanwhile.  *)
WindowAhead ==
  \A r \in Robot : Holds(r) =>
    LET res == reservations[r]
    IN  /\ res.index \in 1..Len(Segments[res.task])
        /\ \A i \in res.reserved : res.index <= i /\ i <= res.index + Lookahead
        /\ \A i \in res.reserved : i <= Len(Segments[res.task])

(* A task the fleet has accepted stays in a queue, in the waiting pool, in *)
(* a reservation, or on the list of the recovery that is running, until    *)
(* its completion is counted: no dispatch, recovery, release for charging  *)
(* or rebalancing drops it.                                                *)
NoTaskLost ==
  \A t \in accepted : TaskExists(t) \/ Contains(recovered, t)

(* A reservation ends only after the robot was seen executing its task, or *)
(* by the recovery of a robot that fell silent, or by the release of one   *)
(* that must charge.                                                       *)
EndsForAReason(r) ==
  Holds(r) /\ ~Holds(r)' =>
    \/ reservations[r].activated
    \/ pc = "heartbeats" /\ ~robots[r].fresh
    \/ pc = "battery" /\ NeedsCharge(r)

ReservationsEndForAReason == [][\A r \in Robot : EndsForAReason(r)]_vars

(* A robot is never given a second reservation while it holds one, not     *)
(* even when a registration older than the assignment has cleared the      *)
(* current_task that _try_dispatch had set.                                *)
ReservationsAreKept ==
  [][\A r \in Robot : Holds(r) /\ Holds(r)' =>
       /\ reservations'[r].task = reservations[r].task
       /\ reservations'[r].index >= reservations[r].index]_vars

(* When _rebalance returns nothing it could still do is left: no robot can *)
(* start its next queued task, no waiting task has a capable robot, and no *)
(* idle robot can take over queued work, although each of its three loops  *)
(* can make work for the others.                                           *)
Settled ==
  /\ \A r \in Robot : ~CanDispatch(r) /\ ~CanSteal(r)
  /\ \A i \in 1..Len(waiting) : Capable(waiting[i]) = {}

RebalanceSettles == [][pc = "steal" /\ pc' = "idle" => Settled']_vars

(* Every callback returns: the loops of _rebalance, each of which can make *)
(* the others run again, do not pass tasks between robots for ever.        *)
CallbackReturns == pc # "idle" ~> pc = "idle"

(* The cells are a lock: a cell only ever passes from free to a robot and  *)
(* from that robot back to free.                                           *)
Lock == INSTANCE CellLock WITH owner <- cellOwners
LockSpec == Lock!Spec

(* A task is in at most one place, once: in the queue or the reservation   *)
(* of one robot, in the waiting pool, or on the list being requeued.       *)
SinglePlace ==
  /\ IsInjective(waiting) /\ IsInjective(recovered)
  /\ \A r \in Robot : IsInjective(WorkOf(r))
  /\ \A t \in Task : ~(Contains(waiting, t) /\ Contains(recovered, t))
  /\ \A r \in Robot, t \in Task : Contains(WorkOf(r), t) =>
       /\ ~Contains(waiting, t) /\ ~Contains(recovered, t)
       /\ \A s \in Robot \ {r} : ~Contains(WorkOf(s), t)

(* A task never holds more than one reservation: it is never dispatched to *)
(* two robots at once.                                                     *)
OneReservationPerTask ==
  \A r, s \in Robot :
    r # s /\ Holds(r) /\ Holds(s) => reservations[r].task # reservations[s].task

(* A robot that stays silent loses all the work committed to it.           *)
SilentRobotsRecovered ==
  \A r \in Robot :
    <>[](Registered(r) /\ ~robots[r].fresh) => []<>(Registered(r) /\ WorkOf(r) = <<>>)

=============================================================================
