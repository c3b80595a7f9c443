# Warehouse digital twin: specification and proofs

TLA+ modules for the warehouse digital twin. The core is the node that gives tasks to
robots and keeps them apart (`fleet_manager_node.py`), the nodes that execute the tasks,
the beacons that report back, and the topics between them. Around it are the nodes of one
robot (goals, planner, drive, battery, package), the bridge to the backend with the
backend's ingest, database, services and logins, what the control center derives and
shows, and analytics. TLC checks the modules on small instances; TLAPS proves the main
results for any number of robots, tasks and cells.

Source paths below are relative to `src/`; `W/` stands for
`ros2_ws/src/warehouse_bringup/warehouse_bringup/` and `B/` for `backend/backend/`. Line
numbers without a file name are of `W/fleet_manager_node.py`.

- [1. The system](#1-the-system)
- [2. Modules](#2-modules)
- [3. Runs, bounds and what they show](#3-runs-bounds-and-what-they-show)
- [4. Fairness](#4-fairness)
- [5. Proofs](#5-proofs)
- [6. Divergences between code and documentation](#6-divergences-between-code-and-documentation)
- [7. What is not modelled](#7-what-is-not-modelled)
- [8. Plan](#8-plan)

To repeat the checks:

    tlc -config MCFleet_traffic.cfg MCFleet
    tlapm FleetManagerProofs.tla

and likewise for each `.cfg` and each `*Proofs.tla`.

## 1. The system

A ROS 2 workspace simulates a warehouse with several robots; a FastAPI backend keeps
its history. Per robot there are a task manager, a planner, a controller, an obstacle
monitor and a status beacon; for the fleet there are the fleet manager, the control
center, analytics, the carriers of the simulated cargo, and the bridge to the backend.

    operator / control center --/add_task--> fleet manager
    fleet manager --/task_assignment, /cancel_task--> task manager of each robot
    control center --/cancel_task, /task_assignment--> task managers (past the fleet)
    task manager --/<robot>/task_state--> beacon, cargo carriers
    task manager --goal--> planner --path--> controller --cmd_vel--> robot
    beacon --/robot_registration, heartbeat, pose--> fleet manager
    fleet manager --/fleet_status, /reservation_status, ...--> control center,
                    analytics, bridge --HTTP--> backend --/add_task...--> bridge

Each node is a Python process with a single-threaded executor: a callback is never
interrupted by another of its node. The hard behaviours are stale reports, messages of two
topics that overtake each other, robots that fall silent and come back, and one
callback whose loops each change what the others loop over. Two processes have threads of
their own: the control center serves HTTP commands beside its callbacks, and the backend
serves requests in a pool beside its services, where every statement of the repository is
a transaction of its own.

| Component | State | Operations | What makes it correct | Here |
|---|---|---|---|---|
| Fleet manager (`W/fleet_manager_node.py`) | registry `_robots`, queue per robot, waiting pool, one reservation per robot, `_cell_owners` | registration, pose, heartbeat, task callbacks; 1 Hz timer: heartbeats, battery, traffic, rebalancing | no two robots hold a cell; no task lost, none in two places; a reservation ends for a reason; rebalancing ends, with nothing left to do | `FleetManager`, `CellLock`, `DispatchSelect` |
| Routes and segments (832-958) | none | rasterize a line, cut it, find the segment of a pose | a pose on the route is in a segment of it; segments partition the route | `Route` |
| Task manager (`W/task_manager_node.py`) | task list with status, index of the active one, state | assignment, cancel, 2 Hz timer | the index follows the active entry; never idle with work | `TaskManager` |
| Status beacon (`W/robot_status_publisher.py`) | last task heard, battery, charging, restart timer | state, battery and control callbacks, 1 Hz timer | what it announces is what the robot does, late at most; a restart ends; a robot that must charge gets there | `Beacon`, `RobotStack`, `FleetSystem` |
| Fleet, task managers and beacons together | topics in flight | | one executor per task; what is counted complete is complete; every accepted task completes | `FleetSystem` |
| One robot's nodes together | goals in flight | | the goal driven to is the task's while there is one; packages lie where they belong | `RobotStack` |
| Planner (`W/planner_node.py`) | map, goal | A*, replanning | shortest path that keeps clear of obstacles, if there is one | `Planner`, `RobotStack` |
| Controller, obstacle monitor, simulated world | path, last command, blocked | three timers | stops before an obstacle | `Corridor` |
| Bridge (`W/backend_ingest_node.py`) | last messages, assignments known, token | batch tick, relay tick | a backend task is published once; what happened arrives | `Bridge`, `Access` |
| Backend ingest and repository (`B/ingest.py`, `B/repository.py`) | tables of robots, tasks, histories, sessions | batches, transitions derived from the previous rows, REST handlers | completions are recorded; sessions are paired; the rows catch up | `Ledger` |
| Backend services (`B/services.py`) | jobs, pauses | heartbeat verification, cleanup, archive | a robot that is back is online; archived once | `Services`, `Retention` |
| Logins and tokens (`B/auth.py`, `B/rate_limit.py`) | token rows, secret, counters | login, verify, logout | clients get in again after expiry, restart and refusal | `Access` |
| Control center (`W/control_center_node.py`) | alerts, tracked tasks, settings, manual drive | some 25 commands, callbacks, supervisor and drive timers | alerts follow conditions; a completion stays; settings shown are in force; no runaway robot | `Operator`, `Alerts`, `Tracks`, `Settings` |
| Analytics (`W/analytics_node.py`) | counters, rolling samples | fleet and reservation messages | no task counted before it is over, nor twice, if its mark stays until then | `Analytics` |
| Cargo (`W/package_carrier_node.py`, `W/cube_carrier_node.py`) | what is attached | attach and detach by task state | a package is placed at the dropoff | `RobotStack` |
| Localization, dashboards, web, launch | | | | not modelled: continuous geometry, read-only views, start-up |

## 2. Modules

| Module | Stands for | Kind |
|---|---|---|
| `CellLock` | what reservations promise of each cell | abstract specification |
| `FleetManager` | `W/fleet_manager_node.py` | component |
| `DispatchSelect` | `_select_robot`, `_estimate_eta` | choice as operators, with registrations as steps |
| `Route` | `_route_cells_ordered`, `_partition_segments`, `_current_segment_index` | algorithm, one turn of the sampling loop as a step, then the drive |
| `TaskManager` | `W/task_manager_node.py` | component |
| `FleetSystem` | fleet manager, task managers, beacons, operator, topics | composition: EXTENDS `FleetManager`, INSTANCE `TaskManager`; refines `TaskLife` |
| `TaskLife` | what the system promises of each task | abstract: accepted, executed once, counted |
| `Beacon` | `W/robot_status_publisher.py` | component |
| `RobotStack` | task manager, beacon, home publisher, planner, controller, package carrier | composition: EXTENDS `Beacon`, INSTANCE `TaskManager` |
| `Planner` | `_compute_path` of `W/planner_node.py` | algorithm, one turn of the loop as a step, against a reference |
| `Corridor` | controller, obstacle monitor, simulated world | composition of three timers |
| `Ledger` | ingest, repository, REST handlers, heartbeat verification | component |
| `Bridge` | `W/backend_ingest_node.py` over `Ledger`, with the fleet it observes | composition: EXTENDS `Ledger` |
| `Services` | heartbeat verification and the clients of the rows of robots | composition: EXTENDS `Ledger` |
| `Retention`, `Access` | cleanup and archive; logins and tokens | components |
| `Operator`, `Alerts`, `Tracks`, `Settings` | four parts of `W/control_center_node.py` | components |
| `Analytics` | `W/analytics_node.py`, over what the fleet manager publishes of a robot | component, with its environment |
| `FleetManagerProofs`, `TaskManagerProofs`, `FleetSystemProofs`, `RobotStackProofs`, `CorridorProofs`, `RouteProofs` | each the module of its name | theorems |
| `BackendProofs` | `Bridge`, `Services`, `Retention` | theorems |
| `FloorProofs` | `DispatchSelect`, `Planner`, `Operator`, `Analytics`, `Tracks`, `Settings` | theorems |
| `MCFleet`, `MCSystem`, `MCProgress`, `MCRobot`, `MCBridge`, `MCFloor`, `MCOffice` | | instances for TLC |

### FleetManager

State, action and property names are those of the code where there is one:
`queues` is `_robot_queues`, `waiting` is `_waiting_tasks`, `cellOwners` is
`_cell_owners`. What needs explaining:

- **A callback with loops is several actions.** The registration callback (when it
  releases) and the timer callback go from robot to robot and publish on the way, so
  other nodes see the states in between. `pc` names the loop, `recovered` is the
  local list of tasks still to be requeued, `visit`, `index` and `progress` are the
  loop variables. Every message handler has `pc = "idle"` as its guard, which is the
  single-threaded executor. Straight-line handlers are one action.
- **Loops over robots are unordered.** Dictionaries iterate in order of insertion,
  so the code's behaviours are among the model's. `HeartbeatsDone`, `BatteryDone` and
  `DispatchDone` leave a loop when it has nothing more to do; each robot can be
  handled once in a pass, as in the code, because handling it disables the condition.
- **`earlier`** stands for the sequence numbers `_seq` (each `_schedule_task` gives
  the task the next one, also when a task is requeued). Queues compare them only
  within a priority, so the relation "scheduled before, of the same priority" is all
  that is kept, and the model stays finite.
- **`accepted`** is the set of tasks counted in `_tasks_submitted` and not yet in
  `_tasks_completed`.
- **`Best`** over-approximates `_select_robot`: among idle capable robots one with the
  shortest queue, any capable one if all are busy. `DispatchSelect` has the full key
  and checks that its choice is always within `Best` (`WithinBest`).
- **A reservation** has the segment index reached, the segments reserved and the flag
  `activated`. Cells are opaque and `Segments[t]` is the route of `t` cut in segments;
  a route is a straight line, so no cell is in two segments (`SegmentsAssumption`; `Route`
  derives it, as `RouteIsUnbroken`).
- **The environment**: `Reports` is the set of (status, battery, charging) a beacon may
  send, with any current task, at any moment; `Pose` puts a robot in any cell;
  the robots of `Failing` may fall silent for longer than the timeout (`fresh`).
- `_retry_tasks` is never appended to by any code path, so `_process_retry_tasks` does
  nothing and has no action.

### TaskManager

One action per callback, for any number of robots. Where the robot is, and whether a
delay has passed, is open: a timer callback may only publish (`Report`), go to the next
state (`Advance`) or finish the task (`Complete`). `told` is the last published state.
The timer callback publishes first and changes state afterwards; the published state is
the one before the change, as in the code. `_insert_idx` is the position in the list.

### FleetSystem

Topics are sequences per receiver (`assignments`, `cancels`) or, for periodic reports, the
last message only (`told`, `announced`): a missed report is one the next replaces.
Nothing orders one topic against another. The fleet manager's publications are derived
from its step (`Publish`): an assignment for each new reservation, and cancels for the
work of a robot that must charge; a heartbeat recovery sends no cancel, as in the code.
`OperatorCancel` is the control center's command, of which the fleet manager is not told.
`FallSilent` is a beacon whose messages are held up for longer than the timeout.
`taken` is a history variable: from which robots, in which loop of the timer callback, work was
taken back. The properties of the composition speak of it, since `_recover_robot` gives a silent
robot's task to another one without telling the first.

`TaskLife` is the life of a task as a user of the fleet sees it. `FleetSystem` maps to it: `open`
is `accepted`, `runs` the robots whose task managers have the task active, `over` the tasks still
reserved whose assignment has arrived and that nobody executes any more, `disturbed` whether
anything is in `taken`. So `Accept` is `_task_callback`, `Begin` the task manager's
`_assignment_callback`, `End` its control loop or a cancel, `Count` the release of
`_check_reservation_release`; choosing, dispatching and every message between are stutters.

### DispatchSelect and Route

`DispatchSelect` has the key of `_select_robot` as a tuple, the order of Python's tuples,
and the stable sort: robots that register are appended to the list, and the choice is the
first least element. Lengths are metres, and every robot has a speed of 1 m/s. `999.0`
stands for no pose and, as in the code, for the distance 0.

`Route` computes in integers what the code computes in floating point: coordinates are in
parts of a cell, sampled points are multiplied by the number of samples, and `Floored` and
`Truncated` are the two ways in which the code comes from a coordinate to a cell. `Sample` is one
turn of the loop that builds the route; `Drive` follows when the route is complete.

### Beacon and RobotStack

A tick of the beacon (`ControlLoop`) takes what its sensors say as a parameter: on its own,
`Beacon` allows any readings; `RobotStack` gives it those of the robot. `Level` to
`UpdateBattery` are `_update_battery`; the battery counts in steps of one tick.

`RobotStack` is about the one topic on which three nodes send goals. `goals` holds what is
on its way from each of them, `goal` what the planner has, `path` where the controller
drives. The map is a few places with `Road` between any two, and the obstacle monitor may
hold the robot up for as long as the fairness allows. A reboot does not touch the nodes'
goals and is left to `Beacon`.

### Corridor and Planner

`Corridor` is the drive along a path in one dimension. The controller changes its speed by
at most one step a tick, the monitor forwards the last command or zero, the simulated world
moves the robot and scans. `ticks` counts the ticks of the world since the last of the
other two timers; `Ticks` bounds how many fall between. Obstacles and a lidar that fails
come from Gazebo, outside the code, and are external.

`Planner` is `_compute_path`: `Start` moves start and goal to drivable cells, `Expand` is one turn
of the loop, `Finish` a return. The heap is the set of its
entries with the least of them popped (`Popped`), stale entries included. Lengths are in thousandths
of a cell, a step rounded up and `Heuristic`, the root of `Squared`, down: the code's distance to the goal never
falls by more than the length of a step, and so does the model's. With both rounded to the nearest it
would not, and A* would lose a property that the code has.

### Ledger, Bridge and Services

`Ledger` writes the repository's statements as functions from tables to tables, and a
handler as the steps between which another thread may run: a batch is read against the
previous rows (`Receive`), stored (`Store`), and compared (`Derive`). A statement is written for
all the rows of its batch at once; of several entries of a task the last one stays. `Restart` kills the
process between any two; the tables remain. Of a robot's row the columns are kept that
transitions are derived from, of a history what is counted.

`Bridge` is single-threaded and blocks while it waits for an answer: `waiting` says for what.
`IngestTick` posts, and `Answered` posts again, as the code does (340 and 344 of
`W/backend_ingest_node.py`). `TimeOut` gives up on a request that may go on in the backend.
The fleet it observes is a small environment: assign, start, finish, take back.

`Services` puts the heartbeat verification, in the two steps between which a batch may be
stored, beside batches, an operator and restarts. Time is the flag `fresh` of a row.

### Retention and Access

A row of events is absent, young, old or deleted; the archive copies in one commit and deletes in
another. `Access` has two clients, the bridge and an operator, the rows of tokens with the
secret that signed them, and the counter of the rate limiter. A client that is refused, or
whose request fails, drops its token, as `_post` does.

### Operator, Alerts, Tracks, Settings, Analytics

`Operator`: each command is a thread that changes the state under the lock and publishes
after it (`Begin`, `Publish`, `FinishCommand`), beside the drive timer, which publishes under
the lock, and the obstacle monitor, which publishes on the same topic.

`Alerts`: one robot's alerts as a set of types. `OnFleet` and the other callbacks raise and
clear on changes; `SupervisorTick` on conditions, whose time-outs are three-valued clocks.

`Tracks`: the entry of one task in `_tasks`. Assignments are a queue; of what is published
periodically, the message not yet taken is kept. Topics overtake each other; a command publishes,
and writes the entry in a later step.

`Settings`: per node the value shown, the parameter, and the pending calls. `TakeAnswer` is
the callback with its late-bound `client`.

`Analytics`: the entry of one robot and its reservation (`robot`), the callbacks of the fleet manager that
write or publish them, and `_fleet_callback` and `_reservation_callback`, which count from what is
published. `_try_dispatch` only marks the entry; the timer, a task submitted, or a registration of another robot
publishes it (`PublishFleetStatus`). A registration names any task that the robot may have in its list
(`RegisterTask`), or none (`RegisterNone`), which may be older than the assignment and then clears the
mark while the reservation stays. Recoveries and releases for charging take the task back (`TakeBack`), while the
robot keeps it, and may name it once more. `ended` and `cleared` are history: tasks that the robot has named and then
no more, and marks that were cleared before that.

## 3. Runs, bounds and what they show

| Run | Instance | Properties | Shows |
|---|---|---|---|
| `traffic` | 2 robots, 2 tasks, head-on routes of 4 one-cell segments, lookahead 1 | `OwnersMatchReservations`, `ExclusiveSegments`, `WindowAhead`, `SinglePlace`, `LockSpec`, `ReservationsAreKept` | windows slide, block and jump (a pose may be several segments ahead), and never overlap |
| `recovery` | 2 robots, both may fail, 2 tasks of different priority, 1 crossing, batteries 100, 20 and 10 charging | `TypeOK`, `NoTaskLost`, `ReservationsEndForAReason`, `RebalanceSettles` | failures and charging of either robot at any point of any callback, 2.0 million states |
| `troubles` | 2 robots, 1 task submitted twice, 1 silence or cancel | `OneExecutor`, `OneTaskPerManager`, `CompletionIsTrue`, `LifeSpec` | delays and cancels never let two robots execute a task, unless work was taken back; a completion that is counted was one, unless the task was cancelled there, also when robots fall silent; a task lives as `TaskLife` has it, until work is taken back |
| `progress` | two parts: the fleet manager with 2 robots, one may fail, 2 tasks; and the system with 1 robot that runs, 2 tasks submitted twice, no trouble, fair nodes | `CallbackReturns`, `SilentRobotsRecovered`, `EveryTaskCompletes` | rebalancing always ends; a robot that stays silent loses its work; every accepted task is completed and counted |
| `history` | 1 robot, 1 task, 2 requests at a time, 1 fault or intervention | `RelayedOncePerLife`, `CompletionsAreRecorded`, `PendingIsRelayed`, `LedgerCatchesUp` | lost, late and repeated requests, a crash of either side, an operator: the task is relayed, and its completion reaches the database |
| `robot` | 1 robot, 1 task run twice, 3 battery levels, 1 command, with and without a home goal; and the beacon alone | `BegunEnds`, `IdleRobotCharges`, `PackageDelivered` | three publishers of goals do not keep a task from ending |
| `floor` | seven parts, below | nine | |
| `office` | six parts, below | seven | |
| `duplicate` | as `recovery`, one failing robot | violates `OneReservationPerTask` | section 6 |
| `charging` | as `robot` | violates `CriticalCharges` | section 6 |
| `settings` | the part of `office` | violates `EveryAnalyticsViewAgrees` | section 6 |
| `counting` | the part `analytics` of `floor` | violates `FlickersFiltered` | section 6 |

Parts of `floor` and `office` share no state, and those of `progress` are never mixed: a behaviour belongs to one part, chosen in the
initial state, and the other parts' variables stand still. One run then answers several
small questions, each on its own instance.

| Part | Instance | Properties |
|---|---|---|
| `lists` | 1 task manager, 3 tasks of 3 priorities, lists of up to 4 | `ActiveIsActive`, `NeverIdleWithWork` |
| `choice` | 2 candidates, idle or busy, 3 queues, 3 distances, 2 batteries | `WithinBest` |
| `routes` | 2 pickups, all dropoffs of a 10 by 10 grid around the origin, cells of 2 units, segments of 2 cells | `RouteIsUnbroken`, `OccupiesItsSegment` |
| `paths` | 4 by 3 cells, every subset of 4 obstacles, clearance 0 and 1, all starts and goals, one of them off the map | `PathIsShortest` |
| `corridor` | goal at cell 10, speeds up to 3, cut to 2 by the world, 2 ticks between timers, obstacles anywhere ahead | `StopsInTime` |
| `operator` | 2 threads, all commands | `NoRunaway` |
| `analytics` | routes of 1 and 3 segments, windows 1 and 2, 2 tasks, given again and again, 3 ends or cleared marks | `CountedTasksEnded` |
| `robots` | 1 robot, 1 request, 2 changes of the fleet's view, 1 intervention or restart | `SessionsArePaired`, `RobotsOnlineAgain` |
| `events` | 2 rows, 2 deaths | `ArchivedOncePerLife` |
| `access` | 3 tokens, 2 logins a minute, no configured secret, 2 restarts or failures | `ReportsAgain` |
| `alerts` | 5 entries of the fleet, 3 traffic messages, any order | `EveryAlertSettles` |
| `tracks` | 2 robots, 1 command | `EveryCompletionStays` |
| `settings` | 3 values, one of them rejected, 3 edits and restarts | `EveryFleetViewAgrees` |

Why the bounds are enough. The fleet manager's conflicts are between pairs of robots and
pairs of tasks, and two of each give every case of them (blocked window, queue of two,
stealing, requeueing on the other robot while the first is still being examined). Four
segments with a lookahead of one leave room for a window to slide, to be blocked in the
middle and to be released behind. Batteries are one value for each side of the two
thresholds; a battery of three steps is full, half and critical. A list of four entries
holds a task twice and two others. The rows of different robots, and of different tasks,
are written independently, and so are the alerts of different robots and the tracks of
different tasks, so one of each has every interleaving of its writers. In `history` two
requests are what is needed for a late one to overlap with the next, and one fault at every
point of the task's life meets every handler. The grid of `routes` has ways
of every slope on both sides of the axes. The maps of `paths` have a bend, a dead end and a
goal that cannot be reached. Robots are symmetric in `traffic` and `recovery` (no property
is about liveness there).

`floor`, `office` and `counting` do not check deadlock: candidates are all registered, a route ends, a
search returns, services and edits come to their bounds. Every other run checks it.

Bounds on counters: `MaxEntries` (length of a task manager's list, which the code
never shortens by itself), `MaxRuns` (runs of one task), `MaxTroubles` (silences and
cancels), `MaxRows` (rows of one kind told apart), `MaxFaults`, `MaxChanges`, `MaxUpsets`,
`MaxDeaths`, `MaxIncidents`, `MaxEdits`, `MaxCommands` (faults, interventions and commands)
and `MaxCounts` (tasks of a robot that are over, and marks cleared). `MaxEntries` is large enough in the runs of `MCSystem`, `MCProgress` and
`MCRobot` for everything the other bounds allow, or ends the work there; `Access` uses
tokens again that nobody holds.

Every property of a passing run has a mutant in `PROJECT.json`: a definition of the model
replaced by one with a plausible bug, which TLC finds by that property.

## 4. Fairness

`FleetManager!FairSpec`: `WF_vars(Callback)`, because a callback that has started runs on,
and `SF_vars(Tick)`, because the timer's action is disabled while a registration's
callback runs. The executor of rclpy serves a due timer before waiting subscriptions, so
registrations cannot starve it.

`FleetSystem!Fairness`: each node serves its timer and each of its subscriptions again
and again (weak fairness; strong where the fleet manager's callbacks disable the step in
between), and a robot that drives or handles a package is done some time.
`SilentRobotsRecovered` and `CallbackReturns` use nothing else. `EveryTaskCompletes` also
uses `Timely`: picking lasts `pickup_delay`, 2 s (`W/task_manager_node.py:29`), while the
state is published every 0.5 s and the registration every 1 s, so that a registration
that names the task reaches the fleet before the robot drives on. Without it TLC finds
that a task that is over between two registrations is never activated and therefore never
released: the robot stays committed to it for ever. `pickup_delay` is a parameter, and
nothing in the code ties it to the registration's period.

`RobotStack!RobotFairness`: the timers of task manager and beacon, the arrival of goals, replanning,
and a drive that gets on (strong: `Timely` disables it in between). Its `Timely` says that the
task manager's goal, published twice a second, reaches the planner before the robot has gone
from one place to another, and that a package is attached or placed within the two seconds of
picking and dropping; `Drive` has no such bound. `Beacon!BeaconFairness`: the timer, and time.

`Bridge!Fairness`: the bridge's two timers and subscriptions (strong, since it hears nothing while it waits),
an answer or a time-out for each request, and the backend's threads. Neither the fleet, the
operator nor any fault is under an obligation. A request that is lost on its way is a tick that
has not happened; that ticks happen again and again says that a lost connection comes back.

`MCProgress` states the first two again, and the parts of `office` the fairness of their timers in `MCOffice`, each conjoined with its
part, so that it asks nothing in the behaviours of others: reports of robots and batches; the
bridge's login (strong, since the limiter stops it between two minutes) and requests; the supervisor
timer; the periodic topics and the threads of commands; the refresh timer, the parameter services and an
operator who starts a stopped node again. The heartbeat verification gets none, since it may be paused.

## 5. Proofs

All theorems hold for any sets of robots, tasks, cells, rows and requests, any routes that satisfy
`SegmentsAssumption`, any reports, and any lookahead. The assumptions are the named `ASSUME`s of
the modules that the proof modules extend; TLC evaluates them in the runs. The bounds on crashes,
restarts, interventions and tasks are constants, and the theorems hold for every value of them.

| Theorem | States |
|---|---|
| `FleetManagerProofs!Invariant`, `TypeCorrect`, `OwnersAgree`, `WindowsAhead` | `IInv` and its parts |
| `Exclusive` | `Spec => []ExclusiveSegments` |
| `ReservationsKept` | `Spec => ReservationsAreKept` |
| `ImplementsLock` | `Spec => LockSpec`, the refinement of `CellLock` |
| `TasksKept` | `Spec => []NoTaskLost` |
| `EndsForReason` | `Spec => ReservationsEndForAReason` |
| `SettlesBeforeReturn` | `Spec => RebalanceSettles` |
| `TasksInOnePlace` | `NoTroubles => (Spec => []SinglePlace)` |
| `OneReservation` | `NoTroubles => (Spec => []OneReservationPerTask)` |
| `CallbacksEnd` | for a finite `Robot`: `Spec => [][Callback => <<WorkLeft', WorkLeft>> \in Less]_vars`, and `Less` is well-founded |
| `WorkForTheFit` | `Spec => [][GivenToTheFit]_vars` |
| `SilentLoseWork` | `NoneOffline => (Spec => []SilentHaveNothing)` |
| `TaskManagerProofs!TMTypeCorrect`, `ActiveIndexed`, `NoIdleWork` | the invariants of `TaskManager` |
| `FleetSystemProofs!SysInvariant` | the invariant of the composition |
| `ImplementsFleet`, `ImplementsManagers` | `SysSpec => Spec`, `SysSpec => TMSpec` |
| `SystemIsSafe`, `SystemReservations` | the fleet manager's safety in the whole system |
| `OneTaskEach` | `SysSpec => []OneTaskPerManager` |
| `ExecutedOnce` | `SysSpec => []OneExecutor` |
| `CompletionsAreTrue` | `SysSpec => CompletionIsTrue` |
| `ImplementsLife` | `SysSpec => LifeSpec`, the refinement of `TaskLife` |
| `RobotStackProofs!PackagePlaced` | `RobotSpec => PackageDelivered` |
| `CorridorProofs!CorridorStops` | `CorridorSpec => []StopsInTime` |
| `RouteProofs!RoutesUnbroken` | `RouteSpec => []RouteIsUnbroken` |
| `RobotsInTheirSegments` | `RouteSpec => []OccupiesItsSegment` |
| `BackendProofs!RelayedOnce` | `Spec => []RelayedOncePerLife` |
| `CompletionsRecorded` | `Spec => []CompletionsAreRecorded` |
| `SessionsPaired` | `ServicesSpec => []SessionsArePaired` |
| `ArchivedOnce` | `RetentionSpec => []ArchivedOncePerLife` |
| `FloorProofs!BestIsSelected` | `SelectSpec => []WithinBest` |
| `WaysPlanned`, `NoneIsTrue` | the two answers of `_compute_path` are sound |
| `PlannerFrontier` | `PlannerSpec => []FrontierInv`, the loop invariant of A* |
| `ShortestPath` | `PlannerSpec => []PathIsShortest` |
| `NeverRunsAway` | `OperatorSpec => []NoRunaway` |
| `CountsEnded` | `AnalyticsSpec => []CountedTasksEnded` |
| `CompletedIsKept` | every step keeps `ShownCompleted`, unless it is a command of the operator |
| `AgreementIsKept` | every step keeps `Agreed(n)`, unless it is the operator's or stops a node |

**The fleet manager.** `IInv` is `TypeOK /\ LoopsOK /\ WindowAhead /\
OwnersMatchReservations`. Exclusion alone is not inductive: that two robots' segments do
not overlap is kept by `_has_conflict`, which reads `_cell_owners`, so the two structures
have to agree first; then a cell in two robots' segments would have two owners, which is
how `Exclusive` follows. `WindowAhead` is there because a slide releases the segments
behind the pose and takes those ahead, and the agreement is only kept when no segment is
both. `LoopsOK` says what the loop variables mean: robots still to be visited hold a
reservation, as `CheckTraffic` reads it unchecked, and so on. `NoTaskLost` is inductive
relative to `IInv`: each step that takes a task out of one place puts it into another.
The lemmas about `DispatchNext`, `Schedule`, `Release` and `TakeWork` say what each
does to ownership, types and places, and the actions that call them cite them.

`PassInv` is what a pass of `_rebalance` knows that has made no progress: after its first loop
no robot can start queued work, before `index` no waiting task has a capable robot. A later
loop that changes something sets `progress`, and the pass is repeated, which is why the invariant
is about passes without it only.

`CallbacksEnd` is what makes such a callback end: `WorkLeft` is what it still has to do, as six numbers that
are compared from the first to the last. They are the loop it is in; the robots it has to visit or, in `_rebalance`,
the robots without a reservation; the tasks that wait; the robots without any work; the loops of the pass that are left,
and those of the next if this one made progress; and the entries of the pool behind `index`. Each step of a callback
lowers the first that it changes: a start takes a robot from the second, a hand-over from the pool a task from the
third, a theft that cannot be started a robot from the fourth. That the order has no endless
descent is `WFLexProductOrdering` of the library. What remains for TLC in `CallbackReturns` is that a
step is always enabled before the end and is taken, which is fairness.

`GivenToTheFit` says in which state a robot may come to a task it did not have: four ways lead
there, and all but one go through `Capable`. The other is the stealing loop, which does not ask what the
receiver can carry (section 6); the theorem says that nothing else is missing there and that nowhere else
anything is. A robot that is OFFLINE or must charge is therefore given nothing, and `SilentInv` follows: it has no
work if `_recover_robot` made it OFFLINE, and every silent robot is OFFLINE once `_check_heartbeats` is
over, until the next message. `NoneOffline` is needed since a robot whose own report says OFFLINE is never
recovered (section 6).

`Single` states `SinglePlace` of each pair of places; that it is
kept by `/add_task` depends on nothing being in `recovered`, which holds in a fleet whose robots
neither fall silent nor have to charge (`NothingTaken`, from `NoTroubles`). With failures it is
false, which the run `duplicate` shows; what that run violates is therefore true without them
(`OneReservation`).

**The task manager.** `TMInv` is the conjunction of the three invariants, none of which
is inductive by itself: a completion indexes the list with the active index, a cancel moves
both, and `_activate_next` is right only when nothing else is active. `InvByRobot` states
them for one robot, `OneRobot` reduces a step to the robot that takes it.

**The system.** A step of `FleetSystem` is a step of `FleetManager` or leaves it alone
(`FleetPart`), and likewise of `TaskManager` (`ManagerPart`), provided that the topics carry
tasks (`TopicsOK`). That needs both components' types in turn: the fleet manager
assigns what is in its queues, the beacon announces what the task manager told it. Hence
`SysInv`, the conjunction of the three.

What the fleet manager believes of a robot is late by four messages, and four invariants say how
belief and fact are connected.

- `Chain`, of a robot from which nothing was taken back: a reservation is followed by the
  assignment on its way, or the entry in the robot's list, and after that by the news of its
  completion; a robot without a reservation has nothing on its way and nothing unfinished. Hence
  `OneTaskPerManager`: the fleet manager reserves again only when the completion has come the whole way back.
- `Undisturbed`: as long as nothing was taken back from anybody a task is in one place of the fleet
  manager (the argument of `TasksInOnePlace` again, in a system in which robots may fall silent).
  With `Chain`, what a robot executes is what it is reserved for, and `OneExecutor` follows.
- `Known`: as long as nothing was taken back, what is in a queue, waiting or reserved is accepted and not
  yet counted. This is the converse of `NoTaskLost`, and needs `Undisturbed`: the registration that counts a
  task leaves no second copy. `ImplementsLife` follows step by step: a task is accepted when it is in no
  place (`SubmitLife`), begun where it is reserved, its assignment being the only one on its way
  (`BeginLife`), ended by the only robot that executes it (`EndLife`), and counted when the chain
  says that nothing of it is left on the robot (`CountLife`).
- `Trusted`, of a robot and a task: an activated reservation, the announcement, what the beacon
  knows and what the task manager told lead in this order to the task being executed. `HonestInv`:
  a task is trusted on a robot, or completed there, or may have been cancelled there. It has no
  condition on silence, so that `CompletionIsTrue` holds through recoveries; the beacon's chain
  survives them although `Chain` does not.

**One robot.** `StackInv` follows a package. Goals of the beacon and of the home publisher lead to their
own places only; the message of the task manager is of its state or of the one before. The package is on
the robot all the way to the dropoff, and while the robot drops it is there or the robot was called
away (`CalledAway`). This uses `Timely` of `RobotSpec` (section 4): without it the states of
the task manager could pass before the carrier has heard of them.

**The corridor.** `StopsInTime` says nothing of the monitor, whose tick may come late, so the
inductive invariant (`Watched`) has to say how far the robot can still go: it is `Room` away
from the obstacle, `MaxSpeed` for each tick of the world that is left before the monitor's,
unless it stands; and what the monitor knows is true, so that an obstacle it does not count
as near is at least `StopDistance` away. A tick of the monitor either stops the robot or gives it
room anew, which is where `StopDistance > MaxSpeed * Ticks` is used: a deployment has to meet it
with its `stop_distance`, its `max_speed` and the rates of the two timers. `Desired` and the
steps of the controller do not matter.

**Routes.** `steps` is large enough for two neighbouring samples to be at most half a cell apart in each
coordinate (`WayInv`, from the square of the distance), so that their cells touch: the lemmas on `\div` are
for that. No cell comes twice because the samples go in one direction in each coordinate (`Ahead`,
an order on cells), and a route that leaves a cell cannot come back to it. `SampledInv` says this of the part sampled
so far, with every sample in a cell of the route; `PlacedInv` says which one the robot is in. Since
segments go up along the route, the maximum that `_current_segment_index` takes is the segment of
the robot. That needs `Truncated = Floored`, hence coordinates that are not negative.

**Choice and planner.** `Chosen`: the list of candidates has a first least element. The sort's order is a
strict total order on keys, and an appended candidate either is less than all or leaves the first least
element as it is; `Best` is then read off the key. `ReachedInv` is the loop invariant of A*: every
reached cell but the start has a reached, nearer, neighbouring predecessor, and every reached cell
is in the heap or has its neighbours reached. When the heap is empty the reached cells are closed
under neighbours (`NoneIsTrue`); when the goal is popped the predecessors lead back from it
(`WaysPlanned`). `Snap` is a choice of a least offset, which exists because the natural numbers
are well-founded (`LeastNatural`).

`ShortestPath` compares what was found with `Shortest`, the lengths that relaxing all cells as often as
there are cells leads to; the recursive function has a value because a least number of turns without
one would have a predecessor that has one (`LengthsDefined`). `RootStep` is the inequality of the triangle in whole
numbers, from the inequality of Cauchy and Schwarz; with it the heuristic is consistent
(`HeuristicIsConsistent`). The invariant is `FrontierInv`: a reached cell either has an entry in the heap
that is no further than its way and its distance to the goal, or has led to its neighbours
(`Expected`, `Settled`). When the goal is popped every entry is at least as far, so no
relaxed length of the goal is less than the one found: a way that is shorter would leave the settled cells
over one that is expected, with an entry that is nearer (`FoundAtMost`). The other direction,
that the relaxation finds a way as short as the search's, goes over the number of cells that are nearer to
the start (`ReachedAtLeast`, `NearerCells`). A cell that is popped twice settles again, which is why stale
entries do no harm.

**The backend.** `RelayInv`: what was relayed in this life of the bridge is in `_assignments`, so a task that
is absent there was relayed in earlier lives only; nothing but a restart removes an entry, neither an
assignment that is heard of nor a batch that is late.
`RecordedInv`: a task COMPLETED in its row has a completion in the history, or a request that has stored
its batch still owes it (`Recorded`); and whoever read COMPLETED as the previous row, and therefore will not note it, read
it when one of these was so. The second part is needed because requests overlap: one reads before another
stores. It fails after a restart, which forgets what is owed, and `CompletionsAreRecorded` excludes that.
`Paired`: with one request at a time, what was read as the previous row still agrees with the row on whether the robot
charges, until the batch is stored; from then on the row agrees with the batch, and a session is open only if the previous row
charged. `_verify_heartbeats` changes status and not charging, which is why it may come at any time.
`RetentionInv`: a row that is still in the table was copied by crashes only.

**Control center and analytics.** `OperatorInv`: types only, since `NoRunaway` names the
thread that still has its stop to publish, and each command that ends a drive leaves such a thread.
`AnalyticsInv`: the streak is what was published (`published`), and what is counted is within `ended`
and `cleared`. A count needs a streak of two, hence two statuses that showed the mark; the callback that publishes
the robot without it has either heard that the task it named is over, or has cleared the mark of a task
that is not. So a mark shown once, the flicker that the streak is there to filter, counts nothing. That a mark shown twice may be one
too is `counting` (section 6), and why `cleared` is in the bound.
`ShownCompleted` is what makes a task that is shown as COMPLETED stay so: it is over, no command has still to write, and
of the four topics none holds an assignment, a robot's entry in the fleet list, or a list of a task manager in which the
task is open. Callbacks only write what they read, and the fleet manager and the task managers send nothing else
once the task is over. `Agreed` is the same for a setting: the node runs, its value is the one
shown, no value is on its way to it, and an answer on its way brings the value it has. That either state is reached is fairness,
and for TLC.

Every invariant and every action property of the passing runs has a theorem. Only model-checked are the
liveness properties (`CallbackReturns`, `SilentRobotsRecovered`,
`EveryTaskCompletes`, `BegunEnds`, `IdleRobotCharges`, `PendingIsRelayed`, `LedgerCatchesUp`,
`RobotsOnlineAgain`, `ReportsAgain`, `EveryAlertSettles`, `EveryCompletionStays`,
`EveryFleetViewAgrees`): they rest on fairness and on `ENABLED`, which are out of the prover's reach.
The parts that are not have theorems: `CallbacksEnd` of `CallbackReturns`,
`SilentLoseWork` of `SilentRobotsRecovered`, `CompletedIsKept` of `EveryCompletionStays`,
`AgreementIsKept` of `EveryFleetViewAgrees`.

## 6. Divergences between code and documentation

Shown by a run that violates the property the documentation states:

1. `duplicate`: `_requeue_task` adds a task without a capable robot to the waiting pool
   after `_schedule_task` has done so (402, 615-622). Both copies are committed later, and
   two robots get the task; 78 and 83-84 say that cannot be.
2. `charging`: the goal at the charging station is published once
   (`W/robot_status_publisher.py:273-275`), and a task manager with a task repeats its own every
   half second; `docs/FLEET.md:31-35` says that the robot navigates to its station. In the run it goes
   to the pickup, its task is cancelled, as the fleet manager does, and it stays there for good: nothing
   sends the charger's goal again, not even a `recharge` command (217-220). `IdleRobotCharges` is
   what holds, of a robot whose planner has that goal.
3. `settings`: the callbacks of `_refresh_params` all destroy the client of the last loop iteration
   (`W/control_center_node.py:1059-1074`), and the parameters of analytics need not ever arrive;
   the docstring says that they are read into the view (1041).

4. `counting`: "A busy phase is "stable" once observed across two consecutive fleet_status messages, which
   filters out the transient optimistic-busy flicker during dispatch" (`W/analytics_node.py:129-131`). But
   `_try_dispatch` only marks the entry (734), and any timer callback, submitted task or registration of another robot
   publishes all entries (461, 557, 272), so two statuses may show the mark before a registration from before
   the assignment clears it (258, 272). The robot has then completed a task for analytics, and completes it again at its
   end. `CountedTasksEnded` is what holds: besides the tasks that are over, only such marks are counted,
   and those of tasks that the fleet manager has taken back.

Modelled, without a run of their own:

Fleet manager and task manager:

- `_pick_donor` (816) tests the donor's capacity, not the receiver's, on the
  donor's first task, not on the one that is popped; 52-53 promises the capacity.
- `_has_head_on_conflict` (882) is never called; 76-77, `docs/FLEET.md:25-26` and
  `docs/ARCHITECTURE.md:18` say that head-on routes are serialized at dispatch.
- Silence is not looked for in a robot whose last report said OFFLINE (336-342),
  which the beacon sends during a restart; 80-82 says reservations of such robots are released.
- A cancel of the task being executed is counted as a "normal completion" (313).
- A distance of 0 to the pickup counts as 999 m (656; `KeyDistance`), against "robot nearest
  to the pickup" (634).
- The weighted score does not enter the choice (660), and ties go to the robot registered
  first, against "Lowest score wins; ties break by `robot_id`" (`docs/FLEET.md:15-16`).
- `_current_segment_index` takes `int()` of a coordinate and the route `floor()` (951, 845):
  below zero, which is half of this warehouse, a pose is looked for in the wrong cell, and the
  window is released late (`OccupiesItsSegment` is stated above zero only).
- A cancel stops at the first entry of its id, also when that is COMPLETED and a later one
  is active (`W/task_manager_node.py:149`; `Cancel`), against "so it actually stops" (502-503).
- A task that is cancelled before a registration has named it is never activated, so its
  reservation is never released (316; `Register`). `EveryTaskCompletes` excludes cancels.
- A robot whose report goes from charging to idle while an old registration is on its way
  can have a task counted as complete that was released; `FleetSystem`'s runs keep
  batteries full.

Robot:

- A robot that is called away to charge while it is dropping a package places it where it is
  (`W/package_carrier_node.py:154`; `PackageDelivered` has the condition), and a task cancelled while
  carrying leaves the package attached for good.
- Without a path the planner publishes nothing, and the controller goes on along the old one
  (`W/planner_node.py:124-128`). The obstacle monitor repeats the last command without a time-out, and
  forwards it unchecked when the lidar is silent, which its comment says it does.

Bridge and backend:

- Each ingest tick posts two batches (`W/backend_ingest_node.py:340`, 344), the second built from emptied
  event buffers; the buffers are emptied whether or not the post succeeds (285-286).
- `_assignments` is never pruned: a task deleted and created again under its id is not relayed, and a
  task that no list shows any more goes back to ASSIGNED with no position and priority 1 (212-223).
- An operator's cancel in the backend reaches no ROS node, and the next batch overwrites it; `_cancel_pub`
  (78) is never used.
- A crash of the backend between storing a batch and deriving its transitions loses them, against
  "nothing is lost on restart" (`docs/ARCHITECTURE.md:56`); `CompletionsAreRecorded` excludes restarts.
  A robot that is released for charging, then reported without a task, has the task recorded as
  COMPLETED (`B/ingest.py:334`). Overlapping batches, and a robot's row deleted while it charges, leave
  sessions open or doubled (`SessionsArePaired` has the conditions). Reservations are never marked
  as released.
- Cleanup and archive use the same limit and the cleanup may come first, which leaves the archive nothing to
  move, against "archive old events" (`docs/DEPLOYMENT.md:57`). `ArchivedOncePerLife` allows a copy for each crash.
- Without a configured secret every start makes up a new one (`B/__main__.py:21-27`), which voids all tokens.

Control center and analytics:

- Emergency stop, pause and disable each publish one zero velocity, which the next command of the
  obstacle monitor overrides (`MonitorForwards`); "motion held" (1311 of `W/control_center_node.py`). Disabling a
  robot does not keep the fleet from giving it tasks, against `docs/OPERATOR.md:35-36`.
- `estop` and `resume` raise and clear the alert after the lock: run together, they may leave a robot
  with the flag and without the alert, or the other way around (`FinishCommand`).
- `_task_timeout_start` carries over from one task to the next when no tick falls between (797-812);
  the alerts `planner_failure`, `goal_failure` and `reservation_timeout` may stay when their condition
  is over, and so do all alerts of a robot that is no longer listed (`AlertsSettle` names those that do not).
- A track with `seen_dispatched` from an earlier robot turns CANCELLED when the new robot's list has not
  got it yet (613-626), and a cancelled task that was running stays in the table as it was.
- `set_priority` cancels and adds on two topics (1275-1302): if the add comes first the fleet manager
  refuses it and the task is lost, against the comment at 1284.
- A whole number entered for a parameter of type double is sent as an integer, which the node
  refuses; nothing looks at the result (1019-1021), and the view shows the value until the next refresh.
- A task that follows another without an idle sample is not counted by analytics, and a cancelled one is, as is
  one that `_check_battery` takes from a robot that is not yet on the charger (493; `ReleaseToCharge`):
  `CountedTasksEnded` bounds the count from above only. A smaller `rolling_window` does not
  shorten the samples (`Pushed`), against "keep the last `rolling_window` samples"
  (`W/analytics_node.py:17`).

## 7. What is not modelled

Of the modelled nodes: messages that do not parse (each handler returns at once), log
output and published summaries, the runtime change of the fleet manager's parameters (the timer callback
reads them again on every tick; a `cell_size` that changes while cells are held, or a
critical threshold above the low one, is outside the assumptions), `reservation_buffer`,
real time. Messages are not lost on reliable topics. A restart of the
fleet manager is not modelled: it keeps nothing, and starts with `Init`. The steering of the
controller and the noise of the simulation are continuous. Of the backend: users and roles,
exports, backups, statistics, websockets, and queries that only read. Of the control center: the event log,
the history of alerts, the summaries for the page, and its proxy to the backend. Of analytics: distances,
queue waits and means. `cube_carrier_node.py` draws a second cargo from the same messages;
`order_fulfillment.py` is a table for the visualization.

Parts of `MCFloor` and `MCOffice` are checked side by side and not composed: the control center's
commands reach no fleet manager there except in `FleetSystem` (cancel) and `Tracks` (a reduced fleet).

Not at all: localization and map files (continuous, file I/O), dashboards and the web client
(read-only), launch files and scripts, logging and configuration.

## 8. Plan

Done, in this order: `FleetManager` with `CellLock`, `TaskManager`, `DispatchSelect`,
`FleetSystem`, and the proofs of each but the third; `Beacon` and `RobotStack`; `Ledger`, `Bridge` and
`Services`; `Route`, `Planner` and `Corridor` with its proof; `Operator`, `Alerts`, `Tracks`, `Settings`;
`Retention`, `Access`, `Analytics`; the proofs of `Bridge`, `Operator`, `Analytics` and `Retention`;
then the proofs of what the composition promises (`OneTaskEach`, `ExecutedOnce`, `CompletionsAreTrue`), of its refinement of
`TaskLife`, of rebalancing and places, of sessions and completions in the backend, of `RobotStack`, `Route`, `DispatchSelect` and of `Planner`'s
soundness; then that its paths are shortest, that the fleet manager's callbacks
end, and whom it gives work to; and what the control center keeps of tasks and settings.

Next, most important first:

1. The history of `Ledger` as a refinement of `TaskLife`, proved from `RecordedInv`; and `TaskLife` after
   work was taken back: what remains of the promise when only a silent robot's tasks are executed twice.
2. `Beacon` in `FleetSystem`, so that `Reports` is what the beacon can send and a release for charging
   is seen from both sides.
3. The commands of the control center that go past the fleet manager (`assign_robot`, `set_priority`)
   in `FleetSystem`.
4. Safety behind the liveness properties of `Alerts`, stated so that it can be proved.
