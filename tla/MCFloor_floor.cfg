CONSTANTS
  Part = {"lists", "choice", "routes", "paths", "corridor", "operator", "analytics"}
  t1 = t1
  t2 = t2
  t3 = t3
  r1 = r1
  Robot = {r1}
  Task = {t1, t2, t3}
  None = None
  MaxEntries = 4
  Priority <- ManyPriorities
  Id = {1, 2}
  NoPose = NoPose
  Distance = {0, 3, 4}
  Battery = {40, 90}
  Remaining = {1}
  Queue <- Queues
  SegmentLength = 2
  CellSize = 2
  SegmentSize = 2
  Coordinate <- Coordinates
  Origin <- Origins
  Width = 4
  Height = 3
  Sites <- OccupiedSites
  NoCell = NoCell
  Goal = 10
  LinearSpeed = 3
  MaxSpeed = 2
  Bound = 16
  Lookahead = 3
  Tolerance = 5
  StopDistance = 5
  Ticks = 2
  Clear = Clear
  h1 = h1
  h2 = h2
  Thread = {h1, h2}
  Lengths = {1, 3}
  Windows = {1, 2}
  MaxCounts = 3
  Job = {j1, j2}
  NoJob = NoJob
SPECIFICATION Spec
INVARIANTS
  ActiveIsActive
  NeverIdleWithWork
  WithinBest
  RouteIsUnbroken
  OccupiesItsSegment
  PathIsShortest
  StopsInTime
  NoRunaway
  CountedTasksEnded
CHECK_DEADLOCK FALSE
