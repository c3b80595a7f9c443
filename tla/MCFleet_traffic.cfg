CONSTANTS
  r1 = r1
  r2 = r2
  t1 = t1
  t2 = t2
  None = None
  Robot = {r1, r2}
  Task = {t1, t2}
  Failing = {}
  Corridor = 4
  Lookahead = 1
  LowBattery = 30
  CriticalBattery = 15
  Cell <- Cells
  Segments <- HeadOnRoutes
  Priority <- DistinctPriorities
  RequiredPayload <- NoPayload
  PayloadCapacity <- OneCapacity
  Reports <- Healthy
SYMMETRY RobotSymmetry
SPECIFICATION Spec
INVARIANTS
  OwnersMatchReservations
  ExclusiveSegments
  WindowAhead
  SinglePlace
PROPERTIES
  LockSpec
  ReservationsAreKept
