CONSTANTS
  r1 = r1
  r2 = r2
  t1 = t1
  t2 = t2
  None = None
  Robot = {r1, r2}
  Task = {t1, t2}
  Failing = {r1, r2}
  Corridor = 1
  Lookahead = 0
  LowBattery = 30
  CriticalBattery = 15
  Cell <- Cells
  Segments <- CrossingRoutes
  Priority <- DistinctPriorities
  RequiredPayload <- NoPayload
  PayloadCapacity <- OneCapacity
  Reports <- EveryBattery
SYMMETRY RobotSymmetry
SPECIFICATION Spec
INVARIANTS
  TypeOK
  NoTaskLost
PROPERTIES
  ReservationsEndForAReason
  RebalanceSettles
