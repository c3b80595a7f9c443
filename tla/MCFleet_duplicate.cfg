CONSTANTS
  r1 = r1
  r2 = r2
  t1 = t1
  t2 = t2
  None = None
  Robot = {r1, r2}
  Task = {t1, t2}
  Failing = {r1}
  Corridor = 2
  Lookahead = 0
  LowBattery = 30
  CriticalBattery = 15
  Cell <- Cells
  Segments <- HeadOnRoutes
  Priority <- DistinctPriorities
  RequiredPayload <- NoPayload
  PayloadCapacity <- OneCapacity
  Reports <- Healthy
SPECIFICATION Spec
INVARIANTS
  OneReservationPerTask
