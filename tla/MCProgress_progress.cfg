CONSTANTS
  r1 = r1
  r2 = r2
  t1 = t1
  t2 = t2
  None = None
  Robot = {r1, r2}
  Task = {t1, t2}
  Running = {r1}
  Failing = {r1}
  Lookahead = 0
  LowBattery = 30
  CriticalBattery = 15
  MaxRuns = 2
  MaxEntries = 4
  MaxTroubles = 0
  Cell <- Crossing
  Segments <- CrossingRoutes
  Priority <- DistinctPriorities
  RequiredPayload <- NoPayload
  PayloadCapacity <- OneCapacity
  Reports <- Healthy
SPECIFICATION ProgressSpec
PROPERTIES
  CallbackReturns
  SilentRobotsRecovered
  EveryTaskCompletes
