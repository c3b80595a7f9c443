CONSTANTS
  r1 = r1
  r2 = r2
  t1 = t1
  t2 = t2
  None = None
  Robot = {r1, r2}
  Task = {t1}
  Failing = {r1}
  Lookahead = 0
  LowBattery = 30
  CriticalBattery = 15
  MaxRuns = 2
  MaxEntries = 5
  MaxTroubles = 1
  Cell <- Cells
  Segments <- OwnRoutes
  Priority <- SamePriority
  RequiredPayload <- NoPayload
  PayloadCapacity <- OneCapacity
  Reports <- Healthy
SPECIFICATION SysSpec
INVARIANTS
  OneExecutor
  OneTaskPerManager
PROPERTIES
  CompletionIsTrue
  LifeSpec
