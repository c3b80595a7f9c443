CONSTANTS
  r1 = r1
  r2 = r2
  t1 = t1
  t2 = t2
  Robot = {r1}
  Task = {t1}
  Nobody = Nobody
  NoRow = NoRow
  Request = {q1, q2}
  MaxRows = 1
  MaxFaults = 1
  Order <- OneRobot
SPECIFICATION Spec
INVARIANTS
  RelayedOncePerLife
  CompletionsAreRecorded
PROPERTIES
  PendingIsRelayed
  LedgerCatchesUp
