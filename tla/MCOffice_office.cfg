CONSTANTS
  Part = {"robots", "events", "access", "alerts", "tracks", "settings"}
  Robot = {r1}
  Task = {}
  Nobody = Nobody
  NoRow = NoRow
  Request = {q1}
  MaxRows = 2
  MaxChanges = 2
  MaxUpsets = 1
  Event = {e1, e2}
  MaxDeaths = 2
  Token = {k1, k2, k3}
  NoToken = NoToken
  Limit = 2
  Configured = FALSE
  MaxIncidents = 2
  RobotEntry <- FleetEntries
  Traffic <- TrafficMessages
  NoEntry = NoEntry
  Holder = {h1, h2}
  NoHolder = NoHolder
  Unset = Unset
  MaxCommands = 1
  MaxEdits = 3
SPECIFICATION Spec
INVARIANTS
  SessionsArePaired
  ArchivedOncePerLife
PROPERTIES
  RobotsOnlineAgain
  ReportsAgain
  EveryAlertSettles
  EveryCompletionStays
  EveryFleetViewAgrees
CHECK_DEADLOCK FALSE
