CONSTANTS
  Self = r1
  Task = {t1}
  NoTask = None
  Priority <- NormalPriority
  MaxEntries = 2
  Full = 2
  Critical = 0
  MaxCommands = 1
  Dock = Dock
  Pickup = Pickup
  Dropoff = Dropoff
  Home = Home
  Road = Road
  NoGoal = NoGoal
SPECIFICATION Spec
PROPERTIES
  CriticalCharges
