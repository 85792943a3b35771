CONSTANTS
  Part = {"observer", "updates", "xtra", "battery", "doze", "lights", "updater"}
  c1 = c1
  c2 = c2
  any = any
  network = network
  tac = tac
  v1 = v1
  v2 = v2
  NoValue = NoValue
  None = None
  Client <- Two
  Item <- Items
  Value <- Values
  Updaters <- Updating
  RequestItems <- Requested
  Pushed <- PushedItems
  MaxInFlight = 2
  Network = {1, 2}
  NewestFirst = TRUE
  MaxHandles = 3
  MaxEvents = 4
  MaxStarts = 2
  BatteryStatus = {"DISCHARGING", "CHARGING", "NOT_CHARGING", "FULL"}
  MaxChanges = 5
  MaxSteps = 5
  Light = {"battery", "notifications"}
  MaxCalls = 5
  MaxPattern = 5
  MaxImage = 6
SPECIFICATION SystemSpec
SYMMETRY Symm
INVARIANTS MapsAgree SubscribedIfWanted SubscriberIsCurrent DaemonIsTold DevicesAreServed
CHECK_DEADLOCK FALSE
