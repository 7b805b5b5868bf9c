SPECIFICATION FairSpec
CONSTANTS
  main = main
  sensor = sensor
  Threads = {main, sensor}
  Main = main
  MaxNum = 3
  MaxEvents = 4
  Faults = {"race"}
CHECK_DEADLOCK FALSE
INVARIANT SameEvents
PROPERTY EventsEnd
