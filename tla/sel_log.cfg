SPECIFICATION FairSpec
CONSTANTS
  main = main
  sensor = sensor
  Threads = {main, sensor}
  Main = main
  MaxNum = 3
  MaxEvents = 5
  Faults = {}
CHECK_DEADLOCK FALSE
INVARIANTS
  TypeOK
  FileIsLog
  FileBounded
  ListIsFile
  HostReadsLog
PROPERTIES
  ImplementsEventLog
  EnabledAgain
