SPECIFICATION FairSpec
CONSTANTS
  MaxClients = 3
  Forced = {2}
  BufSize = 2
  MaxBytes = 2
  MaxSwitches = 1
INVARIANTS
  EachSeesItsTime
  NoneForgotten
PROPERTIES
  StaysServed
  HostIsRead
  EveryoneIsAnswered
