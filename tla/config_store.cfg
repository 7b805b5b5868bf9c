SPECIFICATION FairSpec
CONSTANTS
  w1 = w1
  w2 = w2
  default = default
  good = good
  bad = bad
  Main = Main
  Partial = Partial
  Absent = Absent
  Any = Any
  Default = default
  Workers <- MCWorkers
  Configs <- MCConfigs
  Good <- MCGood
  Inner <- MCInner
  MaxMishaps = 1
  MaxRequests = 3
INVARIANTS
  TypeOK
  BackupStarts
  SumMatches
PROPERTIES
  Honours
  ComesUp
