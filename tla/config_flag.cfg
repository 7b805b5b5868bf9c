SPECIFICATION Spec
CONSTANTS
  w1 = w1
  w2 = w2
  default = default
  good = good
  bad = bad
  Main = Main
  Partial = Partial
  Absent = Absent
  Any = Any
  Default = default
  Workers <- MCWorkers
  Configs <- MCConfigs
  Good <- MCGood
  Inner <- MCNoInner
  MaxMishaps = 0
  MaxRequests = 3
INVARIANT
  ChangeSaved
