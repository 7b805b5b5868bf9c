SPECIFICATION FairSpec
CONSTANTS
  a = a  c = c
  Nodes = {a, c}
  Parent <- TheParent
  Under <- TheUnder
  Initial = {a}
  Dynamic = {a, c}
  NoNode = NoNode
  Threads = {t1, t2, t3}
  Requests <- TheRequests
  t1 = t1
  t2 = t2
  t3 = t3
  Nobody = Nobody
  NoLock = NoLock
  Boot = Boot
CHECK_DEADLOCK FALSE
INVARIANTS
  Exclusion
  CountExact
  TreeIsClosed
PROPERTIES
  RequestsEnd
