SPECIFICATION FairSpec
CONSTANTS
  Conns = {c1, c2}
  Msgs = {m1, m2, m3}
  NoMsg = NoMsg
  Faults <- NoGiveUp

INVARIANT UsesExact
INVARIANT ConnAliveWhileUsed
PROPERTY EveryRequestEnds
CHECK_DEADLOCK FALSE
