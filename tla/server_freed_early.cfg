SPECIFICATION Spec
CONSTANTS
  Conns = {c1}
  Msgs = {m1, m2}
  NoMsg = NoMsg
  Faults <- CloseAndGiveUp

INVARIANT ConnAliveWhileUsed
CHECK_DEADLOCK FALSE
