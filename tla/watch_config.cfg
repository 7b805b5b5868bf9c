SPECIFICATION FairSpec
CONSTANTS
  console = console
  gasp = gasp
  bmc = bmc
  snmp = snmp
  w1 = w1
  w2 = w2
  Clients = {console, gasp}
  LoadsFirst = {console}
  Running <- OneAtATime
  Topics = {bmc, snmp}
  Lists = {snmp}
  Watches <- TheWatches
  Workers = {w1, w2}
  SeqMod = 2
  MaxChanges = 2
  Nothing = Nothing
CHECK_DEADLOCK FALSE
INVARIANTS
  QuietIsCurrent
PROPERTIES
  NeverOlder
  CallsEnd
