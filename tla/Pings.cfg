SPECIFICATION Spec
CONSTANTS
  Interval = 4
  Timeout = 2
  Threshold = 1
  RunTimeout = 2
  PassTimeout = 3
  Delay = 1
  Boots = {0, 5}
  Width = 128
  MaxTime = 28
INVARIANTS
  TypeOK
  NoFalseDrop
  NothingMissed
  BrokerNotices
  ClientNotices
