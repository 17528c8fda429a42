SPECIFICATION Spec
CONSTANTS
  Threads = {t1, t2}
  Loop = loop
  Nobody = nobody
  PipeSize = 2
  MaxCalls = 4
INVARIANTS
  TypeOK
  NoLostWakeup
PROPERTIES
  PublishGoes
  AskedGoes
CHECK_DEADLOCK FALSE
