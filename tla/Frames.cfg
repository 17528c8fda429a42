SPECIFICATION Spec
CONSTANTS
  HeaderUnits = 2
  Sizes = {1}
  Chunk = 2
  Capacity = 3
  MaxFrames = 2
  Transports <- AnySocket
  Interruptions = TRUE
  Neighbours = TRUE
INVARIANTS
  TypeOK
  RunsOn
PROPERTIES
  Fifos
  HangupNoticed
