SPECIFICATION Spec
CONSTANTS
  Sessions = {1, 2}
  Fds = {5, 6}
  Pieces = 2
  Chunk = 1
  Capacity = 1
  MaxFrames = 2
  Lengths = {100, 4194304}
  Talkers = {1}
  MayDestroy = TRUE
INVARIANTS
  TypeOK
  NoDanglingConnection
  PollTable
  EvictedIsAsked
PROPERTIES
  Fifos
  EvictedGoes
