SPECIFICATION Spec
CONSTANTS
  MaxRequests = 3
  MaxFrames = 0
  SeqStart = 1
  SeqEnd = 5
  Commands = {a}
  Topics = {t}
  Kinds <- OthersOfEach
  Refusals <- AllRefused
  Interval = FALSE
  Pinging = TRUE
  Careful = TRUE
PROPERTY
  CompletedOnce
