SPECIFICATION Safe
CONSTANTS
  MaxRequests = 4
  MaxFrames = 1
  SeqStart = 1
  SeqEnd = 5
  Commands = {a}
  Topics = {t}
  Kinds <- SomeOfEach
  Refusals <- AllRefused
  Interval = TRUE
  Pinging = TRUE
  Careful = TRUE
INVARIANTS
  TypeOK
  Accounted
  WalksLive
  AnswerMatches
  SessionAgrees
  FreshFrames
  NoDangling
