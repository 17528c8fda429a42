SPECIFICATION ConnectedSpec
CONSTANTS
  ann = ann
  bob = bob
  echo = echo
  news = news
  s1 = s1
  s2 = s2
  Slot = {s1, s2}
  Id = {ann, bob}
  Command = {echo}
  Event = {news}
  Frames <- RpcFrames
  Protected = FALSE
  Conforming = TRUE
  SeqStart = 1
  SeqEnd = 4
  MaxFrames = 3
INVARIANTS OneAnswer CallInHand NoCrossedAnswer NoOrphanWait
