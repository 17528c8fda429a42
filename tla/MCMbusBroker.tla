---------------------------- MODULE MCMbusBroker ----------------------------
(* What the peers of the runs may send, and where the deeper runs start. *)
EXTENDS MbusBroker, TLC

CONSTANTS ann, bob, echo, news, s1, s2

F(op, who, what, seq) ==
  [op |-> op, who |-> who, what |-> what, seq |-> seq, opt |-> {}]
Create(id, opt) ==
  [op |-> "create", who |-> id, what |-> None, seq |-> 1, opt |-> opt]

\* With caller and callee connected: calls, closes, reconnections.
RpcFrames ==
  {Create(ann, {}), F("call", bob, echo, 1), F("call", bob, echo, 3),
   F("close", bob, None, 1)}

\* Presence and events, with ping, compression and a password.
EventFrames ==
  {Create(ann, {"password", "ping", "zlib"}), Create(bob, {}),
   F("subscribe", All, All, 1), F("event", All, news, 1),
   F("event", Server, "ping", 1), F("publish", Subscribers, news, 1)}

\* Anything goes.
UnrulyFrames ==
  {Create(ann, {}), Create(None, {}), F("garbage", None, None, 1),
   F("unregister", None, echo, 1), F("register", None, echo, 1),
   F("subscribe", Server, "connected", 1),
   F("unsubscribe", Server, "connected", 1), F("call", ann, echo, 1),
   F("result", ann, echo, 1), F("close", ann, None, 1), F("close", Server, None, 1),
   F("event", All, news, 1), F("client", ann, None, 1), F("status", None, None, 1),
   F("unknown", None, None, 1), F("publish", None, news, 1),
   F("call", ann, echo, -2)}

\* A routine that comes and goes.
RoutineFrames == {F("register", None, echo, 1), F("unregister", None, echo, 1)}

\* A pass boundary some frames later: bob has registered echo, ann is connected.
Connected ==
  /\ phase = "top" /\ running = TRUE
  /\ link = [c \in Slot |-> IF c \in {s1, s2} THEN "open" ELSE "free"]
  /\ ident = [c \in Slot |-> CASE c = s1 -> ann [] c = s2 -> bob [] OTHER -> None]
  /\ accepted = {s1, s2} /\ announced = {s1, s2}
  /\ zlib = {} /\ pinged = {}
  /\ subs = [c \in Slot |-> {}]
  /\ cmds = [c \in Slot |-> IF c = s2 THEN {echo} ELSE {}]
  /\ inbox = [c \in Slot |-> << >>] /\ outbuf = [c \in Slot |-> << >>]
  /\ methods = << >>
  /\ requests = [c \in Slot |-> << >>] /\ results = [c \in Slot |-> << >>]
  /\ events = [c \in Slot |-> << >>] /\ waits = [c \in Slot |-> {}]
  /\ eseq = [c \in Slot |-> SeqStart] /\ heard = [c \in Slot |-> SeqStart]
  /\ frames = 0
  /\ stage = [c \in Slot |-> IF c \in {s1, s2} THEN "created" ELSE "new"]
  /\ owed = [c \in Slot |-> {}] /\ held = [c \in Slot |-> {}]
  /\ routines = [c \in Slot |-> IF c = s2 THEN {echo} ELSE {}]
  /\ roster = [c \in Slot |-> {}]

ConnectedSpec == Connected /\ [][Next]_vars
FairConnectedSpec == ConnectedSpec /\ Fairness

Symmetry == Permutations(Slot)
=============================================================================
