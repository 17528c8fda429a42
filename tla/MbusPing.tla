------------------------------- MODULE MbusPing -------------------------------
(***************************************************************************)
(* Pings: how the broker and a client notice that the other fell silent.   *)
(* The client publishes a ping every interval and waits for a pong; the    *)
(* broker answers pings and watches for their absence; each closes the     *)
(* connection when too many were missed.  Time passes in ticks, each       *)
(* process reads a clock of its own, which started with its machine, and   *)
(* sleeps in poll no longer than it computed.                              *)
(***************************************************************************)
EXTENDS Integers, Sequences, FiniteSetsExt, Functions

CONSTANTS
  Interval, Timeout, Threshold,  \* as the answer to create settled them
  RunTimeout,   \* MBUS_CLIENT_DEFAULT_RUN_TIMEOUT
  PassTimeout,  \* MBUS_SERVER_DEFAULT_TIMEOUT
  Delay,        \* the longest way of a message
  Boots,        \* what the clocks may show at first
  Width,        \* unsigned long long counts modulo Width
  MaxTime       \* ticks looked at

PingAssumption ==
  /\ Interval \in Nat \ {0} /\ Timeout \in 0..Interval /\ Threshold \in Nat
  /\ RunTimeout \in Nat \ {0} /\ PassTimeout \in Nat \ {0} /\ Delay \in Nat
  /\ Width \in Nat \ {0} /\ Boots \subseteq Nat /\ MaxTime \in Nat
  /\ \A b \in Boots : b + MaxTime + Interval + Timeout < Width \div 2
ASSUME PingAssumption

VARIABLES
  now,
  boot,         \* of the broker's and the client's clock
  state,        \* of the client: connecting, connected, disconnected
  sendTs, pongTs, waiting, pongsMissed,  \* ping_send_tsms, pong_recv_tsms, ...
  runBy,        \* poll returns to the client no later
  conn,         \* the broker's client: open, created, closed
  recvTs, pingsMissed,                   \* ping_recv_tsms, ping_missed_count
  passBy,       \* poll returns to the broker no later
  toBroker, toClient,                    \* on their way: [what, by]
  link,         \* up, cut
  heard         \* (h) when the broker and the client last heard of the other

clientVars == <<state, sendTs, pongTs, waiting, pongsMissed, runBy>>
brokerVars == <<conn, recvTs, pingsMissed, passBy>>
linkVars == <<toBroker, toClient, link>>
vars == <<now, boot, clientVars, brokerVars, linkVars, heard>>

\* As a bug: a moment is after itself.
AfterOrAt(a, b) == (b - a) % Width = 0 \/ (b - a) % Width >= Width \div 2

\* mbus_clock_after: the sign of a difference modulo Width.
After(a, b) == (b - a) % Width >= Width \div 2

\* mbus_clock_monotonic
Monotonic(who) == (boot[who] + now) % Width

Message(what) == [what |-> what, by |-> now + Delay]

\* mbus_client_get_run_timeout, before the pings: a run that is due takes a tick.
RunWait(current, sent) ==
  IF After(sent + Interval, current)
  THEN Min({RunTimeout, (sent + Interval - current) % Width})
  ELSE 1

Init ==
  /\ now = 0 /\ boot \in [{"broker", "client"} -> Boots]
  /\ state = "connecting" /\ sendTs = 0 /\ pongTs = 0 /\ waiting = FALSE
  /\ pongsMissed = 0 /\ runBy = 0
  /\ conn = "open" /\ recvTs = 0 /\ pingsMissed = 0 /\ passBy = PassTimeout
  /\ toBroker = <<Message("create")>> /\ toClient = <<>> /\ link = "up"
  /\ heard = [broker |-> 0, client |-> 0]

------------------------------------------------------------------------------
(* The broker                                                               *)

\* server_handle_command_create: as if a ping had come an interval ago.
Created == recvTs' = (Monotonic("broker") - Interval) % Width

\* As a bug: a ping is answered, and its time not noted.
PingUnnoted == UNCHANGED recvTs

\* server_send_event_to
PingReceived == recvTs' = Monotonic("broker")

\* A message is read and handled; the next pass follows.
BrokerReceive ==
  /\ link = "up" /\ conn # "closed" /\ toBroker # <<>>
  /\ passBy' = now
  /\ LET what == Head(toBroker).what
     IN /\ toBroker' = Tail(toBroker)
        /\ \/ /\ what = "create" /\ conn' = "created" /\ Created
              /\ toClient' = Append(toClient, Message("result"))
           \/ /\ what = "ping" /\ PingReceived
              /\ toClient' = Append(toClient, Message("pong"))
              /\ UNCHANGED conn
           \/ what = "eof" /\ conn' = "closed" /\ UNCHANGED <<recvTs, toClient>>
  /\ heard' = [heard EXCEPT !.broker = now]
  /\ UNCHANGED <<now, boot, clientVars, pingsMissed, link>>

\* As a bug: after a missed ping the count of the time starts afresh.
CheckPingAfresh ==
  IF After(Monotonic("broker"), recvTs + Interval + Timeout)
  THEN /\ pingsMissed' = pingsMissed + 1
       /\ recvTs' = Monotonic("broker")
  ELSE UNCHANGED <<pingsMissed, recvTs>>

\* One missed ping at most is counted in a pass, and none is ever forgiven.
CheckPing ==
  IF After(Monotonic("broker"), recvTs + Interval + Timeout)
  THEN /\ pingsMissed' = pingsMissed + 1
       /\ recvTs' = (recvTs + Interval) % Width
  ELSE UNCHANGED <<pingsMissed, recvTs>>

\* As a bug: one more miss than the threshold is let pass.
BrokerPassLenient ==
  /\ conn = "created" /\ CheckPing
  /\ \/ /\ pingsMissed' > Threshold + 1 /\ conn' = "closed"
        /\ toClient' = Append(toClient, Message("eof"))
     \/ pingsMissed' <= Threshold + 1 /\ UNCHANGED <<conn, toClient>>
  /\ passBy' = now + PassTimeout
  /\ UNCHANGED <<now, boot, clientVars, toBroker, link, heard>>

\* mbus_server_run_timeout, until it polls again
BrokerPass ==
  /\ conn = "created" /\ CheckPing
  /\ \/ /\ pingsMissed' > Threshold /\ conn' = "closed"
        /\ toClient' = Append(toClient, Message("eof"))
     \/ pingsMissed' <= Threshold /\ UNCHANGED <<conn, toClient>>
  /\ passBy' = now + PassTimeout
  /\ UNCHANGED <<now, boot, clientVars, toBroker, link, heard>>

------------------------------------------------------------------------------
(* The client                                                               *)

\* mbus_client_reset
Reset == sendTs' = 0 /\ pongTs' = 0 /\ waiting' = FALSE /\ pongsMissed' = 0

\* A message is read and handled; the run goes on to the pings.
ClientReceive ==
  /\ link = "up" /\ state # "disconnected" /\ toClient # <<>>
  /\ runBy' = now
  /\ LET what == Head(toClient).what
     IN /\ toClient' = Tail(toClient)
        /\ \/ /\ what = "result" /\ state' = "connected"
              /\ UNCHANGED <<sendTs, pongTs, waiting, pongsMissed>>
           \/ /\ what = "pong" /\ waiting' = FALSE /\ pongTs' = Monotonic("client")
              /\ pongsMissed' = 0 /\ UNCHANGED <<state, sendTs>>
           \/ what = "eof" /\ state' = "disconnected" /\ Reset
  /\ heard' = [heard EXCEPT !.client = now]
  /\ UNCHANGED <<now, boot, brokerVars, toBroker, link>>

\* A ping is due if none is waited for.
PingDue == ~waiting /\ After(Monotonic("client"), sendTs + Interval)

\* As a bug: an earlier pong stands for the one to come.
SendPingOnly ==
  /\ waiting' = TRUE /\ sendTs' = Monotonic("client") /\ pongTs' = pongTs
  /\ toBroker' = Append(toBroker, Message("ping"))

\* A ping is published.
SendPing ==
  /\ waiting' = TRUE /\ sendTs' = Monotonic("client") /\ pongTs' = 0
  /\ toBroker' = Append(toBroker, Message("ping"))

\* The pong of the last ping is overdue.
PongLate == /\ waiting /\ sendTs # 0 /\ pongTs = 0
            /\ After(Monotonic("client"), sendTs + Timeout)

\* A pong is not waited for any longer; too many missed end the connection.
MissPong ==
  /\ IF pongsMissed + 1 > Threshold
     THEN /\ state' = "disconnected" /\ Reset
          /\ toBroker' = Append(toBroker, Message("eof"))
     ELSE /\ waiting' = FALSE /\ pongsMissed' = pongsMissed + 1
          /\ UNCHANGED <<state, sendTs, pongTs, toBroker>>

\* mbus_client_run, from the pings until it polls again
ClientRun ==
  /\ state = "connected"
  /\ \/ PingDue /\ SendPing /\ UNCHANGED <<state, pongsMissed>>
     \/ ~PingDue /\ PongLate /\ MissPong
     \/ /\ ~PingDue /\ ~PongLate
        /\ UNCHANGED <<state, sendTs, pongTs, waiting, pongsMissed, toBroker>>
  /\ runBy' = now + RunWait(Monotonic("client"), sendTs')
  /\ UNCHANGED <<now, boot, brokerVars, toClient, link, heard>>

\* The client connects again, once the broker has dropped the old connection.
Reconnect ==
  /\ state = "disconnected" /\ conn = "closed"
  /\ state' = "connecting" /\ conn' = "open"
  /\ recvTs' = 0 /\ pingsMissed' = 0 /\ passBy' = now + PassTimeout
  /\ toBroker' = <<Message("create")>> /\ toClient' = <<>> /\ link' = "up"
  /\ heard' = [broker |-> now, client |-> now]
  /\ UNCHANGED <<now, boot, sendTs, pongTs, waiting, pongsMissed, runBy>>

------------------------------------------------------------------------------

\* From now on nothing comes through, and neither end is told.
Cut == link = "up" /\ link' = "cut"
       /\ UNCHANGED <<now, boot, clientVars, brokerVars, toBroker, toClient, heard>>

InTime(messages) == link = "up" /\ messages # <<>> => now < Head(messages).by

\* Time waits for whoever is due.
Tick ==
  /\ now < MaxTime /\ now' = now + 1
  /\ state = "connected" => now < runBy
  /\ conn = "created" => now < passBy
  /\ conn # "closed" => InTime(toBroker)
  /\ state # "disconnected" => InTime(toClient)
  /\ UNCHANGED <<boot, clientVars, brokerVars, linkVars, heard>>

\* The end of what is looked at.
Horizon == now = MaxTime /\ UNCHANGED vars

Next == \/ BrokerReceive \/ BrokerPass \/ ClientReceive \/ ClientRun \/ Reconnect
        \/ Cut \/ Tick \/ Horizon

Spec == Init /\ [][Next]_vars

------------------------------------------------------------------------------
(* Properties                                                               *)

TypeOK ==
  /\ now \in 0..MaxTime /\ boot \in [{"broker", "client"} -> Boots]
  /\ state \in {"connecting", "connected", "disconnected"}
  /\ sendTs \in 0..Width-1 /\ pongTs \in 0..Width-1 /\ waiting \in BOOLEAN
  /\ pongsMissed \in 0..Threshold /\ runBy \in Nat
  /\ conn \in {"open", "created", "closed"} /\ recvTs \in 0..Width-1
  /\ pingsMissed \in 0..Threshold+1 /\ passBy \in Nat
  /\ \A m \in Range(toBroker) : m.what \in {"create", "ping", "eof"} /\ m.by \in Nat
  /\ \A m \in Range(toClient) : m.what \in {"result", "pong", "eof"} /\ m.by \in Nat
  /\ link \in {"up", "cut"} /\ heard \in [{"broker", "client"} -> 0..MaxTime]

\* Neither end drops the other as long as messages take no more than half the time
\* a pong may take, whatever the clocks show: not at once after a start either, when
\* the first ping of the client waits for its clock to reach the interval.
NoFalseDrop == link = "up" => conn # "closed" /\ state # "disconnected"

\* Then not even one is counted as missed, when the clocks have passed the interval.
NothingMissed ==
  link = "up" /\ (\A who \in DOMAIN boot : boot[who] > Interval)
    => pingsMissed = 0 /\ pongsMissed = 0

\* The broker keeps a connection without pings for no longer than this: a miss each
\* interval, or each pass if these are longer, and a pass to notice the first.
BrokerPatience ==
  Interval + Timeout + Threshold * Max({Interval, PassTimeout}) + PassTimeout

BrokerNotices == conn = "created" => now - heard["broker"] <= BrokerPatience

\* And the client keeps one without pongs for no longer than this: it pings once per
\* interval, the first time once that is over, and gives each pong its time.
ClientPatience == (Threshold + 1) * (Interval + Timeout + RunTimeout) + 1

ClientNotices == state = "connected" => now - heard["client"] <= ClientPatience
===============================================================================
