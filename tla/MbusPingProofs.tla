---------------------------- MODULE MbusPingProofs ----------------------------
(***************************************************************************)
(* Proofs about MbusPing: for every interval, timeout, threshold, delay    *)
(* and start of the clocks, a peer that is punctual is never dropped, and  *)
(* one that fell silent is dropped in bounded time.                        *)
(*                                                                         *)
(* The clocks count modulo Width, and ping_recv_tsms may lie before the    *)
(* start of the broker's clock.  The proofs speak of the times of the      *)
(* model instead (ReceivedAt, SentAt), and the first section shows that    *)
(* mbus_clock_after compares those.                                        *)
(***************************************************************************)
EXTENDS MbusPing, SequenceTheorems, TLAPS

Half == Width \div 2

UpMessage == [what : {"create", "ping", "eof"}, by : Nat]
DownMessage == [what : {"result", "pong", "eof"}, by : Nat]

Typed ==
  /\ now \in 0 .. MaxTime /\ boot \in [{"broker", "client"} -> Boots]
  /\ state \in {"connecting", "connected", "disconnected"}
  /\ sendTs \in 0 .. Width - 1 /\ pongTs \in 0 .. Width - 1 /\ waiting \in BOOLEAN
  /\ pongsMissed \in 0 .. Threshold /\ runBy \in Nat
  /\ conn \in {"open", "created", "closed"} /\ recvTs \in 0 .. Width - 1
  /\ pingsMissed \in 0 .. Threshold + 1 /\ passBy \in Nat
  /\ toBroker \in Seq(UpMessage) /\ toClient \in Seq(DownMessage)
  /\ link \in {"up", "cut"}
  /\ heard \in [{"broker", "client"} -> 0 .. MaxTime]
  /\ \A who \in {"broker", "client"} : heard[who] <= now
  /\ sendTs <= boot["client"] + now
  /\ conn = "open" => pingsMissed = 0
  /\ conn = "created" => pingsMissed <= Threshold

\* When the broker last had a ping, or its last miss was put, in the time of the model.
ReceivedAt == (IF recvTs < Half THEN recvTs ELSE recvTs - Width) - boot["broker"]

\* When the client last sent a ping; before the beginning if it did not yet.
SentAt == sendTs - boot["client"]

------------------------------------------------------------------------------
(* Clocks                                                                   *)

LEMMA HalfOfWidth ==
  /\ Half \in Nat /\ 2 * Half <= Width /\ Width <= 2 * Half + 1
  /\ Interval + Timeout < Half \/ Boots = {}
  /\ \A b \in Boots : b \in Nat /\ b + MaxTime + Interval + Timeout < Half
<1>1. Width \in Nat  BY PingAssumption DEF PingAssumption
<1>2. Half \in Nat /\ 2 * Half <= Width /\ Width <= 2 * Half + 1  BY <1>1 DEF Half
<1>3. \A b \in Boots : b \in Nat /\ b + MaxTime + Interval + Timeout < Half
  BY PingAssumption DEF PingAssumption, Half
<1>4. Interval \in Nat /\ Timeout \in Nat /\ MaxTime \in Nat
  BY PingAssumption DEF PingAssumption
<1>5. CASE Boots # {}
  <2>1. PICK b \in Boots : TRUE  BY <1>5
  <2>2. b \in Nat /\ b + MaxTime + Interval + Timeout < Half  BY <1>3, <2>1
  <2> QED BY <1>2, <1>3, <1>4, <2>2
<1> QED BY <1>2, <1>3, <1>5

LEMMA Modulo ==
  ASSUME NEW W \in Nat \ {0}, NEW x \in Int
  PROVE  /\ 0 <= x /\ x < W => x % W = x
         /\ x < 0 /\ 0 <= x + W => x % W = x + W
         /\ W <= x /\ x < 2 * W => x % W = x - W
         /\ x % W \in 0 .. W - 1
<1>1. 0 <= x /\ x < W => x % W = x  OBVIOUS
<1>2. x < 0 /\ 0 <= x + W => x % W = x + W  OBVIOUS
<1>3. W <= x /\ x < 2 * W => x % W = x - W  OBVIOUS
<1>4. x % W \in 0 .. W - 1  OBVIOUS
<1> QED BY <1>1, <1>2, <1>3, <1>4

\* mbus_clock_after compares two times that are less than half a round apart.
LEMMA AfterCompares ==
  ASSUME NEW a \in Int, NEW b \in Int, b - a < Half, a - b <= Half
  PROVE  /\ After(a, b) <=> b < a
         /\ After(a, b + Width) <=> b < a
<1>1. Width \in Nat \ {0}  BY PingAssumption DEF PingAssumption
<1>2. Half \in Nat /\ 2 * Half <= Width /\ Width <= 2 * Half + 1  BY HalfOfWidth
<1>3. PICK x \in Int : x = b - a  OBVIOUS
<1>4. After(a, b) <=> x % Width >= Half  BY <1>3 DEF After, Half
<1>5. (b + Width) - a = x + Width /\ x + Width \in Int  BY <1>1, <1>3
<1>6. After(a, b + Width) <=> (x + Width) % Width >= Half  BY <1>5 DEF After, Half
<1>7. CASE x < 0
  <2>1. /\ 0 <= x + Width /\ x + Width < Width /\ x + Width >= Half
    BY <1>1, <1>2, <1>3, <1>7
  <2>2. x % Width = x + Width  BY <1>1, <1>7, <2>1, Modulo
  <2>3. (x + Width) % Width = x + Width  BY <1>1, <1>5, <2>1, Modulo
  <2> QED BY <1>3, <1>4, <1>6, <1>7, <2>1, <2>2, <2>3
<1>8. CASE x >= 0
  <2>1. x < Width /\ x < Half /\ Width <= x + Width /\ x + Width < 2 * Width
    BY <1>1, <1>2, <1>3, <1>8
  <2>2. x % Width = x  BY <1>1, <1>8, <2>1, Modulo
  <2>3. (x + Width) % Width = (x + Width) - Width  BY <1>1, <1>5, <2>1, Modulo
  <2>4. (x + Width) - Width = x  BY <1>1
  <2> QED BY <1>1, <1>2, <1>3, <1>4, <1>6, <1>8, <2>1, <2>2, <2>3, <2>4
<1> QED BY <1>3, <1>7, <1>8

\* Neither clock reaches half a round.
LEMMA ClockReads ==
  ASSUME Typed, NEW who \in {"broker", "client"}
  PROVE  /\ boot[who] \in Nat /\ now \in Nat
         /\ Monotonic(who) = boot[who] + now
         /\ Monotonic(who) + Interval + Timeout < Half
         /\ boot[who] + MaxTime + Interval + Timeout < Half
<1>1. boot[who] \in Boots /\ now \in 0 .. MaxTime  BY DEF Typed
<1>2. /\ boot[who] \in Nat /\ boot[who] + MaxTime + Interval + Timeout < Half
      /\ Half \in Nat /\ 2 * Half <= Width
  BY <1>1, HalfOfWidth
<1>3. Interval \in Nat /\ Timeout \in Nat /\ MaxTime \in Nat /\ Width \in Nat \ {0}
  BY PingAssumption DEF PingAssumption
<1>4. (boot[who] + now) \in Int /\ 0 <= boot[who] + now /\ boot[who] + now < Width
  BY <1>1, <1>2, <1>3
<1>5. Monotonic(who) = boot[who] + now  BY <1>3, <1>4, Modulo DEF Monotonic
<1> QED BY <1>1, <1>2, <1>3, <1>5

\* ping_recv_tsms, read as a time of the model.
LEMMA ReceivedReads ==
  ASSUME Typed, - Interval <= ReceivedAt, ReceivedAt <= now
  PROVE  /\ ReceivedAt \in Int
         /\ \/ recvTs = boot["broker"] + ReceivedAt
            \/ recvTs = boot["broker"] + ReceivedAt + Width /\ boot["broker"] + ReceivedAt < 0
         /\ After(Monotonic("broker"), recvTs + Interval + Timeout)
              <=> ReceivedAt + Interval + Timeout < now
<1> DEFINE b == boot["broker"]
<1>1. /\ b \in Nat /\ now \in Nat /\ Monotonic("broker") = b + now
      /\ b + now + Interval + Timeout < Half
  BY ClockReads
<1>2. Interval \in Nat /\ Timeout \in Nat /\ Width \in Nat
  BY PingAssumption DEF PingAssumption
<1>3. Half \in Nat /\ 2 * Half <= Width /\ Width <= 2 * Half + 1  BY HalfOfWidth
<1>4. recvTs \in 0 .. Width - 1  BY DEF Typed
<1>5. ReceivedAt \in Int  BY <1>1, <1>2, <1>3, <1>4 DEF ReceivedAt
<1>6. \/ recvTs = b + ReceivedAt
      \/ recvTs = b + ReceivedAt + Width /\ b + ReceivedAt < 0
  BY <1>1, <1>2, <1>3, <1>4 DEF ReceivedAt
<1> DEFINE due == b + ReceivedAt + Interval + Timeout
           clock == b + now
<1>7. /\ due \in Int /\ clock \in Int /\ due - clock < Half /\ clock - due <= Half
      /\ due < clock <=> ReceivedAt + Interval + Timeout < now
  BY <1>1, <1>2, <1>3, <1>5
<1>8. \/ recvTs + Interval + Timeout = due \/ recvTs + Interval + Timeout = due + Width
  BY <1>1, <1>2, <1>5, <1>6
<1> HIDE DEF due, clock
<1>9. /\ After(clock, due) <=> due < clock
      /\ After(clock, due + Width) <=> due < clock
  BY <1>7, AfterCompares
<1>10. Monotonic("broker") = clock  BY <1>1 DEF clock
<1>11. After(Monotonic("broker"), recvTs + Interval + Timeout)
         <=> ReceivedAt + Interval + Timeout < now
  BY <1>7, <1>8, <1>9, <1>10
<1> QED BY <1>5, <1>6, <1>11

------------------------------------------------------------------------------
(* Types                                                                    *)

LEMMA Constants ==
  /\ Interval \in Nat \ {0} /\ Timeout \in Nat /\ Timeout <= Interval
  /\ Threshold \in Nat /\ RunTimeout \in Nat \ {0} /\ PassTimeout \in Nat \ {0}
  /\ Delay \in Nat /\ Width \in Nat \ {0} /\ MaxTime \in Nat
BY PingAssumption DEF PingAssumption

LEMMA LesserOfTwo ==
  ASSUME NEW a \in Int, NEW b \in Int
  PROVE  Min({a, b}) \in {a, b} /\ Min({a, b}) <= a /\ Min({a, b}) <= b
<1>1. \E x \in {a, b} : \A y \in {a, b} : x =< y
  <2>1. CASE a <= b  BY <2>1
  <2>2. CASE b <= a  BY <2>2
  <2> QED BY <2>1, <2>2
<1> QED BY <1>1 DEF Min

LEMMA GreaterOfTwo ==
  ASSUME NEW a \in Int, NEW b \in Int
  PROVE  Max({a, b}) \in {a, b} /\ Max({a, b}) >= a /\ Max({a, b}) >= b
<1>1. \E x \in {a, b} : \A y \in {a, b} : x >= y
  <2>1. CASE a <= b  BY <2>1
  <2>2. CASE b <= a  BY <2>2
  <2> QED BY <2>1, <2>2
<1> QED BY <1>1 DEF Max

\* A run comes after RunTimeout at the latest, and as soon as a ping is due.
LEMMA RunWaits ==
  ASSUME Typed, NEW sent \in Nat, sent <= boot["client"] + now
  PROVE  /\ RunWait(Monotonic("client"), sent) \in Nat
         /\ RunWait(Monotonic("client"), sent) <= RunTimeout
         /\ \/ now + RunWait(Monotonic("client"), sent) <= sent - boot["client"] + Interval
            \/ RunWait(Monotonic("client"), sent) = 1
<1> DEFINE c == boot["client"] + now
           left == (sent + Interval - c) % Width
<1>1. /\ boot["client"] \in Nat /\ now \in Nat /\ c \in Nat /\ Monotonic("client") = c
      /\ c + Interval + Timeout < Half
  BY ClockReads
<1>2. /\ Interval \in Nat \ {0} /\ Timeout \in Nat /\ RunTimeout \in Nat \ {0}
      /\ Width \in Nat \ {0}
  BY Constants
<1>3. Half \in Nat /\ 2 * Half <= Width  BY HalfOfWidth
<1>4. After(sent + Interval, c) <=> c < sent + Interval
  BY <1>1, <1>2, <1>3, AfterCompares
<1>5. CASE After(sent + Interval, c)
  <2>1. /\ (sent + Interval - c) \in Int /\ 0 <= sent + Interval - c
        /\ sent + Interval - c < Width
    BY <1>1, <1>2, <1>3, <1>4, <1>5
  <2>2. left = sent + Interval - c  BY <1>2, <2>1, Modulo
  <2>3. left \in Nat  BY <2>1, <2>2
  <2> HIDE DEF left
  <2>4. /\ Min({RunTimeout, left}) \in Nat /\ Min({RunTimeout, left}) <= RunTimeout
        /\ Min({RunTimeout, left}) <= left
    BY <1>2, <2>3, LesserOfTwo
  <2>5. RunWait(Monotonic("client"), sent) = Min({RunTimeout, left})
    BY <1>1, <1>5 DEF RunWait, left
  <2> QED BY <1>1, <1>2, <2>2, <2>4, <2>5
<1>6. CASE ~After(sent + Interval, c)
  <2>1. RunWait(Monotonic("client"), sent) = 1  BY <1>1, <1>6 DEF RunWait
  <2> QED BY <1>2, <2>1
<1> QED BY <1>5, <1>6

LEMMA InitTyped == Init => Typed
<1> SUFFICES ASSUME Init PROVE Typed  OBVIOUS
<1>1. boot \in [{"broker", "client"} -> Boots] /\ now = 0  BY DEF Init
<1>2. boot["client"] \in Nat  BY <1>1, HalfOfWidth
<1>3. Message("create") \in UpMessage  BY <1>1, Constants DEF Message, UpMessage
<1>4. toBroker \in Seq(UpMessage) /\ toClient \in Seq(DownMessage)  BY <1>3 DEF Init
<1>5. /\ heard \in [{"broker", "client"} -> 0 .. MaxTime]
      /\ \A who \in {"broker", "client"} : heard[who] <= now
  BY <1>1, Constants DEF Init
<1>6. /\ sendTs = 0 /\ pongTs = 0 /\ waiting \in BOOLEAN /\ pongsMissed = 0 /\ runBy = 0
      /\ recvTs = 0 /\ pingsMissed = 0 /\ passBy = PassTimeout
      /\ state = "connecting" /\ conn = "open" /\ link = "up"
  BY DEF Init
<1> QED BY <1>1, <1>2, <1>4, <1>5, <1>6, Constants DEF Typed

LEMMA BrokerReceiveTyped == Typed /\ BrokerReceive => Typed'
<1> SUFFICES ASSUME Typed, BrokerReceive PROVE Typed'  OBVIOUS
<1>1. /\ Monotonic("broker") \in 0 .. Width - 1
      /\ (Monotonic("broker") - Interval) % Width \in 0 .. Width - 1
  <2>1. /\ Monotonic("broker") \in Nat /\ Monotonic("broker") + Interval + Timeout < Half
    BY ClockReads
  <2>2. (Monotonic("broker") - Interval) \in Int  BY <2>1, Constants
  <2>3. (Monotonic("broker") - Interval) % Width \in 0 .. Width - 1
    BY <2>2, Constants, Modulo
  <2> QED BY <2>1, <2>3, Constants, HalfOfWidth
<1>2. Message("result") \in DownMessage /\ Message("pong") \in DownMessage
  BY Constants DEF Message, DownMessage, Typed
<1>3. toBroker' \in Seq(UpMessage)
  BY DEF Typed, BrokerReceive
<1>4. toClient' \in Seq(DownMessage)
  <2>1. \/ toClient' = toClient \/ toClient' = Append(toClient, Message("result"))
        \/ toClient' = Append(toClient, Message("pong"))
    BY DEF BrokerReceive
  <2>2. toClient \in Seq(DownMessage)  BY DEF Typed
  <2> QED BY <1>2, <2>1, <2>2
<1>5. recvTs' \in 0 .. Width - 1
  BY <1>1 DEF Typed, BrokerReceive, Created, PingReceived
<1>6. /\ UNCHANGED <<now, boot, clientVars, pingsMissed, link>>
      /\ conn # "closed" /\ conn' \in {conn, "created", "closed"} /\ passBy' = now
      /\ heard' = [heard EXCEPT !["broker"] = now]
  BY DEF BrokerReceive
<1> QED BY <1>3, <1>4, <1>5, <1>6, Constants DEF Typed, clientVars

LEMMA BrokerPassTyped == Typed /\ BrokerPass => Typed'
<1> SUFFICES ASSUME Typed, BrokerPass PROVE Typed'  OBVIOUS
<1>1. Message("eof") \in DownMessage
  BY Constants DEF Message, DownMessage, Typed
<1>2. toClient' \in Seq(DownMessage)
  <2>1. toClient' = toClient \/ toClient' = Append(toClient, Message("eof"))
    BY DEF BrokerPass
  <2>2. toClient \in Seq(DownMessage)  BY DEF Typed
  <2> QED BY <1>1, <2>1, <2>2
<1>3. recvTs' \in 0 .. Width - 1
  <2>1. (recvTs + Interval) \in Int  BY Constants DEF Typed
  <2>2. (recvTs + Interval) % Width \in 0 .. Width - 1  BY <2>1, Constants, Modulo
  <2>3. recvTs' = recvTs \/ recvTs' = (recvTs + Interval) % Width
    BY DEF BrokerPass, CheckPing
  <2> QED BY <2>2, <2>3 DEF Typed
<1>4. /\ pingsMissed' \in 0 .. Threshold + 1
      /\ conn' \in {"created", "closed"} /\ conn' = "created" => pingsMissed' <= Threshold
  BY Constants DEF Typed, BrokerPass, CheckPing
<1>5. passBy' \in Nat  BY Constants DEF Typed, BrokerPass
<1> QED BY <1>2, <1>3, <1>4, <1>5 DEF Typed, BrokerPass, clientVars

LEMMA ClientReceiveTyped == Typed /\ ClientReceive => Typed'
<1> SUFFICES ASSUME Typed, ClientReceive PROVE Typed'  OBVIOUS
<1>1. Monotonic("client") \in 0 .. Width - 1 /\ boot["client"] \in Nat
  BY ClockReads, Constants, HalfOfWidth
<1>2. toClient' \in Seq(DownMessage)  BY DEF Typed, ClientReceive
<1>3. /\ sendTs' \in {sendTs, 0} /\ pongTs' \in 0 .. Width - 1 /\ waiting' \in BOOLEAN
      /\ pongsMissed' \in 0 .. Threshold /\ state' \in {"connecting", "connected", "disconnected"}
  <2>1. \/ state' = "connected" /\ UNCHANGED <<sendTs, pongTs, waiting, pongsMissed>>
        \/ /\ waiting' = FALSE /\ pongTs' = Monotonic("client") /\ pongsMissed' = 0
           /\ state' = state /\ sendTs' = sendTs
        \/ /\ state' = "disconnected" /\ sendTs' = 0 /\ pongTs' = 0 /\ waiting' = FALSE
           /\ pongsMissed' = 0
    BY ZenonT(30) DEF ClientReceive, Reset
  <2>2. 0 \in 0 .. Width - 1 /\ 0 \in 0 .. Threshold  BY Constants
  <2>3. CASE state' = "connected" /\ UNCHANGED <<sendTs, pongTs, waiting, pongsMissed>>
    BY <2>3 DEF Typed
  <2>4. CASE ~(state' = "connected" /\ UNCHANGED <<sendTs, pongTs, waiting, pongsMissed>>)
    BY <1>1, <2>1, <2>2, <2>4, Zenon DEF Typed
  <2> QED BY <2>3, <2>4
<1>4. sendTs' \in 0 .. Width - 1 /\ sendTs' <= boot["client"] + now
  BY <1>1, <1>3, Constants DEF Typed
<1>5. /\ UNCHANGED <<now, boot, brokerVars, toBroker, link>> /\ runBy' = now
      /\ heard' = [heard EXCEPT !["client"] = now]
  BY DEF ClientReceive
<1> QED BY <1>2, <1>3, <1>4, <1>5 DEF Typed, brokerVars

LEMMA ClientRunTyped == Typed /\ ClientRun => Typed'
<1> SUFFICES ASSUME Typed, ClientRun PROVE Typed'  OBVIOUS
<1>1. Monotonic("client") \in 0 .. Width - 1 /\ boot["client"] \in Nat
      /\ Monotonic("client") = boot["client"] + now
  BY ClockReads, Constants, HalfOfWidth
<1>2. Message("ping") \in UpMessage /\ Message("eof") \in UpMessage
  BY Constants DEF Message, UpMessage, Typed
<1>3. toBroker' \in Seq(UpMessage)
  <2>1. \/ toBroker' = toBroker \/ toBroker' = Append(toBroker, Message("ping"))
        \/ toBroker' = Append(toBroker, Message("eof"))
    BY DEF ClientRun, SendPing, MissPong
  <2>2. toBroker \in Seq(UpMessage)  BY DEF Typed
  <2> QED BY <1>2, <2>1, <2>2
<1>4. /\ sendTs' \in {sendTs, 0, Monotonic("client")} /\ pongTs' \in {pongTs, 0}
      /\ waiting' \in BOOLEAN /\ pongsMissed' \in 0 .. Threshold
      /\ state' \in {"connected", "disconnected"}
  <2>1. CASE SendPing /\ UNCHANGED <<state, pongsMissed>>
    BY <2>1 DEF Typed, ClientRun, SendPing
  <2>2. CASE MissPong
    <3>1. CASE pongsMissed + 1 > Threshold
      <4>1. sendTs' = 0 /\ pongTs' = 0 /\ state' = "disconnected" /\ pongsMissed' = 0
        BY <2>2, <3>1 DEF MissPong, Reset
      <4>2. waiting' \in BOOLEAN  BY <2>2, <3>1 DEF MissPong, Reset
      <4> QED BY <4>1, <4>2, Constants
    <3>2. CASE ~(pongsMissed + 1 > Threshold)
      <4>1. /\ sendTs' = sendTs /\ pongTs' = pongTs /\ state' = "connected"
            /\ pongsMissed' = pongsMissed + 1
        BY <2>2, <3>2 DEF MissPong, ClientRun
      <4>2. waiting' \in BOOLEAN  BY <2>2, <3>2 DEF MissPong
      <4>3. pongsMissed' \in 0 .. Threshold  BY <3>2, <4>1, Constants DEF Typed
      <4> QED BY <4>1, <4>2, <4>3
    <3> QED BY <3>1, <3>2
  <2>3. CASE UNCHANGED <<state, sendTs, pongTs, waiting, pongsMissed, toBroker>>
    <3>1. waiting' \in BOOLEAN  BY <2>3, Zenon DEF Typed
    <3> QED BY <2>3, <3>1 DEF Typed, ClientRun
  <2> QED BY <2>1, <2>2, <2>3 DEF ClientRun
<1>5. sendTs' \in 0 .. Width - 1 /\ sendTs' <= boot["client"] + now /\ sendTs' \in Nat
  BY <1>1, <1>4, Constants DEF Typed
<1>6. runBy' \in Nat
  BY <1>5, RunWaits DEF Typed, ClientRun
<1>7. UNCHANGED <<now, boot, brokerVars, toClient, link, heard>>  BY DEF ClientRun
<1> QED BY <1>3, <1>4, <1>5, <1>6, <1>7, Constants DEF Typed, brokerVars

LEMMA ReconnectTyped == Typed /\ Reconnect => Typed'
<1> SUFFICES ASSUME Typed, Reconnect PROVE Typed'  OBVIOUS
<1>1. Message("create") \in UpMessage  BY Constants DEF Message, UpMessage, Typed
<1>2. toBroker' \in Seq(UpMessage) /\ toClient' \in Seq(DownMessage)
  BY <1>1 DEF Reconnect
<1>3. passBy' \in Nat  BY Constants DEF Typed, Reconnect
<1>4. heard' \in [{"broker", "client"} -> 0 .. MaxTime]
      /\ \A who \in {"broker", "client"} : heard'[who] <= now
  BY DEF Typed, Reconnect
<1> QED BY <1>2, <1>3, <1>4, Constants DEF Typed, Reconnect

LEMMA TickTyped == Typed /\ Tick => Typed'
<1> SUFFICES ASSUME Typed, Tick PROVE Typed'  OBVIOUS
<1>1. now' = now + 1 /\ now' \in 0 .. MaxTime /\ boot["client"] \in Nat /\ now \in Nat
  BY ClockReads, Constants DEF Typed, Tick
<1>2. UNCHANGED <<boot, clientVars, brokerVars, linkVars, heard>>  BY DEF Tick
<1>3. /\ \A who \in {"broker", "client"} : heard[who] <= now'
      /\ sendTs <= boot["client"] + now'
  BY <1>1 DEF Typed
<1> QED BY <1>1, <1>2, <1>3 DEF Typed, clientVars, brokerVars, linkVars

LEMMA NextTyped == Typed /\ [Next]_vars => Typed'
<1> SUFFICES ASSUME Typed, [Next]_vars PROVE Typed'  OBVIOUS
<1>1. CASE UNCHANGED vars
  BY <1>1 DEF Typed, vars, clientVars, brokerVars, linkVars
<1>2. CASE Cut
  BY <1>2 DEF Typed, Cut, clientVars, brokerVars
<1> QED
  BY <1>1, <1>2, BrokerReceiveTyped, BrokerPassTyped, ClientReceiveTyped, ClientRunTyped,
     ReconnectTyped, TickTyped DEF Next, Horizon

\* The variables have their types, and no time that was noted lies ahead.
THEOREM ClocksTyped == Spec => []Typed
<1> QED BY InitTyped, NextTyped, PTL DEF Spec

\* Every variable keeps its type; in particular no end counts more misses than end it.
THEOREM PingsTyped == Spec => []TypeOK
<1>1. Typed => TypeOK
  <2> SUFFICES ASSUME Typed PROVE TypeOK  OBVIOUS
  <2>1. \A m \in Range(toBroker) : m \in UpMessage  BY DEF Typed, Range
  <2>2. \A m \in Range(toClient) : m \in DownMessage  BY DEF Typed, Range
  <2> QED BY <2>1, <2>2 DEF Typed, TypeOK, UpMessage, DownMessage
<1> QED BY <1>1, ClocksTyped, PTL

------------------------------------------------------------------------------
(* The broker's patience                                                    *)

LEMMA Times ==
  ASSUME NEW m \in Nat, NEW k \in Nat
  PROVE  m * k \in Nat /\ (m + 1) * k = m * k + k
OBVIOUS

LEMMA TimesGrows ==
  ASSUME NEW m \in Nat, NEW n \in Nat, m <= n, NEW k \in Nat
  PROVE  m * k <= n * k
<1>1. PICK d \in Nat : n = m + d  BY n - m \in Nat
<1>2. n * k = m * k + d * k /\ d * k \in Nat /\ m * k \in Nat  BY <1>1
<1> QED BY <1>2

\* server_handle_command_create and server_send_event_to note the time.
LEMMA TimeNoted ==
  ASSUME Typed, boot' = boot
  PROVE  /\ Created => ReceivedAt' = now - Interval
         /\ PingReceived => ReceivedAt' = now
<1> DEFINE b == boot["broker"]
<1>1. /\ b \in Nat /\ now \in Nat /\ Monotonic("broker") = b + now
      /\ b + now + Interval + Timeout < Half
  BY ClockReads
<1>2. /\ Interval \in Nat /\ Timeout \in Nat /\ Width \in Nat \ {0}
      /\ Half \in Nat /\ 2 * Half <= Width
  BY Constants, HalfOfWidth
<1>3. ReceivedAt' = (IF recvTs' < Half THEN recvTs' ELSE recvTs' - Width) - b
  BY DEF ReceivedAt, Half
<1>4. ASSUME PingReceived PROVE ReceivedAt' = now
  <2>1. recvTs' = b + now  BY <1>1, <1>4 DEF PingReceived
  <2> QED BY <1>1, <1>2, <1>3, <2>1
<1>5. ASSUME Created PROVE ReceivedAt' = now - Interval
  <2> DEFINE x == b + now - Interval
  <2>1. recvTs' = x % Width /\ x \in Int  BY <1>1, <1>2, <1>5 DEF Created
  <2>2. CASE x >= 0
    <3>1. x < Width /\ x < Half  BY <1>1, <1>2
    <3>2. recvTs' = x  BY <1>2, <2>1, <2>2, <3>1, Modulo
    <3> QED BY <1>1, <1>2, <1>3, <3>1, <3>2
  <2>3. CASE x < 0
    <3>1. 0 <= x + Width /\ ~(x + Width < Half)  BY <1>1, <1>2
    <3>2. recvTs' = x + Width  BY <1>2, <2>1, <2>3, <3>1, Modulo
    <3> QED BY <1>1, <1>2, <1>3, <3>1, <3>2
  <2> QED BY <2>1, <2>2, <2>3
<1> QED BY <1>4, <1>5

\* A pass counts one miss, or nothing is due.
LEMMA PassCounts ==
  ASSUME Typed, - Interval <= ReceivedAt, ReceivedAt <= now, CheckPing, boot' = boot
  PROVE  \/ /\ ReceivedAt + Interval + Timeout < now
            /\ pingsMissed' = pingsMissed + 1 /\ ReceivedAt' = ReceivedAt + Interval
         \/ /\ now <= ReceivedAt + Interval + Timeout
            /\ pingsMissed' = pingsMissed /\ ReceivedAt' = ReceivedAt
<1> DEFINE b == boot["broker"]
<1>1. /\ b \in Nat /\ now \in Nat /\ b + now + Interval + Timeout < Half
      /\ Interval \in Nat /\ Timeout \in Nat /\ Width \in Nat \ {0}
      /\ Half \in Nat /\ 2 * Half <= Width
  BY ClockReads, Constants, HalfOfWidth
<1>2. /\ ReceivedAt \in Int
      /\ \/ recvTs = b + ReceivedAt
         \/ recvTs = b + ReceivedAt + Width /\ b + ReceivedAt < 0
      /\ After(Monotonic("broker"), recvTs + Interval + Timeout)
           <=> ReceivedAt + Interval + Timeout < now
  BY ReceivedReads
<1>3. ReceivedAt' = (IF recvTs' < Half THEN recvTs' ELSE recvTs' - Width) - b
  BY DEF ReceivedAt, Half
<1>4. CASE ReceivedAt + Interval + Timeout < now
  <2>1. pingsMissed' = pingsMissed + 1 /\ recvTs' = (recvTs + Interval) % Width
    BY <1>2, <1>4 DEF CheckPing
  <2> DEFINE x == b + ReceivedAt + Interval
  <2>2. x \in Int /\ 0 <= x /\ x < Half /\ x < Width  BY <1>1, <1>2, <1>4
  <2>3. recvTs + Interval = x \/ recvTs + Interval = x + Width  BY <1>1, <1>2
  <2>4. recvTs' = x
    <3> HIDE DEF x
    <3>1. x % Width = x  BY <1>1, <2>2, Modulo
    <3>2. (x + Width) % Width = (x + Width) - Width
      <4>1. (x + Width) \in Int /\ Width <= x + Width /\ x + Width < 2 * Width
        BY <1>1, <2>2
      <4> QED BY <1>1, <4>1, Modulo
    <3>3. (x + Width) - Width = x  BY <1>1, <2>2
    <3> QED BY <2>1, <2>3, <3>1, <3>2, <3>3
  <2> QED BY <1>1, <1>2, <1>3, <1>4, <2>1, <2>2, <2>4
<1>5. CASE ~(ReceivedAt + Interval + Timeout < now)
  <2>1. pingsMissed' = pingsMissed /\ recvTs' = recvTs  BY <1>2, <1>5 DEF CheckPing
  <2>2. ReceivedAt' = ReceivedAt  BY <1>3, <2>1 DEF ReceivedAt
  <2> QED BY <1>1, <1>2, <1>5, <2>1, <2>2
<1> QED BY <1>4, <1>5

Longest == Max({Interval, PassTimeout})

\* Each miss since the broker heard of the client has taken an interval or a pass.
BrokerClock ==
  conn = "created" =>
    /\ now <= passBy
    /\ - Interval <= ReceivedAt /\ ReceivedAt <= now
    /\ ReceivedAt <= heard["broker"] + pingsMissed * Longest
    /\ passBy <= heard["broker"] + pingsMissed * Longest + Interval + Timeout + PassTimeout

LEMMA BrokerBounds ==
  ASSUME Typed
  PROVE  /\ Longest \in Nat /\ Interval <= Longest /\ PassTimeout <= Longest
         /\ pingsMissed \in Nat /\ now \in Nat /\ heard["broker"] \in Nat
         /\ heard["broker"] <= now /\ passBy \in Nat
         /\ pingsMissed * Longest \in Nat
         /\ (pingsMissed + 1) * Longest = pingsMissed * Longest + Longest
<1>1. Longest \in Nat /\ Interval <= Longest /\ PassTimeout <= Longest
  BY Constants, GreaterOfTwo DEF Longest
<1>2. /\ pingsMissed \in Nat /\ now \in Nat /\ heard["broker"] \in Nat
      /\ heard["broker"] <= now /\ passBy \in Nat
  BY Constants DEF Typed
<1> QED BY <1>1, <1>2, Times

LEMMA NextBrokerClock ==
  ASSUME Typed, BrokerClock, [Next]_vars
  PROVE  BrokerClock'
<1> DEFINE k == pingsMissed * Longest
<1>1. /\ Longest \in Nat /\ Interval <= Longest /\ PassTimeout <= Longest
      /\ pingsMissed \in Nat /\ now \in Nat /\ heard["broker"] \in Nat
      /\ heard["broker"] <= now /\ passBy \in Nat /\ k \in Nat
      /\ (pingsMissed + 1) * Longest = k + Longest
      /\ heard \in [{"broker", "client"} -> 0 .. MaxTime]
  BY BrokerBounds DEF Typed
<1>2. /\ Interval \in Nat \ {0} /\ Timeout \in Nat /\ PassTimeout \in Nat \ {0}
  BY Constants
<1>3. SUFFICES ASSUME conn' = "created"
               PROVE  /\ now' <= passBy'
                      /\ - Interval <= ReceivedAt' /\ ReceivedAt' <= now'
                      /\ ReceivedAt' <= heard'["broker"] + pingsMissed' * Longest
                      /\ passBy' <= heard'["broker"] + pingsMissed' * Longest
                                      + Interval + Timeout + PassTimeout
  BY DEF BrokerClock, Longest
<1>4. CASE BrokerReceive
  <2>1. /\ now' = now /\ boot' = boot /\ passBy' = now /\ heard'["broker"] = now
        /\ pingsMissed' = pingsMissed
    BY <1>1, <1>4 DEF BrokerReceive
  <2>2. Created \/ PingReceived  BY <1>3, <1>4 DEF BrokerReceive
  <2>3. ReceivedAt' = now \/ ReceivedAt' = now - Interval  BY <2>1, <2>2, TimeNoted
  <2> HIDE DEF k
  <2>4. pingsMissed' * Longest = k  BY <2>1 DEF k
  <2> QED BY <1>1, <1>2, <2>1, <2>3, <2>4
<1>5. CASE BrokerPass
  <2>1. /\ conn = "created" /\ now' = now /\ boot' = boot /\ passBy' = now + PassTimeout
        /\ heard' = heard /\ CheckPing
    BY <1>5 DEF BrokerPass
  <2>2. /\ now <= passBy /\ - Interval <= ReceivedAt /\ ReceivedAt <= now
        /\ ReceivedAt <= heard["broker"] + k
        /\ passBy <= heard["broker"] + k + Interval + Timeout + PassTimeout
    BY <2>1 DEF BrokerClock
  <2>3. ReceivedAt \in Int  BY <2>2, ReceivedReads
  <2>4. CASE /\ ReceivedAt + Interval + Timeout < now
             /\ pingsMissed' = pingsMissed + 1 /\ ReceivedAt' = ReceivedAt + Interval
    <3>1. pingsMissed' * Longest = k + Longest  BY <1>1, <2>4
    <3> HIDE DEF k
    <3> QED BY <1>1, <1>2, <2>1, <2>2, <2>3, <2>4, <3>1
  <2>5. CASE /\ now <= ReceivedAt + Interval + Timeout
             /\ pingsMissed' = pingsMissed /\ ReceivedAt' = ReceivedAt
    <3>1. pingsMissed' * Longest = k  BY <2>5
    <3> HIDE DEF k
    <3> QED BY <1>1, <1>2, <2>1, <2>2, <2>3, <2>5, <3>1
  <2> QED BY <2>1, <2>2, <2>4, <2>5, PassCounts
<1>6. CASE Tick
  <2>1. /\ conn = "created" /\ now' = now + 1 /\ now < passBy /\ passBy' = passBy
        /\ heard' = heard /\ pingsMissed' = pingsMissed /\ recvTs' = recvTs /\ boot' = boot
    BY <1>3, <1>6 DEF Tick, brokerVars
  <2>2. ReceivedAt' = ReceivedAt  BY <2>1 DEF ReceivedAt, Half
  <2>3. /\ - Interval <= ReceivedAt /\ ReceivedAt <= now
        /\ ReceivedAt <= heard["broker"] + k
        /\ passBy <= heard["broker"] + k + Interval + Timeout + PassTimeout
    BY <2>1 DEF BrokerClock
  <2>4. ReceivedAt \in Int  BY <2>3, ReceivedReads
  <2>5. pingsMissed' * Longest = k  BY <2>1
  <2> HIDE DEF k
  <2> QED BY <1>1, <1>2, <2>1, <2>2, <2>3, <2>4, <2>5
<1>7. CASE UNCHANGED <<now, boot, conn, recvTs, pingsMissed, passBy>>
           /\ heard'["broker"] = heard["broker"]
  <2>1. ReceivedAt' = ReceivedAt  BY <1>7 DEF ReceivedAt, Half
  <2> QED BY <1>3, <1>7, <2>1 DEF BrokerClock
<1>8. ClientReceive \/ ClientRun \/ Cut \/ Horizon \/ UNCHANGED vars =>
        UNCHANGED <<now, boot, conn, recvTs, pingsMissed, passBy>>
          /\ heard'["broker"] = heard["broker"]
  BY <1>1 DEF ClientReceive, ClientRun, Cut, Horizon, vars, brokerVars
<1>9. ~Reconnect  BY <1>3 DEF Reconnect
<1> QED BY <1>4, <1>5, <1>6, <1>7, <1>8, <1>9 DEF Next

\* A client that fell silent is dropped: whatever the clocks show at first, however the
\* passes fall, and though ping_recv_tsms may lie before the start of the clock.
THEOREM BrokerNoticesSilence == Spec => []BrokerNotices
<1>1. Init => BrokerClock  BY DEF Init, BrokerClock
<1>2. Typed /\ BrokerClock /\ [Next]_vars => BrokerClock'  BY NextBrokerClock
<1>3. Typed /\ BrokerClock => BrokerNotices
  <2> SUFFICES ASSUME Typed, BrokerClock, conn = "created"
               PROVE  now - heard["broker"] <= BrokerPatience
    BY DEF BrokerNotices
  <2> DEFINE k == pingsMissed * Longest
             most == Threshold * Longest
  <2>1. now <= passBy
        /\ passBy <= heard["broker"] + k + Interval + Timeout + PassTimeout
    BY DEF BrokerClock
  <2>2. Longest \in Nat /\ pingsMissed \in Nat /\ pingsMissed <= Threshold /\ k \in Nat
        /\ now \in Nat /\ passBy \in Nat /\ heard["broker"] \in Nat
    BY BrokerBounds DEF Typed
  <2>3. k <= most /\ most \in Nat  BY <2>2, Constants, Times, TimesGrows
  <2>4. BrokerPatience = Interval + Timeout + most + PassTimeout
    BY DEF BrokerPatience, Longest
  <2> HIDE DEF k, most
  <2> QED BY <2>1, <2>2, <2>3, <2>4, Constants
<1> QED BY <1>1, <1>2, <1>3, ClocksTyped, PTL DEF Spec

------------------------------------------------------------------------------
(* The client's patience                                                    *)

\* What one missed pong may take.
Round == Interval + Timeout + RunTimeout

\* Without pongs, the ping after so many misses is sent by then.
PingBy == heard["client"] + Interval + 1 + pongsMissed * Round

ClientClock ==
  /\ state # "connected" => sendTs = 0 /\ ~waiting /\ pongsMissed = 0
  /\ waiting => sendTs # 0 /\ pongTs = 0
  /\ state = "connected" =>
       /\ now <= runBy
       /\ waiting => SentAt <= PingBy /\ runBy <= SentAt + Timeout + RunTimeout
       /\ ~waiting => SentAt + Interval + 1 <= PingBy /\ runBy <= PingBy

LEMMA ClientBounds ==
  ASSUME Typed
  PROVE  /\ boot["client"] \in Nat /\ now \in Nat /\ heard["client"] \in Nat
         /\ heard["client"] <= now /\ runBy \in Nat /\ sendTs \in Nat
         /\ SentAt \in Int /\ SentAt <= now
         /\ Round \in Nat /\ pongsMissed \in Nat /\ pongsMissed * Round \in Nat
         /\ (pongsMissed + 1) * Round = pongsMissed * Round + Round
         /\ PingBy \in Nat
<1>1. /\ boot["client"] \in Nat /\ now \in Nat /\ heard["client"] \in Nat
      /\ heard["client"] <= now /\ runBy \in Nat /\ sendTs \in Nat
      /\ sendTs <= boot["client"] + now /\ pongsMissed \in Nat
  BY ClockReads, Constants DEF Typed
<1>2. SentAt \in Int /\ SentAt <= now  BY <1>1 DEF SentAt
<1>3. Round \in Nat  BY Constants DEF Round
<1>4. /\ pongsMissed * Round \in Nat
      /\ (pongsMissed + 1) * Round = pongsMissed * Round + Round
  BY <1>1, <1>3, Times
<1>5. PingBy \in Nat  BY <1>1, <1>4, Constants DEF PingBy
<1> QED BY <1>1, <1>2, <1>3, <1>4, <1>5

LEMMA SentCompares ==
  ASSUME Typed, NEW d \in Nat, d <= Interval
  PROVE  After(Monotonic("client"), sendTs + d) <=> sendTs + d < Monotonic("client")
<1> DEFINE c == Monotonic("client")
<1>1. /\ boot["client"] \in Nat /\ now \in Nat /\ c = boot["client"] + now
      /\ c + Interval + Timeout < Half
  BY ClockReads
<1>2. sendTs \in Nat /\ sendTs <= c  BY <1>1, ClientBounds DEF Typed
<1>3. c \in Nat  BY <1>1
<1>4. Half \in Nat  BY HalfOfWidth
<1> HIDE DEF c
<1>5. (sendTs + d) \in Int /\ (sendTs + d) - c < Half /\ c - (sendTs + d) <= Half
  BY <1>1, <1>2, <1>3, <1>4, Constants
<1>6. After(c, sendTs + d) <=> sendTs + d < c  BY <1>3, <1>5, AfterCompares
<1> QED BY <1>6 DEF c

LEMMA ReceiveClientClock ==
  ASSUME Typed, ClientClock, ClientReceive
  PROVE  ClientClock'
<1>1. /\ boot' = boot /\ now' = now /\ runBy' = now /\ heard'["client"] = now
      /\ state # "disconnected"
  BY DEF ClientReceive, Typed
<1>2. CASE state' = "connected" /\ UNCHANGED <<sendTs, pongTs, waiting, pongsMissed>>
  <2>1. SentAt' = SentAt  BY <1>1, <1>2 DEF SentAt
  <2>2. PingBy' = now + Interval + 1 + pongsMissed * Round  BY <1>1, <1>2 DEF PingBy, Round
  <2>3. PingBy <= PingBy'
    BY <2>2, ClientBounds, Constants DEF PingBy
  <2>4. SentAt + Interval + 1 <= PingBy' /\ now <= PingBy' /\ SentAt <= PingBy'
    BY <2>2, ClientBounds, Constants
  <2>5. waiting => state = "connected" /\ runBy <= SentAt + Timeout + RunTimeout /\ now <= runBy
    BY DEF ClientClock
  <2>6. waiting => now <= SentAt + Timeout + RunTimeout
    <3> SUFFICES ASSUME waiting PROVE now <= SentAt + Timeout + RunTimeout  OBVIOUS
    <3>1. runBy <= SentAt + Timeout + RunTimeout /\ now <= runBy  BY <2>5
    <3> QED BY <3>1, ClientBounds, Constants
  <2>7. waiting => sendTs # 0 /\ pongTs = 0  BY DEF ClientClock
  <2>8. now <= now  BY ClientBounds
  <2> QED BY <1>1, <1>2, <2>1, <2>4, <2>6, <2>7, <2>8, Zenon DEF ClientClock
<1>3. CASE /\ waiting' = FALSE /\ pongsMissed' = 0 /\ state' = state /\ sendTs' = sendTs
  <2>1. SentAt' = SentAt  BY <1>1, <1>3 DEF SentAt
  <2>2. PingBy' = now + Interval + 1
    <3>1. PingBy' = now + Interval + 1 + 0 * Round  BY <1>1, <1>3 DEF PingBy, Round
    <3> QED BY <3>1, ClientBounds, Constants
  <2>3. SentAt + Interval + 1 <= PingBy' /\ now <= PingBy' /\ now <= now
    BY <2>2, ClientBounds, Constants
  <2>4. state # "connected" => sendTs = 0  BY DEF ClientClock
  <2> QED BY <1>1, <1>3, <2>1, <2>3, <2>4, Zenon DEF ClientClock
<1>4. CASE state' = "disconnected" /\ Reset
  BY <1>4, Zenon DEF ClientClock, Reset
<1> QED BY <1>2, <1>3, <1>4, Zenon DEF ClientReceive

LEMMA RunClientClock ==
  ASSUME Typed, ClientClock, ClientRun
  PROVE  ClientClock'
<1> DEFINE w == RunWait(Monotonic("client"), sendTs')
<1>1. /\ boot' = boot /\ now' = now /\ heard' = heard /\ state = "connected"
      /\ runBy' = now + w
  BY DEF ClientRun
<1>2. /\ boot["client"] \in Nat /\ now \in Nat /\ Monotonic("client") = boot["client"] + now
      /\ Monotonic("client") + Interval + Timeout < Half
      /\ Half \in Nat /\ 2 * Half <= Width
  BY ClockReads, HalfOfWidth
<1>3. sendTs' \in Nat /\ sendTs' <= boot["client"] + now
  BY ClientRunTyped, <1>1, Constants DEF Typed
<1>4. /\ w \in Nat /\ w <= RunTimeout
      /\ now + w <= SentAt' + Interval \/ w = 1
  BY <1>1, <1>3, RunWaits DEF SentAt
<1> HIDE DEF w
<1>5. now <= runBy  BY <1>1 DEF ClientClock
<1>6. now <= now + w  BY <1>2, <1>4
<1>7. CASE SendPing /\ UNCHANGED <<state, pongsMissed>> /\ PingDue
  <2>1. /\ waiting' = TRUE /\ pongTs' = 0 /\ sendTs' = boot["client"] + now
        /\ state' = "connected" /\ pongsMissed' = pongsMissed
    BY <1>1, <1>2, <1>7 DEF SendPing
  <2>2. SentAt' = now  BY <1>1, <1>2, <2>1 DEF SentAt
  <2>3. sendTs' # 0
    <3>1. After(Monotonic("client"), sendTs + Interval)  BY <1>7 DEF PingDue
    <3>2. sendTs + Interval < Monotonic("client")
      BY <3>1, Constants, SentCompares
    <3> QED BY <1>2, <2>1, <3>2, ClientBounds, Constants
  <2>4. PingBy' = PingBy  BY <1>1, <2>1 DEF PingBy, Round
  <2>5. ~waiting  BY <1>7 DEF PingDue
  <2>6. runBy <= PingBy  BY <1>1, <2>5 DEF ClientClock
  <2>7. now <= PingBy /\ now + w <= now + Timeout + RunTimeout
    BY <1>2, <1>4, <1>5, <2>6, ClientBounds, Constants
  <2> QED BY <1>1, <1>6, <2>1, <2>2, <2>3, <2>4, <2>7, Zenon DEF ClientClock
<1>8. CASE PongLate /\ MissPong
  <2>1. waiting /\ sendTs # 0  BY <1>8 DEF PongLate
  <2>2. SentAt <= PingBy /\ runBy <= SentAt + Timeout + RunTimeout
    BY <1>1, <2>1 DEF ClientClock
  <2>3. CASE pongsMissed + 1 > Threshold
    BY <1>8, <2>3, Zenon DEF MissPong, Reset, ClientClock
  <2>4. CASE ~(pongsMissed + 1 > Threshold)
    <3>1. /\ waiting' = FALSE /\ pongsMissed' = pongsMissed + 1
          /\ state' = "connected" /\ sendTs' = sendTs
      BY <1>1, <1>8, <2>4 DEF MissPong
    <3>2. SentAt' = SentAt  BY <1>1, <3>1 DEF SentAt
    <3>3. PingBy' = PingBy + Round
      <4>1. PingBy' = heard["client"] + Interval + 1 + (pongsMissed + 1) * Round
        BY <1>1, <3>1 DEF PingBy, Round
      <4> QED BY <4>1, ClientBounds, Constants DEF PingBy
    <3>4. SentAt + Interval + 1 <= PingBy' /\ now + w <= PingBy'
      BY <1>2, <1>4, <1>5, <2>2, <3>2, <3>3, ClientBounds, Constants DEF Round
    <3> QED BY <1>1, <1>6, <3>1, <3>2, <3>4, Zenon DEF ClientClock
  <2> QED BY <2>3, <2>4
<1>9. CASE /\ ~PingDue /\ ~PongLate
           /\ UNCHANGED <<state, sendTs, pongTs, waiting, pongsMissed, toBroker>>
  <2>1. SentAt' = SentAt  BY <1>1, <1>9 DEF SentAt
  <2>2. PingBy' = PingBy  BY <1>1, <1>9 DEF PingBy, Round
  <2>3. CASE waiting
    <3>1. sendTs # 0 /\ pongTs = 0 /\ SentAt <= PingBy  BY <1>1, <2>3 DEF ClientClock
    <3>2. ~After(Monotonic("client"), sendTs + Timeout)  BY <1>9, <2>3, <3>1 DEF PongLate
    <3>3. ~(sendTs + Timeout < Monotonic("client"))
      BY <3>2, Constants, SentCompares
    <3>4. now + w <= SentAt + Timeout + RunTimeout
      BY <1>2, <1>4, <3>3, ClientBounds, Constants DEF SentAt
    <3> QED BY <1>1, <1>6, <1>9, <2>1, <2>2, <2>3, <3>1, <3>4, Zenon DEF ClientClock
  <2>4. CASE ~waiting
    <3>1. SentAt + Interval + 1 <= PingBy  BY <1>1, <2>4 DEF ClientClock
    <3>2. ~After(Monotonic("client"), sendTs + Interval)  BY <1>9, <2>4 DEF PingDue
    <3>3. ~(sendTs + Interval < Monotonic("client"))
      BY <3>2, Constants, SentCompares
    <3>4. now <= SentAt + Interval  BY <1>2, <3>3, ClientBounds, Constants DEF SentAt
    <3>5. now + w <= PingBy
      BY <1>2, <1>4, <2>1, <3>1, <3>4, ClientBounds, Constants
    <3> QED BY <1>1, <1>6, <1>9, <2>1, <2>2, <2>4, <3>1, <3>5, Zenon DEF ClientClock
  <2> QED BY <2>3, <2>4
<1> QED BY <1>7, <1>8, <1>9, Zenon DEF ClientRun

LEMMA NextClientClock ==
  ASSUME Typed, ClientClock, [Next]_vars
  PROVE  ClientClock'
<1>1. CASE Tick
  <2>1. /\ boot' = boot /\ now' = now + 1 /\ UNCHANGED clientVars /\ heard' = heard
        /\ state = "connected" => now < runBy
    BY <1>1 DEF Tick
  <2>2. SentAt' = SentAt /\ PingBy' = PingBy
    BY <2>1 DEF SentAt, PingBy, Round, clientVars
  <2>3. now < runBy => now + 1 <= runBy  BY ClientBounds
  <2> QED BY <2>1, <2>2, <2>3, Zenon DEF ClientClock, clientVars
<1>2. CASE Reconnect
  BY <1>2, Zenon DEF Reconnect, ClientClock
<1>3. CASE UNCHANGED <<now, boot, clientVars>> /\ heard'["client"] = heard["client"]
  <2>1. SentAt' = SentAt /\ PingBy' = PingBy
    BY <1>3 DEF SentAt, PingBy, Round, clientVars
  <2> QED BY <1>3, <2>1, Zenon DEF ClientClock, clientVars
<1>4. BrokerReceive \/ BrokerPass \/ Cut \/ Horizon \/ UNCHANGED vars =>
        UNCHANGED <<now, boot, clientVars>> /\ heard'["client"] = heard["client"]
  BY DEF BrokerReceive, BrokerPass, Cut, Horizon, vars, Typed
<1> QED BY <1>1, <1>2, <1>3, <1>4, ReceiveClientClock, RunClientClock DEF Next

\* A broker that fell silent is noticed: a ping goes an interval after the one before, or
\* as soon as that is given up, whatever else comes meanwhile.
THEOREM ClientNoticesSilence == Spec => []ClientNotices
<1>1. Init => ClientClock  BY DEF Init, ClientClock
<1>2. Typed /\ ClientClock /\ [Next]_vars => ClientClock'  BY NextClientClock
<1>3. Typed /\ ClientClock => ClientNotices
  <2> SUFFICES ASSUME Typed, ClientClock, state = "connected"
               PROVE  now - heard["client"] <= ClientPatience
    BY DEF ClientNotices
  <2> DEFINE k == pongsMissed * Round
             most == Threshold * Round
  <2>1. now <= runBy /\ runBy <= PingBy + Timeout + RunTimeout
    <3>1. now <= runBy  BY DEF ClientClock
    <3>2. CASE waiting
      <4>1. SentAt <= PingBy /\ runBy <= SentAt + Timeout + RunTimeout
        BY <3>2 DEF ClientClock
      <4> QED BY <3>1, <4>1, ClientBounds, Constants
    <3>3. CASE ~waiting
      <4>1. runBy <= PingBy  BY <3>3 DEF ClientClock
      <4> QED BY <3>1, <4>1, ClientBounds, Constants
    <3> QED BY <3>2, <3>3
  <2>2. PingBy = heard["client"] + Interval + 1 + k  BY DEF PingBy
  <2>3. pongsMissed <= Threshold /\ Round \in Nat /\ pongsMissed \in Nat
    BY ClientBounds, Constants DEF Typed
  <2>4. k <= most /\ k \in Nat /\ most \in Nat  BY <2>3, Constants, Times, TimesGrows
  <2>5. ClientPatience = most + Round + 1
    <3>1. (Threshold + 1) * Round = most + Round  BY <2>3, Constants, Times
    <3> QED BY <3>1 DEF ClientPatience, Round
  <2> HIDE DEF k, most
  <2> QED BY <2>1, <2>2, <2>4, <2>5, ClientBounds, Constants DEF Round
<1> QED BY <1>1, <1>2, <1>3, ClocksTyped, PTL DEF Spec

------------------------------------------------------------------------------
(* Punctual peers                                                           *)

\* A message takes no more than half the time a pong may take.
Prompt == Delay + Delay <= Timeout /\ Timeout > 0

\* The client's clock has not run for an interval when the client connects: its first
\* ping waits until it has.
Young == boot["client"] <= Interval

\* A ping that the broker has by then is in time, or only one miss is counted before.
Punctual(x) ==
  \/ x <= ReceivedAt + Interval + Timeout
  \/ Young /\ pingsMissed = 0 /\ x <= ReceivedAt + Interval + Interval + Timeout

Alone(messages, what) == Len(messages) = 1 /\ messages[1].what = what

NextPing == SentAt + Interval + 1

\* While the link is up one message is on its way, or the client waits for its next ping.
Asking ==
  /\ state = "connecting" /\ conn = "open"
  /\ Alone(toBroker, "create") /\ toClient = <<>>

Answering ==
  /\ state = "connecting" /\ conn = "created"
  /\ toBroker = <<>> /\ Alone(toClient, "result") /\ now <= toClient[1].by
  /\ Punctual(toClient[1].by + Delay) /\ Punctual(NextPing + Delay)

Idle ==
  /\ state = "connected" /\ conn = "created" /\ ~waiting
  /\ toBroker = <<>> /\ toClient = <<>>
  /\ Punctual(runBy + Delay) /\ Punctual(NextPing + Delay)

Pinging ==
  /\ state = "connected" /\ conn = "created" /\ waiting
  /\ Alone(toBroker, "ping") /\ toClient = <<>> /\ now <= toBroker[1].by
  /\ toBroker[1].by = SentAt + Delay /\ Punctual(toBroker[1].by)

Ponging ==
  /\ state = "connected" /\ conn = "created" /\ waiting
  /\ toBroker = <<>> /\ Alone(toClient, "pong") /\ now <= toClient[1].by
  /\ toClient[1].by <= SentAt + Delay + Delay
  /\ Punctual(toClient[1].by + Delay) /\ Punctual(NextPing + Delay)

Forgiving == Threshold > 0 \/ ~Young

FewMissed == pongsMissed = 0 /\ pingsMissed <= IF Young THEN 1 ELSE 0

OnTime ==
  link = "up" /\ Forgiving =>
    FewMissed /\ (Asking \/ Answering \/ Idle \/ Pinging \/ Ponging)

Pings == Typed /\ BrokerClock /\ ClientClock /\ OnTime

LEMMA Received ==
  ASSUME Typed
  PROVE  /\ ReceivedAt \in Int /\ boot["broker"] \in Nat /\ now \in Nat
         /\ conn = "created" /\ BrokerClock => - Interval <= ReceivedAt /\ ReceivedAt <= now
<1>1. boot["broker"] \in Nat /\ now \in Nat  BY ClockReads
<1>2. ReceivedAt \in Int  BY <1>1, Constants DEF Typed, ReceivedAt
<1> QED BY <1>1, <1>2 DEF BrokerClock

LEMMA PunctualStays ==
  ASSUME boot' = boot, recvTs' = recvTs, pingsMissed' = pingsMissed, NEW CONSTANT x
  PROVE  Punctual(x)' <=> Punctual(x)
BY DEF Punctual, ReceivedAt, Young, Half

LEMMA PassPunctual ==
  ASSUME Typed, BrokerClock, conn = "created", CheckPing, boot' = boot, FewMissed,
         NEW CONSTANT x \in Int, now <= x, Punctual(x)
  PROVE  /\ pingsMissed' <= IF Young THEN 1 ELSE 0
         /\ \A y \in Int : Punctual(y) => Punctual(y)'
<1>1. ReceivedAt \in Int /\ - Interval <= ReceivedAt /\ ReceivedAt <= now /\ now \in Nat
  BY Received
<1>2. pingsMissed \in Nat  BY Constants DEF Typed
<1>3. Young' <=> Young  BY DEF Young
<1>4. CASE /\ ReceivedAt + Interval + Timeout < now
           /\ pingsMissed' = pingsMissed + 1 /\ ReceivedAt' = ReceivedAt + Interval
  <2>1. Young /\ pingsMissed = 0  BY <1>1, <1>4, Constants DEF Punctual
  <2>2. ASSUME NEW y \in Int, Punctual(y) PROVE Punctual(y)'
    BY <1>1, <1>4, <2>2, Constants DEF Punctual
  <2> QED BY <1>4, <2>1, <2>2
<1>5. CASE /\ now <= ReceivedAt + Interval + Timeout
           /\ pingsMissed' = pingsMissed /\ ReceivedAt' = ReceivedAt
  <2>1. ASSUME NEW y \in Int, Punctual(y) PROVE Punctual(y)'
    BY <1>3, <1>5, <2>1 DEF Punctual
  <2> QED BY <1>5, <2>1 DEF FewMissed
<1> QED BY <1>1, <1>4, <1>5, PassCounts

LEMMA Queues ==
  ASSUME Typed
  PROVE  /\ Len(toBroker) = 1 =>
              /\ toBroker # <<>> /\ Head(toBroker) = toBroker[1] /\ Tail(toBroker) = <<>>
              /\ toBroker[1].by \in Nat
         /\ Len(toClient) = 1 =>
              /\ toClient # <<>> /\ Head(toClient) = toClient[1] /\ Tail(toClient) = <<>>
              /\ toClient[1].by \in Nat
<1>1. ASSUME NEW S, NEW s \in Seq(S), Len(s) = 1
      PROVE  s # <<>> /\ Head(s) = s[1] /\ Tail(s) = <<>> /\ s[1] \in S
  <2>1. s # <<>> /\ Head(s) = s[1] /\ s[1] \in S  BY <1>1
  <2>2. Tail(s) \in Seq(S) /\ Len(Tail(s)) = 0  BY <1>1, <2>1
  <2>3. Tail(s) = <<>>  BY <2>2, EmptySeq
  <2> QED BY <2>1, <2>3
<1>2. toBroker \in Seq(UpMessage) /\ toClient \in Seq(DownMessage)  BY DEF Typed
<1> QED BY <1>1, <1>2 DEF UpMessage, DownMessage

LEMMA Sole ==
  ASSUME Typed, NEW what
  PROVE  /\ Alone(Append(<<>>, Message(what)), what)
         /\ Append(<<>>, Message(what))[1].by = now + Delay
         /\ Alone(<<Message(what)>>, what)
BY DEF Alone, Message

\* The create, or a ping, arrives.
LEMMA BrokerReceiveOnTime ==
  ASSUME Prompt, Pings, BrokerReceive
  PROVE  OnTime'
<1>1. /\ Typed /\ BrokerClock /\ ClientClock
      /\ UNCHANGED <<now, boot, clientVars, pingsMissed, link>>
      /\ link = "up" /\ toBroker' = Tail(toBroker)
  BY DEF Pings, BrokerReceive
<1>2. SUFFICES ASSUME Forgiving
               PROVE  FewMissed' /\ (Answering' \/ Ponging')
  BY <1>1 DEF OnTime, Forgiving, Young
<1>3. FewMissed /\ (Asking \/ Answering \/ Idle \/ Pinging \/ Ponging)
  BY <1>1, <1>2 DEF Pings, OnTime
<1>4. FewMissed'  BY <1>1, <1>3 DEF FewMissed, Young, clientVars
<1>5. /\ boot["client"] \in Nat /\ now \in Nat /\ SentAt \in Int /\ SentAt <= now
  BY <1>1, ClientBounds
<1>6. /\ Interval \in Nat \ {0} /\ Timeout \in Nat /\ Delay \in Nat
      /\ Delay + Delay <= Timeout /\ Delay + 1 <= Timeout
  BY Constants DEF Prompt
<1>7. SentAt' = SentAt /\ NextPing' = NextPing /\ NextPing = SentAt + Interval + 1
      /\ NextPing \in Int
  BY <1>1, <1>5, <1>6 DEF SentAt, NextPing, clientVars
<1>8. toBroker # <<>>  BY DEF BrokerReceive
<1>9. CASE Asking
  <2>1. /\ Head(toBroker).what = "create" /\ toBroker' = <<>>
        /\ state' = "connecting" /\ conn = "open" /\ toClient = <<>>
    BY <1>1, <1>9, Queues DEF Asking, Alone, clientVars
  <2>2. conn' = "created" /\ Created /\ toClient' = Append(<<>>, Message("result"))
    BY <2>1 DEF BrokerReceive
  <2>3. Alone(toClient', "result") /\ toClient'[1].by = now + Delay
    BY <1>1, <2>2, Sole
  <2>4. ReceivedAt' = now - Interval  BY <1>1, <2>2, TimeNoted
  <2>5. pingsMissed' = 0  BY <1>1, <2>1 DEF Typed
  <2>6. sendTs = 0  BY <1>1, <1>9 DEF ClientClock, Asking
  <2>7. Young' <=> boot["client"] <= Interval  BY <1>1 DEF Young
  <2>8. NextPing = Interval + 1 - boot["client"]
    BY <1>5, <1>6, <1>7, <2>6 DEF SentAt
  <2>9. Punctual(now + Delay + Delay)'
    <3>1. now + Delay + Delay <= (now - Interval) + Interval + Timeout
      BY <1>5, <1>6
    <3> QED BY <1>1, <2>4, <3>1 DEF Punctual
  <2>10. Punctual(NextPing + Delay)'
    <3>1. CASE boot["client"] <= Interval
      <4>1. NextPing + Delay <= (now - Interval) + Interval + Interval + Timeout
        BY <1>5, <1>6, <2>8
      <4> QED BY <1>7, <2>4, <2>5, <2>7, <3>1, <4>1 DEF Punctual
    <3>2. CASE ~(boot["client"] <= Interval)
      <4>1. NextPing + Delay <= (now - Interval) + Interval + Timeout
        BY <1>5, <1>6, <2>8, <3>2
      <4> QED BY <1>7, <2>4, <4>1 DEF Punctual
    <3> QED BY <3>1, <3>2
  <2>11. now' <= toClient'[1].by  BY <1>1, <1>5, <1>6, <2>3
  <2>12. Punctual(toClient[1].by + Delay)'
    BY <1>1, <2>3, <2>9 DEF Punctual
  <2> QED BY <1>4, <2>1, <2>2, <2>3, <2>10, <2>11, <2>12 DEF Answering, Alone
<1>10. CASE Pinging
  <2>1. /\ Head(toBroker).what = "ping" /\ toBroker' = <<>> /\ now <= SentAt + Delay
        /\ state' = "connected" /\ conn = "created" /\ toClient = <<>> /\ waiting'
    BY <1>1, <1>10, Queues DEF Pinging, Alone, clientVars
  <2>2. conn' = "created" /\ PingReceived /\ toClient' = Append(<<>>, Message("pong"))
    BY <2>1 DEF BrokerReceive
  <2>3. Alone(toClient', "pong") /\ toClient'[1].by = now + Delay
    BY <1>1, <2>2, Sole
  <2>4. ReceivedAt' = now  BY <1>1, <2>2, TimeNoted
  <2>5. /\ now + Delay + Delay <= now + Interval + Timeout
        /\ NextPing + Delay <= now + Interval + Timeout
        /\ now <= now + Delay /\ now + Delay <= SentAt + Delay + Delay
    BY <1>5, <1>6, <1>7, <2>1
  <2>6. Punctual(toClient[1].by + Delay)' /\ Punctual(NextPing + Delay)'
    BY <1>7, <2>3, <2>4, <2>5 DEF Punctual
  <2>7. now' <= toClient'[1].by /\ toClient'[1].by <= SentAt' + Delay + Delay
    BY <1>1, <1>7, <2>3, <2>5
  <2> QED BY <1>4, <2>1, <2>2, <2>3, <2>6, <2>7 DEF Ponging, Alone
<1> QED BY <1>3, <1>8, <1>9, <1>10 DEF Answering, Idle, Ponging

\* The broker looks at the time, and is not impatient.
LEMMA BrokerPassOnTime ==
  ASSUME Prompt, Pings, BrokerPass
  PROVE  OnTime'
<1>1. /\ Typed /\ BrokerClock /\ ClientClock /\ conn = "created" /\ CheckPing
      /\ UNCHANGED <<now, boot, clientVars, toBroker, link>>
  BY DEF Pings, BrokerPass
<1>2. SUFFICES ASSUME Forgiving, link = "up"
               PROVE  FewMissed' /\ (Answering' \/ Idle' \/ Pinging' \/ Ponging')
  BY <1>1 DEF OnTime, Forgiving, Young
<1>3. FewMissed /\ (Answering \/ Idle \/ Pinging \/ Ponging)
  BY <1>1, <1>2 DEF Pings, OnTime, Asking
<1>4. /\ now \in Nat /\ SentAt \in Int /\ runBy \in Nat /\ Delay \in Nat
      /\ NextPing \in Int /\ Interval \in Nat
  BY <1>1, ClientBounds, Constants DEF NextPing
<1>5. SentAt' = SentAt /\ NextPing' = NextPing
  BY <1>1 DEF SentAt, NextPing, clientVars
<1>6. ASSUME NEW x \in Int, now <= x, Punctual(x)
      PROVE  /\ FewMissed' /\ conn' = "created" /\ toClient' = toClient
             /\ \A y \in Int : Punctual(y) => Punctual(y)'
  <2>1. /\ pingsMissed' <= IF Young THEN 1 ELSE 0
        /\ \A y \in Int : Punctual(y) => Punctual(y)'
    BY <1>1, <1>3, <1>6, PassPunctual
  <2>2. pingsMissed' \in Nat  BY BrokerPassTyped, <1>1, Constants DEF Typed
  <2>3. pingsMissed' <= Threshold  BY <1>2, <2>1, <2>2, Constants DEF Forgiving
  <2>4. conn' = "created" /\ toClient' = toClient
    BY <1>1, <2>2, <2>3, Constants DEF BrokerPass
  <2>5. FewMissed'  BY <1>1, <1>3, <2>1 DEF FewMissed, Young, clientVars
  <2> QED BY <2>1, <2>4, <2>5
<1>7. CASE Answering
  <2>1. PICK by \in Nat : by = toClient[1].by  BY <1>1, <1>7, Queues DEF Answering, Alone
  <2>2. /\ now <= by + Delay /\ Punctual(by + Delay) /\ Punctual(NextPing + Delay)
        /\ (by + Delay) \in Int /\ (NextPing + Delay) \in Int
    BY <1>4, <1>7, <2>1 DEF Answering
  <2>3. /\ FewMissed' /\ conn' = "created" /\ toClient' = toClient
        /\ Punctual(by + Delay)' /\ Punctual(NextPing + Delay)'
    BY <1>5, <1>6, <2>2 DEF Punctual
  <2>4. Punctual(toClient[1].by + Delay)'  BY <2>1, <2>3 DEF Punctual
  <2> QED BY <1>1, <1>7, <2>3, <2>4 DEF Answering, Alone, clientVars
<1>8. CASE Idle
  <2>1. now <= runBy  BY <1>1, <1>8 DEF ClientClock, Idle
  <2>2. /\ now <= runBy + Delay /\ Punctual(runBy + Delay) /\ Punctual(NextPing + Delay)
        /\ (runBy + Delay) \in Int /\ (NextPing + Delay) \in Int
    BY <1>4, <1>8, <2>1 DEF Idle
  <2>3. /\ FewMissed' /\ conn' = "created" /\ toClient' = toClient
        /\ Punctual(runBy + Delay)' /\ Punctual(NextPing + Delay)'
    BY <1>1, <1>5, <1>6, <2>2 DEF Punctual, clientVars
  <2> QED BY <1>1, <1>8, <2>3 DEF Idle, clientVars
<1>9. CASE Pinging
  <2>1. PICK by \in Nat : by = toBroker[1].by  BY <1>1, <1>9, Queues DEF Pinging, Alone
  <2>2. now <= by /\ Punctual(by) /\ by \in Int  BY <1>9, <2>1 DEF Pinging
  <2>3. FewMissed' /\ conn' = "created" /\ toClient' = toClient /\ Punctual(by)'
    BY <1>6, <2>2
  <2>4. Punctual(toBroker[1].by)'  BY <1>1, <2>1, <2>3 DEF Punctual
  <2> QED BY <1>1, <1>5, <1>9, <2>3, <2>4 DEF Pinging, Alone, clientVars
<1>10. CASE Ponging
  <2>1. PICK by \in Nat : by = toClient[1].by  BY <1>1, <1>10, Queues DEF Ponging, Alone
  <2>2. /\ now <= by + Delay /\ Punctual(by + Delay) /\ Punctual(NextPing + Delay)
        /\ (by + Delay) \in Int /\ (NextPing + Delay) \in Int
    BY <1>4, <1>10, <2>1 DEF Ponging
  <2>3. /\ FewMissed' /\ conn' = "created" /\ toClient' = toClient
        /\ Punctual(by + Delay)' /\ Punctual(NextPing + Delay)'
    BY <1>5, <1>6, <2>2 DEF Punctual
  <2>4. Punctual(toClient[1].by + Delay)'  BY <2>1, <2>3 DEF Punctual
  <2> QED BY <1>1, <1>5, <1>10, <2>3, <2>4 DEF Ponging, Alone, clientVars
<1> QED BY <1>3, <1>7, <1>8, <1>9, <1>10

\* The result of the create, or a pong, arrives.
LEMMA ClientReceiveOnTime ==
  ASSUME Prompt, Pings, ClientReceive
  PROVE  OnTime'
<1>1. /\ Typed /\ BrokerClock /\ ClientClock /\ toClient # <<>>
      /\ UNCHANGED <<now, boot, brokerVars, toBroker, link>>
      /\ link = "up" /\ toClient' = Tail(toClient) /\ runBy' = now
  BY DEF Pings, ClientReceive
<1>2. SUFFICES ASSUME Forgiving
               PROVE  FewMissed' /\ Idle'
  BY <1>1 DEF OnTime, Forgiving, Young
<1>3. FewMissed /\ (Answering \/ Ponging)
  BY <1>1, <1>2 DEF Pings, OnTime, Asking, Idle, Pinging
<1>4. /\ now \in Nat /\ Delay \in Nat /\ Interval \in Nat /\ Timeout \in Nat
      /\ ReceivedAt \in Int
  BY <1>1, ClientBounds, Constants, Received
<1>5. /\ Len(toClient) = 1 /\ conn = "created" /\ toBroker = <<>>
      /\ now <= toClient[1].by /\ toClient[1].by \in Nat
      /\ Punctual(toClient[1].by + Delay) /\ Punctual(NextPing + Delay)
  BY <1>1, <1>3, Queues DEF Answering, Ponging, Alone
<1>6. toClient' = <<>> /\ Head(toClient) = toClient[1]  BY <1>1, <1>5, Queues
<1>7. /\ state' = "connected" /\ ~waiting' /\ pongsMissed' = 0 /\ sendTs' = sendTs
  <2>1. CASE Answering
    <3>1. Head(toClient).what = "result"  BY <1>6, <2>1 DEF Answering, Alone
    <3>2. state' = "connected" /\ UNCHANGED <<sendTs, waiting, pongsMissed>>
      BY <3>1 DEF ClientReceive
    <3>3. ~waiting /\ pongsMissed = 0  BY <1>1, <2>1 DEF ClientClock, Answering
    <3> QED BY <3>2, <3>3
  <2>2. CASE Ponging
    <3>1. Head(toClient).what = "pong"  BY <1>6, <2>2 DEF Ponging, Alone
    <3>2. UNCHANGED <<state, sendTs>> /\ waiting' = FALSE /\ pongsMissed' = 0
      BY <3>1 DEF ClientReceive
    <3> QED BY <2>2, <3>2 DEF Ponging
  <2> QED BY <1>3, <2>1, <2>2
<1>8. FewMissed'  BY <1>1, <1>3, <1>7 DEF FewMissed, Young, brokerVars
<1>9. Punctual(NextPing + Delay)'
  <2>1. NextPing' = NextPing  BY <1>1, <1>7 DEF NextPing, SentAt
  <2> QED BY <1>1, <1>5, <2>1 DEF Punctual, ReceivedAt, Young, Half, brokerVars
<1>10. Punctual(runBy + Delay)'
  <2>1. PICK by \in Nat : by = toClient[1].by  BY <1>5
  <2>2. Punctual(by + Delay) /\ now <= by  BY <1>5, <2>1
  <2>3. Punctual(now + Delay)  BY <1>4, <2>2 DEF Punctual
  <2> QED BY <1>1, <2>3 DEF Punctual, ReceivedAt, Young, Half, brokerVars
<1> QED BY <1>1, <1>5, <1>6, <1>7, <1>8, <1>9, <1>10 DEF Idle, brokerVars

\* A ping is sent when it is due, and no pong is late.
LEMMA ClientRunOnTime ==
  ASSUME Prompt, Pings, ClientRun
  PROVE  OnTime'
<1> DEFINE w == RunWait(Monotonic("client"), sendTs')
<1>1. /\ Typed /\ BrokerClock /\ ClientClock /\ state = "connected"
      /\ UNCHANGED <<now, boot, brokerVars, toClient, link>> /\ runBy' = now + w
  BY DEF Pings, ClientRun
<1>2. SUFFICES ASSUME Forgiving, link = "up"
               PROVE  FewMissed' /\ (Idle' \/ Pinging' \/ Ponging')
  BY <1>1 DEF OnTime, Forgiving, Young
<1>3. FewMissed /\ (Idle \/ Pinging \/ Ponging)
  BY <1>1, <1>2 DEF Pings, OnTime, Asking, Answering
<1>4. /\ now \in Nat /\ SentAt \in Int /\ runBy \in Nat /\ boot["client"] \in Nat
      /\ ReceivedAt \in Int /\ Monotonic("client") = boot["client"] + now /\ sendTs \in Nat
  BY <1>1, ClientBounds, ClockReads, Received
<1>5. /\ Interval \in Nat \ {0} /\ Timeout \in Nat /\ Delay \in Nat
      /\ Delay + Delay <= Timeout /\ Timeout <= Interval
  BY Constants DEF Prompt
<1>6. now <= runBy  BY <1>1 DEF ClientClock
<1>7. ASSUME NEW CONSTANT x PROVE Punctual(x)' <=> Punctual(x)
  BY <1>1, PunctualStays DEF brokerVars
<1>8. CASE waiting
  <2>1. now <= SentAt + Timeout
    <3>1. CASE Pinging
      <4>1. now <= SentAt + Delay  BY <3>1 DEF Pinging
      <4> QED BY <1>4, <1>5, <4>1
    <3>2. CASE Ponging
      <4>1. toClient[1].by \in Nat /\ now <= toClient[1].by
            /\ toClient[1].by <= SentAt + Delay + Delay
        BY <1>1, <3>2, Queues DEF Ponging, Alone
      <4> QED BY <1>4, <1>5, <4>1
    <3> QED BY <1>3, <1>8, <3>1, <3>2 DEF Idle
  <2>2. ~(sendTs + Timeout < Monotonic("client"))
    BY <1>4, <1>5, <2>1 DEF SentAt
  <2>3. ~PongLate /\ ~PingDue
    BY <1>1, <1>5, <1>8, <2>2, SentCompares DEF PongLate, PingDue
  <2>4. UNCHANGED <<state, sendTs, pongTs, waiting, pongsMissed, toBroker>>
    BY <2>3, Zenon DEF ClientRun
  <2>5. SentAt' = SentAt /\ NextPing' = NextPing  BY <1>1, <2>4 DEF SentAt, NextPing
  <2>6. FewMissed'  BY <1>1, <1>3, <2>4 DEF FewMissed, Young, brokerVars
  <2>7. CASE Pinging
    <3>1. Punctual(toBroker[1].by)'
      BY <1>1, <2>4, <2>7 DEF Pinging, Punctual, ReceivedAt, Young, Half, brokerVars
    <3> QED BY <1>1, <2>4, <2>5, <2>6, <2>7, <3>1 DEF Pinging, Alone, brokerVars
  <2>8. CASE Ponging
    <3>1. Punctual(toClient[1].by + Delay)' /\ Punctual(NextPing + Delay)'
      BY <1>1, <2>5, <2>8 DEF Ponging, Punctual, ReceivedAt, Young, Half, brokerVars
    <3> QED BY <1>1, <2>4, <2>5, <2>6, <2>8, <3>1 DEF Ponging, Alone, brokerVars
  <2> QED BY <1>3, <1>8, <2>7, <2>8 DEF Idle
<1>9. CASE ~waiting
  <2>1. Idle  BY <1>3, <1>9 DEF Pinging, Ponging
  <2>2. ~PongLate  BY <1>9 DEF PongLate
  <2>3. PingDue <=> sendTs + Interval < Monotonic("client")
    BY <1>1, <1>5, <1>9, SentCompares DEF PingDue
  <2>4. CASE PingDue
    <3>1. SendPing /\ UNCHANGED <<state, pongsMissed>>
      BY <2>2, <2>4, Zenon DEF ClientRun
    <3>2. waiting' /\ sendTs' = boot["client"] + now /\ state' = "connected"
      BY <1>1, <1>4, <3>1 DEF SendPing
    <3>3. toBroker' = Append(<<>>, Message("ping"))  BY <2>1, <3>1 DEF SendPing, Idle
    <3>4. Alone(toBroker', "ping") /\ toBroker'[1].by = now + Delay
      BY <1>1, <3>3, Sole
    <3>5. SentAt' = now  BY <1>1, <1>4, <3>2 DEF SentAt
    <3>6. Punctual(now + Delay)
      <4>1. Punctual(runBy + Delay)  BY <2>1 DEF Idle
      <4> QED BY <1>4, <1>5, <1>6, <4>1 DEF Punctual
    <3>7. Punctual(toBroker[1].by)'
      BY <1>1, <3>4, <3>6 DEF Punctual, ReceivedAt, Young, Half, brokerVars
    <3>8. FewMissed'  BY <1>1, <1>3, <3>1 DEF FewMissed, Young, brokerVars
    <3>9. conn' = "created" /\ toClient' = <<>>  BY <1>1, <2>1 DEF Idle, brokerVars
    <3>10. now' <= toBroker'[1].by /\ toBroker'[1].by = SentAt' + Delay
      BY <1>1, <1>4, <1>5, <3>4, <3>5
    <3> QED BY <3>2, <3>4, <3>7, <3>8, <3>9, <3>10 DEF Pinging, Alone
  <2>5. CASE ~PingDue
    <3>1. UNCHANGED <<state, sendTs, pongTs, waiting, pongsMissed, toBroker>>
      BY <2>2, <2>5, Zenon DEF ClientRun
    <3>2. SentAt' = SentAt /\ NextPing' = NextPing  BY <1>1, <3>1 DEF SentAt, NextPing
    <3>3. FewMissed'  BY <1>1, <1>3, <3>1 DEF FewMissed, Young, brokerVars
    <3>4. w \in Nat /\ (now + w <= SentAt + Interval \/ w = 1)
      BY <1>1, <1>4, <3>1, RunWaits DEF SentAt, Typed
    <3>5. now <= SentAt + Interval
      BY <1>4, <1>5, <2>3, <2>5 DEF SentAt
    <3> HIDE DEF w
    <3>6. now + w <= NextPing /\ NextPing \in Int
      BY <1>4, <1>5, <3>4, <3>5 DEF NextPing
    <3>7. Punctual(NextPing + Delay)  BY <2>1 DEF Idle
    <3>8. Punctual(now + w + Delay)  BY <1>4, <1>5, <3>4, <3>6, <3>7 DEF Punctual
    <3>9. Punctual(NextPing + Delay)' /\ Punctual(runBy + Delay)'
      BY <1>1, <3>2, <3>7, <3>8 DEF Punctual, ReceivedAt, Young, Half, brokerVars
    <3> QED BY <1>1, <2>1, <3>1, <3>3, <3>9 DEF Idle, brokerVars
  <2> QED BY <2>4, <2>5
<1> QED BY <1>8, <1>9

LEMMA ReconnectOnTime ==
  ASSUME Pings, Reconnect
  PROVE  OnTime'
<1>1. Typed /\ ClientClock  BY DEF Pings
<1>2. /\ state' = "connecting" /\ conn' = "open" /\ toClient' = <<>>
      /\ toBroker' = <<Message("create")>> /\ pingsMissed' = 0 /\ pongsMissed' = pongsMissed
      /\ state = "disconnected"
  BY DEF Reconnect
<1>3. Asking'  BY <1>1, <1>2, Sole DEF Asking, Alone
<1>4. pongsMissed = 0  BY <1>1, <1>2 DEF ClientClock
<1>5. FewMissed'  BY <1>2, <1>4 DEF FewMissed
<1> QED BY <1>3, <1>5 DEF OnTime

LEMMA TickOnTime ==
  ASSUME Pings, Tick
  PROVE  OnTime'
<1>1. /\ Typed /\ BrokerClock /\ ClientClock /\ now' = now + 1
      /\ UNCHANGED <<boot, clientVars, brokerVars, linkVars>>
      /\ conn # "closed" => InTime(toBroker)
      /\ state # "disconnected" => InTime(toClient)
  BY DEF Pings, Tick
<1>2. SUFFICES ASSUME Forgiving, link = "up"
               PROVE  FewMissed' /\ (Asking' \/ Answering' \/ Idle' \/ Pinging' \/ Ponging')
  BY <1>1 DEF OnTime, Forgiving, Young, linkVars
<1>3. FewMissed /\ (Asking \/ Answering \/ Idle \/ Pinging \/ Ponging)
  BY <1>1, <1>2 DEF Pings, OnTime
<1>4. FewMissed'  BY <1>1, <1>3 DEF FewMissed, Young, clientVars, brokerVars
<1>5. SentAt' = SentAt /\ NextPing' = NextPing
  BY <1>1 DEF SentAt, NextPing, clientVars
<1>6. /\ Punctual(NextPing + Delay)' <=> Punctual(NextPing + Delay)
      /\ Punctual(runBy + Delay)' <=> Punctual(runBy + Delay)
      /\ Punctual(toBroker[1].by)' <=> Punctual(toBroker[1].by)
      /\ Punctual(toClient[1].by + Delay)' <=> Punctual(toClient[1].by + Delay)
  BY <1>1, <1>5 DEF Punctual, ReceivedAt, Young, Half, brokerVars, linkVars, clientVars
<1>7. now \in Nat  BY <1>1, ClientBounds
<1>8. /\ conn # "closed" /\ Len(toBroker) = 1 => now + 1 <= toBroker[1].by
      /\ state # "disconnected" /\ Len(toClient) = 1 => now + 1 <= toClient[1].by
  BY <1>1, <1>2, <1>7, Queues DEF InTime
<1>9. CASE Asking
  BY <1>1, <1>4, <1>9 DEF Asking, Alone, clientVars, brokerVars, linkVars
<1>10. CASE Answering
  <2>1. now' <= toClient'[1].by  BY <1>1, <1>8, <1>10 DEF Answering, Alone, linkVars
  <2> QED BY <1>1, <1>4, <1>6, <1>10, <2>1 DEF Answering, Alone, clientVars, brokerVars, linkVars
<1>11. CASE Idle
  BY <1>1, <1>4, <1>6, <1>11 DEF Idle, clientVars, brokerVars, linkVars
<1>12. CASE Pinging
  <2>1. now' <= toBroker'[1].by  BY <1>1, <1>8, <1>12 DEF Pinging, Alone, linkVars
  <2> QED BY <1>1, <1>4, <1>5, <1>6, <1>12, <2>1
          DEF Pinging, Alone, clientVars, brokerVars, linkVars
<1>13. CASE Ponging
  <2>1. now' <= toClient'[1].by  BY <1>1, <1>8, <1>13 DEF Ponging, Alone, linkVars
  <2> QED BY <1>1, <1>4, <1>5, <1>6, <1>13, <2>1
          DEF Ponging, Alone, clientVars, brokerVars, linkVars
<1> QED BY <1>3, <1>9, <1>10, <1>11, <1>12, <1>13

LEMMA NextOnTime ==
  ASSUME Prompt, Pings, [Next]_vars
  PROVE  OnTime'
<1>1. CASE Cut
  BY <1>1 DEF Cut, OnTime
<1>2. CASE UNCHANGED vars
  BY <1>2 DEF Pings, OnTime, Forgiving, FewMissed, Asking, Answering, Idle, Pinging, Ponging,
              Alone, Punctual, NextPing, SentAt, ReceivedAt, Young, Half, vars, clientVars,
              brokerVars, linkVars
<1> QED
  BY <1>1, <1>2, BrokerReceiveOnTime, BrokerPassOnTime, ClientReceiveOnTime, ClientRunOnTime,
     ReconnectOnTime, TickOnTime DEF Next, Horizon

LEMMA InitOnTime == Init => BrokerClock /\ ClientClock /\ OnTime
<1> SUFFICES ASSUME Init PROVE BrokerClock /\ ClientClock /\ OnTime  OBVIOUS
<1>1. BrokerClock /\ ClientClock  BY DEF Init, BrokerClock, ClientClock
<1>2. Asking  BY InitTyped, Sole DEF Init, Asking
<1>3. FewMissed  BY DEF Init, FewMissed
<1> QED BY <1>1, <1>2, <1>3 DEF OnTime

\* With prompt messages, and unless a young clock meets a threshold of 0, there is always
\* one of the create, its result, a ping and its pong on its way, or the next ping in time.
THEOREM PingsGoRound == ASSUME Prompt PROVE Spec => []Pings
<1>1. Prompt  OBVIOUS
<1>2. Init => Pings  BY InitTyped, InitOnTime DEF Pings
<1>3. Pings /\ [Next]_vars => Pings'
  <2> SUFFICES ASSUME Pings, [Next]_vars PROVE Pings'  OBVIOUS
  <2>1. Typed /\ BrokerClock /\ ClientClock  BY DEF Pings
  <2> QED BY <1>1, <2>1, NextTyped, NextBrokerClock, NextClientClock, NextOnTime DEF Pings
<1> QED BY <1>2, <1>3, PTL DEF Spec

\* No end drops the other while the link is up: not by a ping that waited for the client's
\* clock to reach the interval either, if one miss is let pass.
THEOREM NobodyIsDropped ==
  ASSUME Prompt, Threshold > 0 \/ \A b \in Boots : b > Interval
  PROVE  Spec => []NoFalseDrop
<1>1. Pings => NoFalseDrop
  <2> SUFFICES ASSUME Pings, link = "up" PROVE conn # "closed" /\ state # "disconnected"
    BY DEF NoFalseDrop
  <2>1. boot["client"] \in Boots /\ boot["client"] \in Nat
    BY ClockReads DEF Pings, Typed
  <2>2. Forgiving  BY <2>1, Constants DEF Forgiving, Young
  <2> QED BY <2>2 DEF Pings, OnTime, Asking, Answering, Idle, Pinging, Ponging
<1> QED BY <1>1, PingsGoRound, PTL

\* And on clocks that have passed the interval nothing is counted as missed at all.
THEOREM NothingIsMissed == ASSUME Prompt PROVE Spec => []NothingMissed
<1>1. Pings => NothingMissed
  <2> SUFFICES ASSUME Pings, link = "up", \A who \in DOMAIN boot : boot[who] > Interval
               PROVE  pingsMissed = 0 /\ pongsMissed = 0
    BY DEF NothingMissed
  <2>1. boot["client"] > Interval /\ boot["client"] \in Nat
    BY ClockReads DEF Pings, Typed
  <2>2. ~Young /\ Forgiving  BY <2>1, Constants DEF Forgiving, Young
  <2>3. pingsMissed \in Nat  BY Constants DEF Pings, Typed
  <2> QED BY <2>2, <2>3 DEF Pings, OnTime, FewMissed
<1> QED BY <1>1, PingsGoRound, PTL

=============================================================================
