----------------------------- MODULE MbusClient ------------------------------
(***************************************************************************)
(* The client library, src/src/client/client.c: mbus_client_run, the calls *)
(* of the application's threads, and the broker as a client sees it.       *)
(*                                                                         *)
(* mbus_client_run is one thread that holds the client's mutex, except in  *)
(* poll and while it calls back.  todo is what this call of it still has to *)
(* do: each step takes the first entry and may put others before the rest, *)
(* as the code does by calling mbus_client_reset or by goto out.  A step    *)
(* that ends in a callback or in poll leaves locked FALSE; only then can   *)
(* the application call in, from the callback or from another thread.      *)
(***************************************************************************)
EXTENDS Naturals, Sequences, FiniteSets, SequencesExt

CONSTANTS
  MaxRequests,   \* requests made in a behaviour, those of the library included
  MaxFrames,     \* events and calls the broker sends of its own accord
  SeqStart,      \* MBUS_METHOD_SEQUENCE_START
  SeqEnd,        \* MBUS_METHOD_SEQUENCE_END
  Commands,      \* commands to register
  Topics,        \* (source, event) pairs to subscribe to
  Kinds,         \* what the application asks for
  Refusals,      \* kinds of requests the broker may answer with a failure
  Interval,      \* connect_interval > 0
  Pinging,       \* ping_interval > 0
  Careful        \* no second (un)register of a name before the first is completed

\* event: a publish at most once, neither addressed to the broker nor named ping: of those
\* the application is told nothing; publish: one at least once, a command to the broker.
Asked == {"event", "publish", "command", "register", "unregister", "subscribe", "unsubscribe"}

ClientAssumption ==
  /\ MaxRequests \in Nat /\ MaxFrames \in 0..MaxRequests
  /\ SeqStart \in Nat /\ SeqEnd \in Nat /\ SeqStart < SeqEnd
  /\ Kinds \subseteq Asked
  /\ Commands \cap Topics = {} /\ 0 \notin Commands \cup Topics
  /\ Interval \in BOOLEAN /\ Pinging \in BOOLEAN /\ Careful \in BOOLEAN
ASSUME ClientAssumption

VARIABLES
  state,       \* client->state
  socket,      \* none, dialing (not socket_connected) or up
  locked,      \* the mutex is held
  todo,        \* the rest of this call of mbus_client_run; <<>> outside of it
  made,        \* struct request, in the order they were created
  requests, pendings,    \* the lists of the same names
  expired,     \* requests whose timeout had passed when the clock was last read
  routines, subscriptions,   \* those lists, each entry by the request that made it
  freed,       \* routines and subscriptions that were destroyed
  reread,      \* (h) the completions that read such an element after it was freed, and
               \* who had freed it: itself, or one earlier
  sequence,    \* client->sequence
  waitPong,    \* ping_wait_pong
  missed,      \* pong_missed_count > 0
  incoming, outgoing     \* the two buffers, as lists of frames

requestVars == <<made, requests, pendings, sequence>>
nameVars == <<routines, subscriptions, freed, reread>>
pingVars == <<waitPong, missed>>
buffers == <<incoming, outgoing>>
clientVars == <<state, socket, locked, todo, requestVars, expired, nameVars, pingVars, buffers>>

\* The other end, and what the application has been told (h).
VARIABLES
  link,        \* the broker has the connection open
  asked,       \* requests the broker has read and not answered
  wire,        \* frames from the broker that were not read yet
  sent,        \* number of events and calls the broker has sent
  told,        \* (h) for each request, the statuses its callback was called with
  session,     \* (h) connect(success) was told, and no disconnect since
  heard,       \* (h) the requests the broker has read on this connection
  old          \* (h) requests that were there when this connection was dialled

peerVars == <<link, asked, wire, sent>>
toldVars == <<told, session, heard, old>>
vars == <<clientVars, peerVars, toldVars>>

Ids == 1..MaxRequests
None == 0
First == MaxRequests + 1    \* the walk has not looked at its list yet
Outcomes == {"answered", "unanswered"}

\* What the application can see a completion of: not of the pings of the library.
Visible(r) == made[r].kind # "ping"

------------------------------------------------------------------------------
(* The steps of mbus_client_run                                             *)

\* Entries of todo.  list and next are those of a TAILQ_FOREACH_SAFE.
Do(op) == [op |-> op, list |-> "none", next |-> None]
Walk(op, list) == [op |-> op, list |-> list, next |-> First]

\* As a bug: requests that were sent stay among the pendings.
ResetQueuedOnly == <<Do("shut"), Do("wipe"), Walk("cancel", "requests"), Do("drop"),
                     Do("clear")>>

\* mbus_client_reset
Reset == <<Do("shut"), Do("wipe"), Walk("cancel", "requests"), Walk("cancel", "pendings"),
           Do("drop"), Do("clear")>>

\* As a bug: timeouts look at client->requests only.
OutRequestsOnly == <<Do("out"), Do("ping"), Walk("expire", "requests"),
                     Walk("flush", "requests")>>

\* From the label out to the end of mbus_client_run.
Out == <<Do("out"), Do("ping"), Walk("expire", "requests"), Walk("expire", "pendings"),
         Walk("flush", "requests")>>

\* From poll to the end.
Poll == <<Do("poll")>> \o Out

\* A create that failed: bail of mbus_client_command_create_response.
Refused == <<Do("refuse")>> \o Reset \o <<Do("fallback")>>

\* A connect that failed without an error of the library's own.
GivenUp == <<Do("refuse")>> \o Reset \o <<Do("giveup")>>

top == Head(todo)
At(op) == todo # <<>> /\ top.op = op

\* The step is replaced by others; the mutex is held on, or let go for a callback.
Become(steps) == todo' = steps \o Tail(todo)
Goto(steps) == todo' = steps
Hold == locked' = TRUE
LetGo == locked' = FALSE

Queued == ToSet(requests) \cup ToSet(pendings)
List(l) == IF l = "requests" THEN requests ELSE pendings
Current == IF top.next # First THEN top.next
           ELSE IF List(top.list) = <<>> THEN None ELSE Head(List(top.list))
Following(s, r) == LET i == CHOOSE j \in DOMAIN s : s[j] = r
                   IN IF i < Len(s) THEN s[i + 1] ELSE None

\* The same walk at the next request of its list, as read before the callback.
Onwards(r) == <<[top EXCEPT !.next = IF r \in ToSet(List(top.list))
                                     THEN Following(List(top.list), r) ELSE None]>>

\* As a bug: TAILQ_REMOVE from client->requests whichever list is walked.
CutOffRequests(r) == requests' = RemoveFirst(requests, r) /\ UNCHANGED pendings

\* TAILQ_REMOVE
CutOff(r) ==
  /\ requests' = IF top.list = "requests" THEN RemoveFirst(requests, r) ELSE requests
  /\ pendings' = IF top.list = "pendings" THEN RemoveFirst(pendings, r) ELSE pendings

\* The callback of a request, with its status.
Tell(r, how) == told' = IF Visible(r) THEN [told EXCEPT ![r] = Append(@, how)] ELSE told

\* As a bug: the routine of an unregister is destroyed with the request.
EndUnansweredFreeing(r) ==
  /\ CutOff(r)
  /\ Tell(r, "unanswered")
  /\ Become((IF made[r].kind = "create" THEN Refused ELSE <<>>) \o Onwards(r))
  /\ locked' = (made[r].kind \in {"create", "ping"})
  /\ freed' = (freed \cup {r, made[r].about}) \ {None}

\* A request of a list ends without an answer, canceled or timed out, then the walk goes on.
EndUnanswered(r) ==
  /\ CutOff(r)
  /\ Tell(r, "unanswered")
  /\ Become((IF made[r].kind = "create" THEN Refused ELSE <<>>) \o Onwards(r))
  /\ locked' = (made[r].kind \in {"create", "ping"})
  /\ freed' = IF made[r].kind \in {"register", "subscribe"} THEN freed \cup {r} ELSE freed

\* As a bug: the sequence wraps one too late.
EnqueuePastEnd(kind, name, about) ==
  /\ made' = Append(made, [kind |-> kind, name |-> name, about |-> about, seq |-> sequence])
  /\ requests' = Append(requests, Len(made) + 1)
  /\ sequence' = IF sequence + 1 > SeqEnd THEN SeqStart ELSE sequence + 1

\* request_create and the insertion at the tail of client->requests.
Enqueue(kind, name, about) ==
  /\ made' = Append(made, [kind |-> kind, name |-> name, about |-> about, seq |-> sequence])
  /\ requests' = Append(requests, Len(made) + 1)
  /\ sequence' = IF sequence + 1 >= SeqEnd THEN SeqStart ELSE sequence + 1
\* Bound: the last MaxFrames requests are kept for the results of routines.
Room == Len(made) + MaxFrames < MaxRequests

Init ==
  /\ state = "disconnected" /\ socket = "none" /\ locked = FALSE /\ todo = <<>>
  /\ made = <<>> /\ requests = <<>> /\ pendings = <<>> /\ expired = {}
  /\ routines = <<>> /\ subscriptions = <<>> /\ freed = {} /\ reread = {}
  /\ sequence = SeqStart /\ waitPong = FALSE /\ missed = FALSE
  /\ incoming = <<>> /\ outgoing = <<>>
  /\ link = FALSE /\ asked = {} /\ wire = <<>> /\ sent = 0
  /\ told = [r \in Ids |-> <<>>] /\ session = FALSE
  /\ heard = <<>> /\ old = {}

------------------------------------------------------------------------------
(* mbus_client_reset                                                        *)

\* The application is told that the descriptor goes away.
Shut ==
  /\ At("shut") /\ Become(<<>>)
  /\ locked' = (socket = "none")
  /\ UNCHANGED <<state, socket, requestVars, expired, nameVars, pingVars, buffers,
                 peerVars, toldVars>>

\* As a bug: what was to be sent is kept.
WipeIncoming ==
  /\ At("wipe") /\ Become(<<>>) /\ Hold
  /\ socket' = "none" /\ incoming' = <<>>
  /\ link' = FALSE /\ asked' = {} /\ wire' = <<>> /\ heard' = <<>>
  /\ UNCHANGED <<state, requestVars, expired, nameVars, pingVars, outgoing, sent, told,
                 session, old>>

\* The socket is closed and both buffers emptied; what was on its way is lost.
Wipe ==
  /\ At("wipe") /\ Become(<<>>) /\ Hold
  /\ socket' = "none" /\ incoming' = <<>> /\ outgoing' = <<>>
  /\ link' = FALSE /\ asked' = {} /\ wire' = <<>> /\ heard' = <<>>
  /\ UNCHANGED <<state, requestVars, expired, nameVars, pingVars, sent, told, session,
                 old>>

\* The next request of the list is taken off it and canceled.
Cancel ==
  /\ At("cancel")
  /\ IF Current = None
     THEN Become(<<>>) /\ Hold /\ UNCHANGED <<requests, pendings, freed, told>>
     ELSE EndUnanswered(Current)
  /\ UNCHANGED <<state, socket, made, sequence, expired, routines, subscriptions, reread,
                 pingVars, buffers, session, heard, old, peerVars>>

\* The routines and subscriptions go, each with a notification.
Drop ==
  /\ At("drop")
  /\ \/ /\ routines \o subscriptions = <<>>
        /\ Become(<<>>) /\ Hold /\ UNCHANGED <<nameVars>>
     \/ /\ routines # <<>>
        /\ routines' = Tail(routines) /\ freed' = freed \cup {Head(routines)}
        /\ LetGo /\ UNCHANGED <<todo, subscriptions>>
     \/ /\ routines = <<>> /\ subscriptions # <<>>
        /\ subscriptions' = Tail(subscriptions)
        /\ freed' = freed \cup {Head(subscriptions)}
        /\ LetGo /\ UNCHANGED <<todo, routines>>
  /\ UNCHANGED <<state, socket, requestVars, expired, reread, pingVars, buffers, peerVars,
                 toldVars>>

Clear ==
  /\ At("clear") /\ Become(<<>>) /\ Hold
  /\ sequence' = SeqStart /\ waitPong' = FALSE /\ missed' = FALSE
  /\ UNCHANGED <<state, socket, made, requests, pendings, expired, nameVars, buffers,
                 peerVars, toldVars>>

------------------------------------------------------------------------------
(* What follows a reset                                                     *)

\* connect(status) with a status other than success.
Refuse ==
  /\ At("refuse") /\ Become(<<>>) /\ LetGo
  /\ UNCHANGED <<state, socket, requestVars, expired, nameVars, pingVars, buffers,
                 peerVars, toldVars>>

\* A create that failed, or too many pongs missed: connect again, or stay away;
\* a create that was canceled by destroy leaves the client as gone as it was.
Fallback ==
  /\ At("fallback") /\ Become(<<>>) /\ Hold
  /\ state' = IF state = "destroyed" THEN state
              ELSE IF Interval THEN "connecting" ELSE "disconnected"
  /\ UNCHANGED <<socket, requestVars, expired, nameVars, pingVars, buffers, peerVars,
                 toldVars>>

\* A connect that failed: the same, and without an interval a disconnect is told.
GiveUp ==
  /\ At("giveup") /\ Become(<<>>)
  /\ state' = IF Interval THEN "connecting" ELSE "disconnected"
  /\ locked' = Interval /\ session' = (Interval /\ session)
  /\ UNCHANGED <<socket, requestVars, expired, nameVars, pingVars, buffers, told,
                 heard, old, peerVars>>

\* As a bug: nobody is told.
LostSilently ==
  /\ At("lost") /\ Become(<<>>) /\ LetGo
  /\ state' = "disconnected"
  /\ UNCHANGED <<socket, requestVars, expired, nameVars, pingVars, buffers, peerVars,
                 toldVars>>

\* The connection was closed, by either side: disconnected, and told so.
Lost ==
  /\ At("lost") /\ Become(<<>>) /\ LetGo
  /\ state' = "disconnected" /\ session' = FALSE
  /\ UNCHANGED <<socket, requestVars, expired, nameVars, pingVars, buffers, told,
                 heard, old, peerVars>>

\* disconnect(status) before a reset.
Parting ==
  /\ At("parting") /\ Become(<<>>) /\ LetGo
  /\ session' = FALSE
  /\ UNCHANGED <<state, socket, requestVars, expired, nameVars, pingVars, buffers, told,
                 heard, old, peerVars>>

\* mbus_client_run returns -1; the state stays what it is.
Fail ==
  /\ At("fail") /\ Goto(<<>>) /\ LetGo
  /\ UNCHANGED <<state, socket, requestVars, expired, nameVars, pingVars, buffers,
                 peerVars, toldVars>>

------------------------------------------------------------------------------
(* mbus_client_run up to poll                                               *)

\* The switch over the state.  When the interval since the last attempt is over
\* is open; without an interval every run tries.
Run ==
  /\ todo = <<>> /\ state # "destroyed"
  /\ \/ /\ state = "connecting" /\ socket = "none"
        /\ Goto(Reset \o <<Do("dial")>> \o Poll) /\ UNCHANGED state
     \/ /\ state = "connecting" /\ (socket = "none" => Interval)
        /\ Goto(Poll) /\ UNCHANGED state
     \/ /\ state = "connected" /\ Goto(Poll) /\ UNCHANGED state
     \/ /\ state = "disconnecting" /\ UNCHANGED state
        /\ Goto(Reset \o <<Do("lost")>> \o Out)
     \/ /\ state = "disconnected" /\ Interval
        /\ state' = "connecting" /\ Goto(Out)
     \/ /\ state = "disconnected" /\ ~Interval /\ Goto(Poll) /\ UNCHANGED state
  /\ Hold
  /\ UNCHANGED <<socket, requestVars, expired, nameVars, pingVars, buffers, peerVars,
                 toldVars>>

\* mbus_client_run_connect has a socket and says so.
Dial ==
  /\ At("dial") /\ Become(<<Do("connect")>>) /\ LetGo
  /\ socket' = "dialing"
  /\ old' = Queued \cup ToSet(outgoing)
  /\ UNCHANGED <<state, requestVars, expired, nameVars, pingVars, buffers, told,
                 session, heard, peerVars>>

\* connect(2) came through: mbus_client_command_create_request, which is refused
\* unless the state is still connecting.
Created(otherwise) ==
  /\ socket' = "up" /\ link' = TRUE
  /\ IF state = "connecting"
     THEN Room /\ Enqueue("create", None, None) /\ Become(<<>>) /\ Hold
     ELSE Goto(otherwise) /\ Hold /\ UNCHANGED <<made, requests, sequence>>
  /\ UNCHANGED <<state, pendings, expired, nameVars, pingVars, buffers, asked, wire,
                 sent, toldVars>>

\* connect(2) returns: connected, in progress, refused, or an error.
Connecting ==
  /\ At("connect")
  /\ \/ Created(<<Do("refuse")>> \o Reset \o <<Do("fail")>>)
     \/ /\ \/ Become(<<>>)
           \/ Become(GivenUp)
           \/ Goto(<<Do("refuse")>> \o Reset \o <<Do("fail")>>)
        /\ Hold
        /\ UNCHANGED <<state, socket, requestVars, expired, nameVars, pingVars, buffers,
                       peerVars, toldVars>>

\* The mutex is let go for poll.
Wait ==
  /\ At("poll") /\ Become(<<Do("polled")>>) /\ LetGo
  /\ UNCHANGED <<state, socket, requestVars, expired, nameVars, pingVars, buffers,
                 peerVars, toldVars>>

------------------------------------------------------------------------------
(* mbus_client_run after poll                                               *)

\* poll returns: for the time that passed, or with descriptors that are ready.
Polled ==
  /\ At("polled") /\ Hold
  /\ Become(<<>>) \/ Become(<<Do("read"), Do("write"), Do("parse")>>)
  /\ UNCHANGED <<state, socket, requestVars, expired, nameVars, pingVars, buffers,
                 peerVars, toldVars>>

\* read: nothing is there, some of what the broker wrote, or the end of the connection.
Read ==
  /\ At("read") /\ Hold
  /\ \/ /\ Become(<<>>) /\ wire = <<>> /\ (link \/ socket # "up")
        /\ UNCHANGED <<incoming, wire>>
     \/ /\ Become(<<>>)
        /\ \E n \in 1..Len(wire) : /\ incoming' = incoming \o SubSeq(wire, 1, n)
                                   /\ wire' = SubSeq(wire, n + 1, Len(wire))
     \/ /\ socket = "up" /\ ~link /\ wire = <<>>
        /\ Goto(Reset \o <<Do("lost")>> \o Out)
        /\ UNCHANGED <<incoming, wire>>
  /\ UNCHANGED <<state, socket, requestVars, expired, nameVars, pingVars, outgoing,
                 link, asked, sent, toldVars>>

\* connect(2) was in progress and the socket is writable: it came through, was
\* refused, or failed; the last leaves the socket as it is.
Complete ==
  /\ At("write") /\ socket = "dialing" /\ state = "connecting"
  /\ \/ Created(<<Do("fail")>>)
     \/ /\ \/ Goto(GivenUp \o Out)
           \/ Goto(<<Do("refuse"), Do("fail")>>)
           \/ Become(<<>>)
        /\ Hold
        /\ UNCHANGED <<state, socket, requestVars, expired, nameVars, pingVars, buffers,
                       peerVars, toldVars>>

\* What is read by the broker: the pings and events it need not answer.
Answerable(rs) == {r \in ToSet(rs) : made[r].kind \notin {"event", "ping"}}

\* write: some of the outgoing frames go to the broker; with the broker gone,
\* mbus_client_run ends with an error.
Write ==
  /\ At("write") /\ ~(socket = "dialing" /\ state = "connecting")
  /\ \/ \E n \in 0..Len(outgoing) :
          /\ (n > 0 => socket = "up" /\ link) /\ Become(<<>>) /\ Hold
          /\ outgoing' = SubSeq(outgoing, n + 1, Len(outgoing))
          /\ asked' = asked \cup Answerable(SubSeq(outgoing, 1, n))
          /\ heard' = heard \o SubSeq(outgoing, 1, n)
     \/ /\ outgoing # <<>> /\ ~link /\ socket = "up" /\ Goto(<<>>) /\ LetGo
        /\ UNCHANGED <<outgoing, asked, heard>>
  /\ UNCHANGED <<state, socket, requestVars, expired, nameVars, pingVars, incoming,
                 link, wire, sent, told, session, old>>

------------------------------------------------------------------------------
(* The parse loop: mbus_client_handle_result, _event and _command           *)

Parse(type) == At("parse") /\ incoming # <<>> /\ Head(incoming).type = type
               /\ incoming' = Tail(incoming)

\* The place among the pendings of the first that waits for a sequence, 0 if none does.
Awaiting(seq) == SelectInSeq(pendings, LAMBDA r : made[r].seq = seq)

ParsedAll ==
  /\ At("parse") /\ incoming = <<>> /\ Become(<<>>) /\ Hold
  /\ UNCHANGED <<state, socket, requestVars, expired, nameVars, pingVars, buffers,
                 peerVars, toldVars>>

\* No request has this sequence, it timed out before.
HandleStray ==
  /\ Parse("result") /\ Awaiting(Head(incoming).seq) = 0
  /\ UNCHANGED todo /\ Hold
  /\ UNCHANGED <<state, socket, requestVars, expired, nameVars, pingVars, outgoing,
                 peerVars, toldVars>>

\* The notification of r is made of the element, whether that was destroyed or not.
Reads(r, element) ==
  reread' = reread \cup (IF element \in freed THEN {<<r, "earlier">>}
                         ELSE IF element \in freed' THEN {<<r, "itself">>} ELSE {})

\* What the callback of the library does with the result before it calls that of
\* the application.
CreateResponse(r, ok) ==
  /\ UNCHANGED <<nameVars>>
  /\ IF ok THEN state' = "connected" /\ session' = TRUE /\ LetGo /\ UNCHANGED todo
           ELSE Become(Refused \o <<top>>) /\ Hold /\ UNCHANGED <<state, session>>

RegisterResponse(r, ok) ==
  /\ routines' = IF ok THEN Append(routines, r) ELSE routines
  /\ freed' = IF ok THEN freed ELSE freed \cup {r}
  /\ Reads(r, r)
  /\ LetGo /\ UNCHANGED <<state, todo, subscriptions, session>>

UnregisterResponse(r, ok) ==
  /\ routines' = IF ok THEN RemoveFirst(routines, made[r].about) ELSE routines
  /\ freed' = IF ok THEN freed \cup {made[r].about} ELSE freed
  /\ Reads(r, made[r].about)
  /\ LetGo /\ UNCHANGED <<state, todo, subscriptions, session>>

SubscribeResponse(r, ok) ==
  /\ subscriptions' = IF ok THEN Append(subscriptions, r) ELSE subscriptions
  /\ freed' = IF ok THEN freed ELSE freed \cup {r}
  /\ Reads(r, r)
  /\ LetGo /\ UNCHANGED <<state, todo, routines, session>>

UnsubscribeResponse(r, ok) ==
  /\ subscriptions' = IF ok THEN RemoveFirst(subscriptions, made[r].about) ELSE subscriptions
  /\ freed' = IF ok THEN freed \cup {made[r].about} ELSE freed
  /\ Reads(r, made[r].about)
  /\ LetGo /\ UNCHANGED <<state, todo, routines, session>>

EventResponse(r, ok) ==
  LetGo /\ UNCHANGED <<state, todo, nameVars, session>>

\* A command of the application, or the result of a routine.
CommandResponse(r, ok) ==
  LetGo /\ UNCHANGED <<state, todo, nameVars, session>>

\* The request is taken off pendings and completed.
HandleResult ==
  /\ Parse("result") /\ Awaiting(Head(incoming).seq) # 0
  /\ LET r == pendings[Awaiting(Head(incoming).seq)]
         ok == Head(incoming).ok
     IN /\ pendings' = RemoveFirst(pendings, r)
        /\ Tell(r, "answered")
        /\ \/ made[r].kind = "create" /\ CreateResponse(r, ok)
           \/ made[r].kind = "register" /\ RegisterResponse(r, ok)
           \/ made[r].kind = "unregister" /\ UnregisterResponse(r, ok)
           \/ made[r].kind = "subscribe" /\ SubscribeResponse(r, ok)
           \/ made[r].kind = "unsubscribe" /\ UnsubscribeResponse(r, ok)
           \/ made[r].kind = "publish" /\ EventResponse(r, ok)
           \/ made[r].kind = "command" /\ CommandResponse(r, ok)
  /\ UNCHANGED <<socket, made, requests, sequence, expired, pingVars, outgoing,
                 heard, old, peerVars>>

\* A pong, or an event for the application.
HandleEvent ==
  /\ \/ Parse("pong") /\ waitPong' = FALSE /\ missed' = FALSE /\ Hold
     \/ Parse("event") /\ LetGo /\ UNCHANGED <<pingVars>>
  /\ UNCHANGED <<state, socket, todo, requestVars, expired, nameVars, outgoing,
                 peerVars, toldVars>>

\* A command for a routine of the application: its callback is called.
HandleCommand ==
  /\ Parse("call") /\ Become(<<Do("reply"), top>>) /\ LetGo
  /\ UNCHANGED <<state, socket, requestVars, expired, nameVars, pingVars, outgoing,
                 peerVars, toldVars>>

\* The callback has returned and its result is queued.  The command is refused
\* when the client was disconnected meanwhile, and mbus_client_run ends with -1.
Reply ==
  /\ At("reply")
  /\ IF state = "connected"
     THEN Enqueue("command", None, None) /\ Become(<<>>) /\ Hold
     ELSE Goto(<<>>) /\ LetGo /\ UNCHANGED <<made, requests, sequence>>
  /\ UNCHANGED <<state, socket, pendings, expired, nameVars, pingVars, buffers,
                 peerVars, toldVars>>

------------------------------------------------------------------------------
(* mbus_client_run from the label out                                       *)

\* The clock is read; a connect that takes too long is given up.
TakeTime ==
  /\ At("out") /\ Hold
  /\ \E overdue \in SUBSET Queued : expired' = overdue
  /\ \/ Become(<<>>)
     \/ state = "connecting" /\ socket = "dialing" /\ Goto(GivenUp \o Out)
  /\ UNCHANGED <<state, socket, requestVars, nameVars, pingVars, buffers, peerVars,
                 toldVars>>

\* A ping is due, a pong is missed, or too many were.
CheckPong ==
  /\ At("ping") /\ Hold
  /\ \/ Become(<<>>) /\ UNCHANGED <<made, requests, sequence, pingVars>>
     \/ /\ state = "connected" /\ Pinging /\ ~waitPong /\ Room
        /\ Enqueue("ping", None, None) /\ waitPong' = TRUE
        /\ Become(<<>>) /\ UNCHANGED missed
     \/ /\ state = "connected" /\ Pinging /\ waitPong
        /\ waitPong' = FALSE /\ missed' = TRUE
        /\ Become(<<>>) /\ UNCHANGED <<made, requests, sequence>>
     \/ /\ state = "connected" /\ Pinging /\ waitPong
        /\ waitPong' = FALSE /\ missed' = TRUE
        /\ Goto(<<Do("parting")>> \o Reset \o <<Do("fallback")>> \o Out)
        /\ UNCHANGED <<made, requests, sequence>>
  /\ UNCHANGED <<state, socket, pendings, expired, nameVars, buffers, peerVars,
                 toldVars>>

\* A request whose timeout has passed is taken off its list.
TimeOut ==
  /\ At("expire")
  /\ \/ /\ Current = None
        /\ Become(<<>>) /\ Hold /\ UNCHANGED <<requests, pendings, freed, told>>
     \/ /\ Current # None /\ Current \notin expired
        /\ Become(Onwards(Current)) /\ Hold /\ UNCHANGED <<requests, pendings, freed,
                                                           told>>
     \/ /\ Current # None /\ Current \in expired
        /\ EndUnanswered(Current)
  /\ UNCHANGED <<state, socket, made, sequence, expired, routines, subscriptions, reread,
                 pingVars, buffers, session, heard, old, peerVars>>

\* A request moves to the outgoing buffer.  An event is then done with, a command
\* waits for its result among the pendings.
Flush ==
  /\ At("flush")
  /\ IF Current = None
     THEN Become(<<>>) /\ locked' = (Len(todo) > 1)
          /\ UNCHANGED <<requests, pendings, outgoing, told>>
     ELSE /\ outgoing' = Append(outgoing, Current)
          /\ requests' = RemoveFirst(requests, Current)
          /\ Become(Onwards(Current))
          /\ IF made[Current].kind \in {"event", "ping"}
             THEN /\ Tell(Current, "answered") /\ locked' = (made[Current].kind = "ping")
                  /\ UNCHANGED pendings
             ELSE pendings' = Append(pendings, Current) /\ Hold /\ UNCHANGED told
  /\ expired' = IF Current = None THEN {} ELSE expired
  /\ UNCHANGED <<state, socket, made, sequence, nameVars, pingVars, incoming, session,
                 heard, old, peerVars>>

RunStep == \/ Shut \/ Wipe \/ Cancel \/ Drop \/ Clear \/ Refuse \/ Fallback \/ GiveUp
           \/ Lost \/ Parting \/ Fail \/ Run \/ Dial \/ Connecting \/ Wait \/ Polled \/ Read
           \/ Complete \/ Write \/ ParsedAll \/ HandleStray \/ HandleResult \/ HandleEvent
           \/ HandleCommand \/ Reply \/ TakeTime \/ CheckPong \/ TimeOut \/ Flush

------------------------------------------------------------------------------
(* The application: its threads and callbacks, while the mutex is free      *)

Outside == ~locked /\ state # "destroyed"

Connect ==
  /\ Outside /\ state \notin {"connecting", "connected"}
  /\ state' = "connecting"
  /\ UNCHANGED <<socket, locked, todo, requestVars, expired, nameVars, pingVars,
                 buffers, told, session, heard, old, peerVars>>

Disconnect ==
  /\ Outside /\ state # "disconnected"
  /\ state' = "disconnecting"
  /\ UNCHANGED <<socket, locked, todo, requestVars, expired, nameVars, pingVars,
                 buffers, told, session, heard, old, peerVars>>

\* The place of a name among the routines or subscriptions, 0 if it has none.
Named(list, name) == SelectInSeq(list, LAMBDA r : made[r].name = name)
InProgress(name) == name # None /\ \E r \in Queued : made[r].name = name

\* As a bug: requests are taken before the client is connected.
AskAtOnce(kind, name, about) ==
  /\ Outside /\ state # "disconnected" /\ Room /\ kind \in Kinds
  /\ Careful => ~InProgress(name)
  /\ Enqueue(kind, name, about)
  /\ UNCHANGED <<state, socket, locked, todo, pendings, expired, nameVars, pingVars,
                 buffers, peerVars, toldVars>>

\* What all of them have in common; Careful is the application's own restraint.
Ask(kind, name, about) ==
  /\ Outside /\ state = "connected" /\ Room /\ kind \in Kinds
  /\ Careful => ~InProgress(name)
  /\ Enqueue(kind, name, about)
  /\ UNCHANGED <<state, socket, locked, todo, pendings, expired, nameVars, pingVars,
                 buffers, peerVars, toldVars>>

\* mbus_client_publish_with_options, by its qos.
Publish == Ask("event", None, None) \/ Ask("publish", None, None)

\* mbus_client_command_with_options to another client
Command == Ask("command", None, None)

Register(command) == Named(routines, command) = 0 /\ Ask("register", command, None)

Unregister(command) ==
  /\ Named(routines, command) # 0
  /\ Ask("unregister", command, routines[Named(routines, command)])

Subscribe(topic) == Named(subscriptions, topic) = 0 /\ Ask("subscribe", topic, None)

Unsubscribe(topic) ==
  /\ Named(subscriptions, topic) # 0
  /\ Ask("unsubscribe", topic, subscriptions[Named(subscriptions, topic)])

Asking == \/ Publish \/ Command
          \/ \E command \in Commands : Register(command) \/ Unregister(command)
          \/ \E topic \in Topics : Subscribe(topic) \/ Unsubscribe(topic)

\* mbus_client_destroy; nobody may use the client any more.
Destroy ==
  /\ todo = <<>> /\ state # "destroyed"
  /\ state' = "destroyed" /\ session' = FALSE
  /\ Goto(Reset) /\ Hold
  /\ UNCHANGED <<socket, requestVars, expired, nameVars, pingVars, buffers, told,
                 heard, old, peerVars>>

------------------------------------------------------------------------------
(* The broker                                                               *)

Deliver(frame) == wire' = Append(wire, frame) /\ UNCHANGED <<link, clientVars,
                                                             toldVars>>

\* The broker answers what it was asked, in any order.
Answer(r) ==
  /\ ~locked /\ link /\ r \in asked
  /\ \E ok \in {TRUE} \cup {made[r].kind \notin Refusals} :
       Deliver([type |-> "result", seq |-> made[r].seq, ok |-> ok, of |-> r])
  /\ asked' = asked \ {r} /\ UNCHANGED sent

\* It sends events, and calls to a client that it let in.
Send(type) ==
  /\ ~locked /\ link /\ sent < MaxFrames /\ sent' = sent + 1
  /\ heard # <<>> /\ Head(heard) \notin asked
  /\ type = "pong" => \E r \in ToSet(heard) : made[r].kind = "ping"
  /\ Deliver([type |-> type, seq |-> None, ok |-> TRUE, of |-> None])
  /\ UNCHANGED asked

HangUp ==
  /\ ~locked /\ link /\ link' = FALSE /\ asked' = {}
  /\ UNCHANGED <<wire, sent, clientVars, toldVars>>

Environment == \/ Connect \/ Disconnect \/ Asking \/ Destroy
               \/ \E r \in 1..Len(made) : Answer(r)
               \/ \E type \in {"event", "pong", "call"} : Send(type)
               \/ HangUp

\* Nothing is left to do for a client that was destroyed.
Destroyed == todo = <<>> /\ state = "destroyed" /\ UNCHANGED vars

Next == RunStep \/ Environment \/ Destroyed

Safe == Init /\ [][Next]_vars

\* The application calls mbus_client_run again and again, whatever it returned;
\* its callbacks return, and time passes.
Fair == WF_vars(RunStep) /\ \A r \in Ids : SF_vars(TakeTime /\ r \in expired')
Spec == Safe /\ Fair

------------------------------------------------------------------------------
(* Properties                                                               *)

Job == [kind : {"create", "ping"} \cup Asked, name : Commands \cup Topics \cup {None}, about : Ids \cup {None}, seq : SeqStart..SeqEnd]
Frame == [type : {"result", "event", "pong", "call"}, seq : Nat, ok : BOOLEAN,
          of : Ids \cup {None}]

\* Every variable has its type, and lists hold requests that were made.
TypeOK ==
  /\ state \in {"disconnected", "connecting", "connected", "disconnecting", "destroyed"}
  /\ socket \in {"none", "dialing", "up"}
  /\ made \in Seq(Job) /\ Len(made) <= MaxRequests
  /\ \A s \in {requests, pendings, routines, subscriptions, outgoing, heard} :
        s \in Seq(1..Len(made)) /\ IsInjective(s)
  /\ \A s \in {expired, freed, asked, old} : s \subseteq 1..Len(made)
  /\ reread \subseteq (1..Len(made)) \X {"earlier", "itself"}
  /\ incoming \in Seq(Frame) /\ wire \in Seq(Frame)
  /\ sequence \in SeqStart..(SeqEnd - 1) /\ sent \in 0..MaxFrames
  /\ told \in [Ids -> Seq(Outcomes)]
  /\ {locked, waitPong, missed, link, session} \subseteq BOOLEAN

\* A request the application can see is in exactly one of three places at any
\* time: queued, waiting for its result, or completed; and it is completed once.
Accounted ==
  \A r \in 1..Len(made) : Visible(r) =>
    Cardinality({i \in DOMAIN requests : requests[i] = r})
      + Cardinality({i \in DOMAIN pendings : pendings[i] = r}) + Len(told[r]) = 1

\* The loops of reset, timeouts and flush keep a pointer to the next request while
\* callbacks run, and callbacks may start another reset: the pointer is always to
\* a request that is still on the list.
WalksLive ==
  \A i \in DOMAIN todo :
    todo[i].next \in {None, First} \cup ToSet(List(todo[i].list))

\* A result is matched to a request by its sequence alone, and sequences start
\* again with every connection: it is never taken for another request's.
AnswerMatches ==
  \A f \in ToSet(incoming) \cup ToSet(wire) :
    f.type = "result" => \A r \in ToSet(pendings) : made[r].seq = f.seq => r = f.of

\* What the broker reads on a connection was asked on that connection, create first:
\* nothing that a callback queued while the connection before was reset.
FreshFrames ==
  /\ heard # <<>> => made[Head(heard)].kind = "create"
  /\ ToSet(heard) \cap old = {}

\* While the application believes itself connected no create is under way, so
\* connect(success) and disconnect alternate; and between two runs its belief is
\* what the state says.
SessionAgrees ==
  /\ session => \A r \in Queued : made[r].kind # "create"
  /\ todo = <<>> => /\ state = "connected" => session
                    /\ session => socket = "up" /\ state # "disconnected"

\* A routine or subscription is destroyed once: it is not on its list when it was freed, and
\* no answer to an unregister that still counts is about one that was.  And it is not used
\* later: it is read after it was freed by no completion but the one that freed it.  (That
\* one does read it: after a successful unregister and unsubscribe, after a refused register
\* and subscribe.)
NoDangling ==
  LET answered == asked \cup {f.of : f \in ToSet(incoming) \cup ToSet(wire)}
  IN /\ ToSet(routines \o subscriptions) \cap freed = {}
     /\ \A r \in answered \cap ToSet(pendings) : made[r].about \notin freed
     /\ \A read \in reread : read[2] = "itself"

\* Each request the application makes is completed exactly once, in the end.
Request == INSTANCE MbusRequest WITH
  Requests <- Ids, accepted <- {r \in 1..Len(made) : Visible(r)}, completed <- told
CompletedOnce == Request!Spec
==============================================================================
