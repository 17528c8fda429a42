----------------------------- MODULE MbusBroker -----------------------------
(***************************************************************************)
(* The broker: the event loop of src/src/server/server.c.                  *)
(*                                                                         *)
(* One pass of mbus_server_run_timeout is one trip round the phases        *)
(*   top -> out -> poll -> write -> parse -> handle -> status -> cleanup   *)
(* The broker is single-threaded, so the outside world (new connections,   *)
(* bytes, hang-ups) acts only in the two phases that stand for poll(2) and *)
(* the loop over its results.                                              *)
(*                                                                         *)
(* A Slot is a struct client; link[c] = "free" says that no struct is      *)
(* allocated in that slot.  Any order is taken where the code walks the    *)
(* list of clients, which is a superset of the accept order it really has. *)
(*                                                                         *)
(* Variables marked (h) are history: the connected peer's own view of the  *)
(* conversation.  Server actions write them but never read them.           *)
(***************************************************************************)
EXTENDS Integers, Sequences, FiniteSets

CONSTANTS
  Slot,        \* struct client records
  Id,          \* identifiers clients ask for
  Command,     \* names of commands
  Event,       \* names of events
  Frames,      \* what a client may send, replies to requests apart
  Protected,   \* BOOLEAN: the broker was started with a password
  Conforming,  \* BOOLEAN: peers keep the rules of the client library
  SeqStart, SeqEnd,   \* MBUS_METHOD_SEQUENCE_START / _END
  MaxFrames    \* bound: no client says anything new after so many frames

None        == "none"
Server      == "server"        \* MBUS_SERVER_IDENTIFIER
All         == "all"           \* the .all constants of method.h
Subscribers == "subscribers"   \* MBUS_METHOD_EVENT_DESTINATION_SUBSCRIBERS

Presence    == {"connected", "disconnected"}
ServerEvent == Presence \cup
  {"subscribed", "unsubscribed", "registered", "unregistered", "ping", "pong"}

Op == {"create", "subscribe", "unsubscribe", "register", "unregister",
       "result", "publish", "status", "client", "close", "unknown",
       "call", "event", "garbage"}

Party == Id \cup {None, Server, All, Subscribers}
Name  == Command \cup Event \cup ServerEvent \cup {None, All}
Frame == [op: Op, who: Party, what: Name, seq: Int,
          opt: SUBSET {"password", "ping", "zlib"}]

ASSUME BrokerAssumption ==
  /\ Id \cap {None, Server, All, Subscribers} = {}
  /\ Frames \subseteq Frame
  /\ Protected \in BOOLEAN /\ Conforming \in BOOLEAN
  /\ SeqStart \in Int /\ SeqEnd \in Int /\ SeqStart + 1 < SeqEnd
  /\ MaxFrames \in Nat

VARIABLES
  phase,      \* where the pass is
  running,    \* server->running
  link,       \* the connection of a client, or the code it was closed with
  ident,      \* client->identifier, None until create
  accepted,   \* clients with client_status_accepted
  announced,  \* clients with client_status_connected
  subs,       \* client->subscriptions, <<source, event>> pairs
  cmds,       \* client->commands
  zlib,       \* clients whose frames are compressed
  pinged,     \* clients with ping_enabled
  inbox,      \* client->buffer_in, as the frames in it
  outbuf,     \* client->buffer_out, as the frames in it
  methods,    \* server->methods
  requests, results, events,   \* client->requests, ->results, ->events
  waits,      \* client->waits: calls answered by another client
  eseq,       \* client->esequence
  frames,     \* (h) frames received so far, and the tag of the latest
  stage,      \* (h) what the peer knows of its create
  owed,       \* (h) commands the peer sent and has no answer to
  held,       \* (h) requests the peer received and has not answered
  routines,   \* (h) commands the peer knows to be registered
  heard,      \* (h) sequence of the next event the peer expects
  roster      \* (h) who is connected, to a subscriber of presence events

registry == <<link, ident, accepted, announced, subs, cmds, zlib, pinged>>
queues   == <<requests, results, waits, events, eseq>>
peer     == <<frames, stage, owed, held, routines, heard>>
vars     == <<phase, running, registry, inbox, outbuf, methods, queues,
              peer, roster>>

-----------------------------------------------------------------------------
(* Records the broker queues. *)

Method == [src: Slot, tag: Nat, re: Nat, op: Op, who: Party, what: Name,
           seq: Int, opt: SUBSET {"password", "ping", "zlib"}]
Answer == [to: Method, rc: {0, -1}, re: Nat]
Request == [from: Id, what: Name, seq: Int, tag: Nat]
Notice == [source: Id \cup {Server}, what: Name, about: Id \cup {None},
           seq: Int]
Out    == [kind: {"result"}, body: Answer, zlib: BOOLEAN] \cup
          [kind: {"request"}, body: Request, zlib: BOOLEAN] \cup
          [kind: {"event"}, body: Notice, zlib: BOOLEAN]

Live == {c \in Slot : link[c] # "free"}      \* server->clients
Open == {c \in Slot : link[c] = "open"}      \* ... with a connection
Dead == Live \ Open

NamedAndOpen(id) == {c \in Open : ident[c] = id}        \* mutant

\* server_find_client_by_identifier, and the loops that do the same.
Named(id) == {c \in Live : ident[c] # None /\ ident[c] = id}
NextSeq(s) == IF s + 1 >= SeqEnd THEN SeqStart ELSE s + 1
Contents(s) == {s[i] : i \in DOMAIN s}
Oldest(S) == CHOOSE m \in S : \A n \in S : m.tag <= n.tag

Init ==
  /\ phase = "top" /\ running = TRUE
  /\ link = [c \in Slot |-> "free"]
  /\ ident = [c \in Slot |-> None]
  /\ accepted = {} /\ announced = {} /\ zlib = {} /\ pinged = {}
  /\ subs = [c \in Slot |-> {}]
  /\ cmds = [c \in Slot |-> {}]
  /\ inbox = [c \in Slot |-> << >>]
  /\ outbuf = [c \in Slot |-> << >>]
  /\ methods = << >>
  /\ requests = [c \in Slot |-> << >>]
  /\ results = [c \in Slot |-> << >>]
  /\ events = [c \in Slot |-> << >>]
  /\ waits = [c \in Slot |-> {}]
  /\ eseq = [c \in Slot |-> SeqStart]
  /\ frames = 0
  /\ stage = [c \in Slot |-> "new"]
  /\ owed = [c \in Slot |-> {}]
  /\ held = [c \in Slot |-> {}]
  /\ routines = [c \in Slot |-> {}]
  /\ heard = [c \in Slot |-> SeqStart]
  /\ roster = [c \in Slot |-> {}]

-----------------------------------------------------------------------------
(* Events: server_send_event_to and its callers. *)

Matches(S, source, what) ==
  \E s \in S : s[1] \in {All, source} /\ s[2] \in {All, what}

\* Clients of L that an event is queued for, one copy each.
Targets(L, source, dest, what) ==
  CASE dest = Server      -> {}
    [] dest = All         -> {c \in L : ident[c] \notin {None, source}}
    [] dest = Subscribers -> {c \in L : Matches(subs[c], source, what)}
    [] OTHER              -> {c \in L : ident[c] # None /\ ident[c] = dest}

\* Mutant: every client's counter moves, whoever gets the event.
QueueOneCounter(T, source, what, about) ==
  /\ events' = [c \in Slot |->
       IF c \in T
       THEN Append(events[c], [source |-> source, what |-> what,
                               about |-> about, seq |-> eseq[c]])
       ELSE events[c]]
  /\ eseq' = [c \in Slot |-> NextSeq(eseq[c])]

\* Queue an event for each client of T, numbered with the client's esequence.
Queue(T, source, what, about) ==
  /\ events' = [c \in Slot |->
       IF c \in T
       THEN Append(events[c], [source |-> source, what |-> what,
                               about |-> about, seq |-> eseq[c]])
       ELSE events[c]]
  /\ eseq' = [c \in Slot |-> IF c \in T THEN NextSeq(eseq[c]) ELSE eseq[c]]

NoEvent == UNCHANGED <<events, eseq>>

RouteAnonymous(source, dest, what) ==                    \* mutant
  Queue(Targets(Live, source, dest, what), source, what, None)

\* An event from a client; a ping to the server is answered with a pong.
Route(source, dest, what) ==
  IF source = None THEN NoEvent
  ELSE IF dest = Server /\ what = "ping"
  THEN Queue(Named(source), Server, "pong", None)
  ELSE Queue(Targets(Live, source, dest, what), source, what, None)

\* The roster a subscriber of both presence events keeps: each event toggles
\* one name, so that an event repeated or left out shows up as a wrong name.
Toggle(T, id) ==
  [c \in Slot |-> IF c \notin T THEN roster[c]
                  ELSE (roster[c] \cup {id}) \ (roster[c] \cap {id})]

-----------------------------------------------------------------------------
(* server_handle_methods: the head of server->methods, by its kind. *)

Take(op) ==
  /\ phase \in {"top", "handle"}
  /\ methods # << >>
  /\ Head(methods).op = op
  /\ methods' = Tail(methods)
  /\ UNCHANGED <<phase, inbox, outbuf, accepted, announced>>
  /\ UNCHANGED peer

Answered(m, rc, re) == [to |-> m, rc |-> rc, re |-> re]

\* The result of m is queued for its sender.
Respond(m, rc) ==
  results' = [results EXCEPT ![m.src] = Append(@, Answered(m, rc, 0))]

\* client_set_identifier
SetIdentifier(c, id) == ident' = [ident EXCEPT ![c] = id]

\* command.create.  The identifier is set before the password is looked at.
HandleCreate ==
  /\ Take("create")
  /\ UNCHANGED <<running, link, subs, cmds, requests, waits, roster>>
  /\ NoEvent
  /\ LET m == Head(methods) IN
     \/ /\ ident[m.src] # None \/ (m.who # None /\ Named(m.who) # {})
        /\ Respond(m, -1)
        /\ UNCHANGED <<ident, zlib, pinged>>
     \/ /\ ident[m.src] = None
        /\ \E id \in Id :
             /\ m.who \in {None, id} /\ Named(id) = {}
             /\ SetIdentifier(m.src, id)
        /\ \/ /\ Protected /\ "password" \notin m.opt
              /\ Respond(m, -1)
              /\ UNCHANGED <<zlib, pinged>>
           \/ /\ ~Protected \/ "password" \in m.opt
              /\ zlib' = zlib \cup {c \in {m.src} : "zlib" \in m.opt}
              /\ pinged' = pinged \cup {c \in {m.src} : "ping" \in m.opt}
              /\ Respond(m, 0)

\* The other commands answer with the outcome of their own change and of the
\* event that announces it: both need the sender to have an identifier.
Announcement(m, ok, what) ==
  LET sent == ok /\ ident[m.src] # None IN
  /\ Respond(m, IF sent THEN 0 ELSE -1)
  /\ IF sent
     THEN Queue({c \in Live : Matches(subs'[c], Server, what)},
                Server, what, ident[m.src])
     ELSE NoEvent

\* client_add_subscription and client_del_subscription.  One pair is there once.
AddSubscription(c, s) == subs' = [subs EXCEPT ![c] = @ \cup {s}]
DelSubscription(c, s) == subs' = [subs EXCEPT ![c] = @ \ {s}]

\* client_add_command and client_del_command, of a command that is there.
AddCommand(c, what) == cmds' = [cmds EXCEPT ![c] = @ \cup {what}]
DelCommand(c, what) == what \in cmds[c] /\ cmds' = [cmds EXCEPT ![c] = @ \ {what}]

Follows(S) == \A what \in Presence : Matches(S, Server, what)

\* A client that starts to follow presence events knows who is announced.
Follow(c) ==
  roster' = [roster EXCEPT ![c] =
    IF ~Follows(subs'[c]) THEN {}
    ELSE IF Follows(subs[c]) THEN @ ELSE {ident[d] : d \in announced}]

HandleSubscribe ==
  /\ Take("subscribe")
  /\ UNCHANGED <<running, link, ident, cmds, zlib, pinged, requests, waits>>
  /\ LET m == Head(methods) IN
     /\ AddSubscription(m.src, <<m.who, m.what>>)
     /\ Announcement(m, TRUE, "subscribed")
     /\ Follow(m.src)

HandleUnsubscribe ==
  /\ Take("unsubscribe")
  /\ UNCHANGED <<running, link, ident, cmds, zlib, pinged, requests, waits>>
  /\ LET m == Head(methods) IN
     /\ DelSubscription(m.src, <<m.who, m.what>>)
     /\ Announcement(m, <<m.who, m.what>> \in subs[m.src], "unsubscribed")
     /\ Follow(m.src)

HandleRegister ==
  /\ Take("register")
  /\ UNCHANGED <<running, link, ident, subs, zlib, pinged, requests, waits,
                 roster>>
  /\ LET m == Head(methods) IN
     /\ AddCommand(m.src, m.what)
     /\ Announcement(m, TRUE, "registered")

HandleUnregister ==
  /\ Take("unregister")
  /\ UNCHANGED <<running, link, ident, subs, zlib, pinged, requests, waits,
                 roster>>
  /\ LET m == Head(methods) IN
     /\ DelCommand(m.src, m.what)
     /\ Announcement(m, TRUE, "unregistered")

\* client_del_command removes the NULL its search ended with from the list.
CrashInUnregister ==
  /\ phase \in {"top", "handle"}
  /\ methods # << >>
  /\ LET m == Head(methods) IN
       m.op = "unregister" /\ m.what \notin cmds[m.src]
  /\ phase' = "crashed"
  /\ UNCHANGED <<running, registry, inbox, outbuf, methods, queues, peer,
                 roster>>

\* command.event is refused when a part of the event is left out (who = None),
\* and answers 0 even when the event could not be sent.
HandlePublish ==
  /\ Take("publish")
  /\ UNCHANGED <<running, link, ident, subs, cmds, zlib, pinged, requests,
                 waits, roster>>
  /\ LET m == Head(methods) IN
     \/ m.who # None /\ Route(ident[m.src], m.who, m.what) /\ Respond(m, 0)
     \/ m.who = None /\ NoEvent /\ Respond(m, -1)

\* A method of type event: no answer, whatever comes of it.
HandleEvent ==
  /\ Take("event")
  /\ UNCHANGED <<running, link, ident, subs, cmds, zlib, pinged, requests,
                 waits, results, roster>>
  /\ LET m == Head(methods) IN Route(ident[m.src], m.who, m.what)

\* Commands that only read: status and clients, client, and no such command.
HandleQuery ==
  /\ \/ Take("status") \/ Take("client") \/ Take("unknown")
  /\ UNCHANGED <<running, link, ident, subs, cmds, zlib, pinged, requests,
                 waits, roster>>
  /\ NoEvent
  /\ LET m == Head(methods) IN
       Respond(m, IF m.op = "status" \/ (m.op = "client" /\ Named(m.who) # {})
                  THEN 0 ELSE -1)

HandleClose ==
  /\ Take("close")
  /\ UNCHANGED <<ident, subs, cmds, zlib, pinged, requests, waits, roster>>
  /\ NoEvent
  /\ LET m == Head(methods) IN
     /\ running' = (running /\ m.who # Server)
     /\ link' = [c \in Slot |->
          IF m.who # Server /\ c \in Named(m.who) THEN "close_command"
          ELSE link[c]]
     /\ Respond(m, IF m.who = Server \/ Named(m.who) # {} THEN 0 ELSE -1)

\* A command for another client: the request goes to the callee and the
\* method waits with the caller.  No request is made of a negative sequence.
HandleCall ==
  /\ Take("call")
  /\ UNCHANGED <<running, link, ident, subs, cmds, zlib, pinged, roster>>
  /\ NoEvent
  /\ LET m == Head(methods)
         callee == {d \in Named(m.who) : m.what \in cmds[d]} IN
     \/ /\ callee # {} /\ ident[m.src] # None /\ m.seq >= 0
        /\ \E d \in callee :
             requests' = [requests EXCEPT ![d] = Append(@,
               [from |-> ident[m.src], what |-> m.what, seq |-> m.seq,
                tag |-> m.tag])]
        /\ waits' = [waits EXCEPT ![m.src] = @ \cup {m}]
        /\ UNCHANGED results
     \/ /\ callee = {} \/ ident[m.src] = None \/ m.seq < 0
        /\ Respond(m, -1)
        /\ UNCHANGED <<requests, waits>>

ValidBelowTheLast(s) == s >= SeqStart /\ s < SeqEnd - 1    \* mutant

ValidSequence(s) == s >= SeqStart /\ s < SeqEnd

WaitForAnySequence(c, d, m) ==                           \* mutant
  {w \in waits[c] : w.who = ident[d] /\ w.what = m.what}

\* The wait of client c that a result sent by client d answers.
WaitFor(c, d, m) ==
  {w \in waits[c] : w.seq = m.seq /\ w.who = ident[d] /\ w.what = m.what}

\* command.result: the callee's answer completes the oldest wait that agrees
\* with it on the sequence, the callee and the command.
HandleResult ==
  /\ Take("result")
  /\ UNCHANGED <<running, link, ident, subs, cmds, zlib, pinged, requests,
                 roster>>
  /\ NoEvent
  /\ LET m == Head(methods)
         valid == ident[m.src] # None /\ ValidSequence(m.seq)
         callers == {c \in Named(m.who) : WaitFor(c, m.src, m) # {}} IN
     \/ /\ valid /\ callers # {}
        /\ \E c \in callers :
             LET w == Oldest(WaitFor(c, m.src, m))
                 told == [results EXCEPT ![c] = Append(@, Answered(w, 0, m.re))] IN
             /\ waits' = [waits EXCEPT ![c] = @ \ {w}]
             /\ results' = [told EXCEPT ![m.src] = Append(@, Answered(m, 0, 0))]
     \/ /\ ~valid \/ callers = {}
        /\ Respond(m, IF valid THEN 0 ELSE -1)
        /\ UNCHANGED waits

HandleMethod ==
  \/ HandleCreate \/ HandleSubscribe \/ HandleUnsubscribe
  \/ HandleRegister \/ HandleUnregister \/ CrashInUnregister
  \/ HandlePublish \/ HandleEvent \/ HandleQuery \/ HandleClose
  \/ HandleCall \/ HandleResult

-----------------------------------------------------------------------------
(* The rest of a pass. *)

\* The ping check: any pinging client may have missed too many (the clock is
\* not modelled here); then the phase that fills the output buffers.
CheckPing ==
  /\ phase = "top" /\ methods = << >>
  /\ phase' = "out"
  /\ \E S \in SUBSET (pinged \cap Open) :
       link' = [c \in Slot |-> IF c \in S THEN "ping_threshold" ELSE link[c]]
  /\ UNCHANGED <<running, ident, accepted, announced, subs, cmds, zlib, pinged,
                 inbox, outbuf, methods, queues, peer, roster>>

AlwaysCompressed(c, kind, body) == c \in zlib           \* mutant

\* The result of a create is never compressed.
Compressed(c, kind, body) ==
  c \in zlib /\ ~(kind = "result" /\ body.to.op = "create")

Packed(c, kind, body) ==
  <<[kind |-> kind, body |-> body, zlib |-> Compressed(c, kind, body)]>>

\* The one message a client gets in this pass: a result before a request
\* before an event.
Front(c) ==
  IF results[c] # << >> THEN Packed(c, "result", Head(results[c]))
  ELSE IF requests[c] # << >> THEN Packed(c, "request", Head(requests[c]))
  ELSE IF events[c] # << >> THEN Packed(c, "event", Head(events[c]))
  ELSE << >>

PeekedOnly(q, kind) == q                                 \* mutant

\* q without its head, for the clients whose message it is.
Popped(q, kind) ==
  [c \in Slot |-> IF c \in Open /\ Front(c) # << >> /\ Head(Front(c)).kind = kind
                  THEN Tail(q[c]) ELSE q[c]]

PrepareOut ==
  /\ phase = "out"
  /\ phase' = "poll"
  /\ outbuf' = [c \in Slot |-> IF c \in Open THEN outbuf[c] \o Front(c)
                               ELSE outbuf[c]]
  /\ results' = Popped(results, "result")
  /\ requests' = Popped(requests, "request")
  /\ events' = Popped(events, "event")
  /\ UNCHANGED <<running, registry, inbox, methods, waits, eseq, peer, roster>>

\* poll(2) reports a listener: server_client_connection_establish.
Accept(c) ==
  /\ phase = "poll"
  /\ link[c] = "free"
  /\ link' = [link EXCEPT ![c] = "open"]
  /\ UNCHANGED <<phase, running, ident, accepted, announced, subs, cmds, zlib,
                 pinged, inbox, outbuf, methods, queues, peer, roster>>

\* A frame arrives from a client whose socket was in the poll set.
Receive(c, f, re) ==
  /\ phase = "poll"
  /\ c \in Open \cap accepted
  /\ frames' = frames + 1
  /\ LET m == [src |-> c, tag |-> frames + 1, re |-> re, op |-> f.op,
               who |-> f.who, what |-> f.what, seq |-> f.seq, opt |-> f.opt] IN
     /\ inbox' = [inbox EXCEPT ![c] = Append(@, m)]
     /\ owed' = IF f.op \in {"event", "garbage"} THEN owed
                ELSE [owed EXCEPT ![c] = @ \cup {m}]
  /\ UNCHANGED <<phase, running, registry, outbuf, methods, queues, routines,
                 heard, roster>>

\* What the client library counts through.
Sequences == SeqStart..(SeqEnd - 1)

\* What the client library lets its user send: one create, everything else
\* once that succeeded, an unregister of what is registered, and a sequence that
\* is in its range and not still in use.
Allowed(c, f) ==
  IF f.op = "create" THEN stage[c] = "new"
  ELSE /\ stage[c] = "created"
       /\ f.op = "unregister" => f.what \in routines[c]
       /\ f.op = "call" => f.seq \in Sequences
       /\ \A m \in owed[c] : m.op = "call" /\ f.op = "call" => m.seq # f.seq

Read(c, f) ==
  /\ frames < MaxFrames
  /\ Conforming => Allowed(c, f)
  /\ Receive(c, f, 0)
  /\ stage' = IF f.op = "create" /\ stage[c] = "new"
              THEN [stage EXCEPT ![c] = "asked"] ELSE stage
  /\ UNCHANGED held

\* The client answers a request it was sent.
Reply(c, r) ==
  /\ Receive(c, [op |-> "result", who |-> r.from, what |-> r.what,
                 seq |-> r.seq, opt |-> {}], r.tag)
  /\ held' = [held EXCEPT ![c] = @ \ {r}]
  /\ UNCHANGED stage

\* End of file, a reset or a failed read or write.
HangUp(c) ==
  /\ phase \in {"poll", "write"}
  /\ c \in Open \cap accepted
  /\ link' = [link EXCEPT ![c] = "connection_closed"]
  /\ UNCHANGED <<phase, running, ident, accepted, announced, subs, cmds, zlib,
                 pinged, inbox, outbuf, methods, queues, peer, roster>>

\* What a peer learns from a frame it reads.
Learn(c, f) ==
  LET a == f.body
      result(op, rc) == f.kind = "result" /\ a.to.op = op /\ a.rc = rc IN
  /\ owed' = IF f.kind = "result" THEN [owed EXCEPT ![c] = @ \ {a.to}] ELSE owed
  /\ held' = IF f.kind = "request" THEN [held EXCEPT ![c] = @ \cup {a}] ELSE held
  /\ heard' = IF f.kind = "event" THEN [heard EXCEPT ![c] = NextSeq(a.seq)]
              ELSE heard
  /\ routines' = IF result("register", 0)
                 THEN [routines EXCEPT ![c] = @ \cup {a.to.what}]
                 ELSE IF result("unregister", 0)
                 THEN [routines EXCEPT ![c] = @ \ {a.to.what}]
                 ELSE routines
  /\ stage' = IF result("create", 0) THEN [stage EXCEPT ![c] = "created"]
              ELSE IF result("create", -1) /\ stage[c] = "asked"
              THEN [stage EXCEPT ![c] = "refused"]
              ELSE stage

ReadDone ==
  /\ phase = "poll" /\ phase' = "write"
  /\ UNCHANGED <<running, registry, inbox, outbuf, methods, queues, peer, roster>>

\* A writable socket takes the next frame of the output buffer.
Write(c) ==
  /\ phase = "write"
  /\ c \in Open /\ outbuf[c] # << >>
  /\ outbuf' = [outbuf EXCEPT ![c] = Tail(@)]
  /\ Learn(c, Head(outbuf[c]))
  /\ UNCHANGED <<phase, running, registry, inbox, methods, queues, frames,
                 roster>>

WriteDone ==
  /\ phase = "write" /\ phase' = "parse"
  /\ UNCHANGED <<running, registry, inbox, outbuf, methods, queues, peer, roster>>

\* The frames of a client's input buffer become methods, up to the first that
\* is no method: that one closes the connection and is never looked at again.
\* A connection already closed is no obstacle.
Parse(c) ==
  LET bad == {i \in DOMAIN inbox[c] : inbox[c][i].op = "garbage"} IN
  /\ phase = "parse"
  /\ inbox[c] # << >>
  /\ inbox' = [inbox EXCEPT ![c] = << >>]
  /\ \/ /\ bad = {}
        /\ methods' = methods \o inbox[c]
        /\ UNCHANGED link
     \/ \E i \in bad :
        /\ \A j \in bad : i <= j
        /\ methods' = methods \o SubSeq(inbox[c], 1, i - 1)
        /\ link' = [link EXCEPT ![c] = "internal_error"]
  /\ UNCHANGED <<phase, running, ident, accepted, announced, subs, cmds, zlib,
                 pinged, outbuf, queues, peer, roster>>

ParseDone ==
  /\ phase = "parse" /\ \A c \in Slot : inbox[c] = << >>
  /\ phase' = "handle"
  /\ UNCHANGED <<running, registry, inbox, outbuf, methods, queues, peer, roster>>

HandleDoneEarly ==                                       \* mutant
  /\ phase = "handle" /\ phase' = "status"
  /\ accepted' = accepted \cup Open
  /\ UNCHANGED <<running, link, ident, announced, subs, cmds, zlib, pinged,
                 inbox, outbuf, methods, queues, peer, roster>>

\* Every method is handled; then every connected client is marked accepted.
HandleDone ==
  /\ phase = "handle" /\ methods = << >>
  /\ phase' = "status"
  /\ accepted' = accepted \cup Open
  /\ UNCHANGED <<running, link, ident, announced, subs, cmds, zlib, pinged,
                 inbox, outbuf, methods, queues, peer, roster>>

UnannouncedOrAnonymous == (Open \cap accepted) \ announced   \* mutant

Unannounced == {c \in Open \cap accepted : ident[c] # None} \ announced

\* server_send_event_connected
SendConnected(c, told) == Queue(told, Server, "connected", ident[c])

\* A client that has an identifier counts as connected: the subscribers of
\* the connected event, the client among them, are told.
Announce(c) ==
  LET told == Targets(Live, Server, Subscribers, "connected") IN
  /\ phase = "status"
  /\ c \in Unannounced
  /\ announced' = announced \cup {c}
  /\ SendConnected(c, told)
  /\ roster' = Toggle({d \in told : Follows(subs[d])}, ident[c])
  /\ UNCHANGED <<phase, running, link, ident, accepted, subs, cmds, zlib,
                 pinged, inbox, outbuf, methods, requests, results, waits, peer>>

StatusDone ==
  /\ phase = "status" /\ Unannounced = {}
  /\ phase' = "cleanup"
  /\ UNCHANGED <<running, registry, inbox, outbuf, methods, queues, peer, roster>>

OrphansForgotten(d, c) == {}                             \* mutant

\* The calls another client has waiting on a closed client d.
Orphans(d, c) == {w \in waits[c] : ident[d] # None /\ w.who = ident[d]}

\* The clean-up of d, one iteration of its loop over the waits of the others:
\* the call fails.
FailWait(d, c) ==
  /\ phase = "cleanup"
  /\ d \in Dead /\ c \in Live \ {d} /\ Orphans(d, c) # {}
  /\ LET w == Oldest(Orphans(d, c)) IN
     /\ waits' = [waits EXCEPT ![c] = @ \ {w}]
     /\ results' = [results EXCEPT ![c] = Append(@, Answered(w, -1, 0))]
  /\ UNCHANGED <<phase, running, registry, inbox, outbuf, methods, requests,
                 events, eseq, peer, roster>>

\* client_destroy: the struct is freed with all that it holds, its events too.
Destroy(d) ==
  /\ link' = [link EXCEPT ![d] = "free"]
  /\ ident' = [ident EXCEPT ![d] = None]
  /\ accepted' = accepted \ {d} /\ announced' = announced \ {d}
  /\ zlib' = zlib \ {d} /\ pinged' = pinged \ {d}
  /\ subs' = [subs EXCEPT ![d] = {}] /\ cmds' = [cmds EXCEPT ![d] = {}]
  /\ inbox' = [inbox EXCEPT ![d] = << >>]
  /\ outbuf' = [outbuf EXCEPT ![d] = << >>]
  /\ requests' = [requests EXCEPT ![d] = << >>]
  /\ results' = [results EXCEPT ![d] = << >>]
  /\ waits' = [waits EXCEPT ![d] = {}]

\* server_send_event_disconnected, of d, whose own queue is freed.
SendDisconnected(d, told) ==
  /\ events' = [c \in Slot |->
       IF c = d THEN << >>
       ELSE IF c \in told
       THEN Append(events[c], [source |-> Server, what |-> "disconnected",
                               about |-> ident[d], seq |-> eseq[c]])
       ELSE events[c]]
  /\ eseq' = [c \in Slot |-> IF c = d THEN SeqStart
                             ELSE IF c \in told THEN NextSeq(eseq[c]) ELSE eseq[c]]

\* The rest of it: the subscribers of the disconnected event hear of a client
\* they were told of, and the struct goes.  (The loop that drops its methods
\* finds none: see Drained.)
Cleanup(d) ==
  LET told == {c \in Targets(Live \ {d}, Server, Subscribers, "disconnected") :
                 d \in announced} IN
  /\ phase = "cleanup"
  /\ d \in Dead
  /\ \A c \in Live \ {d} : Orphans(d, c) = {}
  /\ Destroy(d)
  /\ SendDisconnected(d, told)
  /\ roster' = [Toggle({c \in told : Follows(subs[c])}, ident[d])
                  EXCEPT ![d] = {}]
  /\ stage' = [stage EXCEPT ![d] = "new"]
  /\ owed' = [owed EXCEPT ![d] = {}] /\ held' = [held EXCEPT ![d] = {}]
  /\ routines' = [routines EXCEPT ![d] = {}]
  /\ heard' = [heard EXCEPT ![d] = SeqStart]
  /\ UNCHANGED <<phase, running, methods, frames>>

CleanupDone ==
  /\ phase = "cleanup" /\ Dead = {}
  /\ phase' = IF running THEN "top" ELSE "stopped"
  /\ UNCHANGED <<running, registry, inbox, outbuf, methods, queues, peer, roster>>

\* mbus_server_run_timeout has returned 1, or the process has died.
Halted == phase \in {"stopped", "crashed"} /\ UNCHANGED vars

\* The broker's own steps, what the world does, and what the peers write.
Pass ==
  \/ CheckPing \/ PrepareOut \/ ReadDone \/ WriteDone
  \/ (\E c \in Slot : Parse(c)) \/ ParseDone
  \/ HandleMethod \/ HandleDone
  \/ (\E c \in Slot : Announce(c)) \/ StatusDone
  \/ (\E c, d \in Slot : FailWait(d, c)) \/ (\E d \in Slot : Cleanup(d))
  \/ CleanupDone

Next ==
  \/ Pass
  \/ \E c \in Slot :
       \/ Accept(c) \/ HangUp(c) \/ Write(c)
       \/ \E f \in Frames : Read(c, f)
       \/ \E r \in held[c] : Reply(c, r)
  \/ Halted

Spec == Init /\ [][Next]_vars

\* The broker keeps running its loop; a connected peer keeps reading what it is
\* sent and answers the requests it got.
Fairness ==
  /\ WF_vars(Pass)
  /\ \A c \in Slot :
       SF_vars(Write(c)) /\ SF_vars(\E r \in held[c] : Reply(c, r))

FairSpec == Spec /\ Fairness

-----------------------------------------------------------------------------
(* Properties. *)

TypeOK ==
  /\ phase \in {"top", "out", "poll", "write", "parse", "handle", "status",
                "cleanup", "stopped", "crashed"}
  /\ running \in BOOLEAN
  /\ link \in [Slot -> {"free", "open", "close_command", "ping_threshold",
                        "connection_closed", "internal_error"}]
  /\ ident \in [Slot -> Id \cup {None}]
  /\ accepted \in SUBSET Slot /\ announced \in SUBSET Slot
  /\ zlib \in SUBSET Slot /\ pinged \in SUBSET Slot
  /\ subs \in [Slot -> SUBSET (Party \X Name)]
  /\ cmds \in [Slot -> SUBSET Name]
  /\ inbox \in [Slot -> Seq(Method)]
  /\ outbuf \in [Slot -> Seq(Out)]
  /\ methods \in Seq(Method)
  /\ requests \in [Slot -> Seq(Request)]
  /\ results \in [Slot -> Seq(Answer)]
  /\ events \in [Slot -> Seq(Notice)]
  /\ waits \in [Slot -> SUBSET Method]
  /\ eseq \in [Slot -> Int]
  /\ frames \in Nat
  /\ stage \in [Slot -> {"new", "asked", "created", "refused"}]
  /\ owed \in [Slot -> SUBSET Method]
  /\ held \in [Slot -> SUBSET Request]
  /\ routines \in [Slot -> SUBSET Name]
  /\ heard \in [Slot -> Int]
  /\ roster \in [Slot -> SUBSET (Id \cup {None})]

\* No two clients on the list have the same identifier, closed ones included:
\* server_find_client_by_identifier and every walk that stops at the first
\* match rely on it.
UniqueIdentifiers ==
  \A c, d \in Live : ident[c] = ident[d] /\ ident[c] # None => c = d

\* Between two passes nothing is left over: no closed client on the list, no
\* method that was not handled.  Methods point to the struct of their sender,
\* and the clean-up frees that struct without looking for events it sent.
Drained ==
  /\ phase \in {"status", "cleanup", "top", "out", "poll", "write", "stopped"}
       => methods = << >>
  /\ phase \in {"top", "stopped"} => Dead = {}
  /\ \A i \in DOMAIN methods : methods[i].src \in Live

\* Between two passes every call that waits, waits for a client with a
\* connection: nobody waits for a client that went away, whatever the order in
\* which call, result, close and create came in the pass.
NoOrphanWait ==
  phase = "top" =>
    \A c \in Live : \A w \in waits[c] : \E d \in Open : ident[d] = w.who

\* What makes the three above inductive, with PresenceAgrees below.
FreeSlots ==
  \A c \in Slot \ Live :
    /\ ident[c] = None /\ subs[c] = {} /\ waits[c] = {} /\ inbox[c] = << >>
    /\ c \notin announced

OwnFrames == \A c \in Slot : \A i \in DOMAIN inbox[c] : inbox[c][i].src = c

WaitsNamed ==
  \A c \in Slot : \A w \in waits[c] :
    w.who # None /\ \E d \in Live : ident[d] = w.who

Announcements ==
  /\ \A d \in announced : ident[d] # None
  /\ phase = "status" => Open \subseteq accepted
  /\ phase \in {"cleanup", "top", "out", "poll", "write", "stopped"}
       => \A c \in Open : ident[c] # None => c \in announced

Rosters ==
  \A c \in Live : Follows(subs[c]) => roster[c] = {ident[d] : d \in announced}

\* The bookkeeping of the broker, at every step of a pass: the inductive
\* invariant behind UniqueIdentifiers, Drained, NoOrphanWait, PresenceAgrees.
Bookkeeping ==
  /\ TypeOK /\ UniqueIdentifiers /\ Drained /\ FreeSlots /\ OwnFrames
  /\ WaitsNamed /\ Announcements /\ Rosters

\* Frames that are not answered.
Unanswered == {"event", "garbage"}

AnswersIn(s) == {s[i].body : i \in {j \in DOMAIN s : s[j].kind = "result"}}
AnswersFor(c) == Contents(results[c]) \cup AnswersIn(outbuf[c])

\* Where the commands of client c are: each place with what is there.
Places(c) ==
  {<<"inbox", i, inbox[c][i]>> :
     i \in {j \in DOMAIN inbox[c] : inbox[c][j].op \notin Unanswered}} \cup
  {<<"methods", i, methods[i]>> :
     i \in {j \in DOMAIN methods : methods[j].src = c /\ methods[j].op \notin Unanswered}} \cup
  {<<"waits", 0, w>> : w \in waits[c]} \cup
  {<<"results", i, results[c][i].to>> : i \in DOMAIN results[c]} \cup
  {<<"outbuf", i, outbuf[c][i].body.to>> :
     i \in {j \in DOMAIN outbuf[c] : outbuf[c][j].kind = "result"}}

\* Every command a connected client sent and got no answer to is in exactly one
\* place, once: still to be parsed, still to be handled, waiting for its callee,
\* or answered with the answer on its way.  So no command is dropped and none is
\* answered twice, by the callee, by the clean-up of the callee or by both.
OneAnswer ==
  \A c \in Open :
    /\ {p[3] : p \in Places(c)} = owed[c]
    /\ \A p, q \in Places(c) : p[3] = q[3] => p = q

\* Someone is responsible for every call that waits: its callee is closed (and
\* the clean-up will fail the call), or has the request queued or in its output
\* buffer, or holds it, or has sent the reply, which is in its input buffer or
\* among the methods.  A peer that answers what it gets leaves no call waiting.
CallInHand ==
  Conforming => \A c \in Live : \A w \in waits[c] : \E d \in Live :
    /\ ident[d] = w.who
    /\ \/ d \in Dead
       \/ \E r \in Contents(requests[d]) \cup held[d] : r.tag = w.tag
       \/ \E i \in DOMAIN outbuf[d] :
            outbuf[d][i].kind = "request" /\ outbuf[d][i].body.tag = w.tag
       \/ \E m \in Contents(inbox[d] \o methods) : m.src = d /\ m.re = w.tag

\* The answer to a call that is still owed to one caller is never handed to
\* another call: a wait is matched by sequence, callee and command only.
NoCrossedAnswer ==
  Conforming => \A c \in Live : \A a \in AnswersFor(c) :
    a.re \in {0, a.to.tag} \/ \A d \in Live : \A m \in owed[d] : m.tag # a.re

IsEvent(c, i) == outbuf[c][i].kind = "event"

\* The last event ahead of position i of the output buffer of c, if there is one.
Preceding(c, i) ==
  {j \in 1 .. i - 1 : IsEvent(c, j) /\ \A k \in j + 1 .. i - 1 : ~IsEvent(c, k)}

\* The number at position i, or of the event that comes there next.
Numbered(c, i) ==
  IF i \in DOMAIN outbuf[c] THEN outbuf[c][i].body.seq
  ELSE IF events[c] # << >> THEN events[c][1].seq
  ELSE eseq[c]

\* The events queued for a client and those in its output buffer carry the
\* consecutive sequences between the next one it expects and esequence, wrapped
\* at MBUS_METHOD_SEQUENCE_END: none is lost, repeated or overtaken.
EventChain ==
  \A c \in Live :
    /\ \A i \in 1 .. Len(outbuf[c]) + 1 : i > Len(outbuf[c]) \/ IsEvent(c, i) =>
         /\ (\A j \in 1 .. i - 1 : ~IsEvent(c, j)) => Numbered(c, i) = heard[c]
         /\ \A j \in Preceding(c, i) : Numbered(c, i) = NextSeq(Numbered(c, j))
    /\ \A i \in DOMAIN events[c] :
         NextSeq(events[c][i].seq) =
           IF i < Len(events[c]) THEN events[c][i + 1].seq ELSE eseq[c]

\* A client that follows the connected and disconnected events can tell who is
\* connected: between passes, the clients it knew of when it subscribed and the
\* events queued for it since name exactly the identified clients on the list.
PresenceAgrees ==
  phase = "top" => \A c \in Live :
    Follows(subs[c]) => roster[c] = {ident[d] : d \in Live} \ {None}

\* A frame goes out compressed exactly if the peer will expect that: the
\* compression was negotiated and the answer to create, never compressed, is
\* ahead of it.  In particular nothing overtakes that answer.
Decodable ==
  Conforming => \A c \in Open : \A i \in DOMAIN outbuf[c] :
    outbuf[c][i].zlib =
      (c \in zlib /\ (stage[c] = "created" \/ \E j \in 1 .. i - 1 :
         outbuf[c][j].kind = "result" /\ outbuf[c][j].body.to.op = "create"))

\* Every command is answered, or its sender's connection ends: whatever becomes
\* of the callee, and as long as connected callees answer.
EveryCommandAnswered ==
  \A c \in Slot : \A t \in 1 .. 2 * MaxFrames :
    (\E m \in owed[c] : m.tag = t) ~> ~(\E m \in owed[c] : m.tag = t)

\* method.h: the response to a call carries the result the callee gave for it.
RightAnswer ==
  \A c \in Live : \A a \in AnswersFor(c) : a.re \in {0, a.to.tag}

\* method.h: the server answers every command with a response, so no command
\* stops it.
NoCrash == phase # "crashed"

=============================================================================
