# Verification of mBus

mBus is a message bus: a broker (`src/src/server`), a client library
(`src/src/client`) and a protocol of length-prefixed JSON frames between them
(`src/src/method/method.h`). Clients publish and subscribe to events, register
commands and call each other's commands through the broker. This directory holds
TLA+ models of that code, TLC configurations that check them on small instances,
and proofs that TLAPS checks for every value of the constants.

## Inventory

| part | state it keeps | operations | where |
|---|---|---|---|
| broker loop, `server.c` | list of `struct client`, list of methods, `running`, poll arrays | `mbus_server_run_timeout`, one handler per command, events, clean-up | `MbusBroker`, `MbusPing` |
| server methods, `method.c` | request and result of one method, a pointer to the client that sent it | create from a frame, create a response | `MbusBroker` |
| listeners and connections, `listener.c` | sockets, TLS sessions | accept, read into a buffer, write from a buffer | `MbusFraming` |
| websocket connections, `listener.c` | a `connection_ws` per session, the broker's poll table | the callbacks of libwebsockets | `MbusWebsocket` |
| client library, `client.c` | state, requests, pendings, routines, subscriptions, timers; a mutex, a pipe | calls from any thread, `mbus_client_run` | `MbusClient`, `MbusWakeup`, `MbusPing`, `MbusFraming` |
| buffers, compression | base, length, size | push a frame, shift, compress | `MbusFraming` |
| clock | none | now, after | `MbusPing` |
| sockets, json, lists, server options, applications, ports | | | not modelled, see below |

How the parts interact. The broker is one thread. A pass of its loop handles what
is left of the methods, looks at the ping timers, moves at most one message per
client to its output buffer, polls, reads, writes, cuts the input buffers into
methods, handles them, announces new clients and cleans up closed ones. A command
for another client becomes a request in the callee's queue while the method
itself waits with the caller; the callee's reply is itself a command (`result`)
that completes the wait. libwebsockets calls the broker back, in the middle of a
pass, for sessions it owns. A client library instance shares its state between
the application's calls and its run loop under a mutex that is let go during poll
and during callbacks; a pipe wakes the loop out of poll.

What is hard. The order in which creates, closes, calls, results and hang-ups
meet within one pass; clean-up of clients others wait for; pointers from methods
to clients that may be freed, and between clients and websocket sessions; three
queues per client that share one output buffer while compression is switched on;
sequences that wrap and that start again on every connection; reads and writes
that cut frames anywhere, are interrupted, and leave errno behind; and in the
client library, calls and callbacks between the steps of the run loop, timeouts
that race with late answers, and reconnection. `PROJECT.json` lists these hazards
line by line, each with the properties that are about it.

What makes the parts correct. Broker: every command is answered once; identifiers
are unique; nothing points to a freed client; whoever follows presence events
knows who is connected; events arrive numbered without gaps; frames are encoded
as their receiver expects. Client library: every request completes once, with its
own result; nothing of one connection leaks into the next; no callback makes a
loop lose its place or use freed memory; what is published wakes the loop.
Connections: the frames handled are the frames pushed, in order; one end's going
is noticed by the other, by a hang-up or by pings.

## Modules

| module | what it is |
|---|---|
| `MbusBroker` | the broker's loop, every command handler, and the peers as the broker sees them |
| `MbusClient` | the client library: one run of the loop step by step, the calls of the application between any two of them, the broker as the client sees it |
| `MbusRequest` | abstract: a request that was accepted is completed exactly once. `MbusClient` implements it |
| `MbusFraming` | a socket connection below the level of messages, both ends of it |
| `MbusWebsocket` | websocket sessions, shared between libwebsockets and the broker |
| `MbusFifo` | abstract: messages come out whole, once and in order until the connection breaks. `MbusFraming` and `MbusWebsocket` implement it, each in both directions |
| `MbusPing` | the ping clocks of the broker and of a client |
| `MbusWakeup` | the mutex and the wake-up pipe between an application's threads and the loop |
| `MCMbus*` | what TLC needs of each: sets of inputs, and the connected starting point of the deeper runs of the broker |
| `MbusBrokerProofs`, `MbusBrokerMessages` | proofs about `MbusBroker`: its lists and clients, and the messages it handles |
| `MbusClientProofs` | proofs about `MbusClient`, its refinement of `MbusRequest` among them |
| `MbusFramingProofs`, `MbusWebsocketProofs` | proofs about the connections, their refinements of `MbusFifo` among them |
| `MbusPingProofs`, `MbusWakeupProofs`, `MbusFifoProofs` | proofs about the modules of those names |

The models meet at the interfaces of the code: `MbusBroker` and `MbusClient` read and
write whole frames in order, which is what `MbusFifo` states and `MbusFraming` and
`MbusWebsocket` are shown to give them; `MbusClient` lets the loop find what was
published, which is what `MbusWakeup` is about; and both take a failed ping check as
a choice, which `MbusPing` makes by the clock.

### MbusBroker

State and code. A `Slot` is a `struct client`; `link[c] = "free"` when none is
allocated there, `"open"` while it has a connection, and otherwise the
`client_connection_close_code` it was closed with. `ident`, `subs`, `cmds`,
`zlib`, `pinged`, `requests`, `results`, `events`, `waits`, `eseq` are the fields
of the struct, `accepted` and `announced` its status bits, `inbox` and `outbuf` the
buffers as lists of frames, `methods` the server's list. `phase` is the place in
`mbus_server_run_timeout`:

    top -> out -> poll -> write -> parse -> handle -> status -> cleanup -> top

One action per handler (`HandleCreate` ... `HandleResult`) and per step of the
loop (`CheckPing`, `PrepareOut`, `Accept`, `Read`, `Write`, `Parse`, `Announce`,
`FailWait`, `Cleanup`). `CrashInUnregister` is the handler that takes NULL off a
list. The peers' view is kept in history variables (marked (h)) the broker's
actions never read: what a peer is owed, holds, knows to be registered, which
event it expects, and who it thinks is connected.

Abstractions, each a superset of what the code does:

- Names, frames and payloads are members of small sets. A result carries the tag
  of the request it replies to, which no broker action reads.
- Loops over the list of clients that do the same to each take any order; the code
  takes accept order. The clean-ups of two closed clients may interleave.
- Whether a client that is pinged missed too many pings is nondeterministic.
- A frame is read and written whole; reads come before writes in a pass, while
  the code takes one descriptor after the other. A websocket client that sends
  in the very service call that establishes it is read one pass later.
- The identifier the broker invents for an empty create is any unused one.
- `status` and `clients` only read and share an action with `client` and unknown
  commands. The status a callee puts in its result is always 0.
- A create refused for its password keeps its identifier, as in the code.

An event published with a part left out is refused (`who = None`), and so is a call with a
negative sequence; a frame that lacks its own fields is no method at all (`garbage`).

Left out: out of memory and errors of poll, which end the loop with -1.

### MbusClient

`mbus_client_run` is one function with a `goto out` and a reset that may be entered
from five places. `todo` is what a run still has to do: a stack of steps such as
"walk the pendings to cancel them", "parse", "flush", each with the list it walks
and the `next` pointer it keeps (`TAILQ_FOREACH_SAFE`). A step takes the first entry
and may put others before it, as the code does by calling `mbus_client_reset` and
the notifications. A step that ends in a callback, or in poll, leaves `locked`
FALSE: the code has given the mutex back there, and every call of the application
(`Connect`, `Disconnect`, `Publish`, `Command`, `Register`, ..., `Destroy`) may come
in, from the callback or from another thread. `made` holds the `struct request`s,
`requests` and `pendings` the two lists, `routines` and `subscriptions` those lists by
the request that made each element, `freed` what was destroyed, `sequence` the
counter, `expired` the requests a timeout has passed for.

A create that `destroy` cancels leaves the state `destroyed`: nobody may call after
it. An element is taken off a list where the list has it first (`RemoveFirst`), as
TAILQ_REMOVE takes one element.

The four responses to register, unregister, subscribe and unsubscribe read their element
for the notification, also when they have just destroyed it (`Reads`); `reread` keeps who
read what was freed, and by whom it had been. Canceled and timed out requests are notified
from their own JSON and read no element.

Of an event published at most once that is addressed to the broker or named ping the
application is told nothing (`client.c:699`, `:3676`, `:3724`); such events are not among the
`Kinds`, but the pings the library sends itself are in the model, and told to nobody.

The broker's side answers what it has read in any order, may refuse any kind of
request, sends events, calls and pongs, and hangs up at any time. Two of its
freedoms are bounded: `MaxRequests` calls and pings in all, and `MaxFrames` frames
of its own.

`Careful` is the one restraint on the application: it makes no second register,
unregister, subscribe or unsubscribe of a name before the one before it is
completed. Without it two elements of one name, and an element freed twice, are
reachable (client.c:2201, :795), which the hazards list.

### MbusFraming

A frame is a run of units `<<n, i>>`: the length, cut in `HeaderUnits`, then the text.
Reads return any number of units up to `Chunk` (TLS: up to all there are), writes take
any number up to the room in the socket, so frames are cut in every way. `errno`
is a variable, since the broker judges a read of 0 by it. The constants are
assumptions about the world, all of them taken at their weakest in the run:
`Interruptions` (a read or write that poll announced fails with EINTR or EAGAIN)
and `Neighbours` (other connections leave EAGAIN in errno). The client judges a read of 0
the same way by an errno of its own process, `excuse`: when nothing is left to read, any
call of the application or the library may have left it at EAGAIN or at anything else
(`ClientElsewhere`), and the client closes only in the second case. What an interrupted
plain read does to the buffer in the code, drop its last byte, is `Interrupted`;
`lost` remembers it. What follows is garbage, so `Expected` and `Text` allow any
length and no text from there on, a length of more than is there included.

Where a write of TLS has to be repeated, a push may move the buffer it was made from
and so break the stream by itself; `Push` of `MbusFifo` allows for that.

### MbusWebsocket

libwebsockets and the broker each hold half of a session. `wsi` is the session
as libwebsockets sees it, `conn` the broker's client, `handle` the pointer between
(`connection_ws->wsi`), `pollfds` the broker's table of descriptors. Descriptors are
reused. The callbacks come while `phase = "service"`, in any order and number. The
sending and receiving side of `MBusClient.js` is the other end. `Talkers` names the
sessions that exchange frames; the others connect, are evicted and go, so that the
sharing of descriptors and of the table is checked with little data.

`MBusClient.js` writes the length of a frame with its first byte shifted by 0x16 places
(`Announced`), which is right below 4 MiB. From there on the broker waits for more than
was sent: `misread` is the first such frame, and no frame is `Complete` from it on, since
what comes behind is taken for a part of it. `WebsocketAssumption` says that all that is
sent in the model does not add up to the announced length, and `LengthsAssumption` keeps
below the lengths that would be negative in the broker's comparison.

### MbusPing

Both clocks run at the same speed from different starts (`Boots`), modulo `Width`.
Each process sleeps in poll no longer than it computed (`runBy`, `passBy`), each
message arrives within `Delay`, and the link may go dead at any time (`Cut`).
Creation, the broker's look at `ping_recv_tsms`, the client's pings and its wait for
a pong are the code's arithmetic. The last tick of `ClientPatience` is there because a
client that has waited exactly an interval does not ping yet (`mbus_clock_after`).

### MbusWakeup

Steps as small as the mutex, the `write` and the `read` make them. A call that wakes
the loop holds the mutex across its `write`, which blocks while the pipe is full; one run
reads one reason. A run may fail: when poll does (`PollFailed`), and by a `goto bail`
anywhere between the read of its reason and the flush (`Bail`). What was published is then
still queued and its reason gone; `left` counts it.

## Runs

| run | question | distinct states |
|---|---|---|
| `rpc` | from a connected caller and callee, is each command answered once, is someone responsible for each call, does no owed answer go astray, does nobody wait for the dead? | 1.1M |
| `events` | are events numbered without gaps, is presence exact, are frames decodable? | 274k |
| `unruly` | does the broker's bookkeeping survive clients that keep no rules, and is each of their commands still answered once? | 632k |
| `answered` | with a live broker and peers that reply, is every command answered or its sender gone? | 68k |
| `client_run` | does the client library keep track of each request, list and connection, whatever is called between its steps? | 2.1M |
| `client_completes` | does it implement `MbusRequest`, its liveness included? | 198k |
| `frames` | do sockets implement `MbusFifo`, does the broker run on, is the end of a connection noticed? | 239k |
| `websockets` | do sessions implement `MbusFifo`, does neither side keep a dangling pointer, do evicted sessions go? | 525k |
| `pings` | is a punctual peer never dropped and a silent one always noticed in time? | 164k |
| `wakeups` | does the loop never sleep over a request it was woken for, does nothing block threads and loop but a full pipe, and does every other go with a timeout? | 114k |
| `stale_answer` | expected violation: a result answers the call of an earlier connection | |
| `crash` | expected violation: two unregisters stop the broker | |

### Bounds, and why they are enough

Broker runs. Two slots: every interaction in the broker is between a client and one
other at a time (caller and callee, closer and closed, announced and follower),
and a slot is reused after a clean-up, so that reconnections are among the
behaviours. `MaxFrames` bounds the frames clients send of their own accord (3, 4, 2,
2); replies are not counted. `SeqStart = 1` and `SeqEnd = 4` stand for 1 and 9999, so
that event sequences wrap within the bound; `rpc` calls with the first sequence and the last (3). `rpc`, `unruly` and `answered` start from
`Connected`, a pass boundary with caller and callee in place, which spends no frames
on getting there; the create, register and connection steps that lead there are
explored by `events`, from no client at all. Slots are symmetric in `events`.
`Conforming` restricts peers to what the client library lets its user do: one
create, everything else once it succeeded, no unregister of what the client does
not know to be registered, no sequence but those the library counts (`SeqStart` to
`SeqEnd - 1`) and none that is still in use. `unruly` drops it.

`client_run` has four requests, `create`, pings and the answer of a routine among them:
enough for an answer to race with a timeout while another request is queued by a
callback, and for two connections with requests in each. A callback may queue more while a list is
walked, so that lists have two elements when it matters. Reconnection by
`connect_interval` is on. `client_completes` has three and the other kinds of
requests, and no frames of the broker's own, since liveness costs more; between them
the two runs have all kinds.

`frames` has two frames each way of two length units and one or three text units
(a compressed frame carries its uncompressed length too), a socket that holds three
units and reads of at most two: no frame fits in a read or in a socket, so both
sides meet half a length, half a text and a full socket. With `Sizes = {2}`,
`Chunk = 3` and `Capacity = 4` (654k states) nothing else shows.

`websockets` has two sessions over two descriptors, one of which talks: two frames of two
units, both the same way or one each way, chunks of one, a pipe that is choked by one. So a
frame is pushed behind the rest of another, and two may follow each other on the way to
either end. Each frame to the broker has 100 bytes or 4 MiB: the second length is the
first that is misread. Removing an entry of the table
needs two of them, and moving the rest only shows with the first removed.

`pings` looks at 28 ticks with an interval of 4, long enough for a ping to be sent and
missed in every phase of both loops, on clocks that have just booted (0) and have
run for longer than an interval (5).

`wakeups` has two threads and the loop's own calls, four in all, and a pipe of two: reasons
add up as one run reads one, until a writer waits for room with the mutex the loop
needs. That standstill (`Stuck`) is the code's, so the run says CHECK_DEADLOCK FALSE;
`PublishGoes` and `AskedGoes` except exactly it, and `StuckForEver` proves that it never ends.

### Fairness, and why the code justifies it

- `answered`: weak fairness of the broker's own steps (the loop of
  `mbus_server_run` does not stop on its own), strong fairness of a peer's reading
  what it is sent and of its replies. Strong, because a peer can only read and
  write in the poll part of each pass. Nothing is assumed of a connection staying
  up or of anyone sending anything new.
- `client_completes`: the application calls `mbus_client_run` again and again and its
  callbacks return (weak fairness of `RunStep`), and time passes: a request that
  waits for ever in poll expires. The broker owes nothing.
- `frames`: the broker goes through its passes, the client through its runs, weak
  fairness each. Strong fairness of a read that adds data and a write that takes
  some: poll said go, and an interruption does not repeat for ever.
- `websockets`: passes, weakly; strong fairness of a session's callbacks together,
  since lws calls only while it is serviced; the browser of a session that talks handles what it
  gets.
- `wakeups`: a thread that waits for the mutex gets it in the end (strong, the mutex is
  free only now and then), and so does the run, which is called again whatever it
  returned. Runs do not fail for ever: `Drain` and `Flush` are strong.
  The timeout of poll is fair in `AskedGoes` only, which is an implication;
  `PublishGoes` does without it.
- `pings` needs none: that a silent peer is noticed is stated with its bound in ticks,
  as an invariant, because time can not pass the deadline of a process.

## What is proved

Every safety property that a run checks is also proved, for every value of the
constants the assumptions admit (four under a hypothesis of their own, `AnswerMatches`,
`NoDangling` and `NoFalseDrop` with `NothingMissed`, named below): all invariants, and the safety
part of the refinements. (`RightAnswer` and `NoCrash`, which the code violates, are of course
not.) TLC has checked each formula first, on the instances above. Most of the
invariants are not inductive as they stand; what follows says what had to be added.

**`MbusBrokerProofs`.** `TypeCorrect`: nothing is queued in the name of a client
without identifier, the oldest of a set of waits exists and is one of them, and
`PrepareOut` takes the head only of the queue it looked at. `BookkeepingCorrect` proves
`Bookkeeping` inductive: `UniqueIdentifiers`, `Drained`, `NoOrphanWait` and `PresenceAgrees`
speak of the list of clients, which changes while a pass goes on.

- A waiting call names an identified client on the list (`WaitsNamed`) because
  the clean-up fails the waits first; that needs free slots to hold no waits
  (`FreeSlots`).
- The senders of methods are on the list (`Drained`) because frames in an input
  buffer are their owner's (`OwnFrames`) and methods are empty when clients are
  freed.
- Rosters equal the announced clients at every step (`Rosters`), and announced
  are exactly the identified open clients from `cleanup` on (`Announcements`).
  Toggling a name is only right because identifiers are unique.

These four hold protected or not, conforming or not. The assumptions of all proofs
about the broker are `BrokerAssumption`: identifiers differ from the protocol's own
names, and `SeqStart + 1 < SeqEnd`.

**`MbusBrokerMessages`** goes on to what is in the queues and buffers.

- `OneAnswer` follows from `Calls`: the places of a client's commands (input buffer,
  methods, waits, results, output buffer) are disjoint, each holds a command at most
  once, together they hold what is owed, and a tag stands for one command of all
  clients. A handler moves one command from the methods to at most one place, but a
  `result` also moves a wait; the clean-up of a callee moves the waits it fails.
  No rules for peers are needed.
- `NoCrossedAnswer` follows from `Replies`: each request, and each reply on its way,
  says what its call says for as long as that is owed. As waits are matched by
  sequence, callee and command only, this needs one call to a sequence per client
  (`Ruled`), which the library keeps and `Conforming` states. `CallInHand` adds that
  a reply comes from the one client that has the callee's name, with a valid
  sequence: proving it showed that conforming peers were allowed invalid ones.
- `EventChain` follows from `Chained`: numbers go on from the output buffer over the
  queue to the counter, past frames of other kinds and over the wrap.
- `Decodable` follows from `FreeQueues` (a new client finds nothing of the one before it in
  its slot) and `Stages`: a client's create is the first thing it sends, nothing is in
  its output buffer before the answer, that answer is the first frame in it and not
  compressed, and all frames behind it are compressed exactly if the answer said so.

**`MbusClientProofs`**, for any number of requests, any names and any order of calls
of the application. The invariant is built in layers, each using those before it:

- `Base`: the steps on `todo` come in the order of the code (`Script`: a reset's steps are
  never before others than those of a reset), and a routine that is called has room
  for its result.
- `Lined`: a request is on one list (`Lists`), the `next` pointer of the walk under way is
  on its list and no other walk has begun (`Pointing`), a create is alone on the
  lists (`Alone`), and when the library dials nothing is left of the connection before
  (`Dialing`, `DialReady`). `WalksLive` follows.
- `Settled` adds what was completed: told once and only when no longer queued. `Accounted` and
  `TypeOK` follow, and `RequestsAreCompletedOnce`, the refinement of the safety part of
  `MbusRequest`: each step completes at most one request, or is a stutter.
- `Connected` adds that the two byte streams are those of the connection (`Closed`, `Fresh`);
  `FreshFrames` follows. `SessionAgrees` needs which steps of a reset are still to come
  after a session was lost (`Believed`).
- `Numbers`: requests of one connection that are less than a round of sequences
  (`SeqEnd - SeqStart`) apart have different sequences. That is what the code gives:
  `AnswersMatchWithinARound` proves `AnswerMatches` wherever requests under way are within a
  round, with no assumption on the constants, and `AnswersMatch` for applications that make no
  more requests than there are sequences (`MaxRequests <= Round`). A request that is
  still pending 9998 requests later can be given another one's result.
- `NothingDangles` proves `NoDangling` for `Careful` applications, from `Names` and `Freed`: no two
  requests under way are about one name, and what is to be destroyed is on its list. So an
  element is freed once, and read after that by the response that freed it only.

**`MbusFramingProofs`**, for any number of frames, any sizes of frames, chunks and
sockets, and with every choice of the environment. The invariant is `Framed`:

- `Flow`: the units in the reader's buffer and the socket follow one another, from the
  first of the next frame to be handled; as long as the connection stands, those in the
  writer's buffer go on from there, to the last pushed. For the broker's side this
  holds until an interrupted read drops a unit (`lost`).
- `Typed`: after that, too, every unit anywhere is one of a frame that was pushed.
- `Compressed`: each end switches to compression at the right frame: the client sends
  nothing between its create and the answer, the answer is the broker's first frame and
  not compressed, and all after it are what it says.
- `RunsOn`: with the three above a frame that does not uncompress needs a lost unit.

`SocketsImplementFifo` maps each step of the loops to one of `MbusFifo` in each direction. It
found that a push can break the stream itself (above), which no run with two
frames each way reaches. `FramesInOrder` says the same as an invariant.

**`MbusWebsocketProofs`**, for any number of sessions and descriptors. `Control` (pointers,
descriptors and poll table agree; a session has a descriptor of its own exactly while it is
on) gives `NoDanglingConnection`, `EvictedIsAsked` and `PollTable`; `Streams`, the counterpart
of `Flow`, gives `TypeOK`, `SessionsImplementFifo` and `FramesInOrder`. `LongFramesMisread` says for
which lengths `Announced` is wrong, and `MisreadStays` that neither such a frame nor any behind
it comes out, which is why the refinement takes the frames before it.

**`MbusPingProofs`**, for every interval, timeout, threshold, delay and start of the clocks. The
clocks wrap; `PingAssumption` says that the run of the model is shorter than half their
width, and a first section shows that `mbus_clock_after` then compares times.
`BrokerNotices` and `ClientNotices` follow from bounds per miss (`BrokerClock`, `ClientClock`). The
proof of the latter needed one tick more than the patience first stated, which
`Pings.cfg` was too small to show. `NoFalseDrop` and `NothingMissed` follow from `OnTime`: there is
always exactly one of the create, its result, a ping and its pong on its way, or the next
ping comes in time. They assume `Prompt`, that a message there and one back fit in the
timeout, and `NoFalseDrop` that the threshold forgives one miss or the clocks have passed the
interval; without them the code does drop its peer.

**`MbusWakeupProofs`** proves, for any number of threads and any size of the pipe, that
the loop never sleeps over what was published, but for what a failed run left behind
(`LoopIsWoken`), and that a writer who waits at a full pipe with the mutex waits for ever
(`StuckForEver`). `NoLostWakeup` alone is
not inductive, since the loop may enter poll over what was published before: the same
has to hold from the moment a run has sent everything (`Announced`), and poll must
have seen a reason that is still there when the loop reads it (`WokenByPipe`), or the
pipe would be read empty (`TypeCorrect`).

**`MbusFifoProofs`** proves that whatever implements the safety part of `MbusFifo` delivers a
prefix of what was pushed (`DeliveredInOrder`), which gives the refinements their meaning.

Only model-checked is liveness, with the fairness above: `EveryCommandAnswered`, `HangupNoticed`,
`EvictedGoes`, `PublishGoes`, `AskedGoes`, and the fairness of `MbusRequest` and `MbusFifo` in
`CompletedOnce` and `Fifos`. It is out of the reach of the prover, which has no rules for
ENABLED.

## Findings

- `stale_answer`: waits are matched by sequence, callee and command, and a
  connection starts its sequences again, so the result for a call of a connection
  that ended answers a call of the next.
- `crash`: `client_del_command` takes NULL off the list for a command that is not
  registered; the client library lets two unregisters be sent before the first
  is answered.

### Met while modelling

The models contain these behaviours as the code has them; no run is about them.

- An event (`type` event) has no result, though `method.h:62` has one pushed to the
  sender: `HandleEvent` changes no `results`.
- `mbus_client_command_create_response` sets connected without looking at the state
  (`client.c:962`): a disconnect called after create was sent, and before its answer
  is handled, is forgotten.
- `mbus_client_connect` looks at the state only (`client.c:2076`): after a disconnect the
  loop has not seen, it sets connecting over a socket that is up, and as create is
  sent when a socket connects nothing happens on it any more.
- The wake-up pipe is blocking and written with the mutex held (`client.c:1530`). When
  it is full of unread reasons (16384 of them with Linux's 64 KiB), the next write blocks
  with the mutex the loop needs, for ever (`Stuck`, `StuckForEver`). As a run reads one reason
  and sends all requests, the surplus of many runs adds up.
- A run that fails after it has read its reason keeps the published requests queued with
  nothing in the pipe to wake the next one (`client.c:3482`, `:3597`, `:3739`): they go when
  something else does or poll times out. `NoLostWakeup` and `PublishGoes` are about the others.
- Four responses read an element they have just freed, for the notification: a successful
  unregister (`client.c:812`, `:817`) and unsubscribe (`:865`, `:870`), a refused register
  (`:783` or `:789`, `:791`) and subscribe (`:836` or `:842`, `:844`). `NoDangling` excepts
  exactly these reads.
- End of file is judged by errno, in the broker (`server.c:2340`) and in the client
  (`client.c:3349`): after another call left EAGAIN, the end of a plain connection is not
  seen, and as no read of 0 sets errno it may never be. `HangupNoticed` excepts both ends.
- A plain read that is interrupted lowers the length of the buffer by one
  (`listener.c:232`), and data that does not uncompress ends the broker
  (`server.c:2413`). `RunsOn` says that the second needs the first, with clients that
  compress as they say.
- The first byte of a length is shifted by 0x16 bits instead of 0x18 in
  `MBusClient.js:581`: messages of 4 MiB and more carry a length that is too large. The broker
  waits for the rest and takes what follows for it; nothing more of that session is handled
  until it ends. `Fifos` goes up to that frame.
- A subscribe or register of a client without identifier changes its list and answers -1
  (`server.c:1492`): what was refused is served all the same.
- With a threshold of 0 a client on a clock younger than its interval is dropped
  before its first ping is due (`client.c:3622`); the default threshold is 2, and
  `NoFalseDrop` is checked with 1.

## Not modelled, and why

- Server options, creating listeners, loading certificates: sequential start-up.
- TLS handshakes, and what TLS wants to write of its own accord.
- JSON text and cJSON, zlib: data formats; where an encoding matters to a property
  (which frames are compressed, how long a frame is) the models have it.
- Socket wrappers, lists, debug, version: no state of their own.
- Out of memory, and errors of poll: they end the loop.
- The ports in Ruby and Python, and JavaScript but for its side of a websocket: the
  same protocol as `client.c`.
- The applications and manual tests: command line programs over the two libraries.

## Plan

1. `MbusCall`, an abstract specification of a call (asked, in hand, answered or
   failed, once), and `MbusBroker` shown to implement it: `OneAnswer`, `CallInHand` and
   `NoCrossedAnswer` are its parts.
2. `MbusSystem`: broker and client library composed through two `MbusFifo`.
