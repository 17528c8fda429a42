----------------------------- MODULE MbusFraming ------------------------------
(***************************************************************************)
(* One connection of the broker below the level of messages: frames of a   *)
(* length and a text (src/src/buffer), compressed or not                   *)
(* (src/src/compress), in byte streams that are cut at any place by reads  *)
(* and writes of a tcp or a uds socket, plain or through TLS               *)
(* (src/src/server/listener.c, the event loop of server.c, and their       *)
(* counterpart in client.c).                                               *)
(*                                                                         *)
(* A frame is a run of units <<n, i>>, the i-th unit of the n-th frame of   *)
(* its direction; HeaderUnits of them are the length (sizeof(uint32_t)).   *)
(***************************************************************************)
EXTENDS Naturals, Sequences, SequencesExt, FiniteSetsExt

CONSTANTS
  HeaderUnits,   \* units of the length, so that a length can be cut in two
  Sizes,         \* units of the text of a frame
  Chunk,         \* the most one read of a plain socket returns
  Capacity,      \* units a socket holds for the other end to read
  MaxFrames,     \* frames of each direction in a behaviour
  Transports,    \* a subset of {"tcp", "tcps", "uds", "udss"}
  Interruptions, \* read and write fail with EINTR or EAGAIN although poll said go
  Neighbours     \* others leave errno at EAGAIN: other connections, the application

FramingAssumption ==
  /\ HeaderUnits \in Nat \ {0} /\ Sizes \subseteq Nat \ {0}
  /\ Chunk \in Nat \ {0} /\ Capacity \in Nat \ {0} /\ MaxFrames \in Nat
  /\ Transports \subseteq {"tcp", "tcps", "uds", "udss"}
  /\ Interruptions \in BOOLEAN /\ Neighbours \in BOOLEAN
ASSUME FramingAssumption

Up == "up"       \* from the client to the broker
Down == "down"
Directions == {Up, Down}

VARIABLES
  transport,   \* of this connection
  offered,     \* the compression that create asks for is one the broker has
  broker,      \* its end: backlog (not accepted), open, closed
  client,      \* open or closed
  out,         \* buffer_out of the broker, outgoing of the client
  pipe,        \* written and not read yet
  in,          \* buffer_in of the broker, incoming of the client
  zip,         \* the two ends' compression is zlib
  retry,       \* an SSL_write has to be repeated, with the buffer where it was or not
  phase,       \* of mbus_server_run_timeout
  revents,     \* what poll returned and was not looked at yet
  errno,       \* of the broker: again (EAGAIN or EINTR) or other
  excuse,      \* errno of the client's thread
  pushed,      \* (h) the frames of each direction
  got,         \* (h) the numbers of those that were handled; 0 is none of them
  lost         \* (h) 0, or 1 and the frames handled before a unit was dropped

streams == <<out, pipe, in>>
ends == <<broker, client>>
loop == <<phase, revents, errno>>
history == <<pushed, got, lost>>
vars == <<transport, offered, excuse, ends, streams, zip, retry, loop, history>>

Tls == transport \in {"tcps", "udss"}
Plain == ~Tls

------------------------------------------------------------------------------
(* Frames                                                                   *)

\* What the length of a frame says.
Length(frame) == frame.size + (IF frame.zip THEN HeaderUnits ELSE 0)

Units(n, frame) == [i \in 1..(HeaderUnits + Length(frame)) |-> <<n, i>>]

\* As a bug: a buffer that moved is taken for a write to be repeated.
PushStringRetrying(d, size, compressed) ==
  LET frame == [size |-> size, zip |-> compressed]
  IN /\ pushed' = [pushed EXCEPT ![d] = Append(@, frame)]
     /\ out' = [out EXCEPT ![d] = @ \o Units(Len(pushed[d]) + 1, frame)]
     /\ \E r \in {retry[d], "moved"} : retry' = [retry EXCEPT ![d] = r]

\* mbus_buffer_push_string; the buffer may have to move to make room (reserve).
PushString(d, size, compressed) ==
  LET frame == [size |-> size, zip |-> compressed]
  IN /\ pushed' = [pushed EXCEPT ![d] = Append(@, frame)]
     /\ out' = [out EXCEPT ![d] = @ \o Units(Len(pushed[d]) + 1, frame)]
     /\ IF retry[d] = "none" THEN UNCHANGED retry
        ELSE \E r \in {retry[d], "moved"} : retry' = [retry EXCEPT ![d] = r]

\* The first frame of a stream, if its length is the length of a frame: 0 if not.
Leading(d) ==
  LET n == in[d][1][1]
  IN IF SubSeq(in[d], 1, HeaderUnits) = [i \in 1..HeaderUnits |-> <<n, i>>]
     THEN n ELSE 0

\* Any number may stand where a length is expected once a unit is missing; what is
\* more than there is stands for all that is not complete.
Expected(d) == IF Leading(d) # 0 THEN {Length(pushed[d][Leading(d)])} ELSE 0..Len(in[d])

\* There is a length, and as many units after it.
Complete(d, expected) == Len(in[d]) >= HeaderUnits + expected

\* What the text of the first frame is, 0 when it is not the one of a frame.
Text(d, expected) ==
  LET n == Leading(d)
  IN IF n # 0 /\ SubSeq(in[d], 1, HeaderUnits + expected) = Units(n, pushed[d][n])
     THEN n ELSE 0

\* mbus_buffer_shift over one frame
Shift(s, expected) == SubSeq(s, HeaderUnits + expected + 1, Len(s))

Drop(s, n) == SubSeq(s, n + 1, Len(s))

\* The text is the one its sender meant: it was compressed if the reader, with
\* mbus_uncompress_data, takes it to be, and is whole.
Readable(d, n, compressed) == IF n = 0 THEN FALSE ELSE pushed[d][n].zip = compressed

------------------------------------------------------------------------------
Init ==
  /\ transport \in Transports /\ offered \in BOOLEAN
  /\ broker = "backlog" /\ client = "open"
  /\ out = [d \in Directions |-> <<>>] /\ pipe = out /\ in = out
  /\ zip = [e \in {"broker", "client"} |-> FALSE]
  /\ retry = [d \in Directions |-> "none"]
  /\ phase = "out" /\ revents = {} /\ errno = "other" /\ excuse = "other"
  /\ pushed = out /\ got = out /\ lost = 0

------------------------------------------------------------------------------
(* Reads and writes of the broker                                           *)

\* client_set_connection(client, NULL): what the kernel had for the client may
\* be lost with it.
ShutDown ==
  /\ broker' = "closed" /\ revents' = {}
  /\ pipe' = [pipe EXCEPT ![Up] = <<>>] \/ pipe' = [d \in Directions |-> <<>>]

\* rc > 0, or errno says that there is nothing wrong.
Stay == UNCHANGED <<broker>> /\ revents' = revents \ {"in"}

\* read(2) gives some of what is there.
Receive(most) ==
  \E n \in 1..Min({most, Len(pipe[Up])}) :
    /\ pipe' = [pipe EXCEPT ![Up] = Drop(@, n)]
    /\ in' = [in EXCEPT ![Up] = @ \o SubSeq(pipe[Up], 1, n)]
    /\ UNCHANGED <<errno, lost>>

\* As a bug: only a failure ends the connection, not the end of the stream.
EndOfFileMissed ==
  /\ pipe[Up] = <<>> /\ client = "closed"
  /\ Stay /\ UNCHANGED <<pipe>>
  /\ UNCHANGED <<in, errno, lost>>

\* read(2) gives 0: the end, unless errno was left at EAGAIN by an earlier call.
EndOfFile ==
  /\ pipe[Up] = <<>> /\ client = "closed"
  /\ IF errno = "again" THEN Stay /\ UNCHANGED pipe ELSE ShutDown
  /\ UNCHANGED <<in, errno, lost>>

\* read(2) fails with -1, which is added to the length of the buffer: the last unit
\* goes, or the new length is taken for an error when there is none.
Interrupted ==
  /\ Interruptions
  /\ IF in[Up] = <<>>
     THEN ShutDown /\ errno' = "other" /\ UNCHANGED <<in, lost>>
     ELSE /\ Stay /\ errno' = "again" /\ UNCHANGED pipe
          /\ lost' = IF lost = 0 THEN Len(got[Up]) + 1 ELSE lost
          /\ in' = [in EXCEPT ![Up] = Front(@)]

PlainRead ==
  /\ Plain
  /\ \/ Stay /\ Receive(Chunk)
     \/ EndOfFile
     \/ Interrupted

\* SSL_read: some units, WANT_READ, or the end.
TlsRead ==
  /\ Tls
  /\ \/ Stay /\ Receive(Len(pipe[Up]))
     \/ pipe[Up] # <<>> /\ Stay /\ errno' = "again" /\ UNCHANGED <<pipe, in, lost>>
     \/ /\ pipe[Up] = <<>> /\ client = "closed"
        /\ ShutDown /\ errno' = "other" /\ UNCHANGED <<in, lost>>

TcpRead == transport \in {"tcp", "tcps"} /\ (PlainRead \/ TlsRead)
UdsRead == transport \in {"uds", "udss"} /\ (PlainRead \/ TlsRead)

Room(d) == Capacity - Len(pipe[d])

\* As a bug: a write of a part is taken for a write of all.
SendForgettingRest(d, n) ==
  /\ pipe' = [pipe EXCEPT ![d] = @ \o SubSeq(out[d], 1, n)]
  /\ out' = [out EXCEPT ![d] = <<>>]

\* n units go, and mbus_buffer_shift takes them off the buffer.
Send(d, n) ==
  /\ pipe' = [pipe EXCEPT ![d] = @ \o SubSeq(out[d], 1, n)]
  /\ out' = [out EXCEPT ![d] = Drop(@, n)]

\* write(2): a part, or -1, which mbus_buffer_shift refuses: that is the end.
PlainWrite ==
  /\ Plain
  /\ \/ /\ client = "open"
        /\ \E n \in 1..Min({Len(out[Down]), Room(Down)}) : Send(Down, n)
        /\ revents' = revents \ {"out"} /\ UNCHANGED <<broker, errno>>
     \/ /\ client = "closed" \/ Interruptions
        /\ ShutDown /\ errno' = "other" /\ UNCHANGED out
  /\ UNCHANGED retry

\* SSL_write: all, WANT_WRITE, or a repetition with a buffer that has moved, which
\* the library refuses.
TlsWrite ==
  /\ Tls
  /\ \/ /\ client = "open" /\ retry[Down] # "moved"
        /\ Send(Down, Len(out[Down])) /\ retry' = [retry EXCEPT ![Down] = "none"]
        /\ revents' = revents \ {"out"} /\ UNCHANGED <<broker, errno>>
     \/ /\ client = "open" /\ retry[Down] # "moved"
        /\ retry' = [retry EXCEPT ![Down] = "same"] /\ errno' = "again"
        /\ revents' = revents \ {"out"} /\ UNCHANGED <<broker, out, pipe>>
     \/ /\ client = "closed" \/ retry[Down] = "moved"
        /\ ShutDown /\ errno' = "other" /\ UNCHANGED <<out, retry>>

TcpWrite == transport \in {"tcp", "tcps"} /\ (PlainWrite \/ TlsWrite)
UdsWrite == transport \in {"uds", "udss"} /\ (PlainWrite \/ TlsWrite)

------------------------------------------------------------------------------
(* mbus_server_run_timeout, as far as this connection goes                  *)

\* The answer to create is the first frame, and the only one of a compressed
\* connection that is not compressed.
Compression == pushed[Down] # <<>> /\ zip["broker"]

\* At most one message per pass, once create was handled.
PrepareOut ==
  /\ phase = "out" /\ phase' = "poll"
  /\ \/ UNCHANGED <<out, retry, pushed>>
     \/ /\ broker = "open" /\ got[Up] # <<>> /\ Len(pushed[Down]) < MaxFrames
        /\ \E size \in Sizes : PushString(Down, size, Compression)
  /\ UNCHANGED <<transport, offered, excuse, ends, pipe, in, zip, revents, errno, got, lost>>

\* poll.  A peer that closed hangs up a uds socket; a tcp socket only when the
\* peer had not read everything.
Poll ==
  /\ phase = "poll" /\ broker = "open" /\ phase' = "events"
  /\ LET In == IF pipe[Up] # <<>> \/ client = "closed" THEN {"in"} ELSE {}
         Out == IF out[Down] # <<>> /\ (Room(Down) > 0 \/ client = "closed")
                THEN {"out"} ELSE {}
     IN \/ /\ ~(client = "closed" /\ transport \in {"uds", "udss"})
           /\ revents' = In \cup Out
        \/ client = "closed" /\ revents' = In \cup Out \cup {"hup"}
  /\ UNCHANGED <<transport, offered, excuse, ends, streams, zip, retry, errno, history>>

\* The listener accepts: SSL_accept may refuse the client.
Accept ==
  /\ phase = "poll" /\ broker = "backlog" /\ phase' = "parse"
  /\ \/ broker' = "open" /\ UNCHANGED pipe
     \/ Tls /\ broker' = "closed" /\ pipe' = [pipe EXCEPT ![Up] = <<>>]
  /\ UNCHANGED <<transport, offered, excuse, client, out, in, zip, retry, revents, errno, history>>

TcpAccept == transport \in {"tcp", "tcps"} /\ Accept
UdsAccept == transport \in {"uds", "udss"} /\ Accept

Read ==
  /\ phase = "events" /\ "in" \in revents
  /\ TcpRead \/ UdsRead
  /\ UNCHANGED <<transport, offered, excuse, client, out, zip, retry, phase, pushed, got>>

Write ==
  /\ phase = "events" /\ "in" \notin revents /\ "out" \in revents
  /\ TcpWrite \/ UdsWrite
  /\ UNCHANGED <<transport, offered, excuse, client, in, zip, phase, history>>

\* POLLERR, POLLHUP: closed, whatever there is still to read.
HungUp ==
  /\ phase = "events" /\ revents = {"hup"}
  /\ ShutDown
  /\ UNCHANGED <<transport, offered, excuse, client, out, in, zip, retry, phase, errno, history>>

EventsDone ==
  /\ phase = "events" /\ revents = {} /\ phase' = "parse"
  /\ UNCHANGED <<transport, offered, excuse, ends, streams, zip, retry, revents, errno, history>>

\* One turn of the loop over the frames of buffer_in.  What does not uncompress
\* ends the broker; what is no method ends the connection.
Parse ==
  /\ phase = "parse" /\ Len(in[Up]) >= HeaderUnits
  /\ \E expected \in Expected(Up) :
       /\ Complete(Up, expected)
       /\ LET n == Text(Up, expected)
          IN /\ got' = [got EXCEPT ![Up] = Append(@, IF Readable(Up, n, zip["broker"])
                                                     THEN n ELSE 0)]
             /\ \/ /\ Readable(Up, n, zip["broker"])
                   /\ in' = [in EXCEPT ![Up] = Shift(@, expected)]
                   /\ UNCHANGED <<broker, pipe, phase, revents>>
                \/ /\ zip["broker"] /\ ~Readable(Up, n, TRUE)
                   /\ phase' = "ended" /\ UNCHANGED <<broker, in, pipe, revents>>
                \/ /\ ~zip["broker"] /\ ~Readable(Up, n, FALSE)
                   /\ ShutDown /\ phase' = "handle" /\ UNCHANGED in
  /\ UNCHANGED <<transport, offered, excuse, client, out, zip, retry, errno, pushed, lost>>

Parsed ==
  /\ phase = "parse" /\ phase' = "handle"
  /\ \/ Len(in[Up]) < HeaderUnits
     \/ /\ Len(in[Up]) >= HeaderUnits
        /\ \E expected \in Expected(Up) : ~Complete(Up, expected)
  /\ UNCHANGED <<transport, offered, excuse, ends, streams, zip, retry, revents, errno, history>>

\* As a bug: the broker decompresses before create told it to.
HandleAtOnce ==
  /\ phase = "handle" /\ phase' = "out"
  /\ zip' = [zip EXCEPT !["broker"] = offered]
  /\ UNCHANGED <<transport, offered, excuse, ends, streams, retry, revents, errno, history>>

\* server_handle_methods: create sets the compression.
Handle ==
  /\ phase = "handle" /\ phase' = "out"
  /\ zip' = [zip EXCEPT !["broker"] = offered /\ got[Up] # <<>>]
  /\ UNCHANGED <<transport, offered, excuse, ends, streams, retry, revents, errno, history>>

\* A TLS connection reads nothing, or one fails.
Elsewhere ==
  /\ Neighbours /\ phase = "poll"
  /\ \E e \in {"again", "other"} : errno' = e
  /\ UNCHANGED <<transport, offered, excuse, ends, streams, zip, retry, phase, revents, history>>

Broker == \/ PrepareOut \/ Poll \/ TcpAccept \/ UdsAccept \/ Read \/ Write \/ HungUp
          \/ EventsDone \/ Parse \/ Parsed \/ Handle

------------------------------------------------------------------------------
(* The client; the order of these within mbus_client_run is in MbusClient   *)

\* create, and after its answer what the application asks for.
Flush ==
  /\ client = "open" /\ Len(pushed[Up]) < MaxFrames
  /\ pushed[Up] = <<>> \/ got[Down] # <<>>
  /\ \E size \in Sizes : PushString(Up, size, zip["client"])
  /\ UNCHANGED <<transport, offered, excuse, ends, pipe, in, zip, loop, got, lost>>

\* A read that failed leaves the buffer as it was.
ClientRead ==
  /\ client = "open" /\ pipe[Down] # <<>>
  /\ \E n \in 1..Min({Chunk, Len(pipe[Down])}) :
       /\ pipe' = [pipe EXCEPT ![Down] = Drop(@, n)]
       /\ in' = [in EXCEPT ![Down] = @ \o SubSeq(pipe[Down], 1, n)]
  /\ UNCHANGED <<transport, offered, excuse, ends, out, zip, retry, loop, history>>

\* A buffer that has moved is refused, now and at every later call.
ClientWrite ==
  /\ client = "open" /\ broker # "closed" /\ out[Up] # <<>> /\ retry[Up] # "moved"
  /\ \/ /\ Plain /\ UNCHANGED retry
        /\ \E n \in 1..Min({Len(out[Up]), Room(Up)}) : Send(Up, n)
     \/ /\ Tls /\ Send(Up, Len(out[Up])) /\ retry' = [retry EXCEPT ![Up] = "none"]
     \/ /\ Tls /\ UNCHANGED <<out, pipe>> /\ retry' = [retry EXCEPT ![Up] = "same"]
  /\ UNCHANGED <<transport, offered, excuse, ends, in, zip, loop, history>>

\* mbus_client_reset.  The kernel keeps what was written, or drops it when there
\* was something unread.
Reset ==
  /\ client' = "closed"
  /\ pipe' = [pipe EXCEPT ![Down] = <<>>] \/ pipe' = [d \in Directions |-> <<>>]

\* The answer to create is the first frame and brings the compression.  What is no
\* message makes mbus_client_run fail, and the application give up.
ClientParse ==
  /\ client = "open" /\ Len(in[Down]) >= HeaderUnits
  /\ \E expected \in Expected(Down) :
       /\ Complete(Down, expected)
       /\ LET n == Text(Down, expected)
          IN IF Readable(Down, n, zip["client"])
             THEN /\ got' = [got EXCEPT ![Down] = Append(@, n)]
                  /\ zip' = [zip EXCEPT !["client"] = offered]
                  /\ UNCHANGED <<client, pipe>>
             ELSE got' = [got EXCEPT ![Down] = Append(@, 0)] /\ Reset /\ UNCHANGED zip
       /\ in' = [in EXCEPT ![Down] = Shift(@, expected)]
  /\ UNCHANGED <<transport, offered, excuse, broker, out, retry, loop, pushed, lost>>

ClientClose ==
  /\ client = "open" /\ Reset
  /\ UNCHANGED <<transport, offered, excuse, broker, out, in, zip, retry, loop, history>>

\* The broker closed, and all it sent was read: the read gives 0, which is the end
\* unless errno was left at EAGAIN or EINTR.  TLS sets errno itself.
ClientEndOfFile ==
  /\ broker = "closed" /\ pipe[Down] = <<>>
  /\ Plain => excuse = "other"
  /\ ClientClose

\* A call of the client that failed, or one of the application, leaves its errno, which
\* nobody asks for before the end of the stream.
ClientElsewhere ==
  /\ Neighbours \/ Interruptions
  /\ client = "open" /\ broker = "closed" /\ pipe[Down] = <<>>
  /\ \E e \in {"again", "other"} : excuse' = e
  /\ UNCHANGED <<transport, offered, ends, streams, zip, retry, loop, history>>

\* The application disconnects, or goes away.
ClientLeave == ClientClose

Client == Flush \/ ClientRead \/ ClientWrite \/ ClientParse \/ ClientLeave

\* Nothing is left of the connection, or of the broker.
Over ==
  /\ phase = "ended" \/ {broker, client} = {"closed"}
  /\ UNCHANGED vars

Next == Broker \/ Elsewhere \/ Client \/ ClientElsewhere \/ Over

Safe == Init /\ [][Next]_vars

\* The broker goes through its passes and the client calls mbus_client_run; nobody
\* has to send or to leave.  What TLS waits for, and an interruption, does not go on for
\* ever where poll says that there is something to read or room to write.
Fair == /\ WF_vars(Broker)
        /\ WF_vars(ClientRead) /\ WF_vars(ClientWrite) /\ WF_vars(ClientParse)
        /\ WF_vars(ClientEndOfFile)
        /\ SF_vars(Read /\ Len(in'[Up]) > Len(in[Up])) /\ SF_vars(Write /\ out' # out)
Spec == Safe /\ Fair

------------------------------------------------------------------------------
(* Properties                                                               *)

Numbers(frames) == [n \in DOMAIN frames |-> n]
Broken == broker = "closed" \/ client = "closed" \/ phase = "ended"

\* A unit that an interrupted read dropped breaks what the client sends from there on,
\* and a write that TLS refuses because its buffer moved is refused for ever.
UpStream == INSTANCE MbusFifo WITH
  Messages <- 1..MaxFrames, pushed <- Numbers(pushed[Up]),
  got <- IF lost = 0 THEN got[Up] ELSE SubSeq(got[Up], 1, lost - 1),
  broken <- Broken \/ lost # 0 \/ retry[Up] = "moved"
DownStream == INSTANCE MbusFifo WITH
  Messages <- 1..MaxFrames, pushed <- Numbers(pushed[Down]), got <- got[Down],
  broken <- Broken

\* What a buffer holds is what the frames that were not handled are made of.
TypeOK ==
  /\ transport \in Transports /\ offered \in BOOLEAN /\ lost \in 0..MaxFrames + 1
  /\ broker \in {"backlog", "open", "closed"} /\ client \in {"open", "closed"}
  /\ \A d \in Directions :
       /\ pushed[d] \in Seq([size : Sizes, zip : BOOLEAN]) /\ Len(pushed[d]) <= MaxFrames
       /\ got[d] \in Seq(0..MaxFrames)
       /\ retry[d] \in {"none", "same", "moved"} /\ (Plain => retry[d] = "none")
       /\ \A s \in {out[d], pipe[d], in[d]} : \A i \in DOMAIN s :
            s[i][1] \in DOMAIN pushed[d]
  /\ zip \in [{"broker", "client"} -> BOOLEAN]
  /\ phase \in {"out", "poll", "events", "parse", "handle", "ended"}
  /\ revents \subseteq {"in", "out", "hup"} /\ {errno, excuse} \subseteq {"again", "other"}

\* Both ends decode every frame by the compression it was encoded with, so that the
\* broker ends for no client, unless an interrupted read took a unit out of a frame.
RunsOn == phase = "ended" => lost # 0

\* From the client to the broker, and back: whatever the cuts of the reads and writes,
\* what is handled is what was pushed, whole, once and in order, and all of it arrives
\* unless the connection breaks: the two ends never wait for each other with full
\* sockets, and no frame is stuck in a buffer.
Fifos == UpStream!Spec /\ DownStream!Spec

\* When one end has closed the other one does, in the end, or the broker is gone; only
\* an errno left at EAGAIN hides the end of a plain connection, from either of them.
HangupNoticed ==
  Broken ~> \/ broker = "closed" /\ client = "closed"
            \/ phase = "ended"
            \/ Plain /\ broker = "open" /\ errno = "again"
            \/ Plain /\ client = "open" /\ excuse = "again"
===============================================================================
