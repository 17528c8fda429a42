---------------------------- MODULE MbusWebsocket -----------------------------
(***************************************************************************)
(* Websocket connections of the broker: src/src/server/listener.c from     *)
(* struct connection_ws on, and the callbacks of server.c it calls.         *)
(*                                                                         *)
(* libwebsockets (lws) owns the sessions and calls back while it is         *)
(* serviced, once per pass of mbus_server_run_timeout.  A session's         *)
(* connection_ws is memory of lws, and the broker's client points to it:    *)
(* each side may end first, and must leave the other with no pointer that   *)
(* dangles.  The broker cannot close a session, it can only ask for a       *)
(* writeable callback and refuse that.                                      *)
(***************************************************************************)
EXTENDS Naturals, Sequences, SequencesExt, FiniteSetsExt

CONSTANTS
  Sessions,    \* numbers of sessions, each opened at most once
  Fds,         \* descriptors, used again when a session is over; 0 is none
  Pieces,      \* units of a frame
  Chunk,       \* BUFFER_OUT_CHUNK_SIZE - LWS_PRE, in units
  Capacity,    \* units a session takes before its pipe is choked
  MaxFrames,   \* frames of a session, both directions together
  Lengths,     \* bytes of the frames the program at the other end sends
  Talkers,     \* the sessions that exchange any; the others come and go
  MayDestroy   \* mbus_server_destroy is called

\* The length MBusClient.js writes before a frame of n bytes: of the four bytes the first
\* is n shifted by 0x16 places, not by 24.
Announced(n) == 16777216 * ((n \div 4194304) % 256) + (n % 16777216)

WebsocketAssumption ==
  /\ Sessions \subseteq Nat /\ Fds \subseteq Nat \ {0}
  /\ Pieces \in Nat \ {0} /\ Chunk \in Nat \ {0} /\ Capacity \in Nat \ {0}
  /\ MaxFrames \in Nat /\ Talkers \subseteq Sessions /\ MayDestroy \in BOOLEAN
  /\ Lengths \subseteq Nat
  \* What is sent in all does not come up to what a misread length makes the broker wait for.
  /\ \A n, m \in Lengths : Announced(n) = n \/ Announced(n) > MaxFrames * (m + 4)
ASSUME WebsocketAssumption

\* A longer one could announce what the broker compares as a negative number.
LengthsAssumption == \A n \in Lengths : n < 536870912
ASSUME LengthsAssumption

Up == "up"
Down == "down"
Directions == {Up, Down}

VARIABLES
  wsi,       \* lws: none, open, closing (a callback returned -1 or the peer left), gone
  handle,    \* connection_ws->wsi is set
  fd,        \* of each session, 0 when it has none
  pollfds,   \* server->ws_pollfds: [fd, out], out for POLLOUT
  conn,      \* the broker's client: none, linked, null (no connection), removed
  out, in,   \* buffer_out and buffer_in
  pipe,      \* units on their way, per direction
  peer,      \* the program at the other end: away, open, left
  incoming,  \* what it has received and not handled
  phase,     \* of mbus_server_run_timeout: out, service, parse, handle; destroy, ended
  pushed,    \* (h) number of frames pushed, per session and direction
  misread,   \* (h) the first frame to the broker whose length is not what it announces, or 0
  got        \* (h) numbers of the frames handled

sessionVars == <<wsi, handle, fd, pollfds, conn>>
dataVars == <<out, in, pipe, incoming, pushed, misread, got>>
vars == <<sessionVars, dataVars, peer, phase>>

Init ==
  /\ wsi = [s \in Sessions |-> "none"] /\ handle = [s \in Sessions |-> FALSE]
  /\ fd = [s \in Sessions |-> 0] /\ pollfds = <<>>
  /\ conn = [s \in Sessions |-> "none"] /\ peer = [s \in Sessions |-> "away"]
  /\ out = [s \in Sessions |-> <<>>] /\ in = out /\ incoming = out
  /\ pipe = [s \in Sessions |-> [d \in Directions |-> <<>>]] /\ got = pipe
  /\ pushed = [s \in Sessions |-> [d \in Directions |-> 0]] /\ misread = fd
  /\ phase = "out"

More(s) == pushed[s][Up] + pushed[s][Down] < MaxFrames
Units(n) == [i \in 1..Pieces |-> <<n, i>>]
Drop(s, n) == SubSeq(s, n + 1, Len(s))

\* The frame at the head of a buffer, 0 when the units are not those of one frame.
Leading(buffer) ==
  IF SubSeq(buffer, 1, Pieces) = Units(buffer[1][1]) THEN buffer[1][1] ELSE 0

------------------------------------------------------------------------------
(* server->ws_pollfds                                                       *)

Index(table, f) == SelectInSeq(table, LAMBDA entry : entry.fd = f)

PollAdd(table, f) ==
  IF Index(table, f) # 0 THEN [table EXCEPT ![Index(table, f)].out = FALSE]
  ELSE Append(table, [fd |-> f, out |-> FALSE])

PollMod(table, f, events) ==
  IF Index(table, f) # 0 THEN [table EXCEPT ![Index(table, f)].out = events] ELSE table

\* As a bug: the entries after it are not moved.
PollDelLast(table, f) == IF Index(table, f) # 0 THEN Front(table) ELSE table

PollDel(table, f) == IF Index(table, f) # 0 THEN RemoveAt(table, Index(table, f)) ELSE table

\* lws_callback_on_writable
OnWritable(s) == pollfds' = PollMod(pollfds, fd[s], TRUE)
Requested(s) == \E i \in DOMAIN pollfds : pollfds[i].fd = fd[s] /\ pollfds[i].out

------------------------------------------------------------------------------
(* ws_protocol_mbus_callback, while lws is serviced                         *)

Serving(s) == phase = "service" /\ wsi[s] = "open"

\* A callback returned -1: lws will close the session.
Refuse(s) == wsi' = [wsi EXCEPT ![s] = "closing"]

\* LWS_CALLBACK_ADD_POLL_FD and LWS_CALLBACK_ESTABLISHED: a client is created, and
\* asked for what it has to say.
Established(s) ==
  /\ phase = "service" /\ wsi[s] = "none" /\ peer[s] = "open"
  /\ wsi' = [wsi EXCEPT ![s] = "open"] /\ handle' = [handle EXCEPT ![s] = TRUE]
  /\ \E f \in Fds : /\ f \notin Range(fd)
                    /\ fd' = [fd EXCEPT ![s] = f]
                    /\ pollfds' = PollMod(PollAdd(pollfds, f), f, TRUE)
  /\ conn' = [conn EXCEPT ![s] = "linked"]
  /\ UNCHANGED <<dataVars, peer, phase>>

\* As a bug: what a message left of a frame is overwritten by the next.
ReceiveAfresh(s) ==
  /\ Serving(s) /\ pipe[s][Up] # <<>>
  /\ \E n \in 1..Len(pipe[s][Up]) :
       /\ pipe' = [pipe EXCEPT ![s][Up] = Drop(@, n)]
       /\ \/ /\ handle[s] /\ conn[s] = "linked"
             /\ in' = [in EXCEPT ![s] = SubSeq(pipe[s][Up], 1, n)] /\ UNCHANGED wsi
          \/ ~handle[s] /\ Refuse(s) /\ UNCHANGED in
  /\ UNCHANGED <<handle, fd, pollfds, conn, out, incoming, pushed, misread, got, peer, phase>>

\* LWS_CALLBACK_RECEIVE: a message, or a part of one.
Receive(s) ==
  /\ Serving(s) /\ pipe[s][Up] # <<>>
  /\ \E n \in 1..Len(pipe[s][Up]) :
       /\ pipe' = [pipe EXCEPT ![s][Up] = Drop(@, n)]
       /\ \/ /\ handle[s] /\ conn[s] = "linked"
             /\ in' = [in EXCEPT ![s] = @ \o SubSeq(pipe[s][Up], 1, n)] /\ UNCHANGED wsi
          \/ ~handle[s] /\ Refuse(s) /\ UNCHANGED in
  /\ UNCHANGED <<handle, fd, pollfds, conn, out, incoming, pushed, misread, got, peer, phase>>

\* As a bug: what is written is not shifted out.
SendAndKeep(s) ==
  LET n == Min({Chunk, Len(out[s])})
  IN /\ out[s] # <<>> /\ Len(pipe[s][Down]) < Capacity
     /\ pipe' = [pipe EXCEPT ![s][Down] = @ \o SubSeq(out[s], 1, n)]
     /\ UNCHANGED <<out, wsi>>

\* lws_write of at most a chunk
SendPart(s) ==
  LET n == Min({Chunk, Len(out[s])})
  IN /\ out[s] # <<>> /\ Len(pipe[s][Down]) < Capacity
     /\ pipe' = [pipe EXCEPT ![s][Down] = @ \o SubSeq(out[s], 1, n)]
     /\ out' = [out EXCEPT ![s] = Drop(@, n)]
     /\ UNCHANGED wsi

\* As a bug: a session the broker closed is asked for another callback, not refused.
WriteableAnyway(s) ==
  /\ Serving(s) /\ Requested(s)
  /\ \/ handle[s] /\ SendPart(s)
     \/ /\ (~handle[s] \/ out[s] = <<>> \/ Len(pipe[s][Down]) >= Capacity)
        /\ UNCHANGED <<out, pipe, wsi>>
  /\ pollfds' = PollMod(pollfds, fd[s], out'[s] # <<>> \/ ~handle[s])
  /\ UNCHANGED <<handle, fd, conn, in, incoming, pushed, misread, got, peer, phase>>

\* LWS_CALLBACK_SERVER_WRITEABLE: refused if the broker closed the connection; a
\* chunk is sent unless the pipe is choked, and the rest asked for.
Writeable(s) ==
  /\ Serving(s) /\ Requested(s)
  /\ \/ ~handle[s] /\ Refuse(s) /\ UNCHANGED <<out, pipe>>
     \/ handle[s] /\ SendPart(s)
     \/ /\ handle[s] /\ (out[s] = <<>> \/ Len(pipe[s][Down]) >= Capacity)
        /\ UNCHANGED <<out, pipe, wsi>>
     \/ handle[s] /\ out[s] # <<>> /\ Refuse(s) /\ UNCHANGED <<out, pipe>>
  /\ pollfds' = PollMod(pollfds, fd[s], out'[s] # <<>> /\ handle[s])
  /\ UNCHANGED <<handle, fd, conn, in, incoming, pushed, misread, got, peer, phase>>

\* The other end closed or vanished.
PeerGone(s) ==
  /\ Serving(s) /\ peer[s] = "left" /\ Refuse(s)
  /\ UNCHANGED <<handle, fd, pollfds, conn, dataVars, peer, phase>>

\* As a bug: the client keeps its connection.
ClosedUnheard(s) ==
  /\ phase \in {"service", "destroy"}
  /\ wsi[s] = "closing" \/ (phase = "destroy" /\ wsi[s] = "open")
  /\ wsi' = [wsi EXCEPT ![s] = "gone"] /\ handle' = [handle EXCEPT ![s] = FALSE]
  /\ fd' = [fd EXCEPT ![s] = 0] /\ pollfds' = PollDel(pollfds, fd[s])
  /\ pipe' = [pipe EXCEPT ![s][Up] = <<>>]
  /\ UNCHANGED <<conn, out, in, incoming, pushed, misread, got, peer, phase>>

\* LWS_CALLBACK_CLOSED and LWS_CALLBACK_DEL_POLL_FD: the client loses its connection,
\* unless the broker took it away before.  Then the memory is freed.
Closed(s) ==
  /\ phase \in {"service", "destroy"}
  /\ wsi[s] = "closing" \/ (phase = "destroy" /\ wsi[s] = "open")
  /\ conn' = [conn EXCEPT ![s] = IF handle[s] THEN "null" ELSE @]
  /\ wsi' = [wsi EXCEPT ![s] = "gone"] /\ handle' = [handle EXCEPT ![s] = FALSE]
  /\ fd' = [fd EXCEPT ![s] = 0] /\ pollfds' = PollDel(pollfds, fd[s])
  /\ pipe' = [pipe EXCEPT ![s][Up] = <<>>]
  /\ UNCHANGED <<out, in, incoming, pushed, misread, got, peer, phase>>

Callback(s) == Receive(s) \/ Writeable(s) \/ PeerGone(s) \/ Closed(s)

------------------------------------------------------------------------------
(* mbus_server_run_timeout                                                  *)

Linked == {s \in Sessions : conn[s] = "linked"}

\* As a bug: lws is not told.
CloseQuietly(s) ==
  /\ conn[s] = "linked" /\ conn' = [conn EXCEPT ![s] = "null"]
  /\ handle' = [handle EXCEPT ![s] = FALSE] /\ UNCHANGED pollfds

\* client_set_connection(client, NULL) and connection_ws_close
Close(s) ==
  /\ conn[s] = "linked" /\ conn' = [conn EXCEPT ![s] = "null"]
  /\ handle' = [handle EXCEPT ![s] = FALSE] /\ OnWritable(s)

\* Pings were missed, the client asked for it with close, or its message was none.
Dismiss(s) ==
  /\ phase \in {"out", "handle"}
  /\ Close(s)
  /\ UNCHANGED <<wsi, fd, dataVars, peer, phase>>

\* Messages for some of the clients; lws is asked to let those write that have any.
PrepareOut ==
  /\ phase = "out" /\ phase' = "service"
  /\ \E targets \in SUBSET {s \in Linked \cap Talkers : More(s)} :
       /\ pushed' = [s \in Sessions |->
                      [pushed[s] EXCEPT ![Down] = @ + (IF s \in targets THEN 1 ELSE 0)]]
       /\ out' = [s \in Sessions |-> out[s] \o (IF s \in targets
                                                THEN Units(pushed[s][Down] + 1) ELSE <<>>)]
  /\ pollfds' = [i \in DOMAIN pollfds |->
       [pollfds[i] EXCEPT !.out = @ \/ \E s \in Linked : fd[s] = pollfds[i].fd
                                                          /\ out'[s] # <<>>]]
  /\ UNCHANGED <<wsi, handle, fd, conn, in, pipe, incoming, misread, got, peer>>

\* poll, and then lws_service, which may find anything or nothing to call back for.
Serviced ==
  /\ phase = "service" /\ phase' = "parse"
  /\ UNCHANGED <<sessionVars, dataVars, peer>>

\* A whole frame, by the length it announces, is at the head of buffer_in.  Behind one
\* whose length is misread everything waits.
Complete(s) == Len(in[s]) >= Pieces /\ in[s][1][1] # misread[s]

\* The loop over buffer_in, of clients without a connection too.
Parse(s) ==
  /\ phase = "parse" /\ conn[s] \in {"linked", "null"} /\ Complete(s)
  /\ got' = [got EXCEPT ![s][Up] = Append(@, Leading(in[s]))]
  /\ in' = [in EXCEPT ![s] = Drop(@, Pieces)]
  /\ UNCHANGED <<sessionVars, out, pipe, incoming, pushed, misread, peer, phase>>

Parsed ==
  /\ phase = "parse" /\ phase' = "handle"
  /\ \A s \in Sessions : ~Complete(s)
  /\ UNCHANGED <<sessionVars, dataVars, peer>>

\* Clients without a connection are destroyed, with their buffers.
Cleanup ==
  /\ phase = "handle" /\ phase' = "out"
  /\ conn' = [s \in Sessions |-> IF conn[s] = "null" THEN "removed" ELSE conn[s]]
  /\ out' = [s \in Sessions |-> IF conn[s] = "null" THEN <<>> ELSE out[s]]
  /\ in' = [s \in Sessions |-> IF conn[s] = "null" THEN <<>> ELSE in[s]]
  /\ UNCHANGED <<wsi, handle, fd, pollfds, pipe, incoming, pushed, misread, got, peer>>

Pass == PrepareOut \/ Serviced \/ (\E s \in Sessions : Parse(s)) \/ Parsed \/ Cleanup

\* mbus_server_destroy: the listeners first, which closes every session ...
Destroy ==
  /\ MayDestroy /\ phase = "out" /\ phase' = "destroy"
  /\ UNCHANGED <<sessionVars, dataVars, peer>>

\* ... then the clients.
Destroyed ==
  /\ phase = "destroy" /\ \A s \in Sessions : wsi[s] \in {"none", "gone"}
  /\ phase' = "ended"
  /\ conn' = [s \in Sessions |-> IF conn[s] = "none" THEN "none" ELSE "removed"]
  /\ UNCHANGED <<wsi, handle, fd, pollfds, dataVars, peer>>

------------------------------------------------------------------------------
(* The other end: MBusClient.js in a browser                                *)

Open(s) ==
  /\ peer[s] = "away" /\ phase \notin {"destroy", "ended"}
  /\ peer' = [peer EXCEPT ![s] = "open"]
  /\ UNCHANGED <<sessionVars, dataVars, phase>>

Leave(s) ==
  /\ peer[s] = "open" /\ peer' = [peer EXCEPT ![s] = "left"]
  /\ UNCHANGED <<sessionVars, dataVars, phase>>

\* __sendString
Send(s) ==
  /\ s \in Talkers /\ peer[s] = "open" /\ wsi[s] = "open" /\ More(s)
  /\ pushed' = [pushed EXCEPT ![s][Up] = @ + 1]
  /\ \E n \in Lengths :
       misread' = [misread EXCEPT ![s] = IF @ = 0 /\ Announced(n) # n
                                         THEN pushed[s][Up] + 1 ELSE @]
  /\ pipe' = [pipe EXCEPT ![s][Up] = @ \o Units(pushed[s][Up] + 1)]
  /\ UNCHANGED <<sessionVars, out, in, incoming, got, peer, phase>>

\* socket.onmessage
OnMessage(s) ==
  /\ peer[s] = "open" /\ pipe[s][Down] # <<>>
  /\ incoming' = [incoming EXCEPT ![s] = @ \o pipe[s][Down]]
  /\ pipe' = [pipe EXCEPT ![s][Down] = <<>>]
  /\ UNCHANGED <<sessionVars, out, in, pushed, misread, got, peer, phase>>

\* A turn of the loop of __handleIncoming.
HandleIncoming(s) ==
  /\ peer[s] = "open" /\ Len(incoming[s]) >= Pieces
  /\ got' = [got EXCEPT ![s][Down] = Append(@, Leading(incoming[s]))]
  /\ incoming' = [incoming EXCEPT ![s] = Drop(@, Pieces)]
  /\ UNCHANGED <<sessionVars, out, in, pipe, pushed, misread, peer, phase>>

Peer(s) == Open(s) \/ Leave(s) \/ Send(s) \/ OnMessage(s) \/ HandleIncoming(s)

\* The broker is gone.
Ended == phase = "ended" /\ UNCHANGED vars

Next == \/ Pass \/ Destroy \/ Destroyed \/ Ended
        \/ \E s \in Sessions : Established(s) \/ Callback(s) \/ Dismiss(s) \/ Peer(s)

Safe == Init /\ [][Next]_vars

\* The broker goes through its passes, lws calls back for a session that something is
\* due for pass after pass, and the program at the other end handles what it gets.
Fair ==
  /\ WF_vars(Pass)
  /\ \A s \in Sessions : SF_vars(Callback(s))
  /\ \A s \in Talkers : WF_vars(OnMessage(s) \/ HandleIncoming(s))
Spec == Safe /\ Fair

------------------------------------------------------------------------------
(* Properties                                                               *)

TypeOK ==
  /\ wsi \in [Sessions -> {"none", "open", "closing", "gone"}]
  /\ handle \in [Sessions -> BOOLEAN] /\ fd \in [Sessions -> Fds \cup {0}]
  /\ pollfds \in Seq([fd : Fds, out : BOOLEAN])
  /\ conn \in [Sessions -> {"none", "linked", "null", "removed"}]
  /\ peer \in [Sessions -> {"away", "open", "left"}]
  /\ phase \in {"out", "service", "parse", "handle", "destroy", "ended"}
  /\ misread \in [Sessions -> 0..MaxFrames]
  /\ got \in [Sessions -> [Directions -> Seq(1..MaxFrames)]]

\* A client that has a connection has one lws has not freed, with a session to pass
\* to lws; and a session that is over, on either side, has no client any more.
NoDanglingConnection ==
  \A s \in Sessions : conn[s] = "linked" <=> handle[s] /\ wsi[s] \in {"open", "closing"}

\* The poll table has one entry for each session, and no other: descriptors are used
\* again as soon as a session is over.
PollTable ==
  /\ IsInjective([i \in DOMAIN pollfds |-> pollfds[i].fd])
  /\ {pollfds[i].fd : i \in DOMAIN pollfds}
       = {fd[s] : s \in {t \in Sessions : wsi[t] \in {"open", "closing"}}}

\* A session the broker has closed is always on its way out: lws was asked for a
\* callback, in which it is refused.
EvictedIsAsked ==
  \A s \in Sessions : wsi[s] = "open" /\ ~handle[s] => Requested(s)

\* The broker closes a session by asking to write: it goes, in the end, while the
\* broker runs.
EvictedGoes ==
  \A s \in Sessions :
    conn[s] \in {"null", "removed"} ~> wsi[s] = "gone" \/ phase \in {"destroy", "ended"}

\* One session stands for each: what it carries is not shared with another.
Watched == Min(Sessions)
Broken == \/ conn[Watched] \in {"null", "removed"} \/ peer[Watched] = "left"
          \/ phase \in {"destroy", "ended"}

\* The frames to the broker that come before one whose length it misreads.
Readable(s) == IF misread[s] = 0 THEN pushed[s][Up] ELSE misread[s] - 1

UpStream == INSTANCE MbusFifo WITH
  Messages <- 1..MaxFrames, pushed <- [i \in 1..Readable(Watched) |-> i],
  got <- got[Watched][Up], broken <- Broken

DownStream == INSTANCE MbusFifo WITH
  Messages <- 1..MaxFrames, pushed <- [i \in 1..pushed[Watched][Down] |-> i],
  got <- got[Watched][Down], broken <- Broken

\* Each direction of a session implements MbusFifo.  From the program to the broker:
\* frames cut into messages anywhere, and left in buffer_in over passes, are put together
\* again, up to the first whose length MBusClient.js announces wrongly.  And back:
\* frames go out in chunks, one for each callback, and the rest of a frame is always
\* asked for, whatever chokes the pipe meanwhile.
Fifos == UpStream!Spec /\ DownStream!Spec
===============================================================================
