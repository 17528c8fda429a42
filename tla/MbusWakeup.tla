------------------------------ MODULE MbusWakeup ------------------------------
(***************************************************************************)
(* Threads that call the client library while one of them runs its loop:   *)
(* the mutex, and the pipe that wakes the loop out of poll.  The pipe is   *)
(* written with the mutex held, and one reason is read from it in a run.   *)
(*                                                                         *)
(* The loop's own thread calls too, between runs and from its callbacks.    *)
(***************************************************************************)
EXTENDS Naturals

CONSTANTS
  Threads,    \* the other threads
  Loop,       \* the thread that calls mbus_client_run
  Nobody,
  PipeSize,   \* reasons the pipe holds: 65536 / sizeof(enum wakeup_reason) on Linux
  MaxCalls    \* bound of the calls and pings

WakeupAssumption ==
  /\ Loop \notin Threads /\ Nobody \notin Threads \cup {Loop}
  /\ PipeSize \in Nat \ {0} /\ MaxCalls \in Nat
ASSUME WakeupAssumption

Callers == Threads \cup {Loop}

\* publish; command, (un)subscribe, (un)register; break_run, connect, disconnect
Kinds == {"publish", "command", "break"}

VARIABLES
  holder,     \* of client->mutex
  pipe,       \* reasons in client->wakeup
  at,         \* of each caller: idle, locking, waking
  kind,       \* of its call
  loop,       \* outside, poll, relock, drain, work, callback, pinging
  woken,      \* pollfds[0].revents
  pinged,     \* this run has sent its ping, if one was due
  published,  \* requests that wait for the loop, of calls that wake it
  asked,      \* and of calls that do not
  left,       \* those of published that a failed run left behind, their reason read
  calls

vars == <<holder, pipe, at, kind, loop, woken, pinged, published, asked, left, calls>>

Init ==
  /\ holder = Nobody /\ pipe = 0
  /\ at = [c \in Callers |-> "idle"] /\ kind = [c \in Callers |-> "break"]
  /\ loop = "outside" /\ woken = FALSE /\ pinged = FALSE /\ published = 0 /\ asked = 0
  /\ left = 0 /\ calls = 0

------------------------------------------------------------------------------
(* Calls                                                                    *)

\* A thread is about to call; the loop's own only while it is not inside a run, or
\* in a callback of one.
Call(c) ==
  /\ at[c] = "idle" /\ calls < MaxCalls /\ calls' = calls + 1
  /\ c = Loop => loop \in {"outside", "callback"}
  /\ at' = [at EXCEPT ![c] = "locking"]
  /\ \E k \in Kinds : kind' = [kind EXCEPT ![c] = k]
  /\ UNCHANGED <<holder, pipe, loop, woken, pinged, published, asked, left>>

\* A request that wakes nobody is made, and the call is over.
Ask(c) ==
  /\ at[c] = "locking" /\ holder = Nobody /\ kind[c] = "command"
  /\ asked' = asked + 1 /\ at' = [at EXCEPT ![c] = "idle"]
  /\ UNCHANGED <<holder, pipe, kind, loop, woken, pinged, published, left, calls>>

\* With the mutex held, a request is made or the state set.
Prepare(c) ==
  /\ at[c] = "locking" /\ holder = Nobody /\ kind[c] # "command"
  /\ holder' = c /\ at' = [at EXCEPT ![c] = "waking"]
  /\ published' = IF kind[c] = "publish" THEN published + 1 ELSE published
  /\ UNCHANGED <<pipe, kind, loop, woken, pinged, asked, left, calls>>

\* As a bug: a loop that is not asleep need not be woken.
WakeupAsleep(c) ==
  /\ at[c] = "waking"
  /\ pipe < PipeSize /\ pipe' = IF loop = "poll" THEN pipe + 1 ELSE pipe
  /\ holder' = Nobody /\ at' = [at EXCEPT ![c] = "idle"]
  /\ UNCHANGED <<kind, loop, woken, pinged, published, asked, left, calls>>

\* mbus_client_wakeup: the write blocks while the pipe is full, with the mutex held.
Wakeup(c) ==
  /\ at[c] = "waking"
  /\ pipe < PipeSize /\ pipe' = pipe + 1
  /\ holder' = Nobody /\ at' = [at EXCEPT ![c] = "idle"]
  /\ UNCHANGED <<kind, loop, woken, pinged, published, asked, left, calls>>

------------------------------------------------------------------------------
(* mbus_client_run                                                          *)

\* The mutex is taken and given back before poll.
RunPoll ==
  /\ loop = "outside" /\ at[Loop] = "idle" /\ holder = Nobody /\ loop' = "poll"
  /\ UNCHANGED <<holder, pipe, at, kind, woken, pinged, published, asked, left, calls>>

\* poll returns for the pipe ...
PollWoken ==
  /\ loop = "poll" /\ pipe > 0 /\ woken' = TRUE /\ loop' = "relock"
  /\ UNCHANGED <<holder, pipe, at, kind, pinged, published, asked, left, calls>>

\* ... or for the socket, or because its time is over.
PollOther ==
  /\ loop = "poll" /\ pipe = 0 /\ woken' = FALSE /\ loop' = "relock"
  /\ UNCHANGED <<holder, pipe, at, kind, pinged, published, asked, left, calls>>

Relock ==
  /\ loop = "relock" /\ holder = Nobody /\ holder' = Loop /\ loop' = "drain"
  /\ pinged' = FALSE
  /\ UNCHANGED <<pipe, at, kind, woken, published, asked, left, calls>>

\* One reason is read, if poll saw any.
Drain ==
  /\ loop = "drain" /\ loop' = "work"
  /\ pipe' = IF woken THEN pipe - 1 ELSE pipe
  /\ UNCHANGED <<holder, at, kind, woken, pinged, published, asked, left, calls>>

\* A callback of the application, with the mutex given back.
EnterCallback ==
  /\ loop = "work" /\ loop' = "callback" /\ holder' = Nobody
  /\ UNCHANGED <<pipe, at, kind, woken, pinged, published, asked, left, calls>>

LeaveCallback ==
  /\ loop = "callback" /\ at[Loop] = "idle" /\ holder = Nobody
  /\ loop' = "work" /\ holder' = Loop
  /\ UNCHANGED <<pipe, at, kind, woken, pinged, published, asked, left, calls>>

\* A ping is published by the run itself, once ...
Ping ==
  /\ loop = "work" /\ ~pinged /\ calls < MaxCalls /\ calls' = calls + 1
  /\ loop' = "pinging" /\ pinged' = TRUE /\ published' = published + 1
  /\ UNCHANGED <<holder, pipe, at, kind, woken, asked, left>>

\* ... which wakes itself.
PingWakeup ==
  /\ loop = "pinging" /\ pipe < PipeSize /\ pipe' = pipe + 1 /\ loop' = "work"
  /\ UNCHANGED <<holder, at, kind, woken, pinged, published, asked, left, calls>>

\* As a bug: one request is taken to be there.
FlushOne ==
  /\ loop = "work" /\ published' = published - 1 /\ asked' = 0 /\ left' = 0
  /\ loop' = "outside" /\ holder' = Nobody
  /\ UNCHANGED <<pipe, at, kind, woken, pinged, calls>>

\* As a bug: only the requests that woke the loop are looked for.
FlushPublished ==
  /\ loop = "work" /\ published' = 0 /\ left' = 0
  /\ loop' = "outside" /\ holder' = Nobody
  /\ UNCHANGED <<pipe, at, kind, woken, pinged, asked, left, calls>>

\* All requests go to the buffer of the socket, and the run returns.
Flush ==
  /\ loop = "work" /\ published' = 0 /\ asked' = 0 /\ left' = 0
  /\ loop' = "outside" /\ holder' = Nobody
  /\ UNCHANGED <<pipe, at, kind, woken, pinged, calls>>

\* poll fails, and the run returns -1 before it has read a reason.
PollFailed ==
  /\ loop = "drain" /\ loop' = "outside" /\ holder' = Nobody
  /\ UNCHANGED <<pipe, at, kind, woken, pinged, published, asked, left, calls>>

\* goto bail from anywhere after the read: nothing was sent, and the reason is gone.
Bail ==
  /\ loop = "work" /\ left' = published
  /\ loop' = "outside" /\ holder' = Nobody
  /\ UNCHANGED <<pipe, at, kind, woken, pinged, published, asked, calls>>

Run == RunPoll \/ PollWoken \/ PollOther \/ Relock \/ Drain
       \/ EnterCallback \/ LeaveCallback \/ Ping \/ PingWakeup \/ Flush
       \/ PollFailed \/ Bail

CallStep(c) == Call(c) \/ Ask(c) \/ Prepare(c) \/ Wakeup(c)

Next == Run \/ \E c \in Callers : CallStep(c)

Safe == Init /\ [][Next]_vars

\* A thread that waits for the mutex gets it in the end, and the application runs the
\* client again and again, whatever it returned; runs that fail do not go on for ever, and
\* poll is left to its timeout only where that is said.
Fair ==
  /\ \A c \in Callers : SF_vars(Ask(c) \/ Prepare(c)) /\ WF_vars(Wakeup(c))
  /\ SF_vars(RunPoll \/ Relock \/ LeaveCallback)
  /\ WF_vars(PollWoken \/ PingWakeup) /\ SF_vars(Drain) /\ SF_vars(Flush)

Spec == Safe /\ Fair

------------------------------------------------------------------------------
(* Properties                                                               *)

TypeOK ==
  /\ holder \in Callers \cup {Nobody} /\ pipe \in 0..PipeSize
  /\ at \in [Callers -> {"idle", "locking", "waking"}] /\ kind \in [Callers -> Kinds]
  /\ loop \in {"outside", "poll", "relock", "drain", "work", "callback", "pinging"}
  /\ woken \in BOOLEAN /\ pinged \in BOOLEAN
  /\ published \in Nat /\ asked \in Nat /\ left \in 0..published /\ calls \in 0..MaxCalls

Waking == \E c \in Callers : at[c] = "waking"

\* The pipe is full, and who holds the mutex waits to write to it: the loop, the only one
\* to read it, will never have the mutex.
Stuck == pipe = PipeSize /\ (Waking \/ loop = "pinging")

\* The loop does not sleep over what was published: either the pipe wakes it, or the
\* thread that published is about to write to it.  Only what a failed run left behind
\* has nobody to speak for it.
NoLostWakeup == loop = "poll" /\ published > left => pipe > 0 \/ Waking

\* What was published is sent, with no help of the timeout of poll, unless the run it
\* woke fails; threads and loop never block each other but over a full pipe.
PublishGoes == published > left ~> published = left \/ Stuck

\* What was asked by a call that does not wake the loop, or left behind by a failed run,
\* is sent, if poll gives up after MBUS_CLIENT_DEFAULT_RUN_TIMEOUT at the latest; again
\* but for a full pipe.
AskedGoes == WF_vars(PollOther) => (asked + left > 0 ~> asked + left = 0 \/ Stuck)
===============================================================================
