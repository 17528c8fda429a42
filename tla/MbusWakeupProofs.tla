--------------------------- MODULE MbusWakeupProofs ---------------------------
(***************************************************************************)
(* The loop of the client never sleeps over a published request, for any   *)
(* number of threads and any size of the pipe, but for the requests that a *)
(* run which failed has left behind.                                       *)
(***************************************************************************)
EXTENDS MbusWakeup, TLAPS

\* From the moment a run is over, whether it has sent everything or failed, until it is
\* woken, a request that was published meanwhile has a reason in the pipe, or a thread
\* about to put one there.
Announced ==
  loop \in {"outside", "poll", "relock", "drain"} /\ published > left => pipe > 0 \/ Waking

\* poll saw a reason, and nobody but the loop reads any.
WokenByPipe == loop \in {"relock", "drain"} /\ woken => pipe > 0

IInv == TypeOK /\ Announced /\ WokenByPipe

\* Nothing is published, and nobody called, in the initial state.
LEMMA InitIInv == Init => IInv
<1> SUFFICES ASSUME Init PROVE IInv
  OBVIOUS
<1>1. TypeOK
  <2>1. pipe \in 0..PipeSize /\ published \in Nat /\ asked \in Nat /\ calls \in 0..MaxCalls
         /\ left \in 0..published
    BY WakeupAssumption DEF WakeupAssumption, Init
  <2>2. at \in [Callers -> {"idle", "locking", "waking"}] /\ kind \in [Callers -> Kinds]
    BY DEF Init, Kinds
  <2> QED BY <2>1, <2>2 DEF Init, TypeOK
<1>2. Announced /\ WokenByPipe BY DEF Init, Announced, WokenByPipe
<1> QED BY <1>1, <1>2 DEF IInv

\* A call: the mutex is not even looked at yet, or the request is of no interest.
LEMMA CallIInv == ASSUME IInv, NEW c \in Callers, Call(c) \/ Ask(c) PROVE IInv'
<1> USE DEF IInv, TypeOK, Announced, WokenByPipe
<1>1. CASE Call(c)
  <2>1. TypeOK' BY <1>1, WakeupAssumption DEF WakeupAssumption, Call, Callers, Kinds
  <2>2. Waking => Waking' BY <1>1 DEF Call, Waking
  <2> QED BY <1>1, <2>1, <2>2 DEF Call
<1>2. CASE Ask(c)
  <2>1. TypeOK' BY <1>2 DEF Ask, Callers, Kinds
  <2>2. Waking => Waking' BY <1>2 DEF Ask, Waking
  <2> QED BY <1>2, <2>1, <2>2 DEF Ask
<1> QED BY <1>1, <1>2

\* A request is made by a thread that will write to the pipe.
LEMMA PrepareIInv == ASSUME IInv, NEW c \in Callers, Prepare(c) PROVE IInv'
<1> USE DEF IInv, TypeOK, Announced, WokenByPipe, Prepare
<1>1. TypeOK' BY DEF Callers, Kinds
<1>2. Waking' BY DEF Waking
<1> QED BY <1>1, <1>2

\* The pipe has the reason.
LEMMA WakeupIInv == ASSUME IInv, NEW c \in Callers, Wakeup(c) PROVE IInv'
<1> USE DEF IInv, TypeOK, Announced, WokenByPipe, Wakeup
<1>1. TypeOK' BY WakeupAssumption DEF WakeupAssumption, Callers, Kinds
<1>2. pipe' > 0 BY WakeupAssumption DEF WakeupAssumption
<1> QED BY <1>1, <1>2

\* A step of the run, which reads a reason only where it does not sleep before it has
\* sent what was published.
LEMMA RunIInv == ASSUME IInv, Run PROVE IInv'
<1> USE WakeupAssumption DEF WakeupAssumption, IInv, TypeOK, Announced, WokenByPipe, Callers
<1>1. CASE RunPoll BY <1>1 DEF RunPoll, Waking
<1>2. CASE PollWoken BY <1>2 DEF PollWoken, Waking
<1>3. CASE PollOther BY <1>3 DEF PollOther, Waking
<1>4. CASE Relock BY <1>4 DEF Relock, Waking
<1>5. CASE Drain BY <1>5 DEF Drain
<1>6. CASE EnterCallback BY <1>6 DEF EnterCallback
<1>7. CASE LeaveCallback BY <1>7 DEF LeaveCallback
<1>8. CASE Ping BY <1>8 DEF Ping
<1>9. CASE PingWakeup BY <1>9 DEF PingWakeup
<1>10. CASE Flush BY <1>10 DEF Flush
<1>11. CASE PollFailed BY <1>11 DEF PollFailed, Waking
<1>12. CASE Bail BY <1>12 DEF Bail
<1> QED BY <1>1, <1>2, <1>3, <1>4, <1>5, <1>6, <1>7, <1>8, <1>9, <1>10, <1>11, <1>12 DEF Run

\* A step that changes nothing.
LEMMA StutterIInv == ASSUME IInv, UNCHANGED vars PROVE IInv'
  BY DEF IInv, TypeOK, Announced, WokenByPipe, Waking, vars

\* The strengthened invariant is one.
THEOREM Invariance == Safe => []IInv
<1>1. IInv /\ [Next]_vars => IInv'
  BY CallIInv, PrepareIInv, WakeupIInv, RunIInv, StutterIInv DEF Next, CallStep
<1> QED BY InitIInv, <1>1, PTL DEF Safe

\* The type invariant: above all, the pipe is never read beyond what was written to it,
\* nor written beyond its size.
THEOREM TypeCorrect == Safe => []TypeOK
<1>1. IInv => TypeOK BY DEF IInv
<1> QED BY Invariance, <1>1, PTL

\* The loop never sleeps over a published request, but for those a failed run left behind.
THEOREM LoopIsWoken == Safe => []NoLostWakeup
<1>1. IInv => NoLostWakeup BY DEF IInv, Announced, NoLostWakeup
<1> QED BY Invariance, <1>1, PTL

\* Who waits to write to the pipe holds the mutex, and so does a run after poll, which no
\* call of its own thread can be inside of.
Locked ==
  /\ \A c \in Callers : at[c] = "waking" => holder = c
  /\ loop \in {"drain", "work", "pinging"} => holder = Loop
  /\ at[Loop] # "idle" => loop \in {"outside", "callback"}

LEMMA RunLocked == ASSUME TypeOK, Locked, Run PROVE Locked'
<1> USE WakeupAssumption DEF WakeupAssumption, TypeOK, Locked, Callers
<1>1. CASE RunPoll BY <1>1 DEF RunPoll
<1>2. CASE PollWoken \/ PollOther BY <1>2 DEF PollWoken, PollOther
<1>3. CASE Relock BY <1>3 DEF Relock
<1>4. CASE Drain BY <1>4 DEF Drain
<1>5. CASE EnterCallback BY <1>5 DEF EnterCallback
<1>6. CASE LeaveCallback BY <1>6 DEF LeaveCallback
<1>7. CASE Ping \/ PingWakeup BY <1>7 DEF Ping, PingWakeup
<1>8. CASE Flush \/ PollFailed \/ Bail BY <1>8 DEF Flush, PollFailed, Bail
<1> QED BY <1>1, <1>2, <1>3, <1>4, <1>5, <1>6, <1>7, <1>8 DEF Run

LEMMA CallLocked == ASSUME TypeOK, Locked, NEW c \in Callers, CallStep(c) PROVE Locked'
<1> USE WakeupAssumption DEF WakeupAssumption, TypeOK, Locked, Callers
<1>1. CASE Call(c) BY <1>1 DEF Call
<1>2. CASE Ask(c) BY <1>2 DEF Ask
<1>3. CASE Prepare(c) BY <1>3 DEF Prepare
<1>4. CASE Wakeup(c) BY <1>4 DEF Wakeup
<1> QED BY <1>1, <1>2, <1>3, <1>4 DEF CallStep

\* No step of the library helps a full pipe: the one who could read it, or write to it,
\* waits for the other.
LEMMA NobodyHelps == ASSUME TypeOK, Locked, Stuck, [Next]_vars PROVE Stuck'
<1> USE WakeupAssumption DEF WakeupAssumption, TypeOK, Stuck, Callers
<1>1. CASE Run
  <2>1. loop = "pinging" \/ Waking OBVIOUS
  <2>2. ~ Drain
    BY <2>1 DEF Drain, Locked, Waking
  <2>3. /\ pipe' = pipe /\ UNCHANGED at
        /\ loop = "pinging" => loop' = "pinging"
    BY <1>1, <2>2 DEF Run, RunPoll, PollWoken, PollOther, Relock, EnterCallback, LeaveCallback,
                      Ping, PingWakeup, Flush, PollFailed, Bail
  <2> QED BY <2>1, <2>3 DEF Waking
<1>2. ASSUME NEW c \in Callers, CallStep(c) PROVE Stuck'
  <2>1. /\ pipe' = pipe /\ UNCHANGED loop
        /\ \A d \in Callers : at[d] = "waking" => at'[d] = "waking"
    BY <1>2 DEF CallStep, Call, Ask, Prepare, Wakeup
  <2> QED BY <2>1 DEF Waking
<1>3. CASE UNCHANGED vars BY <1>3 DEF vars, Waking
<1> QED BY <1>1, <1>2, <1>3 DEF Next

\* The exception of PublishGoes and AskedGoes is for good: once who holds the mutex waits
\* to write to a full pipe, everyone waits for everyone.
THEOREM StuckForEver == Safe => [][Stuck => Stuck']_vars
<1>1. Init => Locked BY DEF Init, Locked
<1>2. TypeOK /\ Locked /\ [Next]_vars => Locked'
  <2>1. CASE UNCHANGED vars BY <2>1 DEF vars, Locked
  <2> QED BY <2>1, RunLocked, CallLocked DEF Next
<1>3. TypeOK /\ Locked /\ [Next]_vars => [Stuck => Stuck']_vars BY NobodyHelps
<1> QED BY TypeCorrect, <1>1, <1>2, <1>3, PTL DEF Safe
===============================================================================
