------------------------------- MODULE MbusFifo -------------------------------
(***************************************************************************)
(* What one direction of a connection promises: the messages pushed at one *)
(* end come out at the other, whole, once and in order, until the          *)
(* connection breaks.  MbusFraming and MbusWebsocket implement it.         *)
(***************************************************************************)
EXTENDS Naturals, Sequences

CONSTANT Messages

VARIABLES pushed, got, broken

vars == <<pushed, got, broken>>

TypeOK == pushed \in Seq(Messages) /\ got \in Seq(Messages) /\ broken \in BOOLEAN

Init == pushed = <<>> /\ got = <<>> /\ broken = FALSE

\* The sender need not know that the connection broke, or that this broke it.
Push(message) ==
  /\ pushed' = Append(pushed, message) /\ broken' \in {broken, TRUE}
  /\ UNCHANGED got

\* What was on its way when the connection broke may still arrive.
Pop == /\ Len(got) < Len(pushed)
       /\ got' = Append(got, pushed[Len(got) + 1])
       /\ UNCHANGED <<pushed, broken>>

Break == ~broken /\ broken' = TRUE /\ UNCHANGED <<pushed, got>>

Next == Pop \/ Break \/ \E message \in Messages : Push(message)

Safe == Init /\ [][Next]_vars

Spec == Safe /\ WF_vars(Pop /\ ~broken)

\* What came out is a prefix of what was pushed.
Delivered ==
  /\ Len(got) <= Len(pushed)
  /\ \A i \in 1..Len(got) : got[i] = pushed[i]
===============================================================================
