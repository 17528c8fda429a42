---------------------------- MODULE MbusFifoProofs ----------------------------
(***************************************************************************)
(* What implementing MbusFifo means for the messages.                      *)
(***************************************************************************)
EXTENDS MbusFifo, TLAPS

IInv == TypeOK /\ Delivered

\* Nothing is pushed yet.
LEMMA InitIInv == Init => IInv
<1> SUFFICES ASSUME Init PROVE IInv
  OBVIOUS
<1>1. pushed \in Seq(Messages) /\ got \in Seq(Messages) BY DEF Init
<1>2. Delivered BY DEF Init, Delivered
<1> QED BY <1>1, <1>2 DEF IInv, TypeOK, Init

\* A message is pushed behind those that are known.
LEMMA PushIInv == ASSUME IInv, NEW message \in Messages, Push(message) PROVE IInv'
<1> USE DEF IInv, TypeOK, Push
<1>1. TypeOK'
  <2>1. broken' \in BOOLEAN OBVIOUS
  <2>2. pushed' \in Seq(Messages) /\ got' \in Seq(Messages) OBVIOUS
  <2> QED BY <2>1, <2>2
<1>2. Delivered'
  <2>1. Len(pushed') = Len(pushed) + 1 OBVIOUS
  <2>2. \A i \in 1..Len(pushed) : pushed'[i] = pushed[i] OBVIOUS
  <2> QED BY <2>1, <2>2 DEF Delivered
<1> QED BY <1>1, <1>2

\* The next message comes out.
LEMMA PopIInv == ASSUME IInv, Pop PROVE IInv'
<1> USE DEF IInv, TypeOK, Pop
<1>1. pushed[Len(got) + 1] \in Messages BY DEF Delivered
<1>2. TypeOK' BY <1>1
<1>3. Delivered'
  <2>1. Len(got') = Len(got) + 1 BY <1>1
  <2>2. got'[Len(got) + 1] = pushed[Len(got) + 1] BY <1>1
  <2>3. \A i \in 1..Len(got) : got'[i] = got[i] BY <1>1
  <2> QED BY <2>1, <2>2, <2>3 DEF Delivered
<1> QED BY <1>2, <1>3

\* The connection breaks, or nothing happens.
LEMMA BreakIInv == ASSUME IInv, Break \/ UNCHANGED vars PROVE IInv'
  BY DEF IInv, TypeOK, Delivered, Break, vars

\* What came out is always a prefix of what was pushed: nothing is lost before something
\* that arrived, nothing comes twice or in another order.  The framing of sockets and of
\* websockets, which implement this module, inherit it.
THEOREM DeliveredInOrder == Safe => []Delivered
<1>1. IInv /\ [Next]_vars => IInv'
  BY PushIInv, PopIInv, BreakIInv DEF Next
<1>2. IInv => Delivered BY DEF IInv
<1> QED BY InitIInv, <1>1, <1>2, PTL DEF Safe
===============================================================================
