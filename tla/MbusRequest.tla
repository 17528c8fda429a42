----------------------------- MODULE MbusRequest -----------------------------
(***************************************************************************)
(* What the client library promises of the requests its user makes: each   *)
(* publish, subscribe, register or command that is accepted is completed   *)
(* exactly once, by a call of its callback that says how it ended.         *)
(* MbusClient, the model of client.c, implements this specification.       *)
(***************************************************************************)
EXTENDS Naturals, Sequences

CONSTANT Requests, Outcomes

\* completed[r] is the list of the completions of r the user was told of;
\* accepted is the set of requests the library took on.
VARIABLES accepted, completed

vars == <<accepted, completed>>

TypeOK == /\ accepted \in SUBSET Requests
          /\ completed \in [Requests -> {<<>>} \cup {<<o>> : o \in Outcomes}]

Init == accepted = {} /\ completed = [r \in Requests |-> <<>>]

Accept(r) == /\ r \notin accepted
             /\ accepted' = accepted \cup {r}
             /\ UNCHANGED completed

Complete(r) == /\ r \in accepted /\ completed[r] = <<>>
               /\ \E o \in Outcomes : completed' = [completed EXCEPT ![r] = <<o>>]
               /\ UNCHANGED accepted

Next == \E r \in Requests : Accept(r) \/ Complete(r)

Safe == Init /\ [][Next]_vars

Spec == Safe /\ \A r \in Requests : WF_vars(Complete(r))
==============================================================================
