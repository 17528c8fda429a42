-------------------------- MODULE MbusClientProofs --------------------------
(***************************************************************************)
(* The client library, for any number of requests and any application:     *)
(* each request is in one place and completed once, the loops over the     *)
(* lists stay on them, a frame goes out on the connection it was made for, *)
(* and an answer is taken for its own request.                             *)
(***************************************************************************)
EXTENDS MbusClient, SequenceTheorems, FiniteSetTheorems, WellFoundedInduction, TLAPS

-----------------------------------------------------------------------------
(* What is left of a call of mbus_client_run. *)

Walks == {"cancel", "expire", "flush"}

\* The steps of mbus_client_reset and of what surrounds it, and what ends a run of them.
Calm == {"parting", "refuse", "shut", "wipe", "cancel", "drop", "clear", "fallback"}
Ends == {"dial", "lost", "giveup", "fail"}
Ops == Calm \cup Ends \cup {"connect", "poll", "polled", "read", "write", "parse", "reply",
                            "out", "ping", "expire", "flush"}

\* The steps that only follow a wipe.
Afterwards == {"cancel", "drop", "clear", "fallback", "giveup", "lost", "dial"}

Step == {e \in [op : Ops, list : {"none", "requests", "pendings"}, next : 0 .. First] :
           /\ e.op \in Walks <=> e.list # "none"
           /\ e.op = "flush" => e.list = "requests"
           /\ e.op \notin Walks => e.next = None}

\* A step that need not be the next one.
Later == {e \in Step : e.op \notin {"parting", "connect", "reply"}}

\* Before the steps of a reset there are only others of a reset.
Orderly(s) == \A i, j \in DOMAIN s : j < i /\ s[i].op \in Calm \cup Ends => s[j].op \in Calm

WipedFirst(s) ==
  \A i \in DOMAIN s : s[i].op \in Afterwards => \E j \in 1 .. i - 1 : s[j].op = "wipe"

Script ==
  /\ \A i \in 2 .. Len(todo) : todo[i] \in Later
  /\ Orderly(todo)
  /\ socket = "none" \/ WipedFirst(todo)

-----------------------------------------------------------------------------
(* Types, and room for the results of routines. *)

Typed ==
  /\ state \in {"disconnected", "connecting", "connected", "disconnecting", "destroyed"}
  /\ socket \in {"none", "dialing", "up"}
  /\ todo \in Seq(Step)
  /\ made \in Seq(Job)
  /\ \A s \in {requests, pendings, routines, subscriptions, outgoing, heard} : s \in Seq(Ids)
  /\ incoming \in Seq(Frame) /\ wire \in Seq(Frame)
  /\ sequence \in SeqStart .. (SeqEnd - 1)
  /\ told \in [Ids -> Seq(Outcomes)]
  /\ {locked, waitPong, missed, link, session} \subseteq BOOLEAN

Called(s) == {i \in DOMAIN s : s[i].type = "call"}
Calls == Cardinality(Called(incoming \o wire)) + (IF At("reply") THEN 1 ELSE 0)

Counted ==
  /\ sent \in 0 .. MaxFrames
  /\ Calls <= sent
  /\ Len(made) + Calls + (MaxFrames - sent) <= MaxRequests

-----------------------------------------------------------------------------
(* The lists. *)

Listed(s) == ToSet(s) \subseteq 1 .. Len(made) /\ IsInjective(s)
Apart(s, t) == ToSet(s) \cap ToSet(t) = {}

Lists ==
  /\ \A s \in {requests, pendings, routines, subscriptions, outgoing, heard} : Listed(s)
  /\ Apart(requests, pendings) /\ Apart(requests, outgoing)
  /\ Apart(requests, heard) /\ Apart(outgoing, heard)
  /\ \A r \in ToSet(routines) : made[r].kind = "register" /\ r \notin Queued
  /\ \A r \in ToSet(subscriptions) : made[r].kind = "subscribe" /\ r \notin Queued

\* The sets, and what an unregister or unsubscribe is about.
Sets ==
  /\ \A s \in {expired, freed, asked, old} : s \subseteq 1 .. Len(made)
  /\ reread \subseteq (1 .. Len(made)) \X {"earlier", "itself"}
  /\ asked \subseteq ToSet(heard)
  /\ \A r \in 1 .. Len(made) :
       IF made[r].kind \in {"unregister", "unsubscribe"}
       THEN made[r].about \in 1 .. Len(made) ELSE made[r].about = None

Completion ==
  \A r \in Ids : /\ told[r] \in {<<>>} \cup {<<o>> : o \in Outcomes}
                 /\ told[r] = <<>> <=> \/ r \notin 1 .. Len(made)
                                       \/ ~ Visible(r)
                                       \/ r \in Queued

-----------------------------------------------------------------------------
(* The walks, and the one create of a connection. *)

\* Only the walk that is under way points to a request.
Pointing ==
  /\ todo # <<>> => top.next \in {None, First} \cup ToSet(List(top.list))
  /\ \A i \in 2 .. Len(todo) : todo[i].next \in {None, First}

Alone == \A r \in Queued : made[r].kind = "create" => Queued = {r} /\ state # "connected"

Dialing ==
  /\ At("connect") => socket = "dialing"
  /\ socket = "dialing" => /\ Queued = {} /\ outgoing = <<>> /\ sequence = SeqStart
                           /\ state # "connected"

Has(op) == \E i \in DOMAIN todo : todo[i].op = op

\* A walk that will empty the list: it starts at its head.
Empties(e, l) == /\ e.op = "cancel" /\ e.list = l
                 /\ e.next \in {First, Head(List(l))}

DialReady ==
  Has("dial") => /\ state # "connected"
                 /\ (socket = "none" /\ outgoing = <<>>) \/ Has("wipe")
                 /\ sequence = SeqStart \/ Has("clear")
                 /\ \A l \in {"requests", "pendings"} :
                      List(l) = <<>> \/ \E i \in DOMAIN todo : Empties(todo[i], l)

-----------------------------------------------------------------------------
(* The connection. *)

Closed ==
  /\ socket # "up" => /\ heard = <<>> /\ incoming = <<>> /\ wire = <<>> /\ asked = {}
                      /\ ~link
  /\ incoming # <<>> \/ wire # <<>> => heard # <<>>
  /\ old = {}

Fresh ==
  /\ heard # <<>> => made[Head(heard)].kind = "create"
  /\ socket = "up" /\ heard = <<>> =>
       /\ state # "connected"
       /\ outgoing # <<>> => made[Head(outgoing)].kind = "create"
       /\ \A r \in ToSet(requests) : made[r].kind = "create"

Believed ==
  /\ session => \A r \in Queued : made[r].kind # "create"
  /\ state = "connected" => session \/ Has("fallback")
  /\ At("parting") => Has("fallback")
  /\ session => /\ state \notin {"disconnected", "destroyed"}
                /\ (socket = "up" /\ ~ Has("wipe")) \/ Has("lost") \/ At("parting")
                /\ Has("fallback") => At("parting")
                /\ ~ Has("giveup") /\ ~ Has("dial") /\ ~ Has("fail")

-----------------------------------------------------------------------------
(* Sequences and names. *)

Flying == {f \in ToSet(incoming) \cup ToSet(wire) : f.type = "result"}

\* The requests of the connection.
Here == Queued \cup ToSet(outgoing) \cup ToSet(heard)

\* The sequence that is handed out after a number of others.
Round == SeqEnd - SeqStart
After(seq, n) == IF seq + n < SeqEnd THEN seq + n ELSE seq + n - Round

\* The sequences of a connection repeat after a round of them, not before.
Numbers ==
  /\ \A f \in Flying : f.of \in ToSet(heard) /\ f.seq = made[f.of].seq
  /\ socket = "up" =>
       \A r \in Here :
         /\ made[r].seq < SeqEnd
         /\ Len(made) + 1 - r <= Round => sequence = After(made[r].seq, Len(made) + 1 - r)
         /\ \A q \in Here : r < q /\ q - r < Round => made[q].seq # made[r].seq

\* No two requests under way are for one name, and what is to be destroyed is still there.
Names ==
  /\ \A r, q \in Queued : made[r].name = made[q].name => r = q \/ made[r].name = None
  /\ \A r \in Queued :
       made[r].kind \in {"unregister", "unsubscribe"} =>
         made[r].name # None /\ made[made[r].about].name = made[r].name
  /\ socket # "none" =>
       \A r \in Queued :
         /\ made[r].kind = "unregister" => made[r].about \in ToSet(routines)
         /\ made[r].kind = "unsubscribe" => made[r].about \in ToSet(subscriptions)

Freed ==
  /\ freed \cap Queued = {}
  /\ freed \cap (ToSet(routines) \cup ToSet(subscriptions)) = {}
  /\ \A read \in reread : read[2] = "itself"

-----------------------------------------------------------------------------
(* Lists. *)

LEMMA LeastExists ==
  ASSUME NEW S \in SUBSET Nat, S # {}
  PROVE  Min(S) \in S /\ \A n \in S : Min(S) <= n
<1> DEFINE less == {ss \in Nat \X Nat : ss[1] < ss[2]}
<1>1. IsWellFoundedOn(less, Nat)
  BY NatLessThanWellFounded DEF OpToRel
<1> HIDE DEF less
<1>2. PICK m \in S : \A n \in S : ~ (<<n, m>> \in less)
  BY <1>1, WFMin
<1>3. \A n \in S : m <= n
  <2>1. ASSUME NEW n \in S PROVE m <= n
    <3>1. m \in Nat /\ n \in Nat  OBVIOUS
    <3>2. n < m => <<n, m>> \in less  BY <3>1 DEF less
    <3> QED BY <1>2, <2>1, <3>1, <3>2
  <2> QED BY <2>1
<1> QED BY <1>3 DEF Min

LEMMA RemoveOne ==
  ASSUME NEW S, NEW s \in Seq(S), NEW x
  PROVE  /\ RemoveFirst(s, x) \in Seq(S)
         /\ x \notin ToSet(s) => RemoveFirst(s, x) = s
         /\ IsInjective(s) =>
              /\ IsInjective(RemoveFirst(s, x))
              /\ ToSet(RemoveFirst(s, x)) = ToSet(s) \ {x}
              /\ s # <<>> /\ x = Head(s) => RemoveFirst(s, x) = Tail(s)
<1>1. CASE x \notin ToSet(s)
  <2>1. RemoveFirst(s, x) = s  BY <1>1 DEF RemoveFirst, ToSet
  <2>2. s # <<>> => Head(s) \in ToSet(s)  BY DEF ToSet
  <2> QED BY <1>1, <2>1, <2>2
<1>2. CASE x \in ToSet(s)
  <2> DEFINE I == {i \in 1 .. Len(s) : s[i] = x}
  <2>1. PICK k \in I : k = Min(I)
    <3>1. I \in SUBSET Nat /\ I # {}  BY <1>2 DEF ToSet
    <3> HIDE DEF I
    <3> QED BY <3>1, LeastExists
  <2>2. RemoveFirst(s, x) = SubSeq(s, 1, k - 1) \o SubSeq(s, k + 1, Len(s))
    BY <1>2, <2>1 DEF RemoveFirst, RemoveAt, SelectInSeq, ToSet
  <2>3. k \in 1 .. Len(s) /\ s[k] = x  BY <2>1
  <2> DEFINE a == SubSeq(s, 1, k - 1)
             b == SubSeq(s, k + 1, Len(s))
  <2>4. /\ a \in Seq(S) /\ Len(a) = k - 1 /\ \A i \in 1 .. k - 1 : a[i] = s[i]
        /\ b \in Seq(S) /\ Len(b) = Len(s) - k /\ \A i \in 1 .. Len(s) - k : b[i] = s[k + i]
    <3>1. \A i \in 1 .. Len(s) : s[i] \in S  OBVIOUS
    <3>2. /\ \A i \in 1 .. k - 1 : s[i] \in S
          /\ \A i \in k + 1 .. Len(s) : s[i] \in S  BY <2>3, <3>1
    <3> QED BY SMTT(30), <2>3, <3>2, SubSeqProperties
  <2> HIDE DEF a, b
  <2> DEFINE t == a \o b
  <2>5. /\ t \in Seq(S) /\ Len(t) = Len(s) - 1
        /\ \A i \in 1 .. Len(s) - 1 : t[i] = IF i < k THEN s[i] ELSE s[i + 1]
    <3>1. /\ t \in Seq(S) /\ Len(t) = Len(a) + Len(b)
          /\ \A i \in 1 .. Len(a) + Len(b) : t[i] = IF i <= Len(a) THEN a[i] ELSE b[i - Len(a)]
      BY <2>4, ConcatProperties
    <3> HIDE DEF t
    <3>2. Len(t) = Len(s) - 1  BY <2>3, <2>4, <3>1
    <3>3. ASSUME NEW i \in 1 .. Len(s) - 1  PROVE t[i] = IF i < k THEN s[i] ELSE s[i + 1]
      <4>1. CASE i < k
        <5>1. i \in 1 .. k - 1 /\ i <= Len(a) /\ i \in 1 .. Len(a) + Len(b)
          BY <2>3, <2>4, <4>1
        <5>2. t[i] = a[i]  BY <3>1, <5>1
        <5> QED BY <2>4, <4>1, <5>1, <5>2
      <4>2. CASE i >= k
        <5>1. i - Len(a) \in 1 .. Len(s) - k /\ k + (i - Len(a)) = i + 1
          BY <2>3, <2>4, <4>2
        <5>2. i \in 1 .. Len(a) + Len(b) /\ ~ (i <= Len(a))  BY <2>3, <2>4, <4>2
        <5>3. t[i] = b[i - Len(a)]  BY <3>1, <5>2
        <5>4. b[i - Len(a)] = s[i + 1]  BY <2>4, <5>1
        <5> QED BY <2>3, <4>2, <5>3, <5>4
      <4> QED BY <2>3, <4>1, <4>2
    <3> QED BY <3>1, <3>2, <3>3
  <2>6. RemoveFirst(s, x) = t  BY <2>2 DEF a, b
  <2> HIDE DEF t
  <2>7. ASSUME IsInjective(s)
        PROVE  /\ IsInjective(t) /\ ToSet(t) = ToSet(s) \ {x}
               /\ s # <<>> /\ x = Head(s) => t = Tail(s)
    <3>1. IsInjective(t)
      <4>1. SUFFICES ASSUME NEW i \in DOMAIN t, NEW j \in DOMAIN t, t[i] = t[j] PROVE i = j
        BY DEF IsInjective
      <4> DEFINE from(n) == IF n < k THEN n ELSE n + 1
      <4>2. i \in 1 .. Len(s) - 1 /\ j \in 1 .. Len(s) - 1  BY <2>5
      <4>3. from(i) \in 1 .. Len(s) /\ from(j) \in 1 .. Len(s)  BY <2>3, <4>2
      <4>4. t[i] = s[from(i)] /\ t[j] = s[from(j)]
        <5>1. \A n \in 1 .. Len(s) - 1 : t[n] = s[from(n)]  BY <2>5
        <5> QED BY <4>2, <5>1
      <4>5. from(i) = from(j)
        <5>1. \A m, n \in 1 .. Len(s) : s[m] = s[n] => m = n
          BY <2>7 DEF IsInjective
        <5> HIDE DEF from
        <5>2. s[from(i)] = s[from(j)]  BY <4>1, <4>4
        <5> QED BY <4>3, <5>1, <5>2
      <4> QED BY <2>3, <4>2, <4>5
    <3>2. ToSet(t) \subseteq ToSet(s) \ {x}
      <4>1. SUFFICES ASSUME NEW i \in 1 .. Len(s) - 1 PROVE t[i] \in ToSet(s) \ {x}
        BY <2>5 DEF ToSet
      <4>2. PICK n \in 1 .. Len(s) : n # k /\ t[i] = s[n]
        <5>1. CASE i < k  BY <2>3, <2>5, <5>1
        <5>2. CASE i >= k  BY <2>3, <2>5, <5>2
        <5> QED BY <2>3, <5>1, <5>2
      <4> QED BY <2>3, <2>7, <4>2 DEF IsInjective, ToSet
    <3>3. ASSUME NEW i \in 1 .. Len(s), s[i] # x  PROVE s[i] \in ToSet(t)
      <4>1. CASE i < k
        <5>1. i \in 1 .. Len(t) /\ t[i] = s[i]  BY <2>3, <2>5, <4>1
        <5> QED BY <5>1, <2>5 DEF ToSet
      <4>2. CASE i > k
        <5>1. i - 1 \in 1 .. Len(t) /\ t[i - 1] = s[i]  BY <2>3, <2>5, <4>2
        <5> QED BY <5>1, <2>5 DEF ToSet
      <4> QED BY <2>3, <3>3, <4>1, <4>2
    <3>4. ToSet(s) \ {x} \subseteq ToSet(t)
      BY <3>3 DEF ToSet
    <3>5. ASSUME s # <<>>, x = Head(s)  PROVE t = Tail(s)
      <4>1. k = 1  BY <2>3, <2>7, <3>5 DEF IsInjective
      <4>2. Len(t) = Len(Tail(s)) /\ \A i \in 1 .. Len(t) : t[i] = Tail(s)[i]
        BY <2>5, <3>5, <4>1
      <4> QED BY <2>5, <3>5, <4>2, SeqEqual
    <3> QED BY <3>1, <3>2, <3>4, <3>5
  <2> QED BY <1>2, <2>5, <2>6, <2>7
<1> QED BY <1>1, <1>2

LEMMA Follower ==
  ASSUME NEW S, NEW s \in Seq(S), NEW x \in ToSet(s)
  PROVE  /\ Following(s, x) \in ToSet(s) \cup {None}
         /\ IsInjective(s) =>
              /\ Following(s, x) = None \/ Following(s, x) # x
              /\ x = Head(s) => Following(s, x) = IF Tail(s) = <<>> THEN None ELSE Head(Tail(s))
<1>1. PICK i \in 1 .. Len(s) : s[i] = x /\ i = CHOOSE j \in DOMAIN s : s[j] = x
  BY DEF ToSet
<1>2. Following(s, x) = IF i < Len(s) THEN s[i + 1] ELSE None
  BY <1>1 DEF Following
<1>3. i < Len(s) => i + 1 \in DOMAIN s  BY <1>1
<1>4. Following(s, x) \in ToSet(s) \cup {None}  BY <1>2, <1>3 DEF ToSet
<1>5. ASSUME IsInjective(s)
      PROVE  Following(s, x) = None \/ Following(s, x) # x
  BY <1>1, <1>2, <1>3, <1>5 DEF IsInjective
<1>6. ASSUME IsInjective(s), x = Head(s)
      PROVE  Following(s, x) = IF Tail(s) = <<>> THEN None ELSE Head(Tail(s))
  <2>1. i = 1  BY <1>1, <1>6 DEF IsInjective
  <2>2. s # <<>> /\ Len(s) \in Nat /\ Len(s) >= 1  BY <1>1
  <2>3. /\ Tail(s) \in Seq(S) /\ Len(Tail(s)) = Len(s) - 1
        /\ \A n \in 1 .. Len(Tail(s)) : Tail(s)[n] = s[n + 1]
    BY <2>2, HeadTailProperties
  <2>4. PICK t \in Seq(S) : t = Tail(s)  BY <2>3
  <2>5. CASE Len(s) = 1  BY <1>2, <2>1, <2>3, <2>4, <2>5
  <2>6. CASE Len(s) > 1
    <3>1. Len(t) >= 1 /\ t[1] = s[2]  BY <2>3, <2>4, <2>6
    <3>2. t # <<>> /\ Head(t) = s[2]  BY <3>1
    <3> QED BY <1>2, <2>1, <2>4, <2>6, <3>2
  <2>7. Len(s) = 1 \/ Len(s) > 1
    <3>1. PICK n : n = Len(s) /\ n \in Nat /\ n >= 1  BY <2>2
    <3> QED BY <3>1
  <2> QED BY <2>5, <2>6, <2>7
<1> QED BY <1>4, <1>5, <1>6

-----------------------------------------------------------------------------
(* What the steps put before the rest of the call. *)

Clean == {e \in Later : e.op \in Calm}
Usual == {e \in Later : e.op \notin Calm \cup Ends}

LEMMA TailOf ==
  ASSUME NEW S, NEW s \in Seq(S), s # <<>>
  PROVE  /\ Tail(s) \in Seq(S) /\ Len(Tail(s)) = Len(s) - 1 /\ Len(s) \in Nat \ {0}
         /\ \A i \in 1 .. Len(s) - 1 : Tail(s)[i] = s[i + 1]
         /\ Head(s) = s[1] /\ Head(s) \in S
BY HeadTailProperties

LEMMA JoinOf ==
  ASSUME NEW S, NEW s \in Seq(S), NEW t \in Seq(S)
  PROVE  /\ s \o t \in Seq(S) /\ Len(s \o t) = Len(s) + Len(t)
         /\ \A i \in 1 .. Len(s) : (s \o t)[i] = s[i]
         /\ \A i \in 1 .. Len(t) : (s \o t)[Len(s) + i] = t[i]
         /\ \A i \in 1 .. Len(s) + Len(t) : (s \o t)[i] = IF i <= Len(s) THEN s[i] ELSE t[i - Len(s)]
         /\ <<>> \o t = t /\ s \o <<>> = s
<1>1. /\ s \o t \in Seq(S) /\ Len(s \o t) = Len(s) + Len(t)
      /\ \A i \in 1 .. Len(s) + Len(t) : (s \o t)[i] = IF i <= Len(s) THEN s[i] ELSE t[i - Len(s)]
  BY ConcatProperties
<1>2. <<>> \o t = t /\ s \o <<>> = s  BY ConcatEmptySeq
<1>3. Len(s) \in Nat /\ Len(t) \in Nat  OBVIOUS
<1> QED BY <1>1, <1>2, <1>3

\* A rest that is in order, and whose head was taken off.
LEMMA Rest ==
  ASSUME NEW s \in Seq(Step), s # <<>>, Orderly(s), \A i \in 2 .. Len(s) : s[i] \in Later
  PROVE  /\ Tail(s) \in Seq(Later) /\ Orderly(Tail(s))
         /\ Head(s).op \notin Calm => Tail(s) \in Seq(Usual)
         /\ WipedFirst(s) /\ Head(s).op # "wipe" => WipedFirst(Tail(s))
<1>1. PICK t \in Seq(Step) : /\ t = Tail(s) /\ Len(t) = Len(s) - 1 /\ Len(s) \in Nat \ {0}
                             /\ \A i \in 1 .. Len(s) - 1 : t[i] = s[i + 1]
                             /\ Head(s) = s[1]
  BY TailOf
<1>2. \A i \in 1 .. Len(t) : i + 1 \in 2 .. Len(s) /\ t[i] = s[i + 1] /\ t[i] \in Later
  BY <1>1
<1>3. t \in Seq(Later)  BY <1>2, IsASeq
<1>4. Orderly(t)
  <2> SUFFICES ASSUME NEW i \in DOMAIN t, NEW j \in DOMAIN t, j < i, t[i].op \in Calm \cup Ends
               PROVE  t[j].op \in Calm
    BY DEF Orderly
  <2>1. i + 1 \in DOMAIN s /\ j + 1 \in DOMAIN s /\ j + 1 < i + 1  BY <1>1
  <2>2. i \in 1 .. Len(t) /\ j \in 1 .. Len(t)  BY <1>1
  <2>3. t[i] = s[i + 1] /\ t[j] = s[j + 1]  BY <1>2, <2>2
  <2> QED BY <2>1, <2>3 DEF Orderly
<1>5. ASSUME Head(s).op \notin Calm  PROVE t \in Seq(Usual)
  <2>1. ASSUME NEW i \in 1 .. Len(t)  PROVE t[i] \in Usual
    <3>1. 1 \in DOMAIN s /\ i + 1 \in DOMAIN s /\ 1 < i + 1  BY <1>1
    <3>2. s[i + 1].op \notin Calm \cup Ends  BY <1>1, <1>5, <3>1 DEF Orderly
    <3> QED BY <1>2, <3>2 DEF Usual
  <2> QED BY <2>1, IsASeq
<1>6. ASSUME WipedFirst(s), Head(s).op # "wipe"  PROVE WipedFirst(t)
  <2> SUFFICES ASSUME NEW i \in DOMAIN t, t[i].op \in Afterwards
               PROVE  \E j \in 1 .. i - 1 : t[j].op = "wipe"
    BY DEF WipedFirst
  <2>1. i + 1 \in DOMAIN s /\ s[i + 1].op \in Afterwards  BY <1>1, <1>2
  <2>2. PICK k \in 1 .. (i + 1) - 1 : s[k].op = "wipe"  BY <2>1, <1>6 DEF WipedFirst
  <2>3. k # 1  BY <1>1, <1>6, <2>2
  <2>4. k - 1 \in 1 .. i - 1 /\ k - 1 \in 1 .. Len(s) - 1 /\ (k - 1) + 1 = k
    BY <1>1, <2>2, <2>3
  <2>5. t[k - 1].op = "wipe"  BY <1>1, <2>2, <2>4
  <2> QED BY <2>4, <2>5
<1> QED BY <1>1, <1>3, <1>4, <1>5, <1>6

LEMMA Kinships == /\ Clean \subseteq Later /\ Usual \subseteq Later /\ Later \subseteq Step
                  /\ Afterwards \subseteq Calm \cup Ends
BY DEF Clean, Usual, Later, Afterwards, Calm, Ends

LEMMA UsualInOrder ==
  ASSUME NEW s \in Seq(Usual)
  PROVE  Orderly(s) /\ WipedFirst(s)
<1>1. \A i \in DOMAIN s : s[i].op \notin Calm \cup Ends  BY DEF Usual
<1> QED BY <1>1, Kinships DEF Orderly, WipedFirst

LEMMA CleanInOrder ==
  ASSUME NEW s \in Seq(Clean)
  PROVE  Orderly(s)
BY DEF Orderly, Clean

LEMMA Joined ==
  ASSUME NEW s \in Seq(Step), NEW t \in Seq(Step), Orderly(s), Orderly(t),
         s \in Seq(Clean) \/ t \in Seq(Usual)
  PROVE  Orderly(s \o t)
<1> DEFINE u == s \o t
<1>1. /\ u \in Seq(Step) /\ Len(u) = Len(s) + Len(t)
      /\ \A i \in 1 .. Len(s) : u[i] = s[i]
      /\ \A i \in 1 .. Len(t) : u[Len(s) + i] = t[i]
  BY JoinOf
<1>2. Len(s) \in Nat /\ Len(t) \in Nat  OBVIOUS
<1> HIDE DEF u
<1> SUFFICES ASSUME NEW i \in DOMAIN u, NEW j \in DOMAIN u, j < i, u[i].op \in Calm \cup Ends
             PROVE  u[j].op \in Calm
  BY DEF Orderly, u
<1>3. CASE i <= Len(s)
  <2>1. i \in DOMAIN s /\ j \in DOMAIN s  BY <1>1, <1>2, <1>3
  <2>2. i \in 1 .. Len(s) /\ j \in 1 .. Len(s)  BY <2>1
  <2>3. u[i] = s[i] /\ u[j] = s[j]  BY <1>1, <2>2
  <2>4. s[i].op \in Calm \cup Ends => s[j].op \in Calm  BY <2>1 DEF Orderly
  <2> QED BY <2>3, <2>4
<1>4. CASE i > Len(s)
  <2>1. i - Len(s) \in DOMAIN t /\ Len(s) + (i - Len(s)) = i  BY <1>1, <1>2, <1>4
  <2>2. u[i] = t[i - Len(s)]
    <3>1. PICK k \in 1 .. Len(t) : k = i - Len(s)  BY <2>1
    <3>2. u[Len(s) + k] = t[k]  BY <1>1
    <3>3. Len(s) + k = i  BY <2>1, <3>1
    <3> QED BY <3>1, <3>2, <3>3
  <2>3. CASE j <= Len(s)
    <3>1. j \in DOMAIN s /\ u[j] = s[j]  BY <1>1, <1>2, <2>3
    <3>2. t \notin Seq(Usual)  BY <2>1, <2>2 DEF Usual
    <3> QED BY <3>1, <3>2 DEF Clean
  <2>4. CASE j > Len(s)
    <3>1. j - Len(s) \in DOMAIN t /\ Len(s) + (j - Len(s)) = j  BY <1>1, <1>2, <2>4
    <3>2. u[j] = t[j - Len(s)] /\ j - Len(s) < i - Len(s)  BY <1>1, <1>2, <3>1
    <3> QED BY <2>1, <2>2, <3>1, <3>2 DEF Orderly
  <2> QED BY <1>1, <1>2, <2>3, <2>4
<1> QED BY <1>1, <1>2, <1>3, <1>4

LEMMA JoinedWiped ==
  ASSUME NEW s \in Seq(Step), NEW t \in Seq(Step), WipedFirst(s),
         WipedFirst(t) \/ \E i \in DOMAIN s : s[i].op = "wipe"
  PROVE  WipedFirst(s \o t)
<1> DEFINE u == s \o t
<1>1. /\ u \in Seq(Step) /\ Len(u) = Len(s) + Len(t)
      /\ \A i \in 1 .. Len(s) : u[i] = s[i]
      /\ \A i \in 1 .. Len(t) : u[Len(s) + i] = t[i]
  BY JoinOf
<1>2. Len(s) \in Nat /\ Len(t) \in Nat  OBVIOUS
<1> HIDE DEF u
<1> SUFFICES ASSUME NEW i \in DOMAIN u, u[i].op \in Afterwards
             PROVE  \E j \in 1 .. i - 1 : u[j].op = "wipe"
  BY DEF WipedFirst, u
<1>3. CASE i <= Len(s)
  <2>1. i \in DOMAIN s /\ u[i] = s[i]  BY <1>1, <1>2, <1>3
  <2>2. PICK k \in 1 .. i - 1 : s[k].op = "wipe"  BY <2>1 DEF WipedFirst
  <2>3. k \in 1 .. Len(s)  BY <1>2, <1>3, <2>1, <2>2
  <2> QED BY <1>1, <2>2, <2>3
<1>4. CASE i > Len(s)
  <2>1. i - Len(s) \in DOMAIN t /\ Len(s) + (i - Len(s)) = i  BY <1>1, <1>2, <1>4
  <2>2. u[i] = t[i - Len(s)]
    <3>1. PICK k \in 1 .. Len(t) : k = i - Len(s)  BY <2>1
    <3>2. u[Len(s) + k] = t[k]  BY <1>1
    <3>3. Len(s) + k = i  BY <2>1, <3>1
    <3> QED BY <3>1, <3>2, <3>3
  <2>3. CASE \E k \in DOMAIN s : s[k].op = "wipe"
    <3>1. PICK k \in DOMAIN s : s[k].op = "wipe"  BY <2>3
    <3>2. k \in 1 .. Len(s)  OBVIOUS
    <3>3. k \in 1 .. i - 1  BY <1>1, <1>2, <1>4, <3>2
    <3>4. u[k] = s[k]  BY <1>1, <3>2
    <3> QED BY <3>1, <3>3, <3>4
  <2>4. CASE WipedFirst(t)
    <3>1. PICK k \in 1 .. (i - Len(s)) - 1 : t[k].op = "wipe"
      BY <2>1, <2>2, <2>4 DEF WipedFirst
    <3>2. Len(s) + k \in 1 .. i - 1 /\ k \in 1 .. Len(t)  BY <1>1, <1>2, <2>1, <3>1
    <3>3. u[Len(s) + k].op = "wipe"  BY <1>1, <3>1, <3>2
    <3> QED BY <3>2, <3>3
  <2> QED BY <2>3, <2>4
<1> QED BY <1>1, <1>2, <1>3, <1>4

\* Steps that reset the connection and what may come after them.
Resetting(s) == /\ s \in Seq(Later) /\ Orderly(s) /\ WipedFirst(s)
                /\ \E i \in DOMAIN s : s[i].op = "wipe"

LEMMA Numbering == MaxRequests \in Nat /\ First \in Nat /\ 0 .. First \subseteq Nat
                   /\ None \in 0 .. First /\ First \in 0 .. First /\ Ids \subseteq 0 .. First
                   /\ First \notin Ids /\ None \notin Ids
BY ClientAssumption DEF ClientAssumption, First, None, Ids

LEMMA DoStep ==
  ASSUME NEW op \in Ops \ Walks
  PROVE  /\ Do(op) \in Step /\ Do(op).op = op
         /\ op \notin {"parting", "connect", "reply"} => Do(op) \in Later
BY Numbering DEF Do, Step, Later, Ops, Walks, Calm, Ends

LEMMA WalkStep ==
  /\ \A l \in {"requests", "pendings"} :
       /\ Walk("cancel", l) \in Clean /\ Walk("cancel", l).op = "cancel"
       /\ Walk("expire", l) \in Usual
  /\ Walk("flush", "requests") \in Usual
BY Numbering DEF Walk, Step, Later, Clean, Usual, Ops, Walks, Calm, Ends

LEMMA OneStep ==
  ASSUME NEW e \in Step
  PROVE  /\ <<e>> \in Seq(Step) /\ Len(<<e>>) = 1 /\ <<e>>[1] = e /\ Orderly(<<e>>)
         /\ e \in Later => <<e>> \in Seq(Later)
         /\ e \in Clean => <<e>> \in Seq(Clean)
         /\ e \in Usual => <<e>> \in Seq(Usual)
         /\ e.op \notin Afterwards => WipedFirst(<<e>>)
BY DEF Orderly, WipedFirst

LEMMA ResetSteps == Reset \in Seq(Clean) /\ Resetting(Reset)
<1> DEFINE a == Do("shut")
           b == Do("wipe")
           c == Walk("cancel", "requests")
           d == Walk("cancel", "pendings")
           e == Do("drop")
           f == Do("clear")
<1>1. /\ {a, b, c, d, e, f} \subseteq Clean
      /\ a.op = "shut" /\ b.op = "wipe" /\ c.op = "cancel" /\ d.op = "cancel" /\ e.op = "drop"
      /\ f.op = "clear"
  BY DoStep, WalkStep DEF Clean, Ops, Walks, Calm, Ends
<1>2. Reset = <<a, b, c, d, e, f>>
  BY DEF Reset
<1> HIDE DEF a, b, c, d, e, f
<1>3. Reset \in Seq(Clean) /\ DOMAIN Reset = 1 .. 6 /\ Reset[1] = a /\ Reset[2] = b
  BY <1>1, <1>2
<1>4. WipedFirst(Reset)
  <2>1. \A i \in 1 .. 6 : i # 1 /\ i # 2 => 2 \in 1 .. i - 1  OBVIOUS
  <2>2. a.op \notin Afterwards /\ b.op \notin Afterwards  BY <1>1 DEF Afterwards
  <2> QED BY <1>1, <1>3, <2>1, <2>2 DEF WipedFirst
<1>5. Orderly(Reset) /\ Reset \in Seq(Later)
  BY <1>3, CleanInOrder, Kinships, SeqMonotonic
<1>6. 2 \in DOMAIN Reset  BY <1>3
<1> QED BY <1>1, <1>3, <1>4, <1>5, <1>6 DEF Resetting

LEMMA OutSteps == Out \in Seq(Usual) /\ Poll \in Seq(Usual)
<1>1. {Do("out"), Do("ping"), Do("poll")} \subseteq Usual
  BY DoStep DEF Usual, Ops, Walks, Calm, Ends
<1>2. Out \in Seq(Usual)
  BY <1>1, WalkStep DEF Out
<1>3. <<Do("poll")>> \in Seq(Usual)  BY <1>1
<1> QED BY <1>2, <1>3, ConcatProperties DEF Poll

\* What resets may be followed by what does.
LEMMA ResettingJoin ==
  ASSUME NEW s \in Seq(Clean), NEW t \in Seq(Later), Resetting(s), Orderly(t)
  PROVE  Resetting(s \o t)
<1>1. s \in Seq(Later) /\ s \in Seq(Step) /\ t \in Seq(Step)
  BY Kinships, SeqMonotonic
<1>2. s \o t \in Seq(Later)  BY <1>1, ConcatProperties
<1>3. Orderly(s \o t)  BY <1>1, Joined DEF Resetting
<1>4. WipedFirst(s \o t)  BY <1>1, JoinedWiped DEF Resetting
<1>5. \E i \in DOMAIN (s \o t) : (s \o t)[i].op = "wipe"
  <2>1. PICK i \in DOMAIN s : s[i].op = "wipe"  BY DEF Resetting
  <2>2. i \in DOMAIN (s \o t) /\ (s \o t)[i] = s[i]  BY <1>1, JoinOf
  <2> QED BY <2>1, <2>2
<1> QED BY <1>2, <1>3, <1>4, <1>5 DEF Resetting

LEMMA UsualAfter ==
  ASSUME NEW s \in Seq(Later), NEW t \in Seq(Usual), Resetting(s)
  PROVE  Resetting(s \o t)
<1>1. s \in Seq(Step) /\ t \in Seq(Step) /\ t \in Seq(Later)
  BY Kinships, SeqMonotonic
<1>2. s \o t \in Seq(Later)  BY <1>1, ConcatProperties
<1>3. Orderly(s \o t)  BY <1>1, Joined, UsualInOrder DEF Resetting
<1>4. WipedFirst(s \o t)  BY <1>1, JoinedWiped DEF Resetting
<1>5. \E i \in DOMAIN (s \o t) : (s \o t)[i].op = "wipe"
  <2>1. PICK i \in DOMAIN s : s[i].op = "wipe"  BY DEF Resetting
  <2>2. i \in DOMAIN (s \o t) /\ (s \o t)[i] = s[i]  BY <1>1, JoinOf
  <2> QED BY <2>1, <2>2
<1> QED BY <1>2, <1>3, <1>4, <1>5 DEF Resetting

LEMMA FirstTold ==
  ASSUME NEW s \in Seq(Later), NEW e \in Later, Resetting(s), e.op \in Calm \ Afterwards
  PROVE  Resetting(<<e>> \o s)
<1>1. /\ e \in Step /\ e \in Clean /\ <<e>> \in Seq(Clean) /\ <<e>> \in Seq(Step)
      /\ <<e>> \in Seq(Later) /\ WipedFirst(<<e>>) /\ Orderly(<<e>>)
  BY OneStep, Kinships DEF Clean
<1>2. s \in Seq(Step)  BY Kinships, SeqMonotonic
<1>3. <<e>> \o s \in Seq(Later)  BY <1>1, ConcatProperties
<1>4. Orderly(<<e>> \o s)  BY <1>1, <1>2, Joined DEF Resetting
<1>5. WipedFirst(<<e>> \o s)  BY <1>1, <1>2, JoinedWiped DEF Resetting
<1>6. \E i \in DOMAIN (<<e>> \o s) : (<<e>> \o s)[i].op = "wipe"
  <2>1. PICK i \in 1 .. Len(s) : s[i].op = "wipe"  BY DEF Resetting
  <2>2. Len(<<e>>) + i \in DOMAIN (<<e>> \o s) /\ (<<e>> \o s)[Len(<<e>>) + i] = s[i]
    BY <1>1, <1>2, JoinOf
  <2> QED BY <2>1, <2>2
<1> QED BY <1>3, <1>4, <1>5, <1>6 DEF Resetting

LEMMA RefusedSteps ==
  /\ Refused \in Seq(Clean) /\ Resetting(Refused)
  /\ GivenUp \in Seq(Later) /\ Resetting(GivenUp)
<1>1. /\ Do("refuse") \in Later /\ Do("refuse").op = "refuse" /\ Do("refuse") \in Clean
      /\ Do("fallback") \in Later /\ Do("fallback") \in Clean /\ Do("giveup") \in Later
      /\ "refuse" \in Calm \ Afterwards
  BY DoStep DEF Clean, Ops, Walks, Calm, Ends, Afterwards
<1> DEFINE r == <<Do("refuse")>> \o Reset
<1>2. r \in Seq(Clean) /\ Resetting(r)
  <2>1. <<Do("refuse")>> \in Seq(Clean)  BY <1>1
  <2> QED BY <1>1, <2>1, ResetSteps, FirstTold, ConcatProperties DEF Resetting
<1> HIDE DEF r
<1>3. /\ <<Do("fallback")>> \in Seq(Clean) /\ <<Do("fallback")>> \in Seq(Later)
      /\ <<Do("giveup")>> \in Seq(Later)
      /\ Orderly(<<Do("fallback")>>) /\ Orderly(<<Do("giveup")>>)
  BY <1>1, OneStep, Kinships
<1>4. r \o <<Do("fallback")>> \in Seq(Clean) /\ Resetting(r \o <<Do("fallback")>>)
  BY <1>2, <1>3, ResettingJoin, ConcatProperties
<1>5. Resetting(r \o <<Do("giveup")>>)
  BY <1>2, <1>3, ResettingJoin
<1> QED BY <1>4, <1>5 DEF Refused, GivenUp, Resetting, r

LEMMA WholeSteps ==
  /\ Resetting(Reset \o <<Do("dial")>> \o Poll)
  /\ Resetting(Reset \o <<Do("lost")>> \o Out)
  /\ Resetting(<<Do("refuse")>> \o Reset \o <<Do("fail")>>)
  /\ Resetting(GivenUp \o Out)
  /\ Resetting(Reset \o <<Do("fallback")>> \o Out)
<1>1. \A op \in {"dial", "lost", "fail", "fallback"} :
         <<Do(op)>> \in Seq(Later) /\ Orderly(<<Do(op)>>)
  <2>1. ASSUME NEW op \in {"dial", "lost", "fail", "fallback"}
        PROVE  <<Do(op)>> \in Seq(Later) /\ Orderly(<<Do(op)>>)
    <3>1. Do(op) \in Later /\ Do(op) \in Step
      BY DoStep DEF Ops, Walks, Calm, Ends
    <3> QED BY <3>1, OneStep
  <2> QED BY <2>1
<1>2. \A op \in {"dial", "lost", "fail", "fallback"} : Resetting(Reset \o <<Do(op)>>)
  BY <1>1, ResetSteps, ResettingJoin
<1>3. \A op \in {"dial", "lost", "fail", "fallback"} : Reset \o <<Do(op)>> \in Seq(Later)
  BY <1>2 DEF Resetting
<1>4. /\ Resetting((Reset \o <<Do("dial")>>) \o Poll)
      /\ Resetting((Reset \o <<Do("lost")>>) \o Out)
      /\ Resetting((Reset \o <<Do("fallback")>>) \o Out)
      /\ Resetting(GivenUp \o Out)
  BY <1>2, <1>3, OutSteps, UsualAfter, RefusedSteps
<1>5. Resetting((<<Do("refuse")>> \o Reset) \o <<Do("fail")>>)
  <2>1. <<Do("refuse")>> \in Seq(Clean) /\ Do("refuse") \in Later /\ Do("refuse").op = "refuse"
    <3>1. Do("refuse") \in Clean /\ Do("refuse") \in Later /\ Do("refuse").op = "refuse"
      BY DoStep DEF Clean, Ops, Walks, Calm, Ends
    <3> QED BY <3>1
  <2>2. Resetting(<<Do("refuse")>> \o Reset)
    BY <2>1, ResetSteps, FirstTold DEF Resetting, Calm, Afterwards
  <2>3. <<Do("refuse")>> \o Reset \in Seq(Clean)
    BY <2>1, ResetSteps, ConcatProperties
  <2> QED BY <2>2, <2>3, <1>1, ResettingJoin
<1> QED BY <1>4, <1>5

LEMMA SameOps ==
  ASSUME NEW s \in Seq(Step), NEW t \in Seq(Step), Len(s) = Len(t),
         \A i \in 1 .. Len(s) : s[i].op = t[i].op
  PROVE  (Orderly(s) => Orderly(t)) /\ (WipedFirst(s) => WipedFirst(t))
<1>1. DOMAIN s = DOMAIN t /\ DOMAIN s = 1 .. Len(s) /\ Len(s) \in Nat  OBVIOUS
<1>2. Orderly(s) => Orderly(t)  BY <1>1 DEF Orderly
<1>3. ASSUME WipedFirst(s)  PROVE WipedFirst(t)
  <2> SUFFICES ASSUME NEW i \in DOMAIN t, t[i].op \in Afterwards
               PROVE  \E j \in 1 .. i - 1 : t[j].op = "wipe"
    BY DEF WipedFirst
  <2>1. PICK j \in 1 .. i - 1 : s[j].op = "wipe"  BY <1>1, <1>3 DEF WipedFirst
  <2>2. j \in 1 .. Len(s)  BY <1>1, <2>1
  <2> QED BY <2>1, <2>2
<1> QED BY <1>2, <1>3

\* The rest of the call after some steps were put before it.
LEMMA Regroup ==
  ASSUME NEW a \in Seq(Step), NEW b \in Seq(Step), NEW c \in Seq(Step)
  PROVE  (a \o b) \o c = a \o (b \o c)
BY ConcatAssociative

LEMMA PopScript ==
  ASSUME todo \in Seq(Step), Script, todo # <<>>, Become(<<>>),
         socket' = socket \/ socket' = "none", top.op = "wipe" => socket' = "none"
  PROVE  todo' \in Seq(Step) /\ Script'
<1>1. /\ Tail(todo) \in Seq(Later) /\ Orderly(Tail(todo))
      /\ WipedFirst(todo) /\ Head(todo).op # "wipe" => WipedFirst(Tail(todo))
  BY Rest DEF Script
<1>2. todo' = Tail(todo)
  BY <1>1, ConcatEmptySeq DEF Become
<1>3. todo' \in Seq(Step) /\ \A i \in 2 .. Len(todo') : todo'[i] \in Later
  BY <1>1, <1>2, Kinships, SeqMonotonic
<1> QED BY <1>1, <1>2, <1>3 DEF Script, top

LEMMA PutScript ==
  ASSUME todo \in Seq(Step), Script, todo # <<>>, top.op \notin Calm,
         NEW s \in Seq(Step), \A i \in 2 .. Len(s) : s[i] \in Later, Orderly(s), WipedFirst(s),
         Become(s)
  PROVE  todo' \in Seq(Step) /\ Script'
<1>1. Tail(todo) \in Seq(Usual)  BY Rest DEF Script, top
<1>2. Tail(todo) \in Seq(Step) /\ Tail(todo) \in Seq(Later)
  BY <1>1, Kinships, SeqMonotonic
<1>3. PICK t \in Seq(Step) : t = Tail(todo)  BY <1>2
<1>4. todo' = s \o t  BY <1>3 DEF Become
<1>5. Orderly(s \o t) /\ WipedFirst(s \o t)
  BY <1>1, <1>3, UsualInOrder, Joined, JoinedWiped
<1>6. \A i \in 2 .. Len(s \o t) : (s \o t)[i] \in Later
  <2> SUFFICES ASSUME NEW i \in 2 .. Len(s \o t)  PROVE (s \o t)[i] \in Later
    OBVIOUS
  <2>1. /\ Len(s) \in Nat /\ Len(t) \in Nat /\ i \in 1 .. Len(s) + Len(t)
        /\ (s \o t)[i] = IF i <= Len(s) THEN s[i] ELSE t[i - Len(s)]
    BY JoinOf
  <2>2. CASE i <= Len(s)  BY <2>1, <2>2
  <2>3. CASE i > Len(s)
    <3>1. i - Len(s) \in 1 .. Len(t) /\ ~ (i <= Len(s))  BY <2>1, <2>3
    <3>2. t[i - Len(s)] \in Later  BY <1>2, <1>3, <3>1
    <3> QED BY <2>1, <3>1, <3>2
  <2> QED BY <2>1, <2>2, <2>3
<1> QED BY <1>4, <1>5, <1>6, JoinOf DEF Script

LEMMA GotoScript ==
  ASSUME NEW s \in Seq(Step), \A i \in 2 .. Len(s) : s[i] \in Later, Orderly(s), WipedFirst(s),
         Goto(s)
  PROVE  todo' \in Seq(Step) /\ Script'
BY DEF Goto, Script

\* A walk that goes on, or a parse loop, with the steps of a reset before it.
LEMMA AgainScript ==
  ASSUME todo \in Seq(Step), Script, todo # <<>>, socket' = socket,
         NEW c, NEW e \in Step, e.op = top.op,
         c = <<>> \/ (c \in Seq(Clean) /\ Resetting(c) /\ e \in Later),
         Become(c \o <<e>>)
  PROVE  todo' \in Seq(Step) /\ Script'
<1>1. /\ Tail(todo) \in Seq(Later) /\ Len(Tail(todo)) = Len(todo) - 1
      /\ \A i \in 1 .. Len(todo) - 1 : Tail(todo)[i] = todo[i + 1]
      /\ Len(todo) \in Nat \ {0} /\ Head(todo) = todo[1]
  BY Rest, TailOf DEF Script
<1>2. PICK t \in Seq(Later) : t = Tail(todo)  BY <1>1
<1>3. t \in Seq(Step) /\ <<e>> \in Seq(Step)  BY Kinships, SeqMonotonic
<1> DEFINE u == <<e>> \o t
<1>4. /\ u \in Seq(Step) /\ Len(u) = Len(todo)
      /\ \A i \in 1 .. Len(u) : u[i] = IF i = 1 THEN e ELSE t[i - 1]
  <2>1. /\ u \in Seq(Step) /\ Len(u) = Len(<<e>>) + Len(t)
        /\ \A i \in 1 .. Len(<<e>>) + Len(t) :
             u[i] = IF i <= Len(<<e>>) THEN <<e>>[i] ELSE t[i - Len(<<e>>)]
    BY <1>3, JoinOf
  <2> HIDE DEF u
  <2>2. Len(<<e>>) = 1 /\ <<e>>[1] = e  OBVIOUS
  <2> QED BY <1>1, <1>2, <2>1, <2>2
<1> HIDE DEF u
<1>5. \A i \in 2 .. Len(u) : u[i] \in Later
  <2> SUFFICES ASSUME NEW i \in 2 .. Len(u)  PROVE u[i] \in Later
    OBVIOUS
  <2>1. i - 1 \in 1 .. Len(t) /\ i # 1 /\ i \in 1 .. Len(u)  BY <1>1, <1>2, <1>4
  <2>2. u[i] = t[i - 1]  BY <1>4, <2>1
  <2>3. t[i - 1] \in Later  BY <1>2, <2>1
  <2> QED BY <2>2, <2>3
<1>6. \A i \in 1 .. Len(todo) : todo[i].op = u[i].op
  <2> SUFFICES ASSUME NEW i \in 1 .. Len(todo)  PROVE todo[i].op = u[i].op
    OBVIOUS
  <2>1. CASE i = 1  BY <1>1, <1>4, <2>1 DEF top
  <2>2. CASE i # 1
    <3>1. i - 1 \in 1 .. Len(todo) - 1 /\ (i - 1) + 1 = i  BY <1>1, <2>2
    <3>2. t[i - 1] = todo[i]  BY <1>1, <1>2, <3>1
    <3> QED BY <1>1, <1>4, <2>2, <3>2
  <2> QED BY <2>1, <2>2
<1>7. Orderly(u) /\ (WipedFirst(todo) => WipedFirst(u))
  BY <1>4, <1>6, SameOps DEF Script
<1>8. CASE c = <<>>
  <2>1. todo' = u
    BY <1>2, <1>3, <1>8, ConcatEmptySeq DEF Become, u
  <2> QED BY <1>4, <1>5, <1>7, <2>1 DEF Script
<1>9. CASE c \in Seq(Clean) /\ Resetting(c) /\ e \in Later
  <2>1. c \in Seq(Step) /\ c \in Seq(Later)  BY <1>9, Kinships, SeqMonotonic
  <2>2. todo' = c \o u
    <3>1. PICK d \in Seq(Step) : d = <<e>>  BY <1>3
    <3>2. (c \o d) \o t = c \o (d \o t)
      BY SMTT(30), <1>3, <2>1, Regroup
    <3>3. todo' = (c \o d) \o t  BY <1>2, <3>1 DEF Become
    <3> QED BY <3>1, <3>2, <3>3 DEF u
  <2>3. <<e>> \in Seq(Later) /\ u \in Seq(Later)
    <3>1. <<e>> \in Seq(Later)  BY <1>9
    <3> QED BY <1>2, <3>1, ConcatProperties DEF u
  <2>4. c \o u \in Seq(Later) /\ c \o u \in Seq(Step)
    BY <2>1, <2>3, <1>4, ConcatProperties
  <2>5. Orderly(c \o u)  BY <1>4, <1>7, <1>9, <2>1, Joined DEF Resetting
  <2>6. socket = "none" \/ WipedFirst(c \o u)
    BY <1>4, <1>7, <1>9, <2>1, JoinedWiped DEF Resetting, Script
  <2>7. \A i \in 2 .. Len(c \o u) : (c \o u)[i] \in Later
    BY <2>4
  <2> QED BY <2>2, <2>4, <2>5, <2>6, <2>7 DEF Script
<1> QED BY <1>8, <1>9

-----------------------------------------------------------------------------
(* Each step of mbus_client_run leaves a script that is in order. *)

LEMMA Walking ==
  ASSUME Typed, todo # <<>>, top.op \in Walks
  PROVE  /\ top \in Step /\ List(top.list) \in Seq(Ids) /\ top.list \in {"requests", "pendings"}
         /\ top.list = "requests" \/ top.op # "flush"
         /\ Current \in Ids \cup {None}
         /\ \A r : \E e \in Step : /\ Onwards(r) = <<e>> /\ e.op = top.op /\ e.list = top.list
                                   /\ e.next = IF r \in ToSet(List(top.list))
                                               THEN Following(List(top.list), r) ELSE None
<1>1. top \in Step  BY TailOf DEF top, Typed
<1>2. top.list \in {"requests", "pendings"} /\ (top.op = "flush" => top.list = "requests")
  BY <1>1 DEF Step
<1>3. List(top.list) \in Seq(Ids)  BY DEF Typed, List
<1>4. Current \in Ids \cup {None}
  <2>1. top.next \in 0 .. First  BY <1>1 DEF Step
  <2>2. top.next # First => top.next \in Ids \cup {None}
    BY <2>1, ClientAssumption DEF ClientAssumption, First, Ids, None
  <2>3. List(top.list) # <<>> => Head(List(top.list)) \in Ids
    BY <1>3, TailOf
  <2> QED BY <2>2, <2>3 DEF Current
<1>5. ASSUME NEW r
      PROVE  \E e \in Step : /\ Onwards(r) = <<e>> /\ e.op = top.op /\ e.list = top.list
                             /\ e.next = IF r \in ToSet(List(top.list))
                                         THEN Following(List(top.list), r) ELSE None
  <2> DEFINE n == IF r \in ToSet(List(top.list)) THEN Following(List(top.list), r) ELSE None
             e == [top EXCEPT !.next = n]
  <2>1. n \in 0 .. First
    <3>1. r \in ToSet(List(top.list)) => Following(List(top.list), r) \in ToSet(List(top.list)) \cup {None}
      BY <1>3, Follower
    <3>2. ToSet(List(top.list)) \subseteq Ids  BY <1>3 DEF ToSet
    <3> QED BY <3>1, <3>2, Numbering
  <2> HIDE DEF n
  <2>2. e \in Step /\ e.op = top.op /\ e.list = top.list /\ e.next = n
    BY <1>1, <2>1 DEF Step, Walks
  <2>3. Onwards(r) = <<e>>  BY DEF Onwards, n
  <2> QED BY <2>2, <2>3 DEF n
<1> QED BY <1>1, <1>2, <1>3, <1>4, <1>5

LEMMA EndScript ==
  ASSUME Typed, Script, todo # <<>>, top.op \in {"cancel", "expire"}, socket' = socket,
         NEW r, EndUnanswered(r)
  PROVE  todo' \in Seq(Step) /\ Script'
<1>1. top.op \in Walks  BY DEF Walks
<1>2. PICK e \in Step : Onwards(r) = <<e>> /\ e.op = top.op
  BY <1>1, Walking
<1>3. e \in Later  BY <1>2 DEF Later
<1> DEFINE c == IF made[r].kind = "create" THEN Refused ELSE <<>>
<1>4. c = <<>> \/ (c \in Seq(Clean) /\ Resetting(c) /\ e \in Later)
  BY <1>3, RefusedSteps
<1>5. Become(c \o <<e>>)  BY <1>2 DEF EndUnanswered
<1> HIDE DEF c
<1> QED BY <1>2, <1>4, <1>5, AgainScript DEF Typed

LEMMA StepsOf ==
  /\ \A op \in Ops \ Walks :
       /\ Do(op) \in Step /\ Do(op).op = op /\ Do(op).next = None
       /\ op \notin {"parting", "connect", "reply"} => Do(op) \in Later
  /\ \A op : At(op) => todo # <<>> /\ top.op = op
BY DoStep DEF At, Do

\* Steps that are over when they are done.
LEMMA OverScript ==
  ASSUME Typed, Script,
         \/ Shut \/ Clear \/ Refuse \/ Fallback \/ GiveUp \/ Lost \/ Parting \/ ParsedAll
         \/ Wipe
  PROVE  todo' \in Seq(Step) /\ Script'
<1>1. CASE Wipe  BY <1>1, PopScript, StepsOf DEF Wipe, Typed
<1>2. CASE Shut  BY <1>2, PopScript, StepsOf DEF Shut, Typed
<1>3. CASE Clear  BY <1>3, PopScript, StepsOf DEF Clear, Typed
<1>4. CASE Refuse  BY <1>4, PopScript, StepsOf DEF Refuse, Typed
<1>5. CASE Fallback  BY <1>5, PopScript, StepsOf DEF Fallback, Typed
<1>6. CASE GiveUp  BY <1>6, PopScript, StepsOf DEF GiveUp, Typed
<1>7. CASE Lost  BY <1>7, PopScript, StepsOf DEF Lost, Typed
<1>8. CASE Parting  BY <1>8, PopScript, StepsOf DEF Parting, Typed
<1>9. CASE ParsedAll  BY <1>9, PopScript, StepsOf DEF ParsedAll, Typed
<1> QED BY <1>1, <1>2, <1>3, <1>4, <1>5, <1>6, <1>7, <1>8, <1>9

LEMMA WalkScript ==
  ASSUME Typed, Script, Cancel \/ TimeOut \/ Flush
  PROVE  todo' \in Seq(Step) /\ Script'
<1>1. CASE Cancel
  <2>1. At("cancel") /\ todo # <<>> /\ top.op = "cancel" /\ socket' = socket
    BY <1>1, StepsOf DEF Cancel
  <2>2. Become(<<>>) \/ EndUnanswered(Current)  BY <1>1 DEF Cancel
  <2> QED BY <2>1, <2>2, PopScript, EndScript DEF Typed
<1>2. CASE TimeOut
  <2>1. At("expire") /\ todo # <<>> /\ top.op = "expire" /\ socket' = socket
    BY <1>2, StepsOf DEF TimeOut
  <2>2. Become(<<>>) \/ EndUnanswered(Current) \/ Become(Onwards(Current))
    BY <1>2 DEF TimeOut
  <2>3. ASSUME Become(Onwards(Current))  PROVE todo' \in Seq(Step) /\ Script'
    <3>1. PICK e \in Step : Onwards(Current) = <<e>> /\ e.op = top.op
      BY <2>1, Walking DEF Walks
    <3>2. Become(<<>> \o <<e>>)
      BY <2>3, <3>1, ConcatEmptySeq DEF Become
    <3> QED BY <2>1, <3>1, <3>2, AgainScript DEF Typed
  <2> QED BY <2>1, <2>2, <2>3, PopScript, EndScript DEF Typed
<1>3. CASE Flush
  <2>1. At("flush") /\ todo # <<>> /\ top.op = "flush" /\ socket' = socket
    BY <1>3, StepsOf DEF Flush
  <2>2. Become(<<>>) \/ Become(Onwards(Current))
    BY <1>3 DEF Flush
  <2>3. ASSUME Become(Onwards(Current))  PROVE todo' \in Seq(Step) /\ Script'
    <3>1. PICK e \in Step : Onwards(Current) = <<e>> /\ e.op = top.op
      BY <2>1, Walking DEF Walks
    <3>2. Become(<<>> \o <<e>>)
      BY <2>3, <3>1, ConcatEmptySeq DEF Become
    <3> QED BY <2>1, <3>1, <3>2, AgainScript DEF Typed
  <2> QED BY <2>1, <2>2, <2>3, PopScript DEF Typed
<1> QED BY <1>1, <1>2, <1>3

\* Steps that take the place of the rest, or come before it.
LEMMA NewScript ==
  ASSUME Typed, Script, NEW s, Goto(s) \/ (todo # <<>> /\ top.op \notin Calm /\ Become(s)),
         \/ Resetting(s)
         \/ s \in Seq(Usual)
         \/ \E op \in Ops \ Walks : op \notin Afterwards /\ s = <<Do(op)>>
  PROVE  todo' \in Seq(Step) /\ Script'
<1>1. /\ s \in Seq(Step) /\ (\A i \in 2 .. Len(s) : s[i] \in Later) /\ Orderly(s)
      /\ WipedFirst(s)
  <2>1. CASE Resetting(s)
    <3>1. s \in Seq(Later) /\ s \in Seq(Step)
      BY <2>1, Kinships, SeqMonotonic DEF Resetting
    <3>2. \A i \in 2 .. Len(s) : s[i] \in Later  BY <3>1
    <3> QED BY <2>1, <3>1, <3>2 DEF Resetting
  <2>2. CASE s \in Seq(Usual)
    <3>1. s \in Seq(Later) /\ s \in Seq(Step)  BY <2>2, Kinships, SeqMonotonic
    <3>2. \A i \in 2 .. Len(s) : s[i] \in Later  BY <3>1
    <3> QED BY <2>2, <3>1, <3>2, UsualInOrder
  <2>3. ASSUME NEW op \in Ops \ Walks, op \notin Afterwards, s = <<Do(op)>>
        PROVE  /\ s \in Seq(Step) /\ (\A i \in 2 .. Len(s) : s[i] \in Later) /\ Orderly(s)
               /\ WipedFirst(s)
    <3>1. Do(op) \in Step /\ Do(op).op = op  BY StepsOf
    <3>2. PICK e \in Step : e = Do(op) /\ e.op \notin Afterwards  BY <2>3, <3>1
    <3> QED BY <2>3, <3>2, OneStep
  <2> QED BY <2>1, <2>2, <2>3
<1>2. CASE Goto(s)  BY <1>1, <1>2, GotoScript
<1>3. CASE todo # <<>> /\ top.op \notin Calm /\ Become(s)
  BY <1>1, <1>3, PutScript DEF Typed
<1> QED BY <1>2, <1>3

LEMMA PlainOps ==
  /\ \A op \in {"dial", "lost", "giveup", "fail", "connect", "poll", "polled", "read", "write",
                "parse", "reply", "out", "ping", "expire", "flush"} : op \notin Calm /\ op # "wipe"
  /\ \A op \in {"connect", "polled", "read", "write", "parse", "reply", "fail", "refuse"} :
       op \in Ops \ Walks /\ op \notin Afterwards
BY DEF Calm, Ops, Walks, Afterwards, Ends

LEMMA Empty == <<>> \in Seq(Usual)
BY EmptySeq

LEMMA ConnectScript ==
  ASSUME Typed, Script, Run \/ Dial \/ Connecting \/ Wait \/ Polled \/ Fail
  PROVE  todo' \in Seq(Step) /\ Script'
<1>1. CASE Run
  <2>1. \/ Goto(Reset \o <<Do("dial")>> \o Poll) \/ Goto(Poll) \/ Goto(Out)
        \/ Goto(Reset \o <<Do("lost")>> \o Out)
    BY <1>1 DEF Run
  <2> QED BY <2>1, NewScript, WholeSteps, OutSteps
<1>2. CASE Dial
  <2>1. todo # <<>> /\ top.op = "dial" /\ Become(<<Do("connect")>>)
    BY <1>2, StepsOf DEF Dial
  <2> QED BY <2>1, NewScript, PlainOps
<1>3. CASE Connecting
  <2>1. todo # <<>> /\ top.op = "connect"  BY <1>3, StepsOf DEF Connecting
  <2>2. \/ Become(<<>>) \/ Become(GivenUp)
        \/ Goto(<<Do("refuse")>> \o Reset \o <<Do("fail")>>)
    BY <1>3 DEF Connecting, Created
  <2> QED BY <2>1, <2>2, NewScript, PlainOps, WholeSteps, RefusedSteps, Empty
<1>4. CASE Wait
  <2>1. todo # <<>> /\ top.op = "poll" /\ Become(<<Do("polled")>>)
    BY <1>4, StepsOf DEF Wait
  <2> QED BY <2>1, NewScript, PlainOps
<1>5. CASE Polled
  <2>1. todo # <<>> /\ top.op = "polled"  BY <1>5, StepsOf DEF Polled
  <2>2. Become(<<>>) \/ Become(<<Do("read"), Do("write"), Do("parse")>>)
    BY <1>5 DEF Polled
  <2>3. <<Do("read"), Do("write"), Do("parse")>> \in Seq(Usual)
    <3>1. {Do("read"), Do("write"), Do("parse")} \subseteq Usual
      BY DoStep DEF Usual, Ops, Walks, Calm, Ends
    <3> QED BY <3>1
  <2> QED BY <2>1, <2>2, <2>3, NewScript, PlainOps, Empty
<1>6. CASE Fail
  <2>1. Goto(<<>>)  BY <1>6 DEF Fail
  <2> QED BY <2>1, NewScript, Empty
<1> QED BY <1>1, <1>2, <1>3, <1>4, <1>5, <1>6

LEMMA TwoSteps ==
  /\ \A i \in 2 .. Len(<<Do("refuse"), Do("fail")>>) : <<Do("refuse"), Do("fail")>>[i] \in Later
  /\ <<Do("refuse"), Do("fail")>> \in Seq(Step)
  /\ Orderly(<<Do("refuse"), Do("fail")>>) /\ WipedFirst(<<Do("refuse"), Do("fail")>>)
  /\ \A i \in 2 .. Len(<<Do("reply"), Do("parse")>>) : <<Do("reply"), Do("parse")>>[i] \in Later
  /\ <<Do("reply"), Do("parse")>> \in Seq(Step)
  /\ Orderly(<<Do("reply"), Do("parse")>>) /\ WipedFirst(<<Do("reply"), Do("parse")>>)
<1>1. /\ {Do("refuse"), Do("fail"), Do("reply"), Do("parse")} \subseteq Step
      /\ Do("fail") \in Later /\ Do("parse") \in Later
      /\ Do("refuse").op = "refuse" /\ Do("fail").op = "fail" /\ Do("reply").op = "reply"
      /\ Do("parse").op = "parse"
  BY StepsOf, PlainOps
<1> DEFINE a == Do("refuse")
           b == Do("fail")
           c == Do("reply")
           d == Do("parse")
<1>2. /\ {a, b, c, d} \subseteq Step /\ b \in Later /\ d \in Later
      /\ a.op = "refuse" /\ b.op = "fail" /\ c.op = "reply" /\ d.op = "parse"
  BY <1>1
<1> HIDE DEF a, b, c, d
<1>3. /\ \A i \in 2 .. Len(<<a, b>>) : <<a, b>>[i] \in Later
      /\ <<a, b>> \in Seq(Step)
      /\ \A i \in 2 .. Len(<<c, d>>) : <<c, d>>[i] \in Later
      /\ <<c, d>> \in Seq(Step)
  BY <1>2
<1>4. Orderly(<<a, b>>) /\ Orderly(<<c, d>>)
  BY <1>2 DEF Orderly, Calm, Ends
<1>5. WipedFirst(<<a, b>>) /\ WipedFirst(<<c, d>>)
  BY <1>2 DEF WipedFirst, Afterwards
<1> QED BY <1>3, <1>4, <1>5 DEF a, b, c, d

LEMMA WriteScript ==
  ASSUME Typed, Script, Read \/ Complete \/ Write \/ Reply \/ TakeTime
  PROVE  todo' \in Seq(Step) /\ Script'
<1>1. CASE Read
  <2>1. todo # <<>> /\ top.op = "read"  BY <1>1, StepsOf DEF Read
  <2>2. Become(<<>>) \/ Goto(Reset \o <<Do("lost")>> \o Out)  BY <1>1 DEF Read
  <2> QED BY <2>1, <2>2, NewScript, PlainOps, WholeSteps, Empty
<1>2. CASE Complete
  <2>1. todo # <<>> /\ top.op = "write"  BY <1>2, StepsOf DEF Complete
  <2>2. \/ Become(<<>>) \/ Goto(<<Do("fail")>>) \/ Goto(GivenUp \o Out)
        \/ Goto(<<Do("refuse"), Do("fail")>>)
    BY <1>2 DEF Complete, Created
  <2>3. ASSUME Goto(<<Do("refuse"), Do("fail")>>)  PROVE todo' \in Seq(Step) /\ Script'
    BY <2>3, TwoSteps, GotoScript
  <2> QED BY <2>1, <2>2, <2>3, NewScript, PlainOps, WholeSteps, Empty
<1>3. CASE Write
  <2>1. todo # <<>> /\ top.op = "write"  BY <1>3, StepsOf DEF Write
  <2>2. Become(<<>>) \/ Goto(<<>>)  BY <1>3 DEF Write
  <2> QED BY <2>1, <2>2, NewScript, PlainOps, Empty
<1>4. CASE Reply
  <2>1. todo # <<>> /\ top.op = "reply"  BY <1>4, StepsOf DEF Reply
  <2>2. Become(<<>>) \/ Goto(<<>>)  BY <1>4 DEF Reply
  <2> QED BY <2>1, <2>2, NewScript, PlainOps, Empty
<1>5. CASE TakeTime
  <2>1. todo # <<>> /\ top.op = "out"  BY <1>5, StepsOf DEF TakeTime
  <2>2. Become(<<>>) \/ Goto(GivenUp \o Out)  BY <1>5 DEF TakeTime
  <2> QED BY <2>1, <2>2, NewScript, PlainOps, WholeSteps, Empty
<1> QED BY <1>1, <1>2, <1>3, <1>4, <1>5

\* disconnect is told before a reset, when too many pongs were missed.
LEMMA PartingSteps ==
  ASSUME NEW s, s = <<Do("parting")>> \o Reset \o <<Do("fallback")>> \o Out
  PROVE  /\ s \in Seq(Step) /\ (\A i \in 2 .. Len(s) : s[i] \in Later)
         /\ Orderly(s) /\ WipedFirst(s)
         /\ s # <<>> /\ Head(s).op = "parting"
<1> DEFINE r == Reset \o <<Do("fallback")>> \o Out
           p == <<Do("parting")>>
<1>1. Resetting(r) /\ r \in Seq(Later) /\ r \in Seq(Step)
  BY WholeSteps, Kinships, SeqMonotonic DEF Resetting
<1>2. p \in Seq(Step) /\ Len(p) = 1 /\ p[1].op = "parting" /\ Do("parting").op = "parting"
  BY StepsOf DEF Ops, Walks, Calm
<1>3. s = p \o r
  <2>1. /\ Reset \in Seq(Step) /\ <<Do("fallback")>> \in Seq(Step) /\ Out \in Seq(Step)
    <3>1. Do("fallback") \in Step  BY StepsOf DEF Ops, Walks, Calm
    <3> QED BY <3>1, ResetSteps, OutSteps, Kinships, SeqMonotonic
  <2>2. PICK a \in Seq(Step), b \in Seq(Step), c \in Seq(Step), d \in Seq(Step) :
           a = p /\ b = Reset /\ c = <<Do("fallback")>> /\ d = Out
    BY <1>2, <2>1
  <2>3. ((a \o b) \o c) \o d = a \o ((b \o c) \o d)
    <3>1. /\ a \o b \in Seq(Step) /\ b \o c \in Seq(Step)
      BY ConcatProperties
    <3>2. (a \o b) \o c = a \o (b \o c)  BY Regroup
    <3>3. (a \o (b \o c)) \o d = a \o ((b \o c) \o d)  BY SMTT(30), <3>1, Regroup
    <3> QED BY <3>2, <3>3
  <2> QED BY <2>2, <2>3
<1> HIDE DEF r, p
<1>4. /\ p \o r \in Seq(Step) /\ Len(p \o r) = 1 + Len(r)
      /\ \A i \in 1 .. 1 + Len(r) : (p \o r)[i] = IF i <= 1 THEN p[i] ELSE r[i - 1]
  <2>1. PICK a \in Seq(Step), b \in Seq(Step) : a = p /\ b = r  BY <1>1, <1>2
  <2>2. /\ a \o b \in Seq(Step) /\ Len(a \o b) = Len(a) + Len(b)
        /\ \A i \in 1 .. Len(a) + Len(b) : (a \o b)[i] = IF i <= Len(a) THEN a[i] ELSE b[i - Len(a)]
    BY JoinOf
  <2>3. Len(a) = 1  BY <1>2, <2>1
  <2> QED BY <2>1, <2>2, <2>3
<1>5. ASSUME NEW i \in 2 .. Len(p \o r)  PROVE (p \o r)[i] \in Later
  <2>1. i \in 1 .. 1 + Len(r) /\ ~ (i <= 1) /\ i - 1 \in 1 .. Len(r)
    BY <1>1, <1>4
  <2>2. (p \o r)[i] = r[i - 1]  BY <1>4, <2>1
  <2>3. r[i - 1] \in Later  BY <1>1, <2>1
  <2> QED BY <2>2, <2>3
<1>6. Orderly(p) /\ WipedFirst(p)
  BY <1>2 DEF Orderly, WipedFirst, Afterwards
<1>7. WipedFirst(p \o r)
  BY <1>1, <1>2, <1>6, JoinedWiped DEF Resetting
<1>8. Orderly(p \o r)
  <2> DEFINE q == p \o r
  <2>1. Len(q) = 1 + Len(r) /\ q[1].op = "parting" /\ \A i \in 1 .. Len(r) : q[1 + i] = r[i]
    <3>1. Len(r) \in Nat /\ p \o r \in Seq(Step)  BY <1>1, <1>4
    <3>2. ASSUME NEW i \in 1 .. Len(r)  PROVE (p \o r)[1 + i] = r[i]
      <4>1. 1 + i \in 1 .. 1 + Len(r) /\ ~ (1 + i <= 1) /\ (1 + i) - 1 = i  BY <3>1
      <4> QED BY <1>4, <4>1
    <3>3. (p \o r)[1] = p[1]  BY <1>4, <3>1
    <3> QED BY <1>2, <1>4, <3>2, <3>3
  <2> HIDE DEF q
  <2>2. Len(r) \in Nat /\ DOMAIN r = 1 .. Len(r) /\ DOMAIN q = 1 .. Len(q)
    BY <1>1, <1>4 DEF q
  <2> SUFFICES ASSUME NEW i \in DOMAIN q, NEW j \in DOMAIN q, j < i, q[i].op \in Calm \cup Ends
               PROVE  q[j].op \in Calm
    BY DEF Orderly, q
  <2>3. CASE j = 1  BY <2>1, <2>3 DEF Calm
  <2>4. CASE j # 1
    <3>1. PICK m \in 1 .. Len(r), n \in 1 .. Len(r) : i = 1 + m /\ j = 1 + n /\ n < m
      <4>1. i - 1 \in 1 .. Len(r) /\ j - 1 \in 1 .. Len(r) /\ i = 1 + (i - 1) /\ j = 1 + (j - 1)
            /\ j - 1 < i - 1
        BY <2>1, <2>2, <2>4
      <4> QED BY <4>1
    <3> QED BY <1>1, <2>1, <2>2, <3>1 DEF Resetting, Orderly
  <2> QED BY <2>3, <2>4
<1>9. p \o r # <<>> /\ Head(p \o r).op = "parting"
  <2>1. Len(r) \in Nat /\ 1 <= 1  BY <1>1
  <2>2. (p \o r)[1] = p[1]  BY <1>4, <2>1
  <2>3. PICK q \in Seq(Step) : q = p \o r  BY <1>4
  <2>4. Len(q) >= 1 /\ q[1].op = "parting"  BY <1>2, <1>4, <2>1, <2>2, <2>3
  <2>5. q # <<>> /\ Head(q) = q[1]  BY <2>4
  <2> QED BY <2>3, <2>4, <2>5
<1> QED BY <1>3, <1>4, <1>5, <1>7, <1>8, <1>9

LEMMA ParseScript ==
  ASSUME Typed, Script, HandleResult \/ HandleCommand \/ HandleStray \/ HandleEvent
  PROVE  todo' \in Seq(Step) /\ Script'
<1>1. CASE HandleResult
  <2>1. todo # <<>> /\ top.op = "parse" /\ socket' = socket
    BY <1>1, StepsOf DEF HandleResult, Parse
  <2>2. UNCHANGED todo \/ Become(Refused \o <<top>>)
    BY <1>1 DEF HandleResult, CreateResponse, RegisterResponse, UnregisterResponse,
      SubscribeResponse, UnsubscribeResponse, EventResponse, CommandResponse
  <2>3. CASE UNCHANGED todo  BY <2>1, <2>3 DEF Script, Typed
  <2>4. CASE Become(Refused \o <<top>>)
    <3>1. top \in Step /\ top \in Later  BY <2>1, TailOf DEF top, Typed, Later
    <3> QED BY <2>1, <2>4, <3>1, RefusedSteps, AgainScript DEF Typed
  <2> QED BY <2>2, <2>3, <2>4
<1>2. CASE HandleCommand
  <2>1. todo # <<>> /\ top.op = "parse" /\ Become(<<Do("reply"), top>>)
    BY <1>2, StepsOf DEF HandleCommand, Parse
  <2>2. top = Do("parse")
    <3>1. top \in Step  BY <2>1, TailOf DEF top, Typed
    <3> QED BY <2>1, <3>1 DEF Step, Do, Walks
  <2> QED BY <2>1, <2>2, TwoSteps, PutScript, PlainOps DEF Typed
<1>3. CASE HandleStray \/ HandleEvent
  BY <1>3 DEF HandleStray, HandleEvent, Script, Typed
<1> QED BY <1>1, <1>2, <1>3

LEMMA PongScript ==
  ASSUME Typed, Script, CheckPong \/ Drop
  PROVE  todo' \in Seq(Step) /\ Script'
<1>1. CASE CheckPong
  <2>1. todo # <<>> /\ top.op = "ping"  BY <1>1, StepsOf DEF CheckPong
  <2>2. Become(<<>>) \/ Goto(<<Do("parting")>> \o Reset \o <<Do("fallback")>> \o Out)
    BY <1>1 DEF CheckPong
  <2>3. ASSUME NEW s, s = <<Do("parting")>> \o Reset \o <<Do("fallback")>> \o Out, Goto(s)
        PROVE  todo' \in Seq(Step) /\ Script'
    BY <2>3, PartingSteps, GotoScript
  <2> QED BY <2>1, <2>2, <2>3, NewScript, PlainOps, Empty
<1>2. CASE Drop
  <2>1. todo # <<>> /\ top.op = "drop" /\ socket' = socket
    BY <1>2, StepsOf DEF Drop
  <2>2. Become(<<>>) \/ UNCHANGED todo  BY <1>2 DEF Drop
  <2>3. CASE UNCHANGED todo  BY <2>1, <2>3 DEF Script, Typed
  <2> QED BY <2>1, <2>2, <2>3, PopScript DEF Typed
<1> QED BY <1>1, <1>2

\* The environment, and a step that changes nothing.
LEMMA OtherScript ==
  ASSUME Typed, Script, Environment \/ Destroyed \/ UNCHANGED vars
  PROVE  todo' \in Seq(Step) /\ Script'
<1>1. CASE Destroy
  <2>1. Goto(Reset)  BY <1>1 DEF Destroy
  <2> QED BY <2>1, ResetSteps, NewScript
<1>2. CASE UNCHANGED <<todo, socket>>  BY <1>2 DEF Script, Typed
<1>3. CASE Connect \/ Disconnect  BY <1>2, <1>3 DEF Connect, Disconnect
<1>4. CASE Asking
  <2>1. ASSUME NEW kind, NEW name, NEW about, Ask(kind, name, about)
        PROVE  UNCHANGED <<todo, socket>>
    BY <2>1 DEF Ask
  <2> QED BY <1>2, <1>4, <2>1 DEF Asking, Publish, Command, Register, Unregister, Subscribe,
        Unsubscribe
<1>5. CASE (\E r \in 1 .. Len(made) : Answer(r)) \/ (\E type \in {"event", "pong", "call"} : Send(type))
           \/ HangUp
  BY <1>2, <1>5 DEF Answer, Send, HangUp, Deliver, clientVars
<1>6. CASE Destroyed \/ UNCHANGED vars
  BY <1>2, <1>6 DEF Destroyed, vars, clientVars
<1> QED BY <1>1, <1>3, <1>4, <1>5, <1>6 DEF Environment

LEMMA NextScript ==
  ASSUME Typed, Script, [Next]_vars
  PROVE  todo' \in Seq(Step) /\ Script'
<1>1. CASE RunStep
  BY <1>1, OverScript, WalkScript, ConnectScript, WriteScript, ParseScript, PongScript
     DEF RunStep
<1> QED BY <1>1, OtherScript DEF Next

-----------------------------------------------------------------------------
(* Types. *)

LEMMA JobOf ==
  ASSUME Typed, NEW kind \in {"create", "ping"} \cup Asked,
         NEW name \in Commands \cup Topics \cup {None}, NEW about \in Ids \cup {None}
  PROVE  [kind |-> kind, name |-> name, about |-> about, seq |-> sequence] \in Job
BY ClientAssumption DEF ClientAssumption, Typed, Job

\* The types that Enqueue has to do with.
MadeTyped == made \in Seq(Job) /\ requests \in Seq(Ids) /\ sequence \in SeqStart .. (SeqEnd - 1)

LEMMA EnqueueTyped ==
  ASSUME Typed, Len(made) < MaxRequests, NEW kind \in {"create", "ping"} \cup Asked,
         NEW name \in Commands \cup Topics \cup {None}, NEW about \in Ids \cup {None},
         Enqueue(kind, name, about)
  PROVE  MadeTyped' /\ Len(made') = Len(made) + 1
<1>1. made' \in Seq(Job) /\ Len(made') = Len(made) + 1
  BY JobOf, AppendProperties DEF Enqueue, Typed
<1>2. Len(made) + 1 \in Ids
  <2>1. Len(made) \in Nat  BY DEF Typed
  <2> QED BY <2>1, ClientAssumption DEF Ids, ClientAssumption
<1>3. requests' \in Seq(Ids)
  BY <1>2, AppendProperties DEF Enqueue, Typed
<1>4. sequence' \in SeqStart .. (SeqEnd - 1)
  BY ClientAssumption DEF ClientAssumption, Enqueue, Typed
<1> QED BY <1>1, <1>3, <1>4 DEF MadeTyped

Plainly ==
  /\ state \in {"disconnected", "connecting", "connected", "disconnecting", "destroyed"}
  /\ socket \in {"none", "dialing", "up"}
  /\ {locked, waitPong, missed, link, session} \subseteq BOOLEAN

ListsTyped ==
  /\ pendings \in Seq(Ids) /\ routines \in Seq(Ids) /\ subscriptions \in Seq(Ids)
  /\ outgoing \in Seq(Ids) /\ heard \in Seq(Ids)

FramesTyped == incoming \in Seq(Frame) /\ wire \in Seq(Frame)
ToldTyped == told \in [Ids -> Seq(Outcomes)]

-----------------------------------------------------------------------------
(* What a step does to the requests. *)

\* The create of a connection that has come through.
Opening ==
  /\ At("connect") \/ (At("write") /\ socket = "dialing")
  /\ state = "connecting" /\ socket' = "up" /\ link' = TRUE /\ Room
  /\ Enqueue("create", None, None) /\ Become(<<>>) /\ Hold
  /\ UNCHANGED <<state, pendings, expired, nameVars, pingVars, buffers, asked, wire, sent,
                 toldVars>>

\* What the requests of a client that is connected are about.
Wanted(kind, name, about) ==
  \/ kind \in {"ping", "event", "publish", "command"} /\ name = None /\ about = None
  \/ /\ kind = "register" /\ name \in Commands /\ about = None
     /\ Named(routines, name) = 0
  \/ /\ kind = "unregister" /\ name \in Commands /\ Named(routines, name) # 0
     /\ about = routines[Named(routines, name)]
  \/ /\ kind = "subscribe" /\ name \in Topics /\ about = None
     /\ Named(subscriptions, name) = 0
  \/ /\ kind = "unsubscribe" /\ name \in Topics /\ Named(subscriptions, name) # 0
     /\ about = subscriptions[Named(subscriptions, name)]

Queueing(kind, name, about) ==
  /\ state = "connected" /\ Enqueue(kind, name, about) /\ Wanted(kind, name, about)
  /\ (At("reply") /\ Become(<<>>)) \/ (Room /\ (UNCHANGED todo \/ (At("ping") /\ Become(<<>>))))
  /\ Careful => ~InProgress(name)
  /\ UNCHANGED <<state, socket, pendings, expired, nameVars, missed, buffers, peerVars,
                 toldVars>>
  /\ locked' \in BOOLEAN \cup {locked} /\ waitPong' \in {TRUE, waitPong}

\* A request that is canceled or has timed out.
Ending ==
  /\ At("cancel") \/ At("expire")
  /\ Current # None /\ EndUnanswered(Current)
  /\ UNCHANGED <<state, socket, made, sequence, expired, routines, subscriptions, reread,
                 pingVars, buffers, session, heard, old, peerVars>>

\* A request that goes to the outgoing buffer.
Flushing == Flush /\ Current # None

\* None of these.
Idle == UNCHANGED <<made, requests, pendings, told>> /\ (UNCHANGED sequence \/ Clear)

LEMMA CreatedOpens ==
  ASSUME NEW s, Created(s), At("connect") \/ (At("write") /\ socket = "dialing")
  PROVE  Opening \/ Idle
<1>1. CASE state = "connecting"  BY <1>1 DEF Created, Opening
<1>2. CASE state # "connecting"  BY <1>2 DEF Created, toldVars, Idle
<1> QED BY <1>1, <1>2

LEMMA AskQueues ==
  ASSUME NEW kind, NEW name, NEW about, Ask(kind, name, about), Wanted(kind, name, about)
  PROVE  Queueing(kind, name, about)
BY DEF Ask, Queueing, pingVars

LEMMA AskingQueues == Asking => \E kind, name, about : Queueing(kind, name, about)
<1>1. CASE Publish
  BY <1>1, AskQueues DEF Publish, Wanted
<1>2. CASE Command
  BY <1>2, AskQueues DEF Command, Wanted
<1>3. ASSUME NEW command \in Commands, Register(command) \/ Unregister(command)
      PROVE  \E kind, name, about : Queueing(kind, name, about)
  BY <1>3, AskQueues DEF Register, Unregister, Wanted
<1>4. ASSUME NEW topic \in Topics, Subscribe(topic) \/ Unsubscribe(topic)
      PROVE  \E kind, name, about : Queueing(kind, name, about)
  BY <1>4, AskQueues DEF Subscribe, Unsubscribe, Wanted
<1> QED BY <1>1, <1>2, <1>3, <1>4 DEF Asking

LEMMA ReplyQueues == Reply => \/ Queueing("command", None, None)
                              \/ Idle
<1>1. ASSUME Reply, state = "connected"  PROVE Queueing("command", None, None)
  BY <1>1 DEF Reply, Queueing, Wanted, InProgress, pingVars, Hold
<1>2. ASSUME Reply, state # "connected"  PROVE Idle
  BY <1>2 DEF Reply, toldVars, Idle
<1> QED BY <1>1, <1>2

LEMMA PongQueues == CheckPong => \/ Queueing("ping", None, None)
                                 \/ Idle
<1>1. ASSUME CheckPong, Enqueue("ping", None, None), state = "connected", Room, waitPong' = TRUE,
             Become(<<>>), UNCHANGED missed
      PROVE  Queueing("ping", None, None)
  BY <1>1 DEF CheckPong, Queueing, Wanted, InProgress, Hold
<1>2. ASSUME CheckPong, UNCHANGED <<made, requests, sequence>>
      PROVE  Idle
  BY <1>2 DEF CheckPong, toldVars, Idle
<1> QED BY <1>1, <1>2 DEF CheckPong

LEMMA WalkEnds ==
  /\ Cancel \/ TimeOut => Ending \/ Idle
  /\ Flush => Flushing \/ Idle
<1>1. ASSUME Cancel  PROVE Ending \/ Idle
  BY <1>1 DEF Cancel, Ending, Idle
<1>2. ASSUME TimeOut  PROVE Ending \/ Idle
  BY <1>2 DEF TimeOut, Ending, Idle
<1>3. ASSUME Flush  PROVE Flushing \/ Idle
  BY <1>3 DEF Flush, Flushing, Idle
<1> QED BY <1>1, <1>2, <1>3

LEMMA StepKinds ==
  ASSUME [Next]_vars
  PROVE  \/ Opening
         \/ \E kind, name, about : Queueing(kind, name, about)
         \/ Ending \/ Flushing \/ HandleResult
         \/ Idle
<1>1. Shut \/ Wipe \/ Drop \/ Clear \/ Refuse \/ Fallback \/ GiveUp \/ Lost \/ Parting \/ Fail => Idle
  BY DEF Shut, Wipe, Drop, Clear, Refuse, Fallback, GiveUp, Lost, Parting, Fail, requestVars,
    toldVars, Idle
<1>2. Run \/ Dial \/ Wait \/ Polled \/ Read \/ Write \/ ParsedAll => Idle
  BY DEF Run, Dial, Wait, Polled, Read, Write, ParsedAll, requestVars, toldVars, Idle
<1>3. HandleStray \/ HandleEvent \/ HandleCommand \/ TakeTime => Idle
  BY DEF HandleStray, HandleEvent, HandleCommand, TakeTime, requestVars, toldVars, Idle
<1>4. Connecting => Opening \/ Idle
  BY CreatedOpens DEF Connecting, requestVars, toldVars, Idle
<1>5. Complete => Opening \/ Idle
  BY CreatedOpens DEF Complete, requestVars, toldVars, Idle
<1>6. Connect \/ Disconnect \/ Destroy \/ HangUp \/ Destroyed \/ UNCHANGED vars => Idle
  BY DEF Connect, Disconnect, Destroy, HangUp, Destroyed, vars, clientVars, requestVars, toldVars, Idle
<1>7. ASSUME (\E r \in 1 .. Len(made) : Answer(r)) \/ (\E type \in {"event", "pong", "call"} : Send(type))
      PROVE  Idle
  BY <1>7 DEF Answer, Send, Deliver, clientVars, requestVars, toldVars, Idle
<1>8. CASE RunStep
  BY <1>8, <1>1, <1>2, <1>3, <1>4, <1>5, WalkEnds, ReplyQueues, PongQueues DEF RunStep
<1>9. CASE Environment \/ Destroyed \/ UNCHANGED vars
  BY <1>9, <1>6, <1>7, AskingQueues DEF Environment
<1> QED BY <1>8, <1>9 DEF Next

LEMMA NamedPlace ==
  ASSUME NEW list \in Seq(Ids), NEW name
  PROVE  \/ /\ Named(list, name) \in DOMAIN list /\ Named(list, name) # 0
            /\ made[list[Named(list, name)]].name = name
         \/ /\ Named(list, name) = 0
            /\ \A r \in ToSet(list) : made[r].name # name
<1> DEFINE I == {i \in 1 .. Len(list) : made[list[i]].name = name}
<1>1. Named(list, name) = IF I # {} THEN Min(I) ELSE 0
  BY DEF Named, SelectInSeq
<1>2. CASE I = {}
  BY <1>1, <1>2 DEF ToSet
<1>3. CASE I # {}
  <2>1. Min(I) \in I
    <3>1. I \in SUBSET Nat  OBVIOUS
    <3> HIDE DEF I
    <3> QED BY <1>3, <3>1, LeastExists
  <2> QED BY <1>1, <1>3, <2>1
<1> QED BY <1>2, <1>3

LEMMA AwaitingPlace ==
  ASSUME pendings \in Seq(Ids), NEW seq
  PROVE  \/ /\ Awaiting(seq) \in DOMAIN pendings /\ Awaiting(seq) # 0
            /\ made[pendings[Awaiting(seq)]].seq = seq
         \/ /\ Awaiting(seq) = 0
            /\ \A r \in ToSet(pendings) : made[r].seq # seq
<1> DEFINE I == {i \in 1 .. Len(pendings) : made[pendings[i]].seq = seq}
<1>1. Awaiting(seq) = IF I # {} THEN Min(I) ELSE 0
  BY DEF Awaiting, SelectInSeq
<1>2. CASE I = {}
  BY <1>1, <1>2 DEF ToSet
<1>3. CASE I # {}
  <2>1. Min(I) \in I
    <3>1. I \in SUBSET Nat  OBVIOUS
    <3> HIDE DEF I
    <3> QED BY <1>3, <3>1, LeastExists
  <2> QED BY <1>1, <1>3, <2>1
<1> QED BY <1>2, <1>3

LEMMA WantedTyped ==
  ASSUME Typed, NEW kind, NEW name, NEW about, Wanted(kind, name, about)
  PROVE  /\ kind \in {"ping"} \cup Asked /\ name \in Commands \cup Topics \cup {None}
         /\ about \in Ids \cup {None}
<1>1. routines \in Seq(Ids) /\ subscriptions \in Seq(Ids)  BY DEF Typed
<1>2. /\ Named(routines, name) # 0 => routines[Named(routines, name)] \in Ids
      /\ Named(subscriptions, name) # 0 => subscriptions[Named(subscriptions, name)] \in Ids
  BY <1>1, NamedPlace
<1> QED BY <1>2 DEF Wanted, Asked

LEMMA CalledFinite ==
  ASSUME NEW s \in Seq(Frame)
  PROVE  IsFiniteSet(Called(s)) /\ Cardinality(Called(s)) \in Nat
<1>1. Called(s) \subseteq 1 .. Len(s) /\ Len(s) \in Nat  BY DEF Called
<1>2. IsFiniteSet(1 .. Len(s))  BY <1>1, FS_Interval
<1> QED BY <1>1, <1>2, FS_Subset, FS_CardinalityType

LEMMA CallsNatural ==
  ASSUME Typed
  PROVE  /\ Calls \in Nat /\ Len(made) \in Nat /\ MaxFrames \in Nat /\ MaxRequests \in Nat
         /\ At("reply") => Calls >= 1
<1>1. incoming \o wire \in Seq(Frame)  BY ConcatProperties DEF Typed
<1>2. Cardinality(Called(incoming \o wire)) \in Nat  BY <1>1, CalledFinite
<1>3. Len(made) \in Nat /\ MaxFrames \in Nat /\ MaxRequests \in Nat
  BY ClientAssumption DEF ClientAssumption, Typed
<1> QED BY <1>2, <1>3 DEF Calls

LEMMA SpaceLeft ==
  ASSUME Typed, Counted, Room \/ At("reply")
  PROVE  Len(made) < MaxRequests
BY CallsNatural DEF Counted, Room

LEMMA MadeStays ==
  ASSUME Typed, Counted, [Next]_vars
  PROVE  MadeTyped'
<1>1. CASE Opening
  BY <1>1, SpaceLeft, EnqueueTyped DEF Opening
<1>2. ASSUME NEW kind, NEW name, NEW about, Queueing(kind, name, about)
      PROVE  MadeTyped'
  BY <1>2, SpaceLeft, EnqueueTyped, WantedTyped DEF Queueing
<1>3. CASE Ending
  BY <1>3, RemoveOne DEF Ending, EndUnanswered, CutOff, Typed, MadeTyped
<1>4. CASE Flushing
  BY <1>4, RemoveOne DEF Flushing, Flush, Typed, MadeTyped
<1>5. CASE HandleResult
  BY <1>5 DEF HandleResult, Typed, MadeTyped
<1>6. CASE Idle
  BY <1>6, ClientAssumption DEF ClientAssumption, Idle, Clear, Typed, MadeTyped
<1> QED BY <1>1, <1>2, <1>3, <1>4, <1>5, <1>6, StepKinds

LEMMA PlainStays ==
  ASSUME Typed, [Next]_vars
  PROVE  Plainly'
<1> USE DEF Hold, LetGo
<1>1. CASE Opening  BY <1>1 DEF Opening, Typed, Plainly, toldVars, pingVars
<1>2. ASSUME NEW kind, NEW name, NEW about, Queueing(kind, name, about)
      PROVE  Plainly'
  BY <1>2 DEF Queueing, Typed, Plainly, toldVars, pingVars, peerVars
<1>3. CASE Ending
  BY <1>3 DEF Ending, EndUnanswered, Typed, Plainly, pingVars, peerVars
<1>4. CASE Flush
  <2>1. locked' \in BOOLEAN
    <3>1. (Len(todo) > 1) \in BOOLEAN /\ (made[Current].kind = "ping") \in BOOLEAN  OBVIOUS
    <3>2. \/ locked' = (Len(todo) > 1) \/ locked' = (made[Current].kind = "ping") \/ locked' = TRUE
      BY <1>4 DEF Flush, Hold
    <3> QED BY <3>1, <3>2
  <2>2. UNCHANGED <<state, socket, waitPong, missed, link, session>>
    BY <1>4 DEF Flush, pingVars, peerVars
  <2> QED BY <2>1, <2>2 DEF Typed, Plainly
<1>5. CASE HandleResult
  BY <1>5 DEF HandleResult, CreateResponse, RegisterResponse, UnregisterResponse,
    SubscribeResponse, UnsubscribeResponse, EventResponse, CommandResponse, Typed, Plainly,
    pingVars, peerVars
<1>6. CASE Shut \/ Wipe \/ Drop \/ Clear \/ Refuse \/ Fallback \/ GiveUp \/ Lost \/ Parting \/ Fail
  <2>1. CASE Shut \/ Wipe \/ Drop \/ Clear \/ Refuse
    BY <2>1 DEF Shut, Wipe, Drop, Clear, Refuse, Typed, Plainly, pingVars, peerVars, toldVars
  <2>2. CASE Fallback \/ Lost \/ Parting \/ Fail
    BY <2>2 DEF Fallback, Lost, Parting, Fail, Typed, Plainly, pingVars, peerVars, toldVars
  <2>3. CASE GiveUp
    <3>1. locked' \in BOOLEAN /\ session' \in BOOLEAN
      BY <2>3, ClientAssumption DEF ClientAssumption, GiveUp, Typed
    <3>2. state' \in {"connecting", "disconnected"} /\ UNCHANGED <<socket, waitPong, missed, link>>
      BY <2>3 DEF GiveUp, pingVars, peerVars
    <3> QED BY <3>1, <3>2 DEF Typed, Plainly
  <2> QED BY <1>6, <2>1, <2>2, <2>3
<1>7. CASE Run \/ Dial \/ Wait \/ Polled \/ Read \/ Write \/ ParsedAll \/ Cancel \/ TimeOut
  <2>1. CASE Run \/ Dial \/ Wait \/ Polled \/ ParsedAll
    BY <2>1 DEF Run, Dial, Wait, Polled, ParsedAll, Typed, Plainly, pingVars, peerVars, toldVars
  <2>2. CASE Read \/ Write
    <3>1. UNCHANGED <<state, socket, waitPong, missed, link, session>> /\ locked' \in BOOLEAN
      BY <2>2 DEF Read, Write, pingVars, peerVars, toldVars
    <3> QED BY <3>1 DEF Typed, Plainly
  <2>3. CASE Cancel \/ TimeOut
    <3>1. UNCHANGED <<state, socket, waitPong, missed, link, session>>
      BY <2>3 DEF Cancel, TimeOut, pingVars, peerVars
    <3>2. locked' \in BOOLEAN
      <4>1. (made[Current].kind \in {"create", "ping"}) \in BOOLEAN  OBVIOUS
      <4>2. locked' = TRUE \/ locked' = (made[Current].kind \in {"create", "ping"})
        BY <2>3 DEF Cancel, TimeOut, EndUnanswered
      <4> QED BY <4>1, <4>2
    <3> QED BY <3>1, <3>2 DEF Typed, Plainly
  <2> QED BY <1>7, <2>1, <2>2, <2>3
<1>8. CASE HandleStray \/ HandleEvent \/ HandleCommand \/ TakeTime \/ Connecting \/ Complete
  <2>1. CASE HandleStray \/ HandleEvent \/ HandleCommand \/ TakeTime
    BY <2>1 DEF HandleStray, HandleEvent, HandleCommand, TakeTime, Typed, Plainly, pingVars,
      peerVars, toldVars
  <2>2. CASE Connecting
    BY <2>2 DEF Connecting, Created, Typed, Plainly, pingVars, peerVars, toldVars
  <2>3. CASE Complete
    BY <2>3 DEF Complete, Created, Typed, Plainly, pingVars, peerVars, toldVars
  <2> QED BY <1>8, <2>1, <2>2, <2>3
<1>9. CASE CheckPong \/ Reply
  BY <1>9 DEF CheckPong, Reply, Typed, Plainly, pingVars, peerVars, toldVars
<1>10. CASE RunStep
  BY <1>10, <1>4, <1>5, <1>6, <1>7, <1>8, <1>9 DEF RunStep
<1>11. CASE Asking
  BY <1>11, <1>2, AskingQueues
<1>12. CASE Connect \/ Disconnect \/ Destroy \/ HangUp \/ Destroyed \/ UNCHANGED vars
  BY <1>12 DEF Connect, Disconnect, Destroy, HangUp, Destroyed, vars, clientVars, Typed, Plainly,
    pingVars, peerVars, toldVars
<1>13. ASSUME (\E r \in 1 .. Len(made) : Answer(r))
              \/ (\E type \in {"event", "pong", "call"} : Send(type))
       PROVE  Plainly'
  BY <1>13 DEF Answer, Send, Deliver, clientVars, Typed, Plainly, pingVars, toldVars
<1> QED BY <1>10, <1>11, <1>12, <1>13 DEF Next, Environment

\* The lists of sent requests, of routines and of subscriptions.
LEMMA StepLists ==
  ASSUME [Next]_vars
  PROVE  \/ Drop \/ HandleResult \/ Ending \/ Flushing \/ Write \/ Wipe
         \/ UNCHANGED <<pendings, nameVars, outgoing, heard>>
<1> DEFINE Same == UNCHANGED <<pendings, nameVars, outgoing, heard>>
<1>1. Shut \/ Clear \/ Refuse \/ Fallback \/ GiveUp \/ Lost \/ Parting \/ Fail => Same
  BY DEF Shut, Clear, Refuse, Fallback, GiveUp, Lost, Parting, Fail, requestVars, buffers, toldVars
<1>2. Run \/ Dial \/ Wait \/ Polled \/ Read \/ ParsedAll => Same
  BY DEF Run, Dial, Wait, Polled, Read, ParsedAll, requestVars, buffers, toldVars
<1>3. HandleStray \/ HandleEvent \/ HandleCommand \/ TakeTime => Same
  BY DEF HandleStray, HandleEvent, HandleCommand, TakeTime, requestVars, toldVars, buffers
<1>4. Connecting \/ Complete => Same
  BY DEF Connecting, Complete, Created, requestVars, toldVars, buffers
<1>5. Reply \/ CheckPong => Same
  BY DEF Reply, CheckPong, toldVars, buffers
<1>6. Cancel \/ TimeOut => Ending \/ Same
  BY DEF Cancel, TimeOut, Ending, nameVars, buffers
<1>7. Flush => Flushing \/ Same
  BY DEF Flush, Flushing
<1>8. Connect \/ Disconnect \/ Destroy \/ HangUp \/ Destroyed \/ UNCHANGED vars => Same
  BY DEF Connect, Disconnect, Destroy, HangUp, Destroyed, vars, clientVars, requestVars, toldVars,
    buffers
<1>9. ASSUME (\E r \in 1 .. Len(made) : Answer(r)) \/ (\E type \in {"event", "pong", "call"} : Send(type))
      PROVE  Same
  BY <1>9 DEF Answer, Send, Deliver, clientVars, requestVars, toldVars, buffers
<1>10. Asking => Same
  <2>1. ASSUME NEW kind, NEW name, NEW about, Queueing(kind, name, about)
        PROVE  Same
    BY <2>1 DEF Queueing, buffers, toldVars
  <2> QED BY <2>1, AskingQueues
<1> HIDE DEF Same
<1>11. CASE RunStep
  BY <1>11, <1>1, <1>2, <1>3, <1>4, <1>5, <1>6, <1>7 DEF RunStep, Same
<1>12. CASE Environment \/ Destroyed \/ UNCHANGED vars
  BY <1>12, <1>8, <1>9, <1>10 DEF Environment, Same
<1> QED BY <1>11, <1>12 DEF Next

LEMMA ListsStay ==
  ASSUME Typed, [Next]_vars
  PROVE  ListsTyped'
<1>a. ASSUME NEW s \in Seq(Ids), NEW x \in Ids  PROVE Append(s, x) \in Seq(Ids)
  BY AppendProperties
<1>b. ASSUME NEW s \in Seq(Ids), NEW x  PROVE RemoveFirst(s, x) \in Seq(Ids)
  BY RemoveOne
<1>c. ASSUME NEW s \in Seq(Ids), NEW t \in Seq(Ids)  PROVE s \o t \in Seq(Ids)
  BY ConcatProperties
<1>1. ListsTyped  BY DEF Typed, ListsTyped
<1>2. CASE Drop
  <2>1. /\ routines' = routines \/ (routines # <<>> /\ routines' = Tail(routines))
        /\ subscriptions' = subscriptions
           \/ (subscriptions # <<>> /\ subscriptions' = Tail(subscriptions))
    BY <1>2 DEF Drop, nameVars
  <2>2. UNCHANGED <<pendings, outgoing, heard>>
    BY <1>2 DEF Drop, requestVars, buffers, toldVars
  <2> QED BY <1>1, <2>1, <2>2, HeadTailProperties DEF ListsTyped
<1>3. CASE HandleResult
  <2> DEFINE r == pendings[Awaiting(Head(incoming).seq)]
  <2>1. r \in Ids
    BY <1>1, <1>3, AwaitingPlace DEF HandleResult, ListsTyped
  <2>2. pendings' = RemoveFirst(pendings, r) /\ UNCHANGED <<outgoing, heard>>
    BY <1>3 DEF HandleResult
  <2>3. \/ UNCHANGED <<routines, subscriptions>>
        \/ routines' = Append(routines, r) /\ UNCHANGED subscriptions
        \/ routines' = RemoveFirst(routines, made[r].about) /\ UNCHANGED subscriptions
        \/ subscriptions' = Append(subscriptions, r) /\ UNCHANGED routines
        \/ subscriptions' = RemoveFirst(subscriptions, made[r].about) /\ UNCHANGED routines
    BY <1>3 DEF HandleResult, CreateResponse, RegisterResponse, UnregisterResponse,
      SubscribeResponse, UnsubscribeResponse, EventResponse, CommandResponse, nameVars
  <2> HIDE DEF r
  <2>4. /\ RemoveFirst(pendings, r) \in Seq(Ids) /\ Append(routines, r) \in Seq(Ids)
        /\ Append(subscriptions, r) \in Seq(Ids)
        /\ RemoveFirst(routines, made[r].about) \in Seq(Ids)
        /\ RemoveFirst(subscriptions, made[r].about) \in Seq(Ids)
    BY <1>1, <1>a, <1>b, <2>1 DEF ListsTyped
  <2> QED BY <1>1, <2>2, <2>3, <2>4 DEF ListsTyped
<1>4. CASE Ending
  <2>1. pendings' = pendings \/ pendings' = RemoveFirst(pendings, Current)
    BY <1>4 DEF Ending, EndUnanswered, CutOff
  <2>2. UNCHANGED <<routines, subscriptions, outgoing, heard>>
    BY <1>4 DEF Ending, buffers
  <2>3. RemoveFirst(pendings, Current) \in Seq(Ids)  BY <1>1, <1>b DEF ListsTyped
  <2> QED BY <1>1, <2>1, <2>2, <2>3 DEF ListsTyped
<1>5. CASE Flushing
  <2>1. Current \in Ids
    BY <1>5, Walking, StepsOf DEF Flushing, Flush, Walks
  <2>2. pendings' = pendings \/ pendings' = Append(pendings, Current)
    BY <1>5 DEF Flushing, Flush
  <2>3. outgoing' = Append(outgoing, Current) /\ UNCHANGED <<routines, subscriptions, heard>>
    BY <1>5 DEF Flushing, Flush, nameVars
  <2>4. Append(pendings, Current) \in Seq(Ids) /\ Append(outgoing, Current) \in Seq(Ids)
    BY <1>1, <1>a, <2>1 DEF ListsTyped
  <2> QED BY <1>1, <2>2, <2>3, <2>4 DEF ListsTyped
<1>6. CASE Write
  <2>1. UNCHANGED <<pendings, routines, subscriptions>>
    BY <1>6 DEF Write, requestVars, nameVars
  <2>2. \/ UNCHANGED <<outgoing, heard>>
        \/ \E n \in 0 .. Len(outgoing) : /\ outgoing' = SubSeq(outgoing, n + 1, Len(outgoing))
                                         /\ heard' = heard \o SubSeq(outgoing, 1, n)
    BY <1>6 DEF Write
  <2>3. ASSUME NEW n \in 0 .. Len(outgoing)
        PROVE  /\ SubSeq(outgoing, n + 1, Len(outgoing)) \in Seq(Ids)
               /\ SubSeq(outgoing, 1, n) \in Seq(Ids)
    <3>1. \A i \in 1 .. Len(outgoing) : outgoing[i] \in Ids  BY <1>1 DEF ListsTyped
    <3>2. /\ \A i \in 1 .. n : outgoing[i] \in Ids
          /\ \A i \in n + 1 .. Len(outgoing) : outgoing[i] \in Ids
      BY <3>1, <1>1 DEF ListsTyped
    <3> QED BY <3>2, <1>1, SubSeqProperties DEF ListsTyped
  <2>4. ASSUME NEW n \in 0 .. Len(outgoing)
        PROVE  heard \o SubSeq(outgoing, 1, n) \in Seq(Ids)
    BY <1>1, <1>c, <2>3 DEF ListsTyped
  <2> QED BY <1>1, <2>1, <2>2, <2>3, <2>4 DEF ListsTyped
<1>7. CASE Wipe
  BY <1>1, <1>7 DEF Wipe, ListsTyped, requestVars, nameVars
<1>8. CASE UNCHANGED <<pendings, nameVars, outgoing, heard>>
  BY <1>1, <1>8 DEF ListsTyped, nameVars
<1> QED BY <1>2, <1>3, <1>4, <1>5, <1>6, <1>7, <1>8, StepLists

\* A frame of the broker.
Delivered(frame) == /\ wire' = Append(wire, frame) /\ UNCHANGED <<link, clientVars, toldVars>>
                    /\ ~ locked /\ link
                    /\ \/ /\ frame.type = "result" /\ UNCHANGED sent /\ frame.of \in asked
                          /\ frame.seq = made[frame.of].seq /\ asked' = asked \ {frame.of}
                          /\ frame.of \in 1 .. Len(made)
                       \/ /\ frame.type # "result" /\ sent < MaxFrames /\ sent' = sent + 1
                          /\ frame.of = None /\ heard # <<>> /\ UNCHANGED asked

LEMMA SeqTyped ==
  ASSUME Typed, NEW r \in 1 .. Len(made)
  PROVE  made[r].seq \in Nat /\ made[r] \in Job
<1>1. made[r] \in Job  BY DEF Typed
<1>2. SeqStart .. SeqEnd \subseteq Nat  BY ClientAssumption DEF ClientAssumption
<1> QED BY <1>1, <1>2 DEF Job

LEMMA BrokerDelivers ==
  ASSUME Typed, Len(made) <= MaxRequests,
         (\E r \in 1 .. Len(made) : Answer(r)) \/ (\E type \in {"event", "pong", "call"} : Send(type))
  PROVE  \E frame \in Frame : Delivered(frame)
<1>1. ASSUME NEW r \in 1 .. Len(made), Answer(r)
      PROVE  \E frame \in Frame : Delivered(frame)
  <2>1. PICK ok \in {TRUE} \cup {made[r].kind \notin Refusals} :
           Deliver([type |-> "result", seq |-> made[r].seq, ok |-> ok, of |-> r])
    BY <1>1 DEF Answer
  <2>2. ok \in BOOLEAN
    <3>1. (made[r].kind \notin Refusals) \in BOOLEAN  OBVIOUS
    <3> QED BY <2>1, <3>1
  <2> DEFINE frame == [type |-> "result", seq |-> made[r].seq, ok |-> ok, of |-> r]
  <2>3. r \in Ids
    <3>1. Len(made) \in Nat /\ MaxRequests \in Nat
      BY ClientAssumption DEF ClientAssumption, Typed
    <3> QED BY <3>1 DEF Ids
  <2>4. frame \in Frame /\ frame.type = "result" /\ frame.of = r /\ frame.seq = made[r].seq
    BY <2>2, <2>3, SeqTyped DEF Frame
  <2> HIDE DEF frame
  <2>5. Deliver(frame)  BY <2>1 DEF frame
  <2>6. Delivered(frame)
    BY <1>1, <2>4, <2>5 DEF Answer, Delivered, Deliver
  <2> QED BY <2>4, <2>6
<1>2. ASSUME NEW type \in {"event", "pong", "call"}, Send(type)
      PROVE  \E frame \in Frame : Delivered(frame)
  <2> DEFINE frame == [type |-> type, seq |-> None, ok |-> TRUE, of |-> None]
  <2>1. frame \in Frame /\ frame.type # "result" /\ frame.of = None  BY DEF Frame, None
  <2>2. Deliver(frame)  BY <1>2 DEF Send
  <2> HIDE DEF frame
  <2>3. Delivered(frame)  BY <1>2, <2>1, <2>2 DEF Send, Delivered, Deliver
  <2> QED BY <2>1, <2>3
<1> QED BY <1>1, <1>2

LEMMA StepFrames ==
  ASSUME Typed, Len(made) <= MaxRequests, [Next]_vars
  PROVE  \/ Wipe \/ Read \/ HandleStray \/ HandleResult \/ HandleEvent \/ HandleCommand
         \/ \E frame \in Frame : Delivered(frame)
         \/ UNCHANGED <<incoming, wire, sent>>
<1> DEFINE Same == UNCHANGED <<incoming, wire, sent>>
<1>1. Shut \/ Clear \/ Drop \/ Refuse \/ Fallback \/ GiveUp \/ Lost \/ Parting \/ Fail => Same
  BY DEF Shut, Clear, Drop, Refuse, Fallback, GiveUp, Lost, Parting, Fail, buffers, peerVars
<1>2. Run \/ Dial \/ Wait \/ Polled \/ Write \/ ParsedAll \/ TakeTime => Same
  BY DEF Run, Dial, Wait, Polled, Write, ParsedAll, TakeTime, buffers, peerVars
<1>3. Connecting \/ Complete => Same
  BY DEF Connecting, Complete, Created, buffers, peerVars
<1>4. Reply \/ CheckPong => Same
  BY DEF Reply, CheckPong, buffers, peerVars
<1>5. Cancel \/ TimeOut \/ Flush => Same
  BY DEF Cancel, TimeOut, Flush, buffers, peerVars
<1>6. Connect \/ Disconnect \/ Destroy \/ HangUp \/ Destroyed \/ UNCHANGED vars => Same
  BY DEF Connect, Disconnect, Destroy, HangUp, Destroyed, vars, clientVars, buffers, peerVars
<1>7. Asking => Same
  <2>1. ASSUME NEW kind, NEW name, NEW about, Queueing(kind, name, about)
        PROVE  Same
    BY <2>1 DEF Queueing, buffers, peerVars
  <2> QED BY <2>1, AskingQueues
<1> HIDE DEF Same
<1>8. CASE RunStep
  BY <1>8, <1>1, <1>2, <1>3, <1>4, <1>5 DEF RunStep, Same
<1>9. CASE Environment \/ Destroyed \/ UNCHANGED vars
  BY <1>9, <1>6, <1>7, BrokerDelivers DEF Environment, Same
<1> QED BY <1>8, <1>9 DEF Next

LEMMA FramesStay ==
  ASSUME Typed, Len(made) <= MaxRequests, [Next]_vars
  PROVE  FramesTyped'
<1>1. FramesTyped  BY DEF Typed, FramesTyped
<1>2. CASE Wipe  BY <1>2 DEF Wipe, FramesTyped
<1>3. CASE Read
  <2>1. \/ UNCHANGED <<incoming, wire>>
        \/ \E n \in 1 .. Len(wire) : /\ incoming' = incoming \o SubSeq(wire, 1, n)
                                     /\ wire' = SubSeq(wire, n + 1, Len(wire))
    BY <1>3 DEF Read
  <2>2. ASSUME NEW n \in 1 .. Len(wire)
        PROVE  /\ incoming \o SubSeq(wire, 1, n) \in Seq(Frame)
               /\ SubSeq(wire, n + 1, Len(wire)) \in Seq(Frame)
    <3>1. wire \in Seq(Frame) /\ incoming \in Seq(Frame)  BY <1>1 DEF FramesTyped
    <3>2. \A i \in 1 .. Len(wire) : wire[i] \in Frame  BY <3>1
    <3>3. /\ \A i \in 1 .. n : wire[i] \in Frame
          /\ \A i \in n + 1 .. Len(wire) : wire[i] \in Frame
      BY <3>1, <3>2
    <3>4. SubSeq(wire, 1, n) \in Seq(Frame) /\ SubSeq(wire, n + 1, Len(wire)) \in Seq(Frame)
      BY <3>1, <3>3, SubSeqProperties
    <3> QED BY <3>1, <3>4, ConcatProperties
  <2> QED BY <1>1, <2>1, <2>2 DEF FramesTyped
<1>4. CASE HandleStray \/ HandleResult \/ HandleEvent \/ HandleCommand
  <2>1. incoming # <<>> /\ incoming' = Tail(incoming) /\ wire' = wire
    BY <1>4 DEF HandleStray, HandleResult, HandleEvent, HandleCommand, Parse, peerVars
  <2> QED BY <1>1, <2>1, HeadTailProperties DEF FramesTyped
<1>5. ASSUME NEW frame \in Frame, Delivered(frame)  PROVE FramesTyped'
  <2>1. wire' = Append(wire, frame) /\ incoming' = incoming
    BY <1>5 DEF Delivered, clientVars, buffers
  <2> QED BY <1>1, <2>1, AppendProperties DEF FramesTyped
<1>6. CASE UNCHANGED <<incoming, wire, sent>>
  BY <1>1, <1>6 DEF FramesTyped
<1> QED BY <1>2, <1>3, <1>4, <1>5, <1>6, StepFrames

LEMMA ToldStays ==
  ASSUME Typed, [Next]_vars
  PROVE  ToldTyped'
<1>1. ASSUME NEW r, NEW how \in Outcomes, Tell(r, how)  PROVE ToldTyped'
  <2>1. CASE told' = told  BY <2>1 DEF Typed, ToldTyped
  <2>2. CASE told' = [told EXCEPT ![r] = Append(@, how)]
    <3>1. r \in Ids => Append(told[r], how) \in Seq(Outcomes)
      BY AppendProperties DEF Typed
    <3> QED BY <2>2, <3>1 DEF Typed, ToldTyped
  <2> QED BY <1>1, <2>1, <2>2 DEF Tell
<1>2. "answered" \in Outcomes /\ "unanswered" \in Outcomes  BY DEF Outcomes
<1>3. CASE UNCHANGED told  BY <1>3 DEF Typed, ToldTyped
<1>4. CASE Opening \/ \E kind, name, about : Queueing(kind, name, about)
  BY <1>3, <1>4 DEF Opening, Queueing, toldVars
<1>5. CASE Ending  BY <1>1, <1>2, <1>5 DEF Ending, EndUnanswered
<1>6. CASE Flushing  BY <1>1, <1>2, <1>3, <1>6 DEF Flushing, Flush
<1>7. CASE HandleResult  BY <1>1, <1>2, <1>7 DEF HandleResult
<1>8. CASE Idle  BY <1>3, <1>8 DEF Idle
<1> QED BY <1>4, <1>5, <1>6, <1>7, <1>8, StepKinds

LEMMA NextTyped ==
  ASSUME Typed, Script, Counted, [Next]_vars
  PROVE  Typed' /\ Script'
<1>1. Len(made) <= MaxRequests
  BY CallsNatural DEF Counted
<1>3. todo' \in Seq(Step) /\ Script'  BY NextScript
<1>4. MadeTyped' /\ Plainly' /\ ListsTyped' /\ FramesTyped' /\ ToldTyped'
  BY <1>1, MadeStays, PlainStays, ListsStay, FramesStay, ToldStays
<1>5. Typed'
  BY <1>3, <1>4 DEF Typed, MadeTyped, Plainly, ListsTyped, FramesTyped, ToldTyped
<1> QED BY <1>3, <1>5

-----------------------------------------------------------------------------
(* There is room for the results of the routines. *)

LEMMA CalledTail ==
  ASSUME NEW s \in Seq(Frame), s # <<>>
  PROVE  Cardinality(Called(s)) = Cardinality(Called(Tail(s)))
                                    + (IF Head(s).type = "call" THEN 1 ELSE 0)
<1> DEFINE t == Tail(s)
           A == Called(s) \ {1}
           f == [i \in Called(t) |-> i + 1]
<1>1. /\ t \in Seq(Frame) /\ Len(t) = Len(s) - 1 /\ Len(s) \in Nat \ {0}
      /\ \A i \in 1 .. Len(s) - 1 : t[i] = s[i + 1]
      /\ Head(s) = s[1]
  BY TailOf
<1> HIDE DEF t
<1>2. IsFiniteSet(Called(s)) /\ IsFiniteSet(Called(t))  BY <1>1, CalledFinite
<1>3. /\ \A i \in Called(t) : i + 1 \in A
      /\ \A i \in A : i - 1 \in Called(t) /\ (i - 1) + 1 = i
  <2>1. ASSUME NEW i \in Called(t)  PROVE i + 1 \in A
    <3>1. i \in 1 .. Len(s) - 1 /\ t[i].type = "call"  BY <1>1 DEF Called
    <3>2. i + 1 \in 1 .. Len(s) /\ i + 1 # 1 /\ s[i + 1].type = "call"  BY <1>1, <3>1
    <3> QED BY <3>2 DEF Called
  <2>2. ASSUME NEW i \in A  PROVE i - 1 \in Called(t) /\ (i - 1) + 1 = i
    <3>1. i \in 2 .. Len(s) /\ s[i].type = "call"  BY <1>1 DEF Called
    <3>2. i - 1 \in 1 .. Len(s) - 1 /\ (i - 1) + 1 = i  BY <1>1, <3>1
    <3>3. t[i - 1].type = "call"  BY <1>1, <3>1, <3>2
    <3> QED BY <1>1, <3>2, <3>3 DEF Called
  <2> QED BY <2>1, <2>2
<1>4. Called(t) \subseteq Nat /\ A \subseteq Nat  BY <1>1 DEF Called
<1>5. ExistsBijection(Called(t), A)
  <2>1. f \in [Called(t) -> A]  BY <1>3
  <2>2. \A i, j \in Called(t) : f[i] = f[j] => i = j  BY <1>4
  <2>3. \A a \in A : \E i \in Called(t) : f[i] = a  BY <1>3
  <2> HIDE DEF f, A
  <2>4. f \in Bijection(Called(t), A)
    BY <2>1, <2>2, <2>3 DEF Bijection, Injection, Surjection, IsInjective
  <2> QED BY <2>4 DEF ExistsBijection
<1> HIDE DEF f
<1>6. IsFiniteSet(A) /\ Cardinality(A) = Cardinality(Called(t))
  BY <1>2, <1>5, FS_Bijection
<1>7. CASE Head(s).type = "call"
  <2>1. 1 \in Called(s)  BY <1>1, <1>7 DEF Called
  <2>2. Called(s) = A \cup {1} /\ 1 \notin A  BY <2>1
  <2>3. Cardinality(Called(s)) = Cardinality(A) + 1
    BY <1>6, <2>2, FS_AddElement
  <2> QED BY <1>6, <1>7, <2>3 DEF t
<1>8. CASE Head(s).type # "call"
  <2>1. Called(s) = A  BY <1>1, <1>8 DEF Called
  <2> HIDE DEF A
  <2>2. PICK n \in Nat : n = Cardinality(Called(t))  BY <1>1, CalledFinite
  <2>3. Cardinality(Called(s)) = n  BY <1>6, <2>1, <2>2
  <2>4. n = n + (IF Head(s).type = "call" THEN 1 ELSE 0)  BY <1>8
  <2> QED BY <2>2, <2>3, <2>4 DEF t
<1> QED BY <1>7, <1>8

LEMMA CalledAppend ==
  ASSUME NEW s \in Seq(Frame), NEW x \in Frame
  PROVE  Cardinality(Called(Append(s, x))) = Cardinality(Called(s))
                                               + (IF x.type = "call" THEN 1 ELSE 0)
<1> DEFINE t == Append(s, x)
           n == Len(s) + 1
<1>1. /\ Len(s) \in Nat /\ Len(t) = n /\ t[n] = x /\ DOMAIN t = 1 .. n
      /\ \A i \in 1 .. Len(s) : t[i] = s[i]
  BY AppendProperties
<1>2. IsFiniteSet(Called(s)) /\ Cardinality(Called(s)) \in Nat  BY CalledFinite
<1>3. n \notin Called(s)  BY <1>1 DEF Called
<1> HIDE DEF t
<1>4. CASE x.type = "call"
  <2>1. Called(t) = Called(s) \cup {n}  BY <1>1, <1>4 DEF Called
  <2> QED BY <1>2, <1>3, <1>4, <2>1, FS_AddElement DEF t
<1>5. CASE x.type # "call"
  <2>1. Called(t) = Called(s)  BY <1>1, <1>5 DEF Called
  <2> QED BY <1>2, <1>5, <2>1 DEF t
<1> QED BY <1>4, <1>5

\* What is next, when it is a step that can only be next.
LEMMA PoppedLater ==
  ASSUME Typed, Script, todo # <<>>, NEW s \in Seq(Later), Become(s)
  PROVE  todo' \in Seq(Later)
<1>1. Tail(todo) \in Seq(Later)  BY Rest DEF Typed, Script
<1> QED BY <1>1, ConcatProperties DEF Become

LEMMA StepLater ==
  ASSUME Typed, Script, [Next]_vars
  PROVE  \/ UNCHANGED todo
         \/ todo' \in Seq(Later)
         \/ HandleCommand
         \/ Dial
         \/ At("ping") /\ Goto(<<Do("parting")>> \o Reset \o <<Do("fallback")>> \o Out)
<1> DEFINE Goal == UNCHANGED todo \/ todo' \in Seq(Later)
<1>e. <<>> \in Seq(Later)  BY EmptySeq
<1>a. ASSUME todo # <<>>, Become(<<>>)  PROVE Goal
  BY <1>a, <1>e, PoppedLater
<1>b. ASSUME NEW s \in Seq(Later), Goto(s)  PROVE Goal
  BY <1>b DEF Goto
<1>c. ASSUME todo # <<>>, NEW s \in Seq(Later), Become(s)  PROVE Goal
  BY <1>c, PoppedLater
<1>d. /\ Out \in Seq(Later) /\ Poll \in Seq(Later) /\ Reset \in Seq(Later) /\ GivenUp \in Seq(Later)
      /\ Refused \in Seq(Later)
      /\ Reset \o <<Do("dial")>> \o Poll \in Seq(Later)
      /\ Reset \o <<Do("lost")>> \o Out \in Seq(Later)
      /\ <<Do("refuse")>> \o Reset \o <<Do("fail")>> \in Seq(Later)
      /\ GivenUp \o Out \in Seq(Later)
  <2>1. Out \in Seq(Later) /\ Poll \in Seq(Later)  BY OutSteps, Kinships, SeqMonotonic
  <2>2. Refused \in Seq(Later)  BY RefusedSteps, Kinships, SeqMonotonic
  <2> QED BY <2>1, <2>2, WholeSteps, ResetSteps, RefusedSteps DEF Resetting
<1>f. \A op \in {"refuse", "fail", "polled", "read", "write", "parse"} : Do(op) \in Later
  BY StepsOf, PlainOps
<1> HIDE DEF Goal
<1>1. ASSUME Wipe \/ Shut \/ Clear \/ Refuse \/ Fallback \/ GiveUp \/ Lost \/ Parting \/ ParsedAll  PROVE Goal
  BY <1>1, <1>a, StepsOf DEF Wipe, Shut, Clear, Refuse, Fallback, GiveUp, Lost, Parting, ParsedAll
<1>2. ASSUME NEW r, At("cancel") \/ At("expire"), EndUnanswered(r)  PROVE Goal
  <2>1. todo # <<>> /\ top.op \in {"cancel", "expire"}  BY <1>2, StepsOf
  <2>2. PICK e \in Step : Onwards(r) = <<e>> /\ e.op = top.op
    BY <2>1, Walking DEF Walks
  <2>3. e \in Later  BY <2>1, <2>2 DEF Later
  <2>4. <<e>> \in Seq(Later) /\ <<>> \o <<e>> \in Seq(Later) /\ Refused \o <<e>> \in Seq(Later)
    <3>1. <<e>> \in Seq(Later)  BY <2>3
    <3> QED BY <3>1, <1>d, <1>e, ConcatProperties
  <2>5. Become(<<>> \o <<e>>) \/ Become(Refused \o <<e>>)
    BY <1>2, <2>2 DEF EndUnanswered
  <2> QED BY <1>c, <2>1, <2>4, <2>5
<1>3. ASSUME At("expire") \/ At("flush"), Become(Onwards(Current))  PROVE Goal
  <2>1. todo # <<>> /\ top.op \in {"expire", "flush"}  BY <1>3, StepsOf
  <2>2. PICK e \in Step : Onwards(Current) = <<e>> /\ e.op = top.op
    BY <2>1, Walking DEF Walks
  <2>3. <<e>> \in Seq(Later)
    <3>1. e \in Later  BY <2>1, <2>2 DEF Later
    <3> QED BY <3>1
  <2> QED BY <1>3, <1>c, <2>1, <2>2, <2>3
<1>4. ASSUME Cancel  PROVE Goal  BY <1>4, <1>2, <1>a, StepsOf DEF Cancel
<1>5. ASSUME TimeOut  PROVE Goal  BY <1>5, <1>2, <1>3, <1>a, StepsOf DEF TimeOut
<1>6. ASSUME Flush  PROVE Goal  BY <1>6, <1>3, <1>a, StepsOf DEF Flush
<1>7. ASSUME Run  PROVE Goal
  BY <1>7, <1>b, <1>d DEF Run
<1>8. ASSUME Connecting  PROVE Goal
  <2>1. todo # <<>>  BY <1>8, StepsOf DEF Connecting
  <2> QED BY <2>1, <1>8, <1>a, <1>b, <1>c, <1>d DEF Connecting, Created
<1>9. ASSUME Wait \/ Polled  PROVE Goal
  <2>1. todo # <<>>  BY <1>9, StepsOf DEF Wait, Polled
  <2>2. <<Do("polled")>> \in Seq(Later) /\ <<Do("read"), Do("write"), Do("parse")>> \in Seq(Later)
    BY <1>f
  <2> QED BY <2>1, <2>2, <1>9, <1>a, <1>c DEF Wait, Polled
<1>10. ASSUME Read \/ Fail \/ TakeTime  PROVE Goal
  <2>1. todo # <<>>  BY <1>10, StepsOf DEF Read, Fail, TakeTime
  <2> QED BY <2>1, <1>10, <1>a, <1>b, <1>d, <1>e DEF Read, Fail, TakeTime
<1>11. ASSUME Complete \/ Write  PROVE Goal
  <2>1. todo # <<>>  BY <1>11, StepsOf DEF Complete, Write
  <2>2. <<Do("fail")>> \in Seq(Later) /\ <<Do("refuse"), Do("fail")>> \in Seq(Later)
    BY <1>f
  <2> QED BY <2>1, <2>2, <1>11, <1>a, <1>b, <1>d, <1>e DEF Complete, Created, Write
<1>12. ASSUME Reply  PROVE Goal
  <2>1. todo # <<>>  BY <1>12, StepsOf DEF Reply
  <2> QED BY <2>1, <1>12, <1>a, <1>b, <1>e DEF Reply
<1>13. ASSUME Drop  PROVE Goal
  <2>1. todo # <<>>  BY <1>13, StepsOf DEF Drop
  <2> QED BY <2>1, <1>13, <1>a DEF Drop, Goal
<1>14. ASSUME HandleResult  PROVE Goal
  <2>1. todo # <<>> /\ top.op = "parse"  BY <1>14, StepsOf DEF HandleResult, Parse
  <2>2. UNCHANGED todo \/ Become(Refused \o <<top>>)
    BY <1>14 DEF HandleResult, CreateResponse, RegisterResponse, UnregisterResponse,
      SubscribeResponse, UnsubscribeResponse, EventResponse, CommandResponse
  <2>3. Refused \o <<top>> \in Seq(Later)
    <3>1. top \in Later  BY <2>1, TailOf DEF top, Typed, Later
    <3>2. <<top>> \in Seq(Later)  BY <3>1
    <3> QED BY <3>2, <1>d, ConcatProperties
  <2> QED BY <2>1, <2>2, <2>3, <1>c DEF Goal
<1>15. ASSUME HandleStray \/ HandleEvent  PROVE Goal
  BY <1>15 DEF HandleStray, HandleEvent, Goal
<1>16. CASE CheckPong
  <2>1. todo # <<>>  BY <1>16, StepsOf DEF CheckPong
  <2> QED BY <2>1, <1>16, <1>a DEF CheckPong, Goal
<1>17. ASSUME Destroy  PROVE Goal  BY <1>17, <1>b, <1>d DEF Destroy
<1>18. ASSUME Asking  PROVE Goal
  <2>1. ASSUME NEW kind, NEW name, NEW about, Ask(kind, name, about)
        PROVE  UNCHANGED todo
    BY <2>1 DEF Ask
  <2> QED BY <2>1, <1>18 DEF Asking, Publish, Command, Register, Unregister, Subscribe,
        Unsubscribe, Goal
<1>19. ASSUME Connect \/ Disconnect \/ HangUp \/ Destroyed \/ UNCHANGED vars  PROVE Goal
  BY <1>19 DEF Connect, Disconnect, HangUp, Destroyed, vars, clientVars, Goal
<1>20. ASSUME (\E r \in 1 .. Len(made) : Answer(r)) \/ (\E type \in {"event", "pong", "call"} : Send(type))  PROVE Goal
  BY <1>20 DEF Answer, Send, Deliver, clientVars, Goal
<1>21. CASE RunStep
  BY <1>21, <1>1, <1>4, <1>5, <1>6, <1>7, <1>8, <1>9, <1>10, <1>11, <1>12, <1>13, <1>14, <1>15,
     <1>16 DEF RunStep, Goal
<1> QED BY <1>17, <1>18, <1>19, <1>20, <1>21 DEF Next, Environment, Goal

LEMMA JoinOfOne ==
  ASSUME NEW S, NEW d \in Seq(S), NEW t \in Seq(S), Len(d) = 1
  PROVE  d \o t \in Seq(S) /\ Len(d \o t) = 1 + Len(t) /\ (d \o t)[1] = d[1]
<1>1. /\ d \o t \in Seq(S) /\ Len(d \o t) = Len(d) + Len(t)
      /\ \A i \in 1 .. Len(d) : (d \o t)[i] = d[i]
  BY ConcatProperties
<1>2. 1 \in 1 .. Len(d)  OBVIOUS
<1> QED BY <1>1, <1>2

LEMMA HeadOfJoin ==
  ASSUME NEW e \in Step, NEW t \in Seq(Step)
  PROVE  <<e>> \o t # <<>> /\ Head(<<e>> \o t) = e
<1>1. <<e>> \in Seq(Step) /\ Len(<<e>>) = 1 /\ <<e>>[1] = e  BY OneStep
<1>2. PICK d \in Seq(Step) : d = <<e>>  BY <1>1
<1>3. d \o t \in Seq(Step) /\ Len(d \o t) = 1 + Len(t) /\ (d \o t)[1] = e
  <2>1. Len(d) = 1 /\ d[1] = e  BY <1>1, <1>2
  <2>2. d \o t \in Seq(Step) /\ Len(d \o t) = 1 + Len(t) /\ (d \o t)[1] = d[1]
    BY Zenon, <2>1, JoinOfOne
  <2> QED BY <2>1, <2>2
<1>4. PICK u \in Seq(Step) : u = d \o t  BY <1>3
<1>5. Len(u) >= 1 /\ u[1] = e  BY <1>3, <1>4
<1>6. u # <<>> /\ Head(u) = e  BY <1>5
<1> QED BY <1>2, <1>4, <1>6

LEMMA NotReply ==
  ASSUME Typed, Script, [Next]_vars
  PROVE  HandleCommand \/ UNCHANGED todo \/ ~ At("reply")'
<1>1. CASE todo' \in Seq(Later)
  <2>1. todo' # <<>> => Head(todo') \in Later  BY <1>1, HeadTailProperties
  <2> QED BY <2>1 DEF At, top, Later
<1>2. CASE Dial
  <2>1. todo' = <<Do("connect")>> \o Tail(todo) /\ todo # <<>>
    BY <1>2, StepsOf DEF Dial, Become
  <2>2. Do("connect") \in Step /\ Do("connect").op = "connect"  BY StepsOf, PlainOps
  <2>3. Tail(todo) \in Seq(Step)  BY <2>1, HeadTailProperties DEF Typed
  <2>4. Head(todo') = Do("connect")  BY <2>1, <2>2, <2>3, HeadOfJoin
  <2> QED BY <2>2, <2>4 DEF At, top
<1>3. CASE At("ping") /\ Goto(<<Do("parting")>> \o Reset \o <<Do("fallback")>> \o Out)
  <2>1. Head(todo').op = "parting"  BY <1>3, PartingSteps DEF Goto
  <2> QED BY <2>1 DEF At, top
<1> QED BY <1>1, <1>2, <1>3, StepLater

LEMMA RestOfWire ==
  ASSUME Typed, Read
  PROVE  incoming' \o wire' = incoming \o wire
<1>1. CASE UNCHANGED <<incoming, wire>>  BY <1>1
<1>2. ASSUME NEW n \in 1 .. Len(wire), incoming' = incoming \o SubSeq(wire, 1, n),
             wire' = SubSeq(wire, n + 1, Len(wire))
      PROVE  incoming' \o wire' = incoming \o wire
  <2>1. incoming \in Seq(Frame) /\ wire \in Seq(Frame) /\ Len(wire) \in Nat  BY DEF Typed
  <2>2. PICK a \in Seq(Frame), b \in Seq(Frame), c \in Seq(Frame), w \in Seq(Frame) :
           /\ a = incoming /\ w = wire /\ b = SubSeq(wire, 1, n)
           /\ c = SubSeq(wire, n + 1, Len(wire))
    <3>1. SubSeq(wire, 1, n) \in Seq(Frame) /\ SubSeq(wire, n + 1, Len(wire)) \in Seq(Frame)
      BY <2>1, SubSeqProperties
    <3> QED BY <2>1, <3>1
  <2>3. b \o c = w
    <3>1. n \in Nat /\ Len(w) \in Nat /\ n <= Len(w)  BY <2>2
    <3>2. /\ Len(b) = n /\ \A i \in 1 .. n : b[i] = w[i]
          /\ Len(c) = Len(w) - n /\ \A i \in 1 .. Len(w) - n : c[i] = w[n + i]
      BY <2>2, <3>1, SubSeqProperties
    <3>3. /\ b \o c \in Seq(Frame) /\ Len(b \o c) = Len(w)
          /\ \A i \in 1 .. Len(w) : (b \o c)[i] = IF i <= n THEN b[i] ELSE c[i - n]
      <4>1. Len(b) + Len(c) = Len(w)  BY <3>1, <3>2
      <4>2. /\ b \o c \in Seq(Frame) /\ Len(b \o c) = Len(b) + Len(c)
            /\ \A i \in 1 .. Len(b) + Len(c) : (b \o c)[i] = IF i <= Len(b) THEN b[i] ELSE c[i - Len(b)]
        BY JoinOf
      <4>3. PICK v : v = b \o c  OBVIOUS
      <4> QED BY <3>2, <4>1, <4>2, <4>3
    <3>4. ASSUME NEW i \in 1 .. Len(w)  PROVE (b \o c)[i] = w[i]
      <4>1. CASE i <= n
        <5>1. i \in 1 .. n  BY <3>1, <4>1
        <5> QED BY <3>2, <3>3, <4>1, <5>1
      <4>2. CASE ~ (i <= n)
        <5>1. i - n \in 1 .. Len(w) - n /\ n + (i - n) = i  BY <3>1, <4>2
        <5>2. c[i - n] = w[n + (i - n)]  BY <3>2, <5>1
        <5> QED BY <3>3, <4>2, <5>1, <5>2
      <4> QED BY <4>1, <4>2
    <3>5. PICK v \in Seq(Frame) : v = b \o c  BY <3>3
    <3> QED BY <3>3, <3>4, <3>5, SeqEqual
  <2>4. (a \o b) \o c = a \o (b \o c)  BY SMTT(30)
  <2> QED BY <1>2, <2>2, <2>3, <2>4
<1> QED BY <1>1, <1>2 DEF Read

LEMMA RestOfFrames ==
  ASSUME Typed, incoming # <<>>
  PROVE  /\ incoming \o wire # <<>> /\ Head(incoming \o wire) = Head(incoming)
         /\ Tail(incoming) \o wire = Tail(incoming \o wire)
<1>1. PICK a \in Seq(Frame), w \in Seq(Frame) : a = incoming /\ w = wire  BY DEF Typed
<1>2. a # <<>> /\ Len(a) \in Nat \ {0} /\ Len(w) \in Nat  BY <1>1
<1>3. PICK j \in Seq(Frame) : j = a \o w  BY JoinOf
<1>4. /\ Len(j) = Len(a) + Len(w)
      /\ \A i \in 1 .. Len(a) + Len(w) : j[i] = IF i <= Len(a) THEN a[i] ELSE w[i - Len(a)]
  BY <1>3, JoinOf
<1>5. Len(j) >= 1 /\ j[1] = a[1]  BY <1>2, <1>4
<1>6. j # <<>> /\ Head(j) = Head(a)  BY <1>2, <1>5
<1>7. PICK b \in Seq(Frame) : b = Tail(a)  BY <1>2, TailOf
<1>8. Len(b) = Len(a) - 1 /\ \A i \in 1 .. Len(a) - 1 : b[i] = a[i + 1]
  BY <1>2, <1>7, TailOf
<1>9. PICK k \in Seq(Frame) : k = b \o w  BY JoinOf
<1>10. /\ Len(k) = Len(b) + Len(w)
       /\ \A i \in 1 .. Len(b) + Len(w) : k[i] = IF i <= Len(b) THEN b[i] ELSE w[i - Len(b)]
  BY <1>9, JoinOf
<1>11. PICK l \in Seq(Frame) : l = Tail(j)  BY <1>6, TailOf
<1>12. Len(l) = Len(j) - 1 /\ \A i \in 1 .. Len(j) - 1 : l[i] = j[i + 1]
  BY <1>6, <1>11, TailOf
<1>13. Len(k) = Len(l)  BY <1>2, <1>4, <1>8, <1>10, <1>12
<1>14. ASSUME NEW i \in 1 .. Len(k)  PROVE k[i] = l[i]
  <2>1. i \in 1 .. Len(b) + Len(w) /\ i + 1 \in 1 .. Len(a) + Len(w) /\ i \in 1 .. Len(j) - 1
    BY <1>2, <1>4, <1>8, <1>10
  <2>2. CASE i <= Len(b)
    <3>1. i \in 1 .. Len(a) - 1 /\ i + 1 <= Len(a)  BY <1>2, <1>8, <2>2
    <3> QED BY <1>4, <1>8, <1>10, <1>12, <2>1, <2>2, <3>1
  <2>3. CASE ~ (i <= Len(b))
    <3>1. ~ (i + 1 <= Len(a)) /\ i - Len(b) = (i + 1) - Len(a)  BY <1>2, <1>8, <2>3
    <3> QED BY <1>4, <1>10, <1>12, <2>1, <2>3, <3>1
  <2> QED BY <2>2, <2>3
<1>15. k = l  BY <1>13, <1>14, SeqEqual
<1> QED BY <1>1, <1>3, <1>6, <1>7, <1>9, <1>11, <1>15


\* How a step changes the counts: of requests, of calls on their way, of the routine
\* that is being called, and of what the broker has sent.
LEMMA NextCounted ==
  ASSUME Typed, Script, Counted, [Next]_vars
  PROVE  Counted'
<1>1. PICK c \in Nat : c = Cardinality(Called(incoming \o wire))
  BY ConcatProperties, CalledFinite DEF Typed
<1>2. PICK b \in {0, 1} : b = IF At("reply") THEN 1 ELSE 0  OBVIOUS
<1>3. PICK m \in Nat, s \in Nat : m = Len(made) /\ s = sent
  <2>1. Len(made) \in Nat /\ sent \in Nat  BY ClientAssumption DEF Typed, Counted, ClientAssumption
  <2> QED BY <2>1
<1>4. PICK F \in Nat, R \in Nat : F = MaxFrames /\ R = MaxRequests  BY ClientAssumption DEF ClientAssumption
<1>5. s <= F /\ c + b <= s /\ m + (c + b) + (F - s) <= R
  BY <1>1, <1>2, <1>3, <1>4 DEF Counted, Calls
<1>6. Typed'  BY NextTyped
<1>7. PICK cc \in Nat : cc = Cardinality(Called(incoming' \o wire'))
  BY <1>6, ConcatProperties, CalledFinite DEF Typed
<1>8. PICK bb \in {0, 1} : bb = IF At("reply")' THEN 1 ELSE 0  OBVIOUS
<1>9. PICK mm \in Nat : mm = Len(made')  BY <1>6 DEF Typed
<1>10. PICK ss : ss = sent'  OBVIOUS
<1>11. SUFFICES ss \in Nat /\ ss <= F /\ cc + bb <= ss /\ mm + (cc + bb) + (F - ss) <= R
  <2>1. Calls' = cc + bb  BY <1>7, <1>8 DEF Calls
  <2>2. ss \in 0 .. F /\ Calls' <= ss /\ mm + Calls' + (F - ss) <= R  BY <1>11, <2>1
  <2> QED BY <1>4, <1>9, <1>10, <2>2 DEF Counted
<1>12. UNCHANGED todo => bb = b  BY <1>2, <1>8 DEF At, top
<1>13. Room => m + F < R  BY <1>3, <1>4 DEF Room
<1>14. m <= R  BY <1>5
<1>15. Len(made) <= MaxRequests  BY <1>3, <1>4, <1>14
<1>16. incoming \in Seq(Frame) /\ wire \in Seq(Frame) /\ incoming \o wire \in Seq(Frame)
  BY ConcatProperties DEF Typed
<1>17. incoming # <<>> => incoming # Tail(incoming)
  <2>1. incoming # <<>> => Len(Tail(incoming)) = Len(incoming) - 1 /\ Len(incoming) \in Nat \ {0}
    BY <1>16, TailOf
  <2> QED BY <2>1
<1>18. HandleCommand \/ bb = b \/ bb = 0
  BY <1>8, <1>12, NotReply
\* A request is made.
<1>19. ASSUME NEW kind, NEW name, NEW about, Enqueue(kind, name, about)
       PROVE  mm = m + 1
  BY <1>3, <1>9, <1>19 DEF Enqueue, Typed
<1>20. CASE Opening \/ \E kind, name, about : Queueing(kind, name, about)
  <2>1. mm = m + 1  BY <1>19, <1>20 DEF Opening, Queueing
  <2>2. UNCHANGED <<incoming, wire, sent>>
    BY <1>20 DEF Opening, Queueing, buffers, peerVars
  <2>3. cc = c /\ ss = s  BY <1>1, <1>3, <1>7, <1>10, <2>2
  <2>4. bb = b \/ bb = 0
    <3>1. HandleCommand => incoming' # incoming  BY <1>17 DEF HandleCommand, Parse
    <3> QED BY <1>18, <2>2, <3>1
  <2>5. Room \/ (b = 1 /\ bb = 0)
    <3>1. ASSUME At("reply"), Become(<<>>)  PROVE b = 1 /\ bb = 0
      <4>1. todo # <<>> /\ todo \in Seq(Step)  BY <3>1 DEF At, Typed
      <4>2. PICK n \in Nat : n = Len(todo) /\ Len(Tail(todo)) = n - 1  BY <4>1, TailOf
      <4>3. todo' = Tail(todo)  BY <3>1, <4>1, TailOf, ConcatEmptySeq DEF Become
      <4>4. Len(todo') # Len(todo)  BY <4>2, <4>3
      <4>5. ~ HandleCommand  BY <3>1 DEF HandleCommand, Parse, At
      <4> QED BY <1>2, <1>8, <3>1, <4>4, <4>5, NotReply
    <3> QED BY <1>20, <3>1 DEF Opening, Queueing
  <2> QED BY <1>5, <1>13, <2>1, <2>3, <2>4, <2>5
<1>21. CASE UNCHANGED made
  <2>1. mm = m  BY <1>3, <1>9, <1>21
  <2>2. CASE UNCHANGED <<incoming, wire, sent>>
    <3>1. cc = c /\ ss = s  BY <1>1, <1>3, <1>7, <1>10, <2>2
    <3>2. HandleCommand => incoming' # incoming  BY <1>17 DEF HandleCommand, Parse
    <3>3. bb = b \/ bb = 0  BY <1>18, <2>2, <3>2
    <3> QED BY <1>5, <2>1, <3>1, <3>3
  <2>3. CASE Read
    <3>1. cc = c /\ ss = s  BY <1>1, <1>3, <1>7, <1>10, <2>3, RestOfWire DEF Read, peerVars
    <3>2. bb = b \/ bb = 0  BY <1>18, <2>3 DEF Read, HandleCommand, Parse, At
    <3> QED BY <1>5, <2>1, <3>1, <3>2
  <2>4. CASE Wipe
    <3>1. incoming' \o wire' = <<>> /\ ss = s  BY <1>3, <1>10, <2>4 DEF Wipe
    <3>2. Called(<<>>) = {}  BY DEF Called
    <3>3. cc = 0  BY <1>7, <3>1, <3>2, FS_EmptySet
    <3>4. bb = b \/ bb = 0  BY <1>18, <2>4 DEF Wipe, HandleCommand, Parse, At
    <3> QED BY <1>5, <2>1, <3>1, <3>3, <3>4
  <2>5. CASE HandleStray \/ HandleResult \/ HandleEvent \/ HandleCommand
    <3>1. /\ incoming # <<>> /\ incoming' = Tail(incoming) /\ UNCHANGED <<wire, sent>> /\ At("parse")
          /\ HandleCommand <=> Head(incoming).type = "call"
      <4>1. HandleStray \/ HandleResult \/ HandleEvent => Head(incoming).type # "call"
        BY DEF HandleStray, HandleResult, HandleEvent, Parse
      <4>2. HandleCommand => Head(incoming).type = "call"  BY DEF HandleCommand, Parse
      <4> QED BY <2>5, <4>1, <4>2 DEF HandleStray, HandleResult, HandleEvent, HandleCommand, Parse, peerVars
    <3>2. c = cc + (IF Head(incoming).type = "call" THEN 1 ELSE 0) /\ ss = s
      <4>1. PICK j \in Seq(Frame) : j = incoming \o wire  BY <1>16
      <4>2. j # <<>> /\ Head(j) = Head(incoming) /\ Tail(incoming) \o wire = Tail(j)
        BY <3>1, <4>1, RestOfFrames
      <4>3. Cardinality(Called(j)) = Cardinality(Called(Tail(j)))
                                       + (IF Head(j).type = "call" THEN 1 ELSE 0)
        BY <4>2, CalledTail
      <4>4. c = Cardinality(Called(j)) /\ cc = Cardinality(Called(Tail(j)))
        BY <1>1, <1>7, <3>1, <4>1, <4>2
      <4> QED BY <1>3, <1>10, <3>1, <4>2, <4>3, <4>4
    <3>3. b = 0  BY <1>2, <3>1 DEF At
    <3> QED BY <1>5, <1>18, <2>1, <3>1, <3>2, <3>3
  <2>6. ASSUME NEW frame \in Frame, Delivered(frame)
        PROVE  ss \in Nat /\ ss <= F /\ cc + bb <= ss /\ mm + (cc + bb) + (F - ss) <= R
    <3>1. incoming' \o wire' = Append(incoming \o wire, frame)
      <4>1. PICK a \in Seq(Frame), w \in Seq(Frame) : a = incoming /\ w = wire  BY <1>16
      <4>2. incoming' \o wire' = a \o Append(w, frame)
        BY <2>6, <4>1 DEF Delivered, clientVars, buffers
      <4>3. a \o Append(w, frame) = Append(a \o w, frame)  OBVIOUS
      <4> QED BY <4>1, <4>2, <4>3
    <3>2. cc = c + (IF frame.type = "call" THEN 1 ELSE 0)
      <4>1. PICK j \in Seq(Frame) : j = incoming \o wire  BY <1>16
      <4>2. Cardinality(Called(Append(j, frame))) = Cardinality(Called(j))
                                                     + (IF frame.type = "call" THEN 1 ELSE 0)
        BY CalledAppend
      <4> QED BY <1>1, <1>7, <3>1, <4>1, <4>2
    <3>3. bb = b  BY <1>12, <2>6 DEF Delivered, clientVars
    <3>4. \/ frame.type = "result" /\ ss = s
          \/ frame.type # "result" /\ s < F /\ ss = s + 1
      BY <1>3, <1>4, <1>10, <2>6 DEF Delivered
    <3> QED BY <1>5, <2>1, <3>2, <3>3, <3>4
  <2> QED BY <1>15, <2>2, <2>3, <2>4, <2>5, <2>6, StepFrames
<1>22. Ending \/ Flushing \/ HandleResult \/ Idle => UNCHANGED made
  BY DEF Ending, Flushing, Flush, HandleResult, Idle
<1> QED BY <1>20, <1>21, <1>22, StepKinds


Base == Typed /\ Script /\ Counted

LEMMA InitBase == Init => Base
<1> SUFFICES ASSUME Init PROVE Base  OBVIOUS
<1>1. todo \in Seq(Step) /\ Script
  BY DEF Init, Script, Orderly
<1>2. Typed
  <2>1. told \in [Ids -> Seq(Outcomes)]  BY DEF Init
  <2>2. sequence \in SeqStart .. (SeqEnd - 1)  BY ClientAssumption DEF Init, ClientAssumption
  <2>3. made \in Seq(Job) /\ incoming \in Seq(Frame) /\ wire \in Seq(Frame)  BY DEF Init
  <2>4. ASSUME NEW s \in {requests, pendings, routines, subscriptions, outgoing, heard}
        PROVE  s \in Seq(Ids)
    <3>1. s = <<>>  BY <2>4 DEF Init
    <3> QED BY <3>1
  <2>5. /\ state \in {"disconnected", "connecting", "connected", "disconnecting", "destroyed"}
        /\ socket \in {"none", "dialing", "up"}
        /\ {locked, waitPong, missed, link, session} \subseteq BOOLEAN
    BY DEF Init
  <2> QED BY <1>1, <2>1, <2>2, <2>3, <2>4, <2>5 DEF Typed
<1>3. Counted
  <2>1. Called(incoming \o wire) = {} /\ ~ At("reply")  BY DEF Init, Called, At
  <2>2. Calls = 0
    <3>1. Cardinality(Called(incoming \o wire)) = 0  BY <2>1, FS_EmptySet
    <3> QED BY <2>1, <3>1 DEF Calls
  <2> QED BY <2>2, ClientAssumption DEF Init, Counted, ClientAssumption
<1> QED BY <1>1, <1>2, <1>3 DEF Base

LEMMA NextBase ==
  ASSUME Base, [Next]_vars
  PROVE  Base'
<1>1. Typed /\ Script /\ Counted  BY DEF Base
<1>2. Typed' /\ Script' /\ Counted'  BY <1>1, NextTyped, NextCounted
<1> QED BY <1>2 DEF Base

\* The variables have their types, the steps of a call of mbus_client_run come in the
\* order of the code, and there is room for the result of every routine.
THEOREM RunKeepsItsOrder == Safe => []Base
<1> QED BY InitBase, NextBase, PTL DEF Safe

-----------------------------------------------------------------------------
(* A request is on one list at a time. *)

LEMMA ToSetTail ==
  ASSUME NEW S, NEW s \in Seq(S), s # <<>>, IsInjective(s)
  PROVE  /\ Tail(s) \in Seq(S) /\ IsInjective(Tail(s)) /\ ToSet(Tail(s)) = ToSet(s) \ {Head(s)}
         /\ Head(s) \in ToSet(s)
<1>1. PICK t \in Seq(S) : t = Tail(s)  BY TailOf
<1>2. PICK n \in Nat : n = Len(s) /\ Len(t) = n - 1 /\ n >= 1  BY <1>1, TailOf
<1>3. /\ \A i \in 1 .. n - 1 : t[i] = s[i + 1]
      /\ Head(s) = s[1]
  BY <1>1, <1>2, TailOf
<1>4. IsInjective(t)  BY SMTT(30), <1>2, <1>3 DEF IsInjective
<1>5. ToSet(t) \subseteq ToSet(s) \ {s[1]}  BY <1>2, <1>3 DEF IsInjective, ToSet
<1>6. ASSUME NEW i \in 1 .. n, s[i] # s[1]  PROVE s[i] \in ToSet(t)
  <2>1. i - 1 \in 1 .. n - 1 /\ (i - 1) + 1 = i  BY <1>6
  <2>2. t[i - 1] = s[i] /\ i - 1 \in DOMAIN t  BY <1>2, <1>3, <2>1
  <2> QED BY <2>2 DEF ToSet
<1>7. ToSet(s) \ {s[1]} \subseteq ToSet(t)  BY <1>2, <1>6 DEF ToSet
<1>8. s[1] \in ToSet(s)  BY <1>2 DEF ToSet
<1> QED BY <1>1, <1>3, <1>4, <1>5, <1>7, <1>8

LEMMA ToSetAppend ==
  ASSUME NEW S, NEW s \in Seq(S), NEW x \in S
  PROVE  /\ Append(s, x) \in Seq(S) /\ ToSet(Append(s, x)) = ToSet(s) \cup {x}
         /\ IsInjective(s) /\ x \notin ToSet(s) => IsInjective(Append(s, x))
<1>1. PICK t \in Seq(S) : t = Append(s, x)  BY AppendProperties
<1>2. PICK n \in Nat : n = Len(s) /\ Len(t) = n + 1  BY <1>1
<1>3. (\A i \in 1 .. n : t[i] = s[i]) /\ t[n + 1] = x  BY <1>1, <1>2
<1>4. ToSet(t) \subseteq ToSet(s) \cup {x}  BY <1>2, <1>3 DEF ToSet
<1>5. ToSet(s) \subseteq ToSet(t)  BY <1>2, <1>3 DEF ToSet
<1>6. x \in ToSet(t)  BY <1>2, <1>3 DEF ToSet
<1>7. IsInjective(s) /\ x \notin ToSet(s) => IsInjective(t)
  BY <1>2, <1>3 DEF IsInjective, ToSet
<1> QED BY <1>1, <1>4, <1>5, <1>6, <1>7

LEMMA ToSetJoin ==
  ASSUME NEW S, NEW s \in Seq(S), NEW t \in Seq(S)
  PROVE  /\ s \o t \in Seq(S) /\ ToSet(s \o t) = ToSet(s) \cup ToSet(t)
         /\ IsInjective(s) /\ IsInjective(t) /\ Apart(s, t) => IsInjective(s \o t)
<1>1. PICK u \in Seq(S) : u = s \o t  BY JoinOf
<1>2. PICK m \in Nat, n \in Nat : m = Len(s) /\ n = Len(t) /\ Len(u) = m + n  BY <1>1, JoinOf
<1>3. /\ \A i \in 1 .. m : u[i] = s[i]
      /\ \A i \in 1 .. n : u[m + i] = t[i]
      /\ \A i \in 1 .. m + n : u[i] = IF i <= m THEN s[i] ELSE t[i - m]
  BY <1>1, <1>2, JoinOf
<1>4. ASSUME NEW i \in 1 .. m + n, ~ (i <= m)  PROVE i - m \in 1 .. n /\ u[i] = t[i - m]
  BY <1>3, <1>4
<1>5. ToSet(u) \subseteq ToSet(s) \cup ToSet(t)
  <2>1. ASSUME NEW i \in 1 .. m + n  PROVE u[i] \in ToSet(s) \cup ToSet(t)
    <3>1. CASE i <= m
      <4>1. i \in DOMAIN s /\ u[i] = s[i]  BY <1>2, <1>3, <3>1
      <4> QED BY <4>1 DEF ToSet
    <3>2. CASE ~ (i <= m)
      <4>1. i - m \in DOMAIN t /\ u[i] = t[i - m]  BY <1>2, <1>4, <3>2
      <4> QED BY <4>1 DEF ToSet
    <3> QED BY <3>1, <3>2
  <2> QED BY <1>2, <2>1 DEF ToSet
<1>6. ToSet(s) \subseteq ToSet(u)
  <2>1. ASSUME NEW i \in 1 .. m  PROVE s[i] \in ToSet(u)
    <3>1. i \in DOMAIN u /\ u[i] = s[i]  BY <1>2, <1>3
    <3> QED BY <3>1 DEF ToSet
  <2> QED BY <1>2, <2>1 DEF ToSet
<1>7. ToSet(t) \subseteq ToSet(u)
  <2>1. ASSUME NEW i \in 1 .. n  PROVE t[i] \in ToSet(u)
    <3>1. m + i \in DOMAIN u /\ u[m + i] = t[i]  BY <1>2, <1>3
    <3> QED BY <3>1 DEF ToSet
  <2> QED BY <1>2, <2>1 DEF ToSet
<1>8. ASSUME IsInjective(s), IsInjective(t), Apart(s, t)  PROVE IsInjective(u)
  <2> SUFFICES ASSUME NEW i \in 1 .. m + n, NEW j \in 1 .. m + n, u[i] = u[j]  PROVE i = j
    BY <1>2 DEF IsInjective
  <2>1. CASE i <= m /\ j <= m
    <3>1. i \in DOMAIN s /\ j \in DOMAIN s /\ s[i] = s[j]  BY <1>2, <1>3, <2>1
    <3> QED BY <1>8, <3>1 DEF IsInjective
  <2>2. CASE ~ (i <= m) /\ ~ (j <= m)
    <3>1. i - m \in DOMAIN t /\ j - m \in DOMAIN t /\ t[i - m] = t[j - m]  BY <1>2, <1>4, <2>2
    <3>2. i - m = j - m  BY <1>8, <3>1 DEF IsInjective
    <3> QED BY <3>2
  <2>3. ASSUME NEW k \in 1 .. m, NEW l \in 1 .. n  PROVE s[k] # t[l]
    <3>1. s[k] \in ToSet(s) /\ t[l] \in ToSet(t)  BY <1>2 DEF ToSet
    <3> QED BY <1>8, <3>1 DEF Apart
  <2>4. CASE i <= m /\ ~ (j <= m)
    <3>1. i \in 1 .. m /\ j - m \in 1 .. n /\ u[i] = s[i] /\ u[j] = t[j - m]  BY <1>3, <1>4, <2>4
    <3> QED BY <2>3, <3>1
  <2>5. CASE ~ (i <= m) /\ j <= m
    <3>1. j \in 1 .. m /\ i - m \in 1 .. n /\ u[j] = s[j] /\ u[i] = t[i - m]  BY <1>3, <1>4, <2>5
    <3> QED BY <2>3, <3>1
  <2> QED BY <2>1, <2>2, <2>4, <2>5
<1> QED BY <1>1, <1>5, <1>6, <1>7, <1>8

\* A list that is cut in two.
Parts(S, s, a, b) ==
  /\ a \in Seq(S) /\ b \in Seq(S)
  /\ IsInjective(a) /\ IsInjective(b) /\ Apart(a, b)
  /\ ToSet(a) \cup ToSet(b) = ToSet(s)
  /\ a # <<>> => s # <<>> /\ Head(a) = Head(s)
  /\ a = <<>> => b = s

LEMMA ToSetCut ==
  ASSUME NEW S, NEW s \in Seq(S), NEW n \in 0 .. Len(s), IsInjective(s)
  PROVE  /\ Parts(S, s, SubSeq(s, 1, n), SubSeq(s, n + 1, Len(s)))
         /\ n = 0 => SubSeq(s, 1, n) = <<>>
<1>p. PICK a, b : a = SubSeq(s, 1, n) /\ b = SubSeq(s, n + 1, Len(s))  OBVIOUS
<1>1. PICK m \in Nat : m = Len(s) /\ n \in Nat /\ n <= m  OBVIOUS
<1>2. a \in Seq(S) /\ b \in Seq(S)  BY <1>p, <1>1, SubSeqProperties
<1>a. DOMAIN a = 1 .. Len(a) /\ DOMAIN b = 1 .. Len(b) /\ DOMAIN s = 1 .. m
  BY <1>1, <1>2
<1>3. /\ Len(a) = n /\ \A i \in 1 .. n : a[i] = s[i]
      /\ Len(b) = m - n /\ \A i \in 1 .. m - n : b[i] = s[n + i]
  BY <1>p, <1>1, <1>2, SubSeqProperties
<1>4. IsInjective(a)  BY <1>1, <1>3 DEF IsInjective
<1>5. IsInjective(b)
  <2> SUFFICES ASSUME NEW i \in 1 .. m - n, NEW j \in 1 .. m - n, b[i] = b[j]  PROVE i = j
    BY <1>3, <1>a DEF IsInjective
  <2>1. n + i \in DOMAIN s /\ n + j \in DOMAIN s /\ s[n + i] = s[n + j]  BY <1>1, <1>3
  <2>2. n + i = n + j  BY <2>1 DEF IsInjective
  <2> QED BY <1>1, <2>2
<1>6. Apart(a, b)
  <2>1. ASSUME NEW i \in 1 .. n, NEW j \in 1 .. m - n, a[i] = b[j]  PROVE FALSE
    <3>1. i \in DOMAIN s /\ n + j \in DOMAIN s /\ s[i] = s[n + j]  BY <1>1, <1>3, <2>1
    <3>2. i = n + j  BY <3>1 DEF IsInjective
    <3> QED BY <1>1, <3>2
  <2>2. ToSet(a) = {a[i] : i \in 1 .. n} /\ ToSet(b) = {b[j] : j \in 1 .. m - n}
    BY <1>3, <1>a DEF ToSet
  <2> QED BY <2>1, <2>2 DEF Apart
<1>7. ToSet(a) \cup ToSet(b) = ToSet(s)
  <2>1. ToSet(a) \subseteq ToSet(s)  BY <1>1, <1>3 DEF ToSet
  <2>2. ASSUME NEW j \in 1 .. m - n  PROVE b[j] \in ToSet(s)
    <3>1. n + j \in DOMAIN s /\ b[j] = s[n + j]  BY <1>1, <1>3
    <3> QED BY <3>1 DEF ToSet
  <2>3. ASSUME NEW i \in 1 .. m  PROVE s[i] \in ToSet(a) \cup ToSet(b)
    <3>1. CASE i <= n
      <4>1. i \in DOMAIN a /\ a[i] = s[i]  BY <1>1, <1>3, <3>1
      <4> QED BY <4>1 DEF ToSet
    <3>2. CASE ~ (i <= n)
      <4>1. i - n \in 1 .. m - n /\ n + (i - n) = i  BY <1>1, <3>2
      <4>2. i - n \in DOMAIN b /\ b[i - n] = s[i]  BY <1>3, <4>1
      <4> QED BY <4>2 DEF ToSet
    <3> QED BY <3>1, <3>2
  <2>4. ToSet(b) \subseteq ToSet(s)  BY <1>3, <2>2 DEF ToSet
  <2>5. ToSet(s) \subseteq ToSet(a) \cup ToSet(b)
    <3>1. ToSet(s) = {s[i] : i \in 1 .. m}  BY <1>a DEF ToSet
    <3> QED BY <2>3, <3>1
  <2> QED BY <2>1, <2>4, <2>5
<1>8. a # <<>> => s # <<>> /\ Head(a) = Head(s)  BY <1>1, <1>3
<1>9. a = <<>> => n = 0  BY <1>3
<1>10. n = 0 => a = <<>> /\ b = s
  <2>1. ASSUME n = 0 PROVE b = s
    <3>1. Len(b) = Len(s) /\ \A i \in 1 .. Len(b) : b[i] = s[i]
      BY <1>1, <1>3, <2>1
    <3> QED BY <1>2, <3>1, SeqEqual
  <2>2. n = 0 => a = <<>>  BY <1>3
  <2> QED BY <2>1, <2>2
<1>11. Parts(S, s, a, b)
  BY <1>2, <1>4, <1>5, <1>6, <1>7, <1>8, <1>9, <1>10 DEF Parts
<1> QED BY <1>p, <1>10, <1>11


-----------------------------------------------------------------------------
(* What a step leaves to be done. *)

\* A step that is not the dialling of a connection, nor a walk under way.
Plain == {e \in Step : e.op # "dial" /\ e.next \in {None, First}}

LEMMA PlainSteps ==
  /\ \A op \in Ops \ (Walks \cup {"dial"}) : Do(op) \in Plain
  /\ Reset \in Seq(Plain) /\ Out \in Seq(Plain) /\ Poll \in Seq(Plain)
  /\ Refused \in Seq(Plain) /\ GivenUp \in Seq(Plain)
<1>1. ASSUME NEW op \in Ops \ (Walks \cup {"dial"})  PROVE Do(op) \in Plain
  BY StepsOf DEF Plain
<1>2. /\ Walk("cancel", "requests") \in Plain /\ Walk("cancel", "pendings") \in Plain
      /\ Walk("expire", "requests") \in Plain /\ Walk("expire", "pendings") \in Plain
      /\ Walk("flush", "requests") \in Plain
  BY WalkStep, Kinships, Numbering DEF Plain, Walk, Clean, Usual
<1>3. /\ Do("shut") \in Plain /\ Do("wipe") \in Plain /\ Do("drop") \in Plain /\ Do("clear") \in Plain
      /\ Do("out") \in Plain /\ Do("ping") \in Plain /\ Do("poll") \in Plain
      /\ Do("refuse") \in Plain /\ Do("fallback") \in Plain /\ Do("giveup") \in Plain
  BY <1>1 DEF Ops, Walks, Calm, Ends
<1>4. Reset \in Seq(Plain) /\ Out \in Seq(Plain)
  BY <1>2, <1>3 DEF Reset, Out
<1>5. /\ <<Do("poll")>> \in Seq(Plain) /\ <<Do("refuse")>> \in Seq(Plain)
      /\ <<Do("fallback")>> \in Seq(Plain) /\ <<Do("giveup")>> \in Seq(Plain)
  BY <1>3
<1> QED BY <1>1, <1>4, <1>5, ConcatProperties DEF Poll, Refused, GivenUp

LEMMA PlainWholes ==
  /\ <<>> \in Seq(Plain)
  /\ Reset \o <<Do("lost")>> \o Out \in Seq(Plain)
  /\ <<Do("refuse")>> \o Reset \o <<Do("fail")>> \in Seq(Plain)
  /\ <<Do("refuse"), Do("fail")>> \in Seq(Plain)
  /\ GivenUp \o Out \in Seq(Plain)
  /\ <<Do("parting")>> \o Reset \o <<Do("fallback")>> \o Out \in Seq(Plain)
  /\ \A op \in {"connect", "fail", "polled"} : <<Do(op)>> \in Seq(Plain)
  /\ <<Do("read"), Do("write"), Do("parse")>> \in Seq(Plain)
  /\ \A e \in Plain : <<Do("reply"), e>> \in Seq(Plain) /\ Refused \o <<e>> \in Seq(Plain)
<1>1. \A op \in {"lost", "refuse", "fail", "parting", "fallback", "connect", "polled", "read",
                  "write", "parse", "reply"} : Do(op) \in Plain
  <2>1. ASSUME NEW op \in {"lost", "refuse", "fail", "parting", "fallback", "connect", "polled",
                           "read", "write", "parse", "reply"}
        PROVE  op \in Ops \ (Walks \cup {"dial"})
    BY DEF Ops, Walks, Calm, Ends
  <2> QED BY <2>1, PlainSteps
<1>2. \A op \in {"lost", "refuse", "fail", "parting", "fallback", "connect", "polled"} :
         <<Do(op)>> \in Seq(Plain)
  BY <1>1
<1>3. <<Do("refuse"), Do("fail")>> \in Seq(Plain) /\ <<Do("read"), Do("write"), Do("parse")>> \in Seq(Plain)
  BY <1>1
<1>4. ASSUME NEW e \in Plain
      PROVE  <<Do("reply"), e>> \in Seq(Plain) /\ Refused \o <<e>> \in Seq(Plain)
  <2>1. <<Do("reply"), e>> \in Seq(Plain)  BY <1>1
  <2>2. <<e>> \in Seq(Plain)  OBVIOUS
  <2> QED BY <2>1, <2>2, PlainSteps, ConcatProperties
<1>5. <<>> \in Seq(Plain)  BY EmptySeq
<1>6. \A s \in Seq(Plain), t \in Seq(Plain) : s \o t \in Seq(Plain)  BY ConcatProperties
<1>7. /\ Reset \o <<Do("lost")>> \in Seq(Plain) /\ <<Do("refuse")>> \o Reset \in Seq(Plain)
      /\ <<Do("parting")>> \o Reset \in Seq(Plain)
  BY <1>2, <1>6, PlainSteps
<1>8. (<<Do("parting")>> \o Reset) \o <<Do("fallback")>> \in Seq(Plain)
  BY <1>2, <1>6, <1>7
<1>9. /\ Reset \o <<Do("lost")>> \o Out \in Seq(Plain)
      /\ <<Do("refuse")>> \o Reset \o <<Do("fail")>> \in Seq(Plain)
      /\ GivenUp \o Out \in Seq(Plain)
      /\ <<Do("parting")>> \o Reset \o <<Do("fallback")>> \o Out \in Seq(Plain)
  BY <1>2, <1>6, <1>7, <1>8, PlainSteps
<1> QED BY <1>2, <1>3, <1>4, <1>5, <1>9

\* While todo stays, a walk that is under way keeps its list.
Staying == \/ At("parse") \/ At("drop") \/ UNCHANGED <<requests, pendings>>
           \/ (\E kind, name, about : Enqueue(kind, name, about)) /\ UNCHANGED pendings

\* The walk goes on, over a request that stays on its list or one that is flushed.
Passing == /\ At("expire") \/ At("flush")
           /\ Current # None /\ Become(Onwards(Current))
           /\ UNCHANGED <<requests, pendings>> \/ Flushing

LEMMA StepPlain ==
  ASSUME Typed, Script, [Next]_vars
  PROVE  \/ UNCHANGED todo /\ Staying
         \/ \E s \in Seq(Plain) : Goto(s)
         \/ Run /\ state = "connecting" /\ Goto(Reset \o <<Do("dial")>> \o Poll)
         \/ todo # <<>> /\ \E s \in Seq(Plain) : Become(s)
         \/ Ending \/ Passing
<1> DEFINE Goal == \/ UNCHANGED todo /\ Staying
                   \/ \E s \in Seq(Plain) : Goto(s)
                   \/ todo # <<>> /\ \E s \in Seq(Plain) : Become(s)
                   \/ Ending \/ Passing
<1>a. ASSUME todo # <<>>, NEW s \in Seq(Plain), Become(s)  PROVE Goal
  BY <1>a
<1>b. ASSUME NEW s \in Seq(Plain), Goto(s)  PROVE Goal
  BY <1>b
<1>c. ASSUME UNCHANGED todo, Staying PROVE Goal  BY <1>c
<1>d. <<>> \in Seq(Plain)  BY PlainWholes
<1> HIDE DEF Goal
<1>1. ASSUME Wipe \/ Shut \/ Clear \/ Refuse \/ Fallback \/ GiveUp \/ Lost \/ Parting \/ ParsedAll  PROVE Goal
  BY <1>1, <1>a, <1>d, StepsOf DEF Wipe, Shut, Clear, Refuse, Fallback, GiveUp, Lost, Parting, ParsedAll
<1>2. ASSUME Cancel \/ TimeOut \/ Flush  PROVE Goal
  <2>1. todo # <<>>  BY <1>2, StepsOf DEF Cancel, TimeOut, Flush
  <2>2. Become(<<>>) \/ Ending \/ Passing
    BY <1>2 DEF Cancel, TimeOut, Flush, Ending, Passing, Flushing
  <2> QED BY <1>a, <1>d, <2>1, <2>2 DEF Goal
<1>3. ASSUME Run, ~ (state = "connecting" /\ Goto(Reset \o <<Do("dial")>> \o Poll))  PROVE Goal
  BY <1>3, <1>b, PlainSteps, PlainWholes DEF Run
<1>4. ASSUME Connecting \/ Complete \/ Write \/ Reply \/ Read \/ Fail \/ TakeTime \/ CheckPong  PROVE Goal
  <2>1. todo # <<>>  BY <1>4, StepsOf DEF Connecting, Complete, Write, Reply, Read, Fail, TakeTime, CheckPong
  <2>2. (\E s \in Seq(Plain) : Goto(s)) \/ \E s \in Seq(Plain) : Become(s)
    <3>1. CASE Connecting  BY <3>1, PlainSteps, PlainWholes DEF Connecting, Created
    <3>2. CASE Complete  BY <3>2, PlainSteps, PlainWholes DEF Complete, Created
    <3>3. CASE Write \/ Reply \/ Read \/ Fail
      BY <3>3, PlainSteps, PlainWholes DEF Write, Reply, Read, Fail
    <3>4. CASE TakeTime \/ CheckPong
      BY <3>4, PlainSteps, PlainWholes DEF TakeTime, CheckPong
    <3> QED BY <1>4, <3>1, <3>2, <3>3, <3>4
  <2> QED BY <1>a, <1>b, <2>1, <2>2
<1>5. ASSUME Dial \/ Wait \/ Polled  PROVE Goal
  <2>1. todo # <<>>  BY <1>5, StepsOf DEF Dial, Wait, Polled
  <2> QED BY <1>5, <1>a, <2>1, PlainWholes DEF Dial, Wait, Polled
<1>6. ASSUME Drop  PROVE Goal
  <2>1. todo # <<>> /\ At("drop")  BY <1>6, StepsOf DEF Drop
  <2> QED BY <2>1, <1>6, <1>a, <1>c, <1>d DEF Drop, Staying
<1>7. ASSUME HandleResult \/ HandleCommand \/ HandleStray \/ HandleEvent  PROVE Goal
  <2>1. todo # <<>> /\ top.op = "parse" /\ At("parse")
    BY <1>7, StepsOf DEF HandleResult, HandleCommand, HandleStray, HandleEvent, Parse
  <2>2. top \in Plain
    <3>1. top \in Step  BY <2>1, TailOf DEF top, Typed
    <3> QED BY <2>1, <3>1, Numbering DEF Plain, Step, Walks
  <2>3. UNCHANGED todo \/ Become(Refused \o <<top>>) \/ Become(<<Do("reply"), top>>)
    BY <1>7 DEF HandleResult, HandleCommand, HandleStray, HandleEvent, CreateResponse,
      RegisterResponse, UnregisterResponse, SubscribeResponse, UnsubscribeResponse,
      EventResponse, CommandResponse
  <2> QED BY <1>a, <1>c, <2>1, <2>2, <2>3, PlainWholes DEF Staying
<1>8. ASSUME Destroy  PROVE Goal  BY <1>8, <1>b, PlainSteps DEF Destroy
<1>9. ASSUME Asking  PROVE Goal
  <2>1. ASSUME NEW kind, NEW name, NEW about, Ask(kind, name, about)
        PROVE  UNCHANGED todo /\ Staying
    BY <2>1 DEF Ask, Staying
  <2>2. UNCHANGED todo /\ Staying
    BY <2>1, <1>9 DEF Asking, Publish, Command, Register, Unregister, Subscribe, Unsubscribe
  <2> QED BY <1>c, <2>2
<1>10. ASSUME \/ Connect \/ Disconnect \/ HangUp \/ Destroyed \/ UNCHANGED vars
              \/ (\E r \in 1 .. Len(made) : Answer(r))
              \/ (\E type \in {"event", "pong", "call"} : Send(type))
       PROVE  Goal
  <2>1. UNCHANGED <<todo, requests, pendings>>
    BY <1>10 DEF Connect, Disconnect, HangUp, Destroyed, vars, clientVars, requestVars, Answer, Send,
      Deliver
  <2> QED BY <1>c, <2>1 DEF Staying
<1>11. ASSUME RunStep
       PROVE  Goal \/ (Run /\ state = "connecting" /\ Goto(Reset \o <<Do("dial")>> \o Poll))
  BY <1>11, <1>1, <1>2, <1>3, <1>4, <1>5, <1>6, <1>7 DEF RunStep
<1> QED BY <1>8, <1>9, <1>10, <1>11 DEF Next, Environment, Goal


-----------------------------------------------------------------------------
(* Every list holds requests that were made, once each. *)

Lined == Lists /\ Pointing /\ Alone /\ Dialing /\ DialReady

LEMMA CurrentListed ==
  ASSUME Typed, Pointing, todo # <<>>, top.op \in Walks
  PROVE  /\ Current # None => Current \in ToSet(List(top.list))
         /\ List(top.list) \in Seq(Ids)
         /\ top.next # None /\ List(top.list) # <<>> => Current # None
<1>1. top.list \in {"requests", "pendings"} /\ List(top.list) \in Seq(Ids)  BY Walking
<1>2. PICK l \in Seq(Ids) : l = List(top.list)  BY <1>1
<1>3. l # <<>> => Head(l) \in ToSet(l) /\ Head(l) \in Ids  BY DEF ToSet
<1> QED BY <1>1, <1>2, <1>3, Numbering DEF Current, Pointing

LEMMA NextRoom ==
  ASSUME Base'
  PROVE  made' \in Seq(Job) /\ Len(made') \in Nat /\ Len(made') <= MaxRequests
<1>1. made' \in Seq(Job) /\ incoming' \in Seq(Frame) /\ wire' \in Seq(Frame)  BY DEF Base, Typed
<1>2. PICK c \in Nat : c = Cardinality(Called(incoming' \o wire'))
  BY <1>1, ConcatProperties, CalledFinite
<1>3. PICK b \in {0, 1} : b = IF At("reply")' THEN 1 ELSE 0  OBVIOUS
<1>4. Calls' = c + b  BY <1>2, <1>3 DEF Calls
<1>5. Calls' \in Nat  BY <1>2, <1>3, <1>4
<1>6. /\ sent' \in 0 .. MaxFrames
      /\ Len(made') + Calls' + (MaxFrames - sent') <= MaxRequests
  BY DEF Base, Counted
<1> QED BY <1>1, <1>5, <1>6, ClientAssumption DEF ClientAssumption

\* Requests are made at the tail of client->requests.
LEMMA EnqueueLists ==
  ASSUME Base, Lists, Base', NEW kind, NEW name, NEW about, Enqueue(kind, name, about)
  PROVE  /\ Len(made') = Len(made) + 1 /\ Len(made) \in Nat
         /\ \A r \in 1 .. Len(made) : made'[r] = made[r]
         /\ made'[Len(made')] = [kind |-> kind, name |-> name, about |-> about, seq |-> sequence]
         /\ Listed(requests)' /\ ToSet(requests') = ToSet(requests) \cup {Len(made')}
         /\ \A s : Listed(s) => ToSet(s) \subseteq 1 .. Len(made') /\ IsInjective(s) /\ Len(made') \notin ToSet(s)
         /\ Len(made') \in Ids
<1>1. made \in Seq(Job) /\ requests \in Seq(Ids) /\ made' \in Seq(Job) /\ Len(made') <= MaxRequests
  BY NextRoom DEF Base, Typed
<1>2. PICK n \in Nat : n = Len(made)  BY <1>1
<1>3. PICK e : e = [kind |-> kind, name |-> name, about |-> about, seq |-> sequence]  OBVIOUS
<1>4. made' = Append(made, e) /\ requests' = Append(requests, n + 1)
  BY <1>2, <1>3 DEF Enqueue
<1>5. Len(made') = n + 1 /\ made'[n + 1] = e /\ \A i \in 1 .. n : made'[i] = made[i]
  BY <1>1, <1>2, <1>4
<1>6. n + 1 \in Ids  BY <1>1, <1>5, Numbering DEF Ids
<1>7. \A s : Listed(s) => ToSet(s) \subseteq 1 .. n + 1 /\ IsInjective(s) /\ n + 1 \notin ToSet(s)
  <2>1. 1 .. n \subseteq 1 .. n + 1 /\ n + 1 \notin 1 .. n  OBVIOUS
  <2> QED BY <1>2, <2>1 DEF Listed
<1>8. Listed(requests)  BY DEF Lists
<1>9. /\ ToSet(requests') = ToSet(requests) \cup {n + 1}
      /\ IsInjective(requests')
  BY <1>1, <1>4, <1>6, <1>7, <1>8, ToSetAppend
<1>10. Listed(requests)'
  <2>1. ToSet(requests') \subseteq 1 .. n + 1 BY <1>7, <1>8, <1>9
  <2> QED BY <1>5, <1>9, <2>1 DEF Listed
<1> QED BY <1>2, <1>3, <1>5, <1>6, <1>7, <1>9, <1>10

\* What the application asks for names a routine or a subscription of its own.
LEMMA OpeningEnqueues ==
  ASSUME Opening \/ \E kind, name, about : Queueing(kind, name, about)
  PROVE  /\ \E kind, name, about : Enqueue(kind, name, about)
         /\ UNCHANGED <<pendings, routines, subscriptions, outgoing, heard, incoming, freed, told, asked, old, expired, wire>>
BY DEF Opening, Queueing, buffers, nameVars, toldVars, peerVars

LEMMA OpenLists ==
  ASSUME Base, Lists, Base', Opening \/ \E kind, name, about : Queueing(kind, name, about)
  PROVE  Lists'
<1>1. PICK kind, name, about : Enqueue(kind, name, about)  BY OpeningEnqueues
<1>2. UNCHANGED <<pendings, routines, subscriptions, outgoing, heard>>  BY OpeningEnqueues
<1>3. PICK n : n = Len(made')  OBVIOUS
<1>4. /\ Listed(requests)' /\ ToSet(requests') = ToSet(requests) \cup {n}
      /\ \A s : Listed(s) => ToSet(s) \subseteq 1 .. Len(made') /\ IsInjective(s) /\ n \notin ToSet(s)
      /\ \A r \in 1 .. Len(made) : made'[r] = made[r]
  BY <1>1, <1>3, EnqueueLists
<1>5. /\ Listed(pendings) /\ Listed(routines) /\ Listed(subscriptions) /\ Listed(outgoing)
      /\ Listed(heard) /\ Listed(requests)
  BY DEF Lists
<1>6. /\ Listed(pendings)' /\ Listed(routines)' /\ Listed(subscriptions)' /\ Listed(outgoing)'
      /\ Listed(heard)'
  <2>1. ASSUME NEW s, Listed(s)  PROVE ToSet(s) \subseteq 1 .. Len(made') /\ IsInjective(s)
    BY <1>4, <2>1
  <2> QED BY <1>2, <1>5, <2>1 DEF Listed
<1>7. \A s \in {requests', pendings', routines', subscriptions', outgoing', heard'} :
         ToSet(s) \subseteq 1 .. Len(made') /\ IsInjective(s)
  BY <1>4, <1>6 DEF Listed
<1>8. Apart(requests, pendings)' /\ Apart(requests, outgoing)' /\ Apart(requests, heard)'
      /\ Apart(outgoing, heard)'
  BY <1>2, <1>4, <1>5 DEF Lists, Apart
<1>9. n \notin ToSet(routines) /\ n \notin ToSet(subscriptions)  BY <1>4, <1>5
<1>10. Queued' = Queued \cup {n}  BY <1>2, <1>4 DEF Queued
<1>11. \A r \in ToSet(routines) : r \in 1 .. Len(made) /\ made[r].kind = "register" /\ r \notin Queued
  BY <1>5 DEF Lists, Listed
<1>12. \A r \in ToSet(subscriptions) : r \in 1 .. Len(made) /\ made[r].kind = "subscribe" /\ r \notin Queued
  BY <1>5 DEF Lists, Listed
<1>13. \A r \in ToSet(routines') : made'[r].kind = "register" /\ r \notin Queued'
  BY <1>2, <1>4, <1>9, <1>10, <1>11
<1>14. \A r \in ToSet(subscriptions') : made'[r].kind = "subscribe" /\ r \notin Queued'
  BY <1>2, <1>4, <1>9, <1>10, <1>12
<1> QED BY <1>7, <1>8, <1>13, <1>14 DEF Lists, Listed


\* Nothing is wrong with lists that only lose entries.
LEMMA ShrinkLists ==
  ASSUME Lists, UNCHANGED made,
         Listed(requests)', ToSet(requests') \subseteq ToSet(requests),
         Listed(pendings)', ToSet(pendings') \subseteq ToSet(pendings),
         Listed(routines)', ToSet(routines') \subseteq ToSet(routines),
         Listed(subscriptions)', ToSet(subscriptions') \subseteq ToSet(subscriptions),
         Listed(outgoing)', ToSet(outgoing') \subseteq ToSet(outgoing),
         Listed(heard)', ToSet(heard') \subseteq ToSet(heard)
  PROVE  Lists'
<1>1. \A s \in {requests', pendings', routines', subscriptions', outgoing', heard'} : Listed(s)'
  OBVIOUS
<1>2. /\ Apart(requests, pendings)' /\ Apart(requests, outgoing)'
      /\ Apart(requests, heard)' /\ Apart(outgoing, heard)'
  BY DEF Lists, Apart
<1>3. Queued' \subseteq Queued  BY DEF Queued
<1>4. /\ \A r \in ToSet(routines') : made'[r].kind = "register" /\ r \notin Queued'
      /\ \A r \in ToSet(subscriptions') : made'[r].kind = "subscribe" /\ r \notin Queued'
  BY <1>3 DEF Lists
<1> QED BY <1>1, <1>2, <1>4 DEF Lists, Listed

LEMMA CutOne ==
  ASSUME Lists, Typed, UNCHANGED made, NEW r
  PROVE  /\ Listed(RemoveFirst(requests, r)) /\ ToSet(RemoveFirst(requests, r)) = ToSet(requests) \ {r}
         /\ Listed(RemoveFirst(pendings, r)) /\ ToSet(RemoveFirst(pendings, r)) = ToSet(pendings) \ {r}
<1>1. /\ requests \in Seq(Ids) /\ pendings \in Seq(Ids)
      /\ Listed(requests) /\ Listed(pendings)  BY DEF Typed, Lists
<1> QED BY <1>1, RemoveOne DEF Listed

LEMMA CutStep ==
  ASSUME Lists, Typed, UNCHANGED made, top.list \in {"requests", "pendings"},
         NEW r \in ToSet(List(top.list)), CutOff(r)
  PROVE  /\ Listed(requests)' /\ ToSet(requests') \subseteq ToSet(requests)
         /\ Listed(pendings)' /\ ToSet(pendings') \subseteq ToSet(pendings)
         /\ Queued' = Queued \ {r} /\ r \in Queued
         /\ \A l \in {"requests", "pendings"} :
              List(l)' = IF l = top.list THEN RemoveFirst(List(l), r) ELSE List(l)
<1>1. Listed(requests) /\ Listed(pendings) /\ Apart(requests, pendings)  BY DEF Lists
<1>2. CASE top.list = "requests"
  <2>1. requests' = RemoveFirst(requests, r) /\ pendings' = pendings /\ r \in ToSet(requests)
    BY <1>2 DEF CutOff, List
  <2> QED BY <1>1, <1>2, <2>1, CutOne DEF Listed, Queued, Apart, List
<1>3. CASE top.list = "pendings"
  <2>1. requests' = requests /\ pendings' = RemoveFirst(pendings, r) /\ r \in ToSet(pendings)
    BY <1>3 DEF CutOff, List
  <2> QED BY <1>1, <1>3, <2>1, CutOne DEF Listed, Queued, Apart, List
<1> QED BY <1>2, <1>3

LEMMA EndLists ==
  ASSUME Base, Lists, Pointing, Ending
  PROVE  Lists'
<1>1. todo # <<>> /\ top.op \in Walks /\ Typed /\ Current # None /\ CutOff(Current)
  BY StepsOf DEF Ending, Walks, Base, EndUnanswered
<1>2. Current \in ToSet(List(top.list)) /\ top.list \in {"requests", "pendings"}
  BY <1>1, CurrentListed, Walking
<1>3. UNCHANGED <<made, routines, subscriptions, outgoing, heard>>
  BY DEF Ending, buffers
<1>4. /\ Listed(requests)' /\ ToSet(requests') \subseteq ToSet(requests)
      /\ Listed(pendings)' /\ ToSet(pendings') \subseteq ToSet(pendings)
  BY <1>1, <1>2, <1>3, CutStep
<1>5. Listed(routines)' /\ Listed(subscriptions)' /\ Listed(outgoing)' /\ Listed(heard)'
  BY <1>3 DEF Lists, Listed
<1> QED BY <1>3, <1>4, <1>5, ShrinkLists

LEMMA FlushLists ==
  ASSUME Base, Lists, Pointing, Flushing
  PROVE  /\ Lists' /\ Current \in ToSet(requests) /\ requests' = RemoveFirst(requests, Current)
         /\ made[Current].kind \in {"event", "ping"} => Queued' = Queued \ {Current}
         /\ made[Current].kind \notin {"event", "ping"} => Queued' = Queued
         /\ ToSet(requests') = ToSet(requests) \ {Current}
         /\ outgoing' = Append(outgoing, Current)
<1>1. todo # <<>> /\ top.op = "flush" /\ Typed /\ Current # None
  BY StepsOf DEF Flushing, Flush, Base
<1>2. top.list = "requests" /\ Current \in ToSet(requests) /\ requests \in Seq(Ids)
  BY <1>1, CurrentListed, Walking DEF Walks, List, Typed
<1>3. PICK r \in Ids : r = Current  BY <1>2 DEF ToSet
<1>4. /\ UNCHANGED <<made, routines, subscriptions, heard>>
      /\ outgoing' = Append(outgoing, r) /\ requests' = RemoveFirst(requests, r)
      /\ IF made[r].kind \in {"event", "ping"} THEN UNCHANGED pendings
                                               ELSE pendings' = Append(pendings, r)
  BY <1>1, <1>3 DEF Flushing, Flush, nameVars
<1>5. /\ Listed(requests) /\ Listed(pendings) /\ Listed(outgoing)
      /\ Apart(requests, pendings) /\ Apart(requests, outgoing) /\ Apart(requests, heard)
      /\ Apart(outgoing, heard)
      /\ pendings \in Seq(Ids) /\ outgoing \in Seq(Ids) /\ r \in ToSet(requests)
  BY <1>1, <1>2, <1>3 DEF Lists, Typed
<1>6. Listed(requests)' /\ ToSet(requests') = ToSet(requests) \ {r}
  BY <1>1, <1>4, CutOne DEF Listed
<1>7. Listed(outgoing)' /\ ToSet(outgoing') = ToSet(outgoing) \cup {r}
  <2>1. r \notin ToSet(outgoing) /\ r \in 1 .. Len(made)  BY <1>5 DEF Apart, Listed
  <2> QED BY <1>4, <1>5, <2>1, ToSetAppend DEF Listed
<1>8. /\ Listed(pendings)'
      /\ ToSet(pendings') = IF made[r].kind \in {"event", "ping"} THEN ToSet(pendings)
                            ELSE ToSet(pendings) \cup {r}
  <2>1. r \notin ToSet(pendings) /\ r \in 1 .. Len(made)  BY <1>5 DEF Apart, Listed
  <2>2. CASE made[r].kind \in {"event", "ping"}
    <3>1. pendings' = pendings  BY <1>4, <2>2
    <3> QED BY <1>4, <1>5, <2>2, <3>1 DEF Listed
  <2>3. CASE made[r].kind \notin {"event", "ping"}
    <3>1. pendings' = Append(pendings, r)  BY <1>4, <2>3
    <3>2. /\ ToSet(pendings') = ToSet(pendings) \cup {r}
          /\ IsInjective(pendings')
      BY <1>5, <2>1, <3>1, ToSetAppend DEF Listed
    <3> QED BY <1>4, <1>5, <2>1, <2>3, <3>2 DEF Listed
  <2> QED BY <2>2, <2>3
<1>9. Listed(routines)' /\ Listed(subscriptions)' /\ Listed(heard)'
  BY <1>4 DEF Lists, Listed
<1>10. /\ Apart(requests, pendings)' /\ Apart(requests, outgoing)'
       /\ Apart(requests, heard)' /\ Apart(outgoing, heard)'
  BY <1>4, <1>5, <1>6, <1>7, <1>8 DEF Apart
<1>11. /\ made[r].kind \in {"event", "ping"} => Queued' = Queued \ {r}
       /\ made[r].kind \notin {"event", "ping"} => Queued' = Queued
  BY <1>5, <1>6, <1>8 DEF Queued, Apart
<1>12. /\ \A q \in ToSet(routines') : made'[q].kind = "register" /\ q \notin Queued'
       /\ \A q \in ToSet(subscriptions') : made'[q].kind = "subscribe" /\ q \notin Queued'
  BY <1>4, <1>11 DEF Lists
<1>13. Lists'
  BY <1>6, <1>7, <1>8, <1>9, <1>10, <1>12 DEF Lists, Listed
<1> QED BY <1>2, <1>3, <1>4, <1>6, <1>11, <1>13


\* The request a result is matched to.
LEMMA Matched ==
  ASSUME Base, Lists, HandleResult
  PROVE  \E r \in ToSet(pendings) :
           /\ r = pendings[Awaiting(Head(incoming).seq)] /\ r \in 1 .. Len(made) /\ r \in Ids
           /\ made[r].seq = Head(incoming).seq
           /\ pendings' = RemoveFirst(pendings, r) /\ Tell(r, "answered")
           /\ Listed(pendings)' /\ ToSet(pendings') = ToSet(pendings) \ {r}
           /\ Queued' = Queued \ {r} /\ r \in Queued
           /\ UNCHANGED <<made, requests, sequence, outgoing, heard>>
<1>1. pendings \in Seq(Ids) /\ Typed /\ Listed(pendings) /\ Apart(requests, pendings)
  BY DEF Base, Typed, Lists
<1>2. Awaiting(Head(incoming).seq) # 0  BY DEF HandleResult
<1>3. PICK r : r = pendings[Awaiting(Head(incoming).seq)]  OBVIOUS
<1>4. r \in ToSet(pendings) /\ r \in Ids /\ made[r].seq = Head(incoming).seq
  BY <1>1, <1>2, <1>3, AwaitingPlace DEF ToSet
<1>5. /\ UNCHANGED <<made, requests, sequence, outgoing, heard>>
      /\ pendings' = RemoveFirst(pendings, r) /\ Tell(r, "answered")
  BY <1>3 DEF HandleResult
<1>6. Listed(pendings)' /\ ToSet(pendings') = ToSet(pendings) \ {r}
  BY <1>1, <1>5, CutOne DEF Lists, Listed
<1>7. Queued' = Queued \ {r} /\ r \in Queued
  BY <1>1, <1>4, <1>5, <1>6 DEF Queued, Apart
<1>8. r \in 1 .. Len(made)  BY <1>1, <1>4 DEF Listed
<1> QED BY <1>3, <1>4, <1>5, <1>6, <1>7, <1>8

LEMMA ResultLists ==
  ASSUME Base, Lists, HandleResult
  PROVE  Lists'
<1>1. PICK r \in ToSet(pendings) :
           /\ r = pendings[Awaiting(Head(incoming).seq)] /\ r \in 1 .. Len(made) /\ r \in Ids
           /\ Listed(pendings)' /\ ToSet(pendings') = ToSet(pendings) \ {r}
           /\ Queued' = Queued \ {r} /\ r \in Queued
           /\ UNCHANGED <<made, requests, sequence, outgoing, heard>>
  BY Matched
<1>2. /\ Typed /\ routines \in Seq(Ids) /\ subscriptions \in Seq(Ids)
      /\ Listed(routines) /\ Listed(subscriptions) /\ Listed(requests) /\ Listed(outgoing)
      /\ Listed(heard)
  BY DEF Base, Typed, Lists
<1>3. r \notin ToSet(routines) /\ r \notin ToSet(subscriptions)
  BY <1>1 DEF Lists
<1>4. /\ Listed(routines)'
      /\ \A q \in ToSet(routines') : q \in ToSet(routines) \/ (q = r /\ made[r].kind = "register")
  <2>1. ASSUME NEW x  PROVE Listed(RemoveFirst(routines, x)) /\ ToSet(RemoveFirst(routines, x)) \subseteq ToSet(routines)
    BY <1>2, RemoveOne DEF Listed
  <2>2. Listed(Append(routines, r)) /\ ToSet(Append(routines, r)) = ToSet(routines) \cup {r}
    BY <1>1, <1>2, <1>3, ToSetAppend DEF Listed
  <2>3. \/ routines' = routines
        \/ routines' = Append(routines, r) /\ made[r].kind = "register"
        \/ routines' = RemoveFirst(routines, made[r].about)
    BY <1>1 DEF HandleResult, CreateResponse, RegisterResponse, UnregisterResponse, nameVars,
      SubscribeResponse, UnsubscribeResponse, EventResponse, CommandResponse
  <2> QED BY <1>1, <1>2, <2>1, <2>2, <2>3 DEF Listed
<1>5. /\ Listed(subscriptions)'
      /\ \A q \in ToSet(subscriptions') : q \in ToSet(subscriptions) \/ (q = r /\ made[r].kind = "subscribe")
  <2>1. ASSUME NEW x  PROVE Listed(RemoveFirst(subscriptions, x)) /\ ToSet(RemoveFirst(subscriptions, x)) \subseteq ToSet(subscriptions)
    BY <1>2, RemoveOne DEF Listed
  <2>2. Listed(Append(subscriptions, r)) /\ ToSet(Append(subscriptions, r)) = ToSet(subscriptions) \cup {r}
    BY <1>1, <1>2, <1>3, ToSetAppend DEF Listed
  <2>3. \/ subscriptions' = subscriptions
        \/ subscriptions' = Append(subscriptions, r) /\ made[r].kind = "subscribe"
        \/ subscriptions' = RemoveFirst(subscriptions, made[r].about)
    BY <1>1 DEF HandleResult, CreateResponse, RegisterResponse, UnregisterResponse, nameVars,
      SubscribeResponse, UnsubscribeResponse, EventResponse, CommandResponse
  <2> QED BY <1>1, <1>2, <2>1, <2>2, <2>3 DEF Listed
<1>6. Listed(requests)' /\ Listed(outgoing)' /\ Listed(heard)'
  BY <1>1, <1>2 DEF Listed
<1>7. /\ Apart(requests, pendings)' /\ Apart(requests, outgoing)'
      /\ Apart(requests, heard)' /\ Apart(outgoing, heard)'
  BY <1>1 DEF Lists, Apart
<1>8. /\ \A q \in ToSet(routines') : made'[q].kind = "register" /\ q \notin Queued'
      /\ \A q \in ToSet(subscriptions') : made'[q].kind = "subscribe" /\ q \notin Queued'
  BY <1>1, <1>4, <1>5 DEF Lists
<1> QED BY <1>1, <1>4, <1>5, <1>6, <1>7, <1>8 DEF Lists, Listed

LEMMA WriteLists ==
  ASSUME Base, Lists, Write
  PROVE  /\ Lists' /\ asked' \subseteq asked \cup (ToSet(heard') \cap 1 .. Len(made))
         /\ ToSet(heard) \subseteq ToSet(heard')
         /\ ToSet(outgoing') \subseteq ToSet(outgoing)
         /\ ToSet(heard') \subseteq ToSet(heard) \cup ToSet(outgoing)
         /\ heard # <<>> => heard' # <<>> /\ Head(heard') = Head(heard)
         /\ heard = <<>> /\ heard' # <<>> => outgoing # <<>> /\ Head(heard') = Head(outgoing)
         /\ heard' = <<>> => outgoing' = outgoing
         /\ heard' # heard => socket = "up" /\ link
<1>1. UNCHANGED <<made, requests, pendings, routines, subscriptions>>
  BY DEF Write, requestVars, nameVars
<1>2. CASE UNCHANGED <<outgoing, asked, heard>>
  <2>1. \A s \in {requests', pendings', routines', subscriptions', outgoing', heard'} : Listed(s)'
    BY <1>1, <1>2 DEF Lists, Listed
  <2>2. Lists'  BY <1>1, <1>2, <2>1, ShrinkLists
  <2> QED BY <1>2, <2>2
<1>3. ASSUME NEW n \in 0 .. Len(outgoing), n > 0 => socket = "up" /\ link,
             outgoing' = SubSeq(outgoing, n + 1, Len(outgoing)),
             asked' = asked \cup Answerable(SubSeq(outgoing, 1, n)),
             heard' = heard \o SubSeq(outgoing, 1, n)
      PROVE  /\ Lists' /\ asked' \subseteq asked \cup (ToSet(heard') \cap 1 .. Len(made))
             /\ ToSet(heard) \subseteq ToSet(heard')
             /\ ToSet(outgoing') \subseteq ToSet(outgoing)
             /\ ToSet(heard') \subseteq ToSet(heard) \cup ToSet(outgoing)
             /\ heard # <<>> => heard' # <<>> /\ Head(heard') = Head(heard)
             /\ heard = <<>> /\ heard' # <<>> => outgoing # <<>> /\ Head(heard') = Head(outgoing)
             /\ heard' = <<>> => outgoing' = outgoing
             /\ heard' # heard => socket = "up" /\ link
  <2>1. /\ outgoing \in Seq(Ids) /\ heard \in Seq(Ids) /\ Listed(outgoing) /\ Listed(heard)
        /\ Apart(outgoing, heard) /\ Apart(requests, outgoing) /\ Apart(requests, heard)
    BY DEF Base, Typed, Lists
  <2>o. PICK o \in Seq(Ids), h \in Seq(Ids) : o = outgoing /\ h = heard  BY <2>1
  <2>2. PICK a, b : /\ o = outgoing /\ h = heard
                    /\ a = SubSeq(o, 1, n) /\ b = SubSeq(o, n + 1, Len(o))
    BY <2>o
  <2>3. /\ a \in Seq(Ids) /\ b \in Seq(Ids)
        /\ IsInjective(a) /\ IsInjective(b) /\ Apart(a, b)
        /\ ToSet(a) \cup ToSet(b) = ToSet(o)
        /\ a # <<>> => o # <<>> /\ Head(a) = Head(o)
        /\ n = 0 => a = <<>>
        /\ a = <<>> => b = o
    <3>1. IsInjective(o) /\ n \in 0 .. Len(o)  BY <2>1, <2>2 DEF Listed
    <3>2. Parts(Ids, o, a, b) /\ (n = 0 => a = <<>>)  BY <2>2, <3>1, ToSetCut
    <3> QED BY <3>2 DEF Parts
  <2>4. Apart(h, a)  BY <2>1, <2>2, <2>3 DEF Apart
  <2>5. /\ ToSet(h \o a) = ToSet(h) \cup ToSet(a) /\ IsInjective(h \o a) /\ h \o a \in Seq(Ids)
    <3>1. IsInjective(h)  BY <2>1, <2>2 DEF Listed
    <3> QED BY <2>3, <2>4, <3>1, ToSetJoin
  <2>6. outgoing' = b /\ heard' = h \o a /\ asked' = asked \cup Answerable(a)  BY <1>3, <2>2
  <2>7. Listed(outgoing)'
    BY <1>1, <2>1, <2>2, <2>3, <2>6 DEF Listed
  <2>8. Listed(heard)'
    BY <1>1, <2>1, <2>2, <2>3, <2>5, <2>6 DEF Listed
  <2>9. Listed(requests)' /\ Listed(pendings)' /\ Listed(routines)' /\ Listed(subscriptions)'
    BY <1>1 DEF Lists, Listed
  <2>10. /\ Apart(requests, outgoing)' /\ Apart(requests, heard)' /\ Apart(outgoing, heard)'
         /\ Apart(requests, pendings)'
    BY <1>1, <2>1, <2>2, <2>3, <2>5, <2>6 DEF Lists, Apart
  <2>11. /\ \A q \in ToSet(routines') : made'[q].kind = "register" /\ q \notin Queued'
         /\ \A q \in ToSet(subscriptions') : made'[q].kind = "subscribe" /\ q \notin Queued'
    BY <1>1 DEF Lists, Queued
  <2>12. Lists'  BY <2>7, <2>8, <2>9, <2>10, <2>11 DEF Lists, Listed
  <2>13. h # <<>> => h \o a # <<>> /\ Head(h \o a) = Head(h)
    <3>1. ASSUME h # <<>> PROVE h \o a # <<>> /\ Head(h \o a) = Head(h)
      <4>1. Len(h) \in Nat /\ Len(h) >= 1 /\ Len(a) \in Nat  BY <2>2, <2>3, <3>1
      <4>2. Len(h \o a) = Len(h) + Len(a) /\ (h \o a)[1] = h[1]  BY <2>3, <4>1, JoinOf
      <4>3. PICK u \in Seq(Ids) : u = h \o a  BY <2>5
      <4>4. u # <<>> /\ Head(u) = h[1]  BY <4>1, <4>2, <4>3
      <4> QED BY <3>1, <4>3, <4>4
    <3> QED BY <3>1
  <2>14. h = <<>> => h \o a = a  BY <2>3, JoinOf
  <2>15. a = <<>> => h \o a = h  BY JoinOf
  <2>16. h \o a = <<>> => a = <<>>
    <3>1. Len(h \o a) = Len(h) + Len(a) /\ Len(h) \in Nat /\ Len(a) \in Nat  BY <2>3, JoinOf
    <3>2. PICK u \in Seq(Ids) : u = h \o a  BY <2>5
    <3> QED BY <2>3, <3>1, <3>2
  <2>17. Answerable(a) \subseteq ToSet(a)  BY DEF Answerable
  <2>18. ToSet(a) \subseteq 1 .. Len(made)  BY <2>1, <2>2, <2>3 DEF Listed
  <2>19. asked' \subseteq asked \cup (ToSet(heard') \cap 1 .. Len(made))
    BY <2>5, <2>6, <2>17, <2>18
  <2>20. heard' # heard => n > 0
    <3>1. n = 0 \/ n > 0  OBVIOUS
    <3> QED BY <2>2, <2>3, <2>6, <2>15, <3>1
  <2>21. /\ ToSet(heard) \subseteq ToSet(heard') /\ ToSet(outgoing') \subseteq ToSet(outgoing)
         /\ ToSet(heard') \subseteq ToSet(heard) \cup ToSet(outgoing)
    BY <2>2, <2>3, <2>5, <2>6
  <2>22. /\ heard # <<>> => heard' # <<>> /\ Head(heard') = Head(heard)
         /\ heard = <<>> /\ heard' # <<>> => outgoing # <<>> /\ Head(heard') = Head(outgoing)
         /\ heard' = <<>> => outgoing' = outgoing
    BY <2>2, <2>3, <2>6, <2>13, <2>14, <2>16
  <2> QED BY <1>3, <2>12, <2>19, <2>20, <2>21, <2>22
<1> QED BY <1>2, <1>3 DEF Write


LEMMA NextLists ==
  ASSUME Base, Lists, Pointing, Base', [Next]_vars
  PROVE  Lists'
<1>1. CASE Opening \/ \E kind, name, about : Queueing(kind, name, about)
  BY <1>1, OpenLists
<1>2. CASE Ending  BY <1>2, EndLists
<1>3. CASE Flushing  BY <1>3, FlushLists
<1>4. CASE HandleResult  BY <1>4, ResultLists
<1>5. CASE Idle
  <2>1. UNCHANGED <<made, requests, pendings>>  BY <1>5 DEF Idle
  <2>2. Listed(requests)' /\ Listed(pendings)'  BY <2>1 DEF Lists, Listed
  <2>3. CASE Drop
    <3>1. UNCHANGED <<outgoing, heard>>  BY <2>3 DEF Drop, buffers, toldVars
    <3>2. /\ routines \in Seq(Ids) /\ subscriptions \in Seq(Ids) /\ Listed(routines)
          /\ Listed(subscriptions)
      BY DEF Base, Typed, Lists
    <3>3. routines' = routines \/ (routines # <<>> /\ routines' = Tail(routines))
      BY <2>3 DEF Drop, nameVars
    <3>4. subscriptions' = subscriptions \/ (subscriptions # <<>> /\ subscriptions' = Tail(subscriptions))
      BY <2>3 DEF Drop, nameVars
    <3>5. /\ Listed(routines)' /\ ToSet(routines') \subseteq ToSet(routines)
      BY <2>1, <3>2, <3>3, ToSetTail DEF Listed
    <3>6. /\ Listed(subscriptions)' /\ ToSet(subscriptions') \subseteq ToSet(subscriptions)
      BY <2>1, <3>2, <3>4, ToSetTail DEF Listed
    <3>7. Listed(outgoing)' /\ Listed(heard)'  BY <2>1, <3>1 DEF Lists, Listed
    <3> QED BY <2>1, <2>2, <3>1, <3>5, <3>6, <3>7, ShrinkLists
  <2>4. CASE Write  BY <2>4, WriteLists
  <2>5. CASE Wipe
    <3>1. UNCHANGED <<routines, subscriptions>> /\ outgoing' = <<>> /\ heard' = <<>>
      BY <2>5 DEF Wipe, nameVars
    <3>2. Listed(outgoing)' /\ Listed(heard)' /\ ToSet(outgoing') = {} /\ ToSet(heard') = {}
      BY <3>1 DEF Listed, ToSet, IsInjective
    <3>3. Listed(routines)' /\ Listed(subscriptions)'  BY <2>1, <3>1 DEF Lists, Listed
    <3> QED BY <2>1, <2>2, <3>1, <3>2, <3>3, ShrinkLists
  <2>6. CASE UNCHANGED <<pendings, nameVars, outgoing, heard>>
    <3>1. UNCHANGED <<routines, subscriptions, outgoing, heard>>  BY <2>6 DEF nameVars
    <3>2. /\ Listed(routines)' /\ Listed(subscriptions)' /\ Listed(outgoing)' /\ Listed(heard)'
      BY <2>1, <3>1 DEF Lists, Listed
    <3>3. /\ UNCHANGED made /\ ToSet(requests') \subseteq ToSet(requests)
          /\ ToSet(pendings') \subseteq ToSet(pendings)
          /\ ToSet(routines') \subseteq ToSet(routines)
          /\ ToSet(subscriptions') \subseteq ToSet(subscriptions)
          /\ ToSet(outgoing') \subseteq ToSet(outgoing)
          /\ ToSet(heard') \subseteq ToSet(heard)
      BY <2>1, <3>1
    <3> QED BY <2>2, <3>2, <3>3, ShrinkLists
  <2> QED BY <1>2, <1>3, <1>4, <2>3, <2>4, <2>5, <2>6, StepLists
<1> QED BY <1>1, <1>2, <1>3, <1>4, <1>5, StepKinds

-----------------------------------------------------------------------------
(* A walk stays on its list, and a create is alone on its connection. *)

\* An entry of what was put before the rest is new, or is of the rest.
LEMMA PutEntries ==
  ASSUME Typed, todo # <<>>, NEW s \in Seq(Step), Become(s)
  PROVE  /\ todo' \in Seq(Step)
         /\ \A i \in DOMAIN todo' : \/ i \in DOMAIN s /\ todo'[i] = s[i]
                                    \/ i - Len(s) + 1 \in 2 .. Len(todo) /\ i > Len(s)
                                       /\ todo'[i] = todo[i - Len(s) + 1]
         /\ \A i \in DOMAIN s : i \in DOMAIN todo' /\ todo'[i] = s[i]
         /\ \A i \in 2 .. Len(todo) : \E j \in DOMAIN todo' : j > Len(s) /\ todo'[j] = todo[i]
<1>0. /\ Tail(todo) \in Seq(Step) /\ Len(todo) \in Nat \ {0} /\ Len(Tail(todo)) = Len(todo) - 1
      /\ \A i \in 1 .. Len(todo) - 1 : Tail(todo)[i] = todo[i + 1]
  BY TailOf DEF Typed
<1>q. PICK q \in Nat \ {0} : q = Len(todo)  BY <1>0
<1>t. PICK t \in Seq(Step) : t = Tail(todo)  BY <1>0
<1>1. /\ t = Tail(todo) /\ q = Len(todo) /\ q \in Nat \ {0} /\ Len(t) = q - 1
      /\ \A i \in 1 .. q - 1 : t[i] = todo[i + 1]
  BY <1>0, <1>q, <1>t
<1>2. PICK m \in Nat, n \in Nat : m = Len(s) /\ n = Len(t)  BY <1>1
<1>3. PICK u \in Seq(Step) : u = s \o t  BY JoinOf
<1>4. /\ Len(u) = m + n
      /\ \A i \in 1 .. m : u[i] = s[i]
      /\ \A i \in 1 .. n : u[m + i] = t[i]
      /\ \A i \in 1 .. m + n : u[i] = IF i <= m THEN s[i] ELSE t[i - m]
  BY <1>2, <1>3, JoinOf
<1>5. todo' = u  BY <1>1, <1>3 DEF Become
<1>6. ASSUME NEW i \in 1 .. m + n
      PROVE  \/ i \in 1 .. m /\ u[i] = s[i]
             \/ i - m + 1 \in 2 .. q /\ i > m /\ u[i] = todo[i - m + 1]
  <2>1. CASE i <= m  BY <1>4, <2>1
  <2>2. CASE ~ (i <= m)
    <3>1. i - m \in 1 .. q - 1 /\ i - m + 1 \in 2 .. q /\ i > m  BY <1>1, <1>2, <2>2
    <3>2. u[i] = t[i - m]  BY <1>4, <2>2
    <3>3. t[i - m] = todo[i - m + 1]  BY <1>1, <3>1
    <3> QED BY <3>1, <3>2, <3>3
  <2> QED BY <2>1, <2>2
<1>7. ASSUME NEW i \in 2 .. q
      PROVE  \E j \in 1 .. m + n : j > m /\ u[j] = todo[i]
  <2>1. i - 1 \in 1 .. q - 1 /\ (i - 1) + 1 = i /\ i - 1 \in 1 .. n  BY <1>1, <1>2
  <2>2. m + (i - 1) \in 1 .. m + n /\ m + (i - 1) > m  BY <1>1, <1>2, <2>1
  <2>3. u[m + (i - 1)] = t[i - 1]  BY <1>4, <2>1
  <2>4. t[i - 1] = todo[i]  BY <1>1, <2>1
  <2> QED BY <2>2, <2>3, <2>4
<1>8. DOMAIN s = 1 .. m /\ DOMAIN u = 1 .. m + n  BY <1>2, <1>3, <1>4
<1>9. ASSUME NEW i \in DOMAIN todo'
      PROVE  \/ i \in DOMAIN s /\ todo'[i] = s[i]
             \/ i - Len(s) + 1 \in 2 .. Len(todo) /\ i > Len(s) /\ todo'[i] = todo[i - Len(s) + 1]
  BY <1>1, <1>2, <1>5, <1>6, <1>8, <1>9
<1>10. ASSUME NEW i \in DOMAIN s  PROVE i \in DOMAIN todo' /\ todo'[i] = s[i]
  BY <1>2, <1>4, <1>5, <1>8
<1>11. ASSUME NEW i \in 2 .. Len(todo)  PROVE \E j \in DOMAIN todo' : j > Len(s) /\ todo'[j] = todo[i]
  BY <1>1, <1>2, <1>5, <1>7, <1>8
<1> QED BY <1>5, <1>9, <1>10, <1>11


\* The walk goes on at a request that stays on its list, or not at all.
LEMMA WalkOn ==
  ASSUME Typed, Lists, Pointing, todo # <<>>, top.op \in Walks, Current # None,
         NEW l, l = top.list, NEW t,
         t = List(l) \/ t = RemoveFirst(List(l), Current)
  PROVE  \E e \in Step :
           /\ Onwards(Current) = <<e>> /\ e.op = top.op /\ e.list = l
           /\ e.next \in {None} \cup ToSet(t)
           /\ Queued = {Current} => e.next = None
           /\ Current = Head(List(l)) /\ t # List(l) =>
                t = Tail(List(l)) /\ (t # <<>> => e.next = Head(t))
<1>0. PICK s \in Seq(Ids) : s = List(l)  BY CurrentListed
<1>1. PICK r : /\ r = Current /\ r \in ToSet(s) /\ s = List(l) /\ r # None
               /\ IsInjective(s) /\ l \in {"requests", "pendings"}
               /\ ToSet(s) \subseteq Queued
  <2>1. Current \in ToSet(List(l)) /\ List(l) \in Seq(Ids) /\ l \in {"requests", "pendings"}
    BY CurrentListed, Walking
  <2>2. IsInjective(List(l)) /\ ToSet(List(l)) \subseteq Queued
    BY <2>1 DEF Lists, Listed, List, Queued
  <2> QED BY <1>0, <2>1, <2>2
<1>2. PICK e \in Step : /\ Onwards(r) = <<e>> /\ e.op = top.op /\ e.list = top.list
                        /\ e.next = IF r \in ToSet(List(top.list))
                                    THEN Following(List(top.list), r) ELSE None
  BY Walking
<1>3. e.next = Following(s, r)  BY <1>1, <1>2
<1>4. /\ Following(s, r) \in ToSet(s) \cup {None}
      /\ Following(s, r) = None \/ Following(s, r) # r
      /\ r = Head(s) => Following(s, r) = IF Tail(s) = <<>> THEN None ELSE Head(Tail(s))
  BY <1>1, Follower
<1>5. /\ ToSet(RemoveFirst(s, r)) = ToSet(s) \ {r}
      /\ s # <<>> /\ r = Head(s) => RemoveFirst(s, r) = Tail(s)
  BY <1>1, RemoveOne
<1>6. t = s \/ t = RemoveFirst(s, r)  BY <1>1
<1>7. e.next \in {None} \cup ToSet(t)  BY <1>3, <1>4, <1>5, <1>6
<1>8. ASSUME Queued = {Current}  PROVE e.next = None
  BY <1>1, <1>3, <1>4, <1>8
<1>9. s # <<>>  BY <1>1 DEF ToSet
<1>10. ASSUME Current = Head(List(l)), t # List(l)
       PROVE  t = Tail(List(l)) /\ (t # <<>> => e.next = Head(t))
  BY <1>1, <1>3, <1>4, <1>5, <1>6, <1>9, <1>10
<1> QED BY <1>1, <1>2, <1>7, <1>8, <1>10

LEMMA DialWhole ==
  /\ Reset \o <<Do("dial")>> \o Poll \in Seq({e \in Step : e.next \in {None, First}})
  /\ Plain \subseteq {e \in Step : e.next \in {None, First}} /\ Plain \subseteq Step
<1> DEFINE S == {e \in Step : e.next \in {None, First}}
<1>1. Plain \subseteq S  BY DEF Plain
<1>2. Reset \in Seq(S) /\ Poll \in Seq(S)  BY <1>1, PlainSteps, SeqMonotonic
<1>3. Do("dial") \in S
  <2>1. "dial" \in Ops \ Walks  BY DEF Ops, Walks, Ends
  <2> QED BY <2>1, StepsOf
<1> HIDE DEF S
<1>4. <<Do("dial")>> \in Seq(S)  BY <1>3
<1>5. Reset \o <<Do("dial")>> \o Poll \in Seq(S)
  BY <1>2, <1>4, ConcatProperties
<1>6. S \subseteq Step  BY DEF S
<1> QED BY <1>1, <1>5, <1>6 DEF S

LEMMA NextPointing ==
  ASSUME Base, Lists, Pointing, Alone, [Next]_vars
  PROVE  Pointing'
<1>t. Typed /\ Script /\ todo \in Seq(Step)  BY DEF Base, Typed
<1> DEFINE Starts == {e \in Step : e.next \in {None, First}}
<1>1. ASSUME todo' \in Seq(Starts)  PROVE Pointing'
  <2>1. \A i \in DOMAIN todo' : todo'[i] \in Starts  BY <1>1
  <2>2. todo' # <<>> => 1 \in DOMAIN todo' /\ Head(todo') = todo'[1]  BY <1>1
  <2>3. 2 .. Len(todo') \subseteq DOMAIN todo'  BY <1>1
  <2> QED BY <2>1, <2>2, <2>3 DEF Pointing, top
<1>2. CASE UNCHANGED todo /\ Staying
  <2>1. \A i \in 2 .. Len(todo') : todo'[i].next \in {None, First}  BY <1>2 DEF Pointing
  <2>2. ASSUME todo # <<>>  PROVE top.next \in {None, First} \cup ToSet(List(top.list)')
    <3>1. top \in Step  BY <1>t, <2>2, TailOf DEF top
    <3>2. CASE top.op \notin Walks  BY <3>1, <3>2 DEF Step
    <3>3. CASE top.op \in Walks
      <4>1. PICK l \in {"requests", "pendings"} : l = top.list  BY <1>t, <2>2, <3>3, Walking
      <4>2. ~ At("parse") /\ ~ At("drop")  BY <3>3 DEF At, Walks
      <4>3. ToSet(requests) \subseteq ToSet(requests') /\ pendings' = pendings
        <5>1. ASSUME NEW kind, NEW name, NEW about, Enqueue(kind, name, about)
              PROVE  ToSet(requests) \subseteq ToSet(requests')
          <6>1. requests \in Seq(Ids) /\ made \in Seq(Job)  BY <1>t DEF Typed
          <6>2. PICK n \in Nat : n = Len(made)  BY <6>1
          <6>3. requests' = Append(requests, n + 1)  BY <5>1, <6>2 DEF Enqueue
          <6>4. PICK q \in Seq(Nat) : q = requests
            <7>1. Ids \subseteq Nat  BY DEF Ids
            <7> QED BY <6>1, <7>1, SeqMonotonic
          <6>5. ToSet(Append(q, n + 1)) = ToSet(q) \cup {n + 1}
            BY ToSetAppend
          <6> QED BY <6>3, <6>4, <6>5
        <5> QED BY <1>2, <4>2, <5>1 DEF Staying
      <4>4. ToSet(List(l)) \subseteq ToSet(List(l)')  BY <4>1, <4>3 DEF List
      <4>5. top.next \in {None, First} \cup ToSet(List(l))  BY <2>2, <4>1 DEF Pointing
      <4>6. List(l)' = List(top.list)'  BY <1>2, <4>1 DEF top
      <4> QED BY <4>4, <4>5, <4>6
    <3> QED BY <3>2, <3>3
  <2> QED BY <1>2, <2>1, <2>2 DEF Pointing, top
<1>3. ASSUME NEW s \in Seq(Starts), todo # <<>>, Become(s)
      PROVE  todo' \in Seq(Starts)
  <2>1. PICK t \in Seq(Step) : t = Tail(todo)  BY <1>t, <1>3, TailOf
  <2>2. t \in Seq(Starts)
    <3>1. Len(t) = Len(todo) - 1 /\ Len(todo) \in Nat \ {0} /\ \A i \in 1 .. Len(todo) - 1 : t[i] = todo[i + 1]
      BY <1>t, <1>3, <2>1, TailOf
    <3>2. ASSUME NEW i \in 1 .. Len(t)  PROVE t[i] \in Starts
      <4>1. i \in 1 .. Len(todo) - 1 /\ i + 1 \in 2 .. Len(todo)  BY <3>1
      <4>2. t[i] \in Step /\ t[i].next \in {None, First}  BY <3>1, <4>1 DEF Pointing
      <4> QED BY <4>2
    <3> HIDE DEF Starts
    <3> QED BY <3>2
  <2> HIDE DEF Starts
  <2> QED BY <1>3, <2>1, <2>2, ConcatProperties DEF Become
<1>s. Seq(Plain) \subseteq Seq(Starts)  BY DialWhole, SeqMonotonic
<1>4. ASSUME NEW s \in Seq(Plain), Goto(s)  PROVE Pointing'
  BY <1>1, <1>s, <1>4 DEF Goto
<1>5. CASE Run /\ state = "connecting" /\ Goto(Reset \o <<Do("dial")>> \o Poll)
  BY <1>1, <1>5, DialWhole DEF Goto
<1>6. ASSUME todo # <<>>, NEW s \in Seq(Plain), Become(s)  PROVE Pointing'
  BY <1>1, <1>3, <1>s, <1>6
\* The walk goes on with nothing before it.
<1>7. ASSUME NEW e \in Step, todo # <<>>, Become(<<e>>), e.list \in {"requests", "pendings"},
             e.next \in {None} \cup ToSet(List(e.list)')
      PROVE  Pointing'
  <2>1. <<e>> \in Seq(Step) /\ Len(<<e>>) = 1 /\ <<e>>[1] = e  BY OneStep
  <2>2. /\ todo' \in Seq(Step)
        /\ \A i \in DOMAIN todo' : \/ i \in 1 .. 1 /\ todo'[i] = <<e>>[i]
                                   \/ i - 1 + 1 \in 2 .. Len(todo) /\ i > 1
                                      /\ todo'[i] = todo[i - 1 + 1]
        /\ 1 \in DOMAIN todo' /\ todo'[1] = e
    <3>1. PICK u \in Seq(Step) : u = <<e>>  BY <2>1
    <3>2. DOMAIN u = 1 .. 1 /\ Len(u) = 1 /\ u[1] = e  BY <2>1, <3>1
    <3>3. Become(u)  BY <1>7, <3>1
    <3>4. /\ todo' \in Seq(Step)
          /\ \A i \in DOMAIN todo' : \/ i \in DOMAIN u /\ todo'[i] = u[i]
                                     \/ i - Len(u) + 1 \in 2 .. Len(todo) /\ i > Len(u)
                                        /\ todo'[i] = todo[i - Len(u) + 1]
          /\ \A i \in DOMAIN u : i \in DOMAIN todo' /\ todo'[i] = u[i]
      BY <1>t, <1>7, <3>3, PutEntries
    <3>5. 1 \in DOMAIN u  BY <3>2
    <3> QED BY <3>1, <3>2, <3>4, <3>5
  <2>3. Head(todo') = e
    <3>1. todo' # <<>> /\ Head(todo') = todo'[1]  BY <2>2
    <3> QED BY <2>2, <3>1
  <2>4. ASSUME NEW i \in 2 .. Len(todo')  PROVE todo'[i].next \in {None, First}
    <3>1. i \in DOMAIN todo' /\ i - 1 + 1 = i /\ i \notin 1 .. 1  BY <2>2
    <3>2. i \in 2 .. Len(todo) /\ todo'[i] = todo[i]  BY <2>2, <3>1
    <3> QED BY <3>2 DEF Pointing
  <2>5. List(e.list)' = List(top.list)'  BY <2>3 DEF top
  <2> QED BY <1>7, <2>3, <2>4, <2>5 DEF Pointing, top
<1>8. CASE Passing
  <2>1. todo # <<>> /\ top.op \in Walks /\ Current # None /\ Become(Onwards(Current))
    BY <1>8, StepsOf DEF Passing, Walks
  <2>2. PICK l \in {"requests", "pendings"} : l = top.list  BY <1>t, <2>1, Walking
  <2>3. List(l)' = List(l) \/ List(l)' = RemoveFirst(List(l), Current)
    <3>1. ASSUME Flushing PROVE requests' = RemoveFirst(requests, Current) /\ l = "requests"
      <4>1. top.op = "flush"  BY <3>1, StepsOf DEF Flushing, Flush
      <4> QED BY <1>t, <2>1, <2>2, <3>1, <4>1, Walking DEF Flushing, Flush
    <3>2. UNCHANGED <<requests, pendings>> => List(l)' = List(l)  BY <2>2 DEF List
    <3> QED BY <1>8, <3>1, <3>2 DEF Passing, List
  <2>4. PICK t : t = List(l)'  OBVIOUS
  <2>5. PICK e \in Step : /\ Onwards(Current) = <<e>> /\ e.list = l
                          /\ e.next \in {None} \cup ToSet(t)
    BY <1>t, <2>1, <2>2, <2>3, <2>4, WalkOn
  <2> QED BY <1>7, <2>1, <2>2, <2>4, <2>5
<1>9. CASE Ending
  <2>1. todo # <<>> /\ top.op \in Walks /\ Current # None /\ CutOff(Current) /\ UNCHANGED made
    BY <1>9, StepsOf DEF Ending, Walks, EndUnanswered
  <2>2. PICK l \in {"requests", "pendings"} : l = top.list  BY <1>t, <2>1, Walking
  <2>3. PICK t : t = List(l)'  OBVIOUS
  <2>4. t = RemoveFirst(List(l), Current)  BY <2>1, <2>2, <2>3 DEF CutOff, List
  <2>5. PICK e \in Step : /\ Onwards(Current) = <<e>> /\ e.list = l
                          /\ e.next \in {None} \cup ToSet(t)
                          /\ Queued = {Current} => e.next = None
    BY <1>t, <2>1, <2>2, <2>4, WalkOn
  <2>6. CASE made[Current].kind = "create"
    <3>1. Current \in Queued
      BY <1>t, <2>1, <2>2, CurrentListed DEF List, Queued
    <3>2. e.next = None  BY <2>5, <2>6, <3>1 DEF Alone
    <3>3. Become(Refused \o <<e>>)  BY <1>9, <2>5, <2>6 DEF Ending, EndUnanswered
    <3>4. Refused \o <<e>> \in Seq(Starts)
      <4>1. e \in Starts  BY <3>2
      <4>2. Refused \in Seq(Starts)  BY <1>s, PlainSteps
      <4> HIDE DEF Starts
      <4>3. <<e>> \in Seq(Starts)  BY <4>1
      <4> QED BY <4>2, <4>3, ConcatProperties
    <3> QED BY <1>1, <1>3, <2>1, <3>3, <3>4
  <2>7. CASE made[Current].kind # "create"
    <3>1. Become(<<>> \o <<e>>)  BY <1>9, <2>5, <2>7 DEF Ending, EndUnanswered
    <3>2. <<>> \o <<e>> = <<e>>
      <4>1. <<e>> \in Seq(Step)  BY OneStep
      <4> QED BY <4>1, ConcatEmptySeq
    <3> QED BY <1>7, <2>1, <2>2, <2>3, <2>5, <3>1, <3>2
  <2> QED BY <2>6, <2>7
<1> QED BY <1>t, <1>2, <1>4, <1>5, <1>6, <1>8, <1>9, StepPlain


\* Only the answer to a create makes the state connected.
LEMMA ConnectedBy ==
  ASSUME [Next]_vars, state' = "connected"
  PROVE  state = "connected" \/ HandleResult
<1>1. ASSUME RunStep, ~ HandleResult  PROVE state = "connected"
  <2>1. CASE Shut \/ Wipe \/ Cancel \/ Drop \/ Clear \/ Refuse \/ Parting \/ Fail \/ Dial \/ Wait
             \/ Polled \/ Read \/ Write \/ ParsedAll
    BY <2>1 DEF Shut, Wipe, Cancel, Drop, Clear, Refuse, Parting, Fail, Dial, Wait, Polled, Read,
         Write, ParsedAll
  <2>2. CASE Fallback \/ GiveUp \/ Lost \/ Run
    BY <2>2 DEF Fallback, GiveUp, Lost, Run
  <2>3. CASE Connecting \/ Complete \/ HandleStray \/ HandleEvent \/ HandleCommand \/ Reply
             \/ TakeTime \/ CheckPong \/ TimeOut \/ Flush
    BY <2>3 DEF Connecting, Complete, Created, HandleStray, HandleEvent, HandleCommand, Reply,
         TakeTime, CheckPong, TimeOut, Flush
  <2> QED BY <1>1, <2>1, <2>2, <2>3 DEF RunStep
<1>2. ASSUME NEW kind, NEW name, NEW about, Ask(kind, name, about)
      PROVE  state' = state
  BY <1>2 DEF Ask
<1>3. CASE Asking
  BY <1>2, <1>3 DEF Asking, Publish, Command, Register, Unregister, Subscribe, Unsubscribe
<1>4. CASE \/ Connect \/ Disconnect \/ Destroy \/ HangUp \/ Destroyed \/ UNCHANGED vars
           \/ (\E r \in 1 .. Len(made) : Answer(r))
           \/ (\E type \in {"event", "pong", "call"} : Send(type))
  BY <1>4 DEF Connect, Disconnect, Destroy, HangUp, Destroyed, vars, clientVars, Answer, Send, Deliver
<1> QED BY <1>1, <1>3, <1>4 DEF Next, Environment

LEMMA SocketBy ==
  ASSUME [Next]_vars
  PROVE  UNCHANGED socket \/ Wipe \/ Dial \/ Connecting \/ Complete
<1>1. CASE RunStep
  <2>1. CASE Shut \/ Cancel \/ Drop \/ Clear \/ Refuse \/ Parting \/ Fail \/ Wait
             \/ Polled \/ Read \/ Write \/ ParsedAll
    BY <2>1 DEF Shut, Cancel, Drop, Clear, Refuse, Parting, Fail, Wait, Polled, Read,
         Write, ParsedAll
  <2>2. CASE Fallback \/ GiveUp \/ Lost \/ Run
    BY <2>2 DEF Fallback, GiveUp, Lost, Run
  <2>3. CASE HandleResult \/ HandleStray \/ HandleEvent \/ HandleCommand \/ Reply
             \/ TakeTime \/ CheckPong \/ TimeOut \/ Flush
    BY <2>3 DEF HandleResult, HandleStray, HandleEvent, HandleCommand, Reply,
         TakeTime, CheckPong, TimeOut, Flush
  <2> QED BY <1>1, <2>1, <2>2, <2>3 DEF RunStep
<1>2. ASSUME NEW kind, NEW name, NEW about, Ask(kind, name, about)
      PROVE  socket' = socket
  BY <1>2 DEF Ask
<1>3. CASE Asking
  BY <1>2, <1>3 DEF Asking, Publish, Command, Register, Unregister, Subscribe, Unsubscribe
<1>4. CASE \/ Connect \/ Disconnect \/ Destroy \/ HangUp \/ Destroyed \/ UNCHANGED vars
           \/ (\E r \in 1 .. Len(made) : Answer(r))
           \/ (\E type \in {"event", "pong", "call"} : Send(type))
  BY <1>4 DEF Connect, Disconnect, Destroy, HangUp, Destroyed, vars, clientVars, Answer, Send, Deliver
<1> QED BY <1>1, <1>3, <1>4 DEF Next, Environment

LEMMA NextAlone ==
  ASSUME Base, Lists, Pointing, Alone, Dialing, Base', [Next]_vars
  PROVE  Alone'
<1>t. Typed  BY DEF Base
<1>q. Queued \subseteq 1 .. Len(made)  BY DEF Lists, Listed, Queued
<1>1. CASE Opening
  <2>1. socket = "dialing" /\ state' = "connecting" /\ UNCHANGED pendings /\ Enqueue("create", None, None)
    BY <1>1 DEF Opening, Dialing
  <2>2. Queued = {}  BY <2>1 DEF Dialing
  <2>3. PICK n : n = Len(made') /\ ToSet(requests') = ToSet(requests) \cup {n}
    BY <2>1, EnqueueLists
  <2>4. Queued' = {n}  BY <2>1, <2>2, <2>3 DEF Queued
  <2> QED BY <2>1, <2>4 DEF Alone
<1>2. ASSUME NEW kind, NEW name, NEW about, Queueing(kind, name, about)
      PROVE  Alone'
  <2>1. /\ Enqueue(kind, name, about) /\ UNCHANGED <<pendings, state>> /\ state = "connected"
        /\ kind # "create"
    BY <1>t, <1>2, WantedTyped DEF Queueing, Asked
  <2>2. PICK n : /\ n = Len(made') /\ ToSet(requests') = ToSet(requests) \cup {n}
                 /\ made'[n].kind = kind /\ \A r \in 1 .. Len(made) : made'[r] = made[r]
    <3>1. /\ made'[Len(made')] = [kind |-> kind, name |-> name, about |-> about, seq |-> sequence]
          /\ ToSet(requests') = ToSet(requests) \cup {Len(made')}
          /\ \A r \in 1 .. Len(made) : made'[r] = made[r]
      BY <2>1, EnqueueLists
    <3>2. made'[Len(made')].kind = kind  BY <3>1
    <3> QED BY <3>1, <3>2
  <2>3. Queued' = Queued \cup {n}  BY <2>1, <2>2 DEF Queued
  <2>4. \A r \in Queued : made[r].kind # "create"  BY <2>1 DEF Alone
  <2> QED BY <1>q, <2>1, <2>2, <2>3, <2>4 DEF Alone
<1>3. CASE Ending
  <2>1. todo # <<>> /\ top.op \in Walks /\ Current # None /\ CutOff(Current) /\ UNCHANGED <<made, state>>
    BY <1>3, StepsOf DEF Ending, Walks, EndUnanswered
  <2>2. Current \in ToSet(List(top.list)) /\ top.list \in {"requests", "pendings"}
    BY <1>t, <2>1, CurrentListed, Walking
  <2>3. Queued' = Queued \ {Current} /\ Current \in Queued  BY <1>t, <2>1, <2>2, CutStep
  <2> QED BY <2>1, <2>3 DEF Alone
<1>4. CASE Flushing
  <2>1. UNCHANGED <<made, state>> /\ Queued' \subseteq Queued
    <3>1. Queued' = Queued \/ Queued' = Queued \ {Current}  BY <1>4, FlushLists
    <3> QED BY <1>4, <3>1 DEF Flushing, Flush
  <2> QED BY <2>1 DEF Alone
<1>5. CASE HandleResult
  <2>1. PICK r : Queued' = Queued \ {r} /\ r \in Queued /\ UNCHANGED made
    BY <1>5, Matched
  <2> QED BY <2>1 DEF Alone
<1>6. CASE Idle
  <2>1. UNCHANGED <<made, Queued>>  BY <1>6 DEF Idle, Queued
  <2>2. state' = "connected" => state = "connected" \/ Alone'  BY <1>5, ConnectedBy
  <2> QED BY <2>1, <2>2 DEF Alone
<1> QED BY <1>1, <1>2, <1>3, <1>4, <1>5, <1>6, StepKinds

LEMMA CommandNext ==
  ASSUME Typed, HandleCommand
  PROVE  At("reply")'
<1>1. todo # <<>> /\ top.op = "parse" /\ Become(<<Do("reply"), top>>)
  BY StepsOf DEF HandleCommand, Parse
<1>2. Do("reply") \in Step /\ Do("reply").op = "reply"  BY StepsOf, PlainOps
<1>3. top \in Step  BY <1>1, TailOf DEF top, Typed
<1>4. PICK u \in Seq(Step) : u = <<Do("reply"), top>>
  <2>1. <<Do("reply"), top>> \in Seq(Step)  BY <1>2, <1>3
  <2> QED BY <2>1
<1>d. u[1] = Do("reply") /\ 1 \in DOMAIN u
  <2>1. Len(u) = 2 /\ u[1] = Do("reply")  BY <1>4
  <2> QED BY <2>1
<1>5. todo' \in Seq(Step) /\ 1 \in DOMAIN todo' /\ todo'[1] = Do("reply")
  <2>1. Become(u)  BY <1>1, <1>4
  <2> QED BY <1>1, <1>d, <2>1, PutEntries
<1> QED BY <1>2, <1>5 DEF At, top


LEMMA NotConnect ==
  ASSUME Typed, Script, [Next]_vars, At("connect")'
  PROVE  (UNCHANGED todo /\ ~ Connecting) \/ Dial
<1>1. todo' \notin Seq(Later)
  <2>1. todo' \in Seq(Later) => (todo' # <<>> => Head(todo') \in Later)  BY HeadTailProperties
  <2> QED BY <2>1 DEF At, top, Later
<1>2. ~ HandleCommand  BY CommandNext DEF At
<1>3. ~ (At("ping") /\ Goto(<<Do("parting")>> \o Reset \o <<Do("fallback")>> \o Out))
  <2>1. Goto(<<Do("parting")>> \o Reset \o <<Do("fallback")>> \o Out) => Head(todo').op = "parting"
    BY PartingSteps DEF Goto
  <2> QED BY <2>1 DEF At, top
<1>4. Connecting => todo' \in Seq(Later)
  <2>1. Connecting => todo # <<>>  BY StepsOf DEF Connecting
  <2>2. <<>> \in Seq(Later)  BY EmptySeq
  <2>3. <<Do("refuse")>> \o Reset \o <<Do("fail")>> \in Seq(Later) /\ GivenUp \in Seq(Later)
    BY WholeSteps, RefusedSteps DEF Resetting
  <2> QED BY <2>1, <2>2, <2>3, PoppedLater DEF Connecting, Created, Goto
<1> QED BY <1>1, <1>2, <1>3, <1>4, StepLater

\* Before a dial only the steps of a reset are left.
LEMMA DialLater ==
  ASSUME Typed, Script, Has("dial")
  PROVE  /\ todo # <<>> /\ top \in Step
         /\ top.op \in Calm \cup {"dial"}
         /\ top.op = "dial" => \A i \in 2 .. Len(todo) : todo[i].op \notin Calm \cup Ends
<1>1. PICK k \in DOMAIN todo : todo[k].op = "dial"  BY DEF Has
<1>2. /\ todo \in Seq(Step) /\ Orderly(todo) /\ DOMAIN todo = 1 .. Len(todo) /\ Len(todo) \in Nat
      /\ todo # <<>>
  BY <1>1 DEF Typed, Script
<1>3. top = todo[1] /\ 1 \in DOMAIN todo /\ top \in Step  BY <1>2 DEF top
<1>4. "dial" \in Calm \cup Ends  BY DEF Ends
<1>5. top.op \in Calm \cup {"dial"}
  <2>1. CASE k = 1  BY <1>1, <1>3, <2>1
  <2>2. CASE k # 1
    <3>1. 1 < k  BY <1>2, <2>2
    <3> QED BY <1>1, <1>2, <1>3, <1>4, <3>1 DEF Orderly
  <2> QED BY <2>1, <2>2
<1>6. ASSUME top.op = "dial", NEW i \in 2 .. Len(todo)
      PROVE  todo[i].op \notin Calm \cup Ends
  <2>1. i \in DOMAIN todo /\ 1 < i  BY <1>2
  <2>2. top.op \notin Calm  BY <1>6 DEF Calm
  <2> QED BY <1>2, <1>3, <2>1, <2>2 DEF Orderly
<1> QED BY <1>2, <1>3, <1>5, <1>6

LEMMA DialAt ==
  ASSUME Typed, Script, DialReady, At("dial")
  PROVE  /\ state # "connected" /\ socket = "none" /\ outgoing = <<>> /\ sequence = SeqStart
         /\ requests = <<>> /\ pendings = <<>>
<1>1. /\ todo # <<>> /\ top.op = "dial" /\ todo \in Seq(Step) /\ top = todo[1] /\ 1 \in DOMAIN todo
      /\ DOMAIN todo = 1 .. Len(todo) /\ Len(todo) \in Nat
  BY StepsOf DEF Typed, top
<1>2. Has("dial")  BY <1>1 DEF Has
<1>3. \A i \in 2 .. Len(todo) : todo[i].op \notin Calm \cup Ends  BY <1>1, <1>2, DialLater
<1>4. ASSUME NEW i \in DOMAIN todo  PROVE todo[i].op \notin Calm
  <2>1. i = 1 \/ i \in 2 .. Len(todo)  BY <1>1
  <2>2. "dial" \notin Calm  BY DEF Calm
  <2> QED BY <1>1, <1>3, <2>1, <2>2
<1>5. ~ Has("wipe") /\ ~ Has("clear")  BY <1>4 DEF Has, Calm
<1>6. \A l : \A i \in DOMAIN todo : ~ Empties(todo[i], l)  BY <1>4 DEF Empties, Calm
<1> QED BY <1>2, <1>5, <1>6 DEF DialReady, List

LEMMA NextDialing ==
  ASSUME Base, Lists, Pointing, Alone, Dialing, DialReady, Lists', Base', [Next]_vars
  PROVE  Dialing'
<1>t. Typed /\ Script  BY DEF Base
<1>1. At("connect")' => socket' = "dialing"
  <2>1. ASSUME At("connect")', UNCHANGED todo, ~ Connecting  PROVE socket' = "dialing"
    <3>1. At("connect") /\ socket = "dialing"  BY <2>1 DEF At, top, Dialing
    <3>2. ~ Wipe /\ ~ Complete  BY <3>1 DEF Wipe, Complete, At
    <3> QED BY <2>1, <3>1, <3>2, SocketBy DEF Dial
  <2> QED BY <1>t, <2>1, NotConnect DEF Dial
<1>2. ASSUME socket' = "dialing"
      PROVE  Queued' = {} /\ outgoing' = <<>> /\ sequence' = SeqStart /\ state' # "connected"
  <2>1. CASE Dial
    <3>1. /\ state # "connected" /\ outgoing = <<>> /\ sequence = SeqStart
          /\ requests = <<>> /\ pendings = <<>>
      BY <1>t, <2>1, DialAt DEF Dial
    <3>2. UNCHANGED <<state, outgoing, sequence, requests, pendings>>
      BY <2>1 DEF Dial, requestVars, buffers
    <3> QED BY <3>1, <3>2 DEF Queued, ToSet
  <2>2. CASE ~ Dial
    <3>1. socket = "dialing"
      BY <1>2, <2>2, SocketBy DEF Wipe, Connecting, Complete, Created
    <3>2. Queued = {} /\ outgoing = <<>> /\ sequence = SeqStart /\ state # "connected"
      BY <3>1 DEF Dialing
    <3>3. ~ Opening  BY <1>2 DEF Opening
    <3>4. ~ \E kind, name, about : Queueing(kind, name, about)  BY <3>2 DEF Queueing
    <3>5. ~ HandleResult /\ ~ Flushing /\ ~ Ending
      <4>1. ~ HandleResult  BY <3>2, Matched
      <4>2. ~ Flushing  BY <3>2, FlushLists DEF Queued
      <4>3. ~ Ending
        <5>1. Ending => /\ todo # <<>> /\ top.op \in Walks /\ Current # None
          BY StepsOf DEF Ending, Walks
        <5>2. Ending => Current \in Queued
          BY <1>t, <5>1, CurrentListed, Walking DEF Queued, List
        <5> QED BY <3>2, <5>2
      <4> QED BY <4>1, <4>2, <4>3
    <3>6. Idle  BY <3>3, <3>4, <3>5, StepKinds
    <3>7. Queued' = {} /\ sequence' = SeqStart
      BY <3>2, <3>6 DEF Idle, Clear, Queued
    <3>8. state' # "connected"  BY <3>2, <3>5, ConnectedBy
    <3>9. outgoing' = <<>>
      <4>1. Drop => UNCHANGED outgoing  BY DEF Drop, buffers
      <4>2. Wipe => outgoing' = <<>>  BY DEF Wipe
      <4>3. Write => outgoing' = <<>>
        <5>1. Write => ToSet(outgoing') \subseteq ToSet(outgoing)  BY WriteLists
        <5>2. ToSet(outgoing) = {}  BY <3>2 DEF ToSet
        <5>3. outgoing' \in Seq(Ids)  BY DEF Base, Typed
        <5>4. PICK o \in Seq(Ids) : o = outgoing'  BY <5>3
        <5>5. o # <<>> => o[1] \in ToSet(o)  BY DEF ToSet
        <5> QED BY <5>1, <5>2, <5>4, <5>5
      <4> QED BY <3>2, <3>5, <4>1, <4>2, <4>3, StepLists
    <3> QED BY <3>7, <3>8, <3>9
  <2> QED BY <2>1, <2>2
<1> QED BY <1>1, <1>2 DEF Dialing


LEMMA DialNew ==
  ASSUME Typed, Script, [Next]_vars, Has("dial")'
  PROVE  (Run /\ state = "connecting" /\ Goto(Reset \o <<Do("dial")>> \o Poll)) \/ Has("dial")
<1>1. CASE UNCHANGED todo  BY <1>1 DEF Has
<1>2. ASSUME NEW s \in Seq(Plain), Goto(s)  PROVE FALSE
  BY <1>2 DEF Has, Goto, Plain
<1>3. ASSUME todo # <<>>, NEW s \in Seq(Step), \A i \in DOMAIN s : s[i].op # "dial", Become(s)
      PROVE  Has("dial")
  <2>1. PICK i \in DOMAIN todo' : todo'[i].op = "dial"  BY DEF Has
  <2>2. PICK j : j \in 2 .. Len(todo) /\ todo[j].op = "dial"
    BY SMTT(30), <1>3, <2>1, PutEntries
  <2>3. j \in DOMAIN todo  BY <2>2 DEF Typed
  <2> QED BY <2>2, <2>3 DEF Has
<1>4. ASSUME todo # <<>>, NEW s \in Seq(Plain), Become(s)  PROVE Has("dial")
  <2>1. s \in Seq(Step)  BY DialWhole, SeqMonotonic
  <2>2. \A i \in DOMAIN s : s[i].op # "dial"  BY DEF Plain
  <2> QED BY <1>3, <1>4, <2>1, <2>2
<1>5. ASSUME NEW e \in Step, e.op # "dial"
      PROVE  /\ <<e>> \in Seq(Step) /\ \A i \in DOMAIN <<e>> : <<e>>[i].op # "dial"
             /\ Refused \o <<e>> \in Seq(Step)
             /\ \A i \in DOMAIN (Refused \o <<e>>) : (Refused \o <<e>>)[i].op # "dial"
             /\ <<>> \o <<e>> = <<e>>
  <2> DEFINE B == {d \in Step : d.op # "dial"}
  <2>1. Plain \subseteq B /\ B \subseteq Step /\ e \in B  BY <1>5 DEF Plain
  <2>2. Refused \in Seq(B)  BY <2>1, PlainSteps, SeqMonotonic
  <2> HIDE DEF B
  <2>3. <<e>> \in Seq(B)  BY <2>1
  <2>4. Refused \o <<e>> \in Seq(B)  BY <2>2, <2>3, ConcatProperties
  <2>5. \A s \in Seq(B) : s \in Seq(Step) /\ \A i \in DOMAIN s : s[i].op # "dial"
    <3>1. Seq(B) \subseteq Seq(Step)  BY <2>1, SeqMonotonic
    <3>2. \A s \in Seq(B) : \A i \in DOMAIN s : s[i] \in B  OBVIOUS
    <3> QED BY <3>1, <3>2 DEF B
  <2> QED BY <2>3, <2>4, <2>5, ConcatEmptySeq
<1>6. ASSUME todo # <<>>, top.op \in Walks
      PROVE  \E e \in Step : Onwards(Current) = <<e>> /\ e.op # "dial"
  BY <1>6, Walking DEF Walks
<1>7. CASE Ending
  <2>1. todo # <<>> /\ top.op \in Walks  BY <1>7, StepsOf DEF Ending, Walks
  <2>2. PICK e \in Step : Onwards(Current) = <<e>> /\ e.op # "dial"  BY <1>6, <2>1
  <2>3. Become(<<>> \o <<e>>) \/ Become(Refused \o <<e>>)
    BY <1>7, <2>2 DEF Ending, EndUnanswered
  <2> QED BY <1>3, <1>5, <2>1, <2>2, <2>3
<1>8. CASE Passing
  <2>1. todo # <<>> /\ top.op \in Walks  BY <1>8, StepsOf DEF Passing, Walks
  <2>2. PICK e \in Step : Onwards(Current) = <<e>> /\ e.op # "dial"  BY <1>6, <2>1
  <2>3. Become(<<e>>)  BY <1>8, <2>2 DEF Passing
  <2> QED BY <1>3, <1>5, <2>1, <2>2, <2>3
<1> QED BY <1>1, <1>2, <1>4, <1>7, <1>8, StepPlain

\* While a reset is under way, its steps and what may come between them.
LEMMA CalmActions ==
  ASSUME todo # <<>>, top.op \in Calm \cup {"dial"}, [Next]_vars, state # "connected"
  PROVE  \/ Shut \/ Wipe \/ Cancel \/ Drop \/ Clear \/ Refuse \/ Fallback \/ Parting \/ Dial
         \/ UNCHANGED <<todo, socket, outgoing, sequence, requests, pendings>>
<1>1. CASE RunStep
  <2>1. \A op \in {"giveup", "lost", "fail", "connect", "poll", "polled", "read", "write",
                   "parse", "reply", "out", "ping", "expire", "flush"} : ~ At(op)
    BY DEF At, Calm
  <2>2. /\ ~ GiveUp /\ ~ Lost /\ ~ Fail /\ ~ Connecting /\ ~ Wait /\ ~ Polled /\ ~ Read
        /\ ~ Complete /\ ~ Write /\ ~ ParsedAll /\ ~ Reply /\ ~ TakeTime /\ ~ CheckPong
        /\ ~ TimeOut /\ ~ Flush /\ ~ Run
    BY <2>1 DEF GiveUp, Lost, Fail, Connecting, Wait, Polled, Read, Complete, Write, ParsedAll,
         Reply, TakeTime, CheckPong, TimeOut, Flush, Run
  <2>3. ~ HandleStray /\ ~ HandleResult /\ ~ HandleEvent /\ ~ HandleCommand
    BY <2>1 DEF HandleStray, HandleResult, HandleEvent, HandleCommand, Parse
  <2> QED BY <1>1, <2>2, <2>3 DEF RunStep
<1>2. ~ Asking
  <2>1. \A kind, name, about : ~ Ask(kind, name, about)  BY DEF Ask
  <2> QED BY <2>1 DEF Asking, Publish, Command, Register, Unregister, Subscribe, Unsubscribe
<1>3. ~ Destroy  BY DEF Destroy
<1>4. CASE \/ Connect \/ Disconnect \/ HangUp \/ Destroyed \/ UNCHANGED vars
           \/ (\E r \in 1 .. Len(made) : Answer(r))
           \/ (\E type \in {"event", "pong", "call"} : Send(type))
  BY <1>4 DEF Connect, Disconnect, HangUp, Destroyed, vars, clientVars, requestVars, buffers, Answer,
    Send, Deliver
<1> QED BY <1>1, <1>2, <1>3, <1>4 DEF Next, Environment

LEMMA PopEntries ==
  ASSUME Typed, todo # <<>>, Become(<<>>)
  PROVE  /\ \A i \in 2 .. Len(todo) : \E j \in DOMAIN todo' : todo'[j] = todo[i]
         /\ \A i \in DOMAIN todo : todo[i].op # top.op => \E j \in DOMAIN todo' : todo'[j] = todo[i]
         /\ \A op : op # top.op /\ Has(op) => Has(op)'
<1>1. \A i \in 2 .. Len(todo) : \E j \in DOMAIN todo' : todo'[j] = todo[i]
  <2>1. <<>> \in Seq(Step)  BY EmptySeq
  <2> QED BY <2>1, PutEntries
<1>2. todo \in Seq(Step) /\ top = todo[1] /\ DOMAIN todo = 1 .. Len(todo)  BY DEF Typed, top
<1>3. ASSUME NEW i \in DOMAIN todo, todo[i].op # top.op
      PROVE  \E j \in DOMAIN todo' : todo'[j] = todo[i]
  <2>1. i # 1  BY <1>2, <1>3
  <2>2. i \in 2 .. Len(todo)  BY <1>2, <2>1
  <2> QED BY <1>1, <2>2
<1>4. ASSUME NEW op, op # top.op, Has(op)  PROVE Has(op)'
  <2>1. PICK i \in DOMAIN todo : todo[i].op = op  BY <1>4 DEF Has
  <2>2. PICK j \in DOMAIN todo' : todo'[j] = todo[i]  BY <1>3, <1>4, <2>1
  <2> QED BY <2>1, <2>2 DEF Has
<1> QED BY <1>1, <1>3, <1>4


LEMMA WholeDial ==
  ASSUME NEW s, s = Reset \o <<Do("dial")>> \o Poll
  PROVE  /\ \A i \in 1 .. 6 : i \in DOMAIN s /\ s[i] = Reset[i]
         /\ Reset[2].op = "wipe" /\ Reset[6].op = "clear"
         /\ Reset[3] = Walk("cancel", "requests") /\ Reset[4] = Walk("cancel", "pendings")
<1>1. /\ Len(Reset) = 6 /\ Reset[2] = Do("wipe") /\ Reset[6] = Do("clear")
      /\ Reset[3] = Walk("cancel", "requests") /\ Reset[4] = Walk("cancel", "pendings")
  BY DEF Reset
<1>2. PICK r \in Seq(Step), d \in Seq(Step), p \in Seq(Step) :
         r = Reset /\ d = <<Do("dial")>> /\ p = Poll
  <2>1. Do("dial") \in Step
    <3>1. "dial" \in Ops \ Walks  BY DEF Ops, Walks, Ends
    <3> QED BY <3>1, StepsOf
  <2>2. <<Do("dial")>> \in Seq(Step)  BY <2>1
  <2>3. Reset \in Seq(Step) /\ Poll \in Seq(Step)
    BY ResetSteps, OutSteps, Kinships, SeqMonotonic
  <2> QED BY <2>2, <2>3
<1>3. PICK u \in Seq(Step) : u = r \o d  BY JoinOf
<1>4. Len(u) = 6 + Len(d) /\ \A i \in 1 .. 6 : u[i] = r[i]
  <2>1. Len(r) = 6  BY <1>1, <1>2
  <2>2. Len(u) = Len(r) + Len(d) /\ \A i \in 1 .. Len(r) : u[i] = r[i]  BY <1>3, JoinOf
  <2> QED BY <2>1, <2>2
<1>5. PICK v \in Seq(Step) : v = u \o p  BY JoinOf
<1>6. Len(v) = Len(u) + Len(p) /\ \A i \in 1 .. Len(u) : v[i] = u[i]  BY <1>5, JoinOf
<1>7. Len(d) \in Nat /\ Len(p) \in Nat  OBVIOUS
<1>8. ASSUME NEW i \in 1 .. 6  PROVE i \in DOMAIN v /\ v[i] = r[i]
  <2>1. PICK m \in Nat, n \in Nat : m = Len(d) /\ n = Len(p)  BY <1>7
  <2>2. Len(u) = 6 + m /\ Len(v) = (6 + m) + n  BY <1>4, <1>6, <2>1
  <2>3. i \in 1 .. Len(u) /\ i \in 1 .. Len(v)  BY <2>2
  <2>4. v[i] = u[i] /\ u[i] = r[i]  BY <1>4, <1>6, <2>3
  <2> QED BY <2>3, <2>4
<1>9. s = v  BY <1>2, <1>3, <1>5
<1>10. Do("wipe").op = "wipe" /\ Do("clear").op = "clear"  BY DEF Do
<1> QED BY <1>1, <1>2, <1>8, <1>9, <1>10

Emptying(l) == List(l) = <<>> \/ \E i \in DOMAIN todo : Empties(todo[i], l)

\* A walk that is done with its list leaves it empty, or another will empty it.
LEMMA CancelEmpties ==
  ASSUME Base, Lists, Pointing, Cancel, NEW l \in {"requests", "pendings"}, Emptying(l)
  PROVE  Emptying(l)'
<1>t. Typed  BY DEF Base
<1>1. todo # <<>> /\ top.op = "cancel" /\ top.op \in Walks /\ todo \in Seq(Step)
      /\ top = todo[1] /\ DOMAIN todo = 1 .. Len(todo)
  BY <1>t, StepsOf DEF Cancel, Walks, Typed, top
<1>2. PICK k \in {"requests", "pendings"} : k = top.list  BY <1>t, <1>1, Walking
\* Another walk starts later, whatever this step does to the list.
<1>3. ASSUME NEW i \in 2 .. Len(todo), Empties(todo[i], l), NEW j \in DOMAIN todo', todo'[j] = todo[i]
      PROVE  Emptying(l)'
  <2>1. todo[i].op = "cancel" /\ todo[i].list = l  BY <1>3 DEF Empties
  <2>2. CASE todo[i].next = First
    BY <1>3, <2>1, <2>2 DEF Emptying, Empties
  <2>3. CASE todo[i].next # First
    <3>1. todo[i].next = None /\ todo[i].next = Head(List(l))
      BY <1>3, <2>3 DEF Empties, Pointing
    <3>2. List(l) \in Seq(Ids)  BY <1>t DEF List, Typed
    <3>3. List(l) = <<>>  BY <3>1, <3>2, Numbering
    <3>4. List(l)' = <<>>
      <4>1. CASE Current = None  BY <1>3, <3>3, <4>1 DEF Cancel, List
      <4>2. CASE Current # None
        <5>1. /\ Current \in ToSet(List(k)) /\ CutOff(Current)
          BY <1>t, <1>1, <1>2, <4>2, CurrentListed DEF Cancel, EndUnanswered
        <5>2. k # l  BY <3>3, <5>1 DEF ToSet
        <5>3. List(l)' = List(l)  BY <1>2, <5>1, <5>2 DEF CutOff, List
        <5> QED BY <3>3, <5>3
      <4> QED BY <4>1, <4>2
    <3> QED BY <3>4 DEF Emptying
  <2> QED BY <2>2, <2>3
<1>4. CASE Current = None
  <2>1. Become(<<>>) /\ UNCHANGED <<requests, pendings>>  BY <1>4 DEF Cancel
  <2>2. List(l)' = List(l)  BY <2>1 DEF List
  <2>3. CASE List(l) = <<>>  BY <2>2, <2>3 DEF Emptying
  <2>4. CASE List(l) # <<>>
    <3>1. PICK i \in DOMAIN todo : Empties(todo[i], l)  BY <2>4 DEF Emptying
    <3>2. List(l) \in Seq(Ids) /\ Head(List(l)) \in Ids
      <4>1. List(l) \in Seq(Ids)  BY <1>t DEF List, Typed
      <4> QED BY <2>4, <4>1
    <3>3. i # 1
      <4>1. ASSUME i = 1 PROVE FALSE
        <5>1. top.list = l /\ top.next \in {First, Head(List(l))}  BY <1>1, <3>1, <4>1 DEF Empties
        <5>2. top.next # None  BY <3>2, <5>1, Numbering DEF First, None
        <5> QED BY <1>t, <1>1, <1>4, <2>4, <5>1, <5>2, CurrentListed
      <4> QED BY <4>1
    <3>4. i \in 2 .. Len(todo)  BY <1>1, <3>3
    <3>5. PICK j \in DOMAIN todo' : todo'[j] = todo[i]  BY <1>t, <1>1, <2>1, <3>4, PopEntries
    <3> QED BY <1>3, <3>1, <3>4, <3>5
  <2> QED BY <2>3, <2>4
<1>5. CASE Current # None
  <2>1. CutOff(Current) /\ UNCHANGED made  BY <1>5 DEF Cancel, EndUnanswered
  <2>2. PICK t : t = List(k)'  OBVIOUS
  <2>3. t = RemoveFirst(List(k), Current)  BY <1>2, <2>1, <2>2 DEF CutOff, List
  <2>4. PICK e \in Step :
           /\ Onwards(Current) = <<e>> /\ e.op = top.op /\ e.list = k
           /\ Current = Head(List(k)) /\ t # List(k) =>
                t = Tail(List(k)) /\ (t # <<>> => e.next = Head(t))
    BY <1>t, <1>1, <1>2, <1>5, <2>3, WalkOn
  <2>5. PICK c \in Seq(Step) : Become(c \o <<e>>)
    <3>1. Become(Refused \o <<e>>) \/ Become(<<>> \o <<e>>)
      <4>1. EndUnanswered(Current) /\ Onwards(Current) = <<e>>  BY <1>5, <2>4 DEF Cancel
      <4>2. CASE made[Current].kind = "create"  BY <4>1, <4>2 DEF EndUnanswered
      <4>3. CASE made[Current].kind # "create"  BY <4>1, <4>3 DEF EndUnanswered
      <4> QED BY <4>2, <4>3
    <3>2. <<>> \in Seq(Step) /\ Refused \in Seq(Step)
      BY RefusedSteps, Kinships, SeqMonotonic, EmptySeq
    <3> QED BY <3>1, <3>2
  <2>6. PICK u \in Seq(Step) : u = c \o <<e>> /\ (\E m \in DOMAIN u : u[m] = e)
    <3>1. PICK d \in Seq(Step) : d = <<e>> /\ Len(d) = 1 /\ d[1] = e
      <4>1. <<e>> \in Seq(Step)  BY OneStep
      <4>2. PICK d \in Seq(Step) : d = <<e>>  BY <4>1
      <4> QED BY <4>2, OneStep
    <3>2. PICK u \in Seq(Step) : u = c \o d  BY JoinOf
    <3>3. PICK n \in Nat : n = Len(c)  OBVIOUS
    <3>4. Len(u) = n + 1 /\ \A i \in 1 .. 1 : u[n + i] = d[i]  BY <3>1, <3>2, <3>3, JoinOf
    <3>5. n + 1 \in DOMAIN u /\ u[n + 1] = e  BY <3>1, <3>4
    <3> QED BY <3>1, <3>2, <3>5
  <2>7. /\ \A i \in DOMAIN u : i \in DOMAIN todo' /\ todo'[i] = u[i]
        /\ \A i \in 2 .. Len(todo) : \E j \in DOMAIN todo' : j > Len(u) /\ todo'[j] = todo[i]
    <3>1. Become(u)  BY <2>5, <2>6
    <3> QED BY <1>t, <1>1, <3>1, PutEntries
  <2>8. ASSUME NEW i \in 2 .. Len(todo), Empties(todo[i], l)  PROVE Emptying(l)'
    <3>1. PICK j \in DOMAIN todo' : todo'[j] = todo[i]  BY <2>7
    <3> QED BY <1>3, <2>8, <3>1
  <2>9. PICK m \in DOMAIN todo' : todo'[m] = e  BY <2>6, <2>7
  <2>10. CASE List(l) = <<>>
    <3>1. Current \in ToSet(List(k))  BY <1>t, <1>1, <1>2, <1>5, CurrentListed
    <3>2. k # l  BY <2>10, <3>1 DEF ToSet
    <3>3. List(l)' = List(l)  BY <1>2, <2>1, <3>2 DEF CutOff, List
    <3> QED BY <2>10, <3>3 DEF Emptying
  <2>11. CASE Empties(top, l) /\ List(l) # <<>>
    <3>1. k = l /\ top.next \in {First, Head(List(l))}  BY <1>2, <2>11 DEF Empties
    <3>k. List(k) = List(l) /\ List(k)' = List(l)'  BY <3>1
    <3>2. List(l) \in Seq(Ids) /\ Head(List(l)) \in Ids
      <4>1. List(l) \in Seq(Ids)  BY <1>t DEF List, Typed
      <4> QED BY <2>11, <4>1
    <3>3. Current = Head(List(l))
      BY <1>2, <2>11, <3>1, <3>2, Numbering DEF Current
    <3>4. t = Tail(List(l))
      <4>1. PICK s \in Seq(Ids) : s = List(l)  BY <3>2
      <4>2. IsInjective(s)  BY <4>1 DEF Lists, Listed, List
      <4> QED BY <2>3, <2>11, <3>1, <3>3, <4>1, <4>2, RemoveOne
    <3>5. t # List(l)
      <4>1. PICK s \in Seq(Ids) : s = List(l)  BY <3>2
      <4>2. Len(Tail(s)) = Len(s) - 1 /\ Len(s) \in Nat \ {0}  BY <2>11, <4>1, TailOf
      <4>3. ASSUME Tail(s) = s PROVE FALSE
        <5>1. PICK n \in Nat : n = Len(s)  BY <4>2
        <5> QED BY <4>2, <4>3, <5>1
      <4> QED BY <3>4, <4>1, <4>3
    <3>6. t = <<>> \/ e.next = Head(t)
      <4>1. Current = Head(List(k))  BY <3>1, <3>3
      <4>2. t # List(k)  BY <3>1, <3>5
      <4> QED BY <2>4, <4>1, <4>2
    <3>7. Emptying(l)'
      <4>1. CASE t = <<>>  BY <2>2, <3>1, <4>1 DEF Emptying
      <4>2. CASE e.next = Head(t)
        <5>1. todo'[m].op = "cancel" /\ todo'[m].list = l  BY <1>1, <2>4, <2>9, <3>1
        <5>2. todo'[m].next = Head(List(l)')
          <6>1. todo'[m].next = Head(t)  BY <2>9, <4>2
          <6> QED BY <2>2, <3>1, <6>1
        <5> QED BY <2>9, <5>1, <5>2 DEF Emptying, Empties
      <4> QED BY <3>6, <4>1, <4>2
    <3> QED BY <3>7
  <2>12. ASSUME NEW i \in DOMAIN todo, Empties(todo[i], l)  PROVE Emptying(l)'
    <3>1. i = 1 \/ i \in 2 .. Len(todo)  BY <1>1
    <3> QED BY <1>1, <2>8, <2>10, <2>11, <2>12, <3>1
  <2> QED BY <2>10, <2>12 DEF Emptying
<1> QED BY <1>4, <1>5


LEMMA NextDialReady ==
  ASSUME Base, Lists, Pointing, DialReady, [Next]_vars
  PROVE  DialReady'
<1>t. Typed /\ Script  BY DEF Base
<1> SUFFICES ASSUME Has("dial")'
             PROVE  /\ state' # "connected"
                    /\ (socket' = "none" /\ outgoing' = <<>>) \/ Has("wipe")'
                    /\ sequence' = SeqStart \/ Has("clear")'
                    /\ \A l \in {"requests", "pendings"} : Emptying(l)'
  BY DEF DialReady, Emptying
<1>1. CASE Run /\ state = "connecting" /\ Goto(Reset \o <<Do("dial")>> \o Poll)
  <2>1. /\ \A i \in 1 .. 6 : i \in DOMAIN todo' /\ todo'[i] = Reset[i]
        /\ Reset[2].op = "wipe" /\ Reset[6].op = "clear"
        /\ Reset[3] = Walk("cancel", "requests") /\ Reset[4] = Walk("cancel", "pendings")
    BY <1>1, WholeDial DEF Goto
  <2>2. state' = "connecting"  BY <1>1 DEF Run
  <2>3. Has("wipe")' /\ Has("clear")'  BY <2>1 DEF Has
  <2>4. ASSUME NEW l \in {"requests", "pendings"}  PROVE Emptying(l)'
    <3>1. \E i \in DOMAIN todo' : todo'[i] = Walk("cancel", l)  BY <2>1
    <3> QED BY <3>1 DEF Emptying, Empties, Walk
  <2> QED BY <2>2, <2>3, <2>4
<1>2. CASE Has("dial")
  <2>1. /\ todo # <<>> /\ top \in Step /\ top.op \in Calm \cup {"dial"}
        /\ top.op = "dial" => \A i \in 2 .. Len(todo) : todo[i].op \notin Calm \cup Ends
    BY <1>t, <1>2, DialLater
  <2>2. /\ state # "connected"
        /\ (socket = "none" /\ outgoing = <<>>) \/ Has("wipe")
        /\ sequence = SeqStart \/ Has("clear")
        /\ \A l \in {"requests", "pendings"} : Emptying(l)
    BY <1>2 DEF DialReady, Emptying
  <2>3. state' # "connected"
    <3>1. HandleResult => top.op = "parse"  BY DEF HandleResult, Parse, At
    <3>2. "parse" \notin Calm \cup {"dial"}  BY DEF Calm
    <3> QED BY <2>1, <2>2, <3>1, <3>2, ConnectedBy
  <2>4. ~ Dial
    <3>1. ASSUME Dial PROVE FALSE
      <4>1. todo # <<>> /\ top.op = "dial" /\ Become(<<Do("connect")>>)  BY <3>1, StepsOf DEF Dial
      <4>2. Do("connect") \in Step /\ Do("connect").op = "connect"  BY StepsOf, PlainOps
      <4>3. PICK u \in Seq(Step) : u = <<Do("connect")>> /\ \A i \in DOMAIN u : u[i].op = "connect"
        <5>1. <<Do("connect")>> \in Seq(Step)  BY <4>2
        <5>2. PICK u \in Seq(Step) : u = <<Do("connect")>>  BY <5>1
        <5>3. \A i \in DOMAIN u : u[i] = Do("connect")  BY <5>2
        <5> QED BY <4>2, <5>2, <5>3
      <4>4. PICK i \in DOMAIN todo' : todo'[i].op = "dial"  BY DEF Has
      <4>5. Become(u) /\ todo # <<>>  BY <4>1, <4>3
      <4>6. \A j \in DOMAIN u : u[j].op # "dial"  BY <4>3
      <4>7. PICK j : j \in 2 .. Len(todo) /\ todo[j].op = "dial"
        BY SMTT(30), <1>t, <4>4, <4>5, <4>6, PutEntries
      <4> QED BY <2>1, <4>1, <4>7 DEF Ends
    <3> QED BY <3>1
  <2>5. CASE UNCHANGED <<todo, socket, outgoing, sequence, requests, pendings>>
    <3>1. Has("wipe")' = Has("wipe") /\ Has("clear")' = Has("clear")  BY <2>5 DEF Has
    <3>2. ASSUME NEW l \in {"requests", "pendings"}  PROVE Emptying(l)' = Emptying(l)
      BY <2>5 DEF Emptying, Empties, List
    <3> QED BY <2>2, <2>3, <2>5, <3>1, <3>2
  \* The top is over, and was no walk; or nothing happened to the steps.
  <2>6. ASSUME UNCHANGED <<requests, pendings>>, Become(<<>>) \/ UNCHANGED todo, top.op # "cancel"
        PROVE  \A l \in {"requests", "pendings"} : Emptying(l)'
    <3>1. CASE UNCHANGED todo
      <4>1. ASSUME NEW l \in {"requests", "pendings"}  PROVE Emptying(l)' = Emptying(l)
        BY <2>6, <3>1 DEF Emptying, Empties, List
      <4> QED BY <2>2, <4>1
    <3>2. CASE Become(<<>>)
      <4> SUFFICES ASSUME NEW l \in {"requests", "pendings"}  PROVE Emptying(l)'
        OBVIOUS
      <4>1. List(l)' = List(l)  BY <2>6 DEF List
      <4>2. CASE List(l) = <<>>  BY <4>1, <4>2 DEF Emptying
      <4>3. ASSUME NEW i \in DOMAIN todo, Empties(todo[i], l)  PROVE Emptying(l)'
        <5>1. todo[i].op # top.op  BY <2>6, <4>3 DEF Empties
        <5>2. PICK j \in DOMAIN todo' : todo'[j] = todo[i]
          BY <1>t, <2>1, <3>2, <5>1, PopEntries
        <5> QED BY <4>1, <4>3, <5>2 DEF Emptying, Empties
      <4> QED BY <2>2, <4>2, <4>3 DEF Emptying
    <3> QED BY <2>6, <3>1, <3>2
  <2>7. CASE Shut \/ Drop \/ Refuse \/ Fallback \/ Parting \/ Clear
    <3>1. /\ UNCHANGED <<requests, pendings, socket, outgoing>>
          /\ Become(<<>>) \/ UNCHANGED todo
          /\ top.op # "cancel" /\ top.op # "wipe"
          /\ top.op # "clear" \/ sequence' = SeqStart
          /\ sequence' = sequence \/ sequence' = SeqStart
      <4>1. CASE Shut \/ Refuse \/ Fallback \/ Parting
        BY <4>1 DEF Shut, Refuse, Fallback, Parting, At, requestVars, buffers
      <4>2. CASE Drop \/ Clear
        BY <4>2 DEF Drop, Clear, At, requestVars, buffers
      <4> QED BY <2>7, <4>1, <4>2
    <3>2. Has("wipe") => Has("wipe")'
      BY <1>t, <2>1, <3>1, PopEntries DEF Has
    <3>3. Has("clear") => Has("clear")' \/ sequence' = SeqStart
      BY <1>t, <2>1, <3>1, PopEntries DEF Has
    <3>4. \A l \in {"requests", "pendings"} : Emptying(l)'  BY <2>6, <3>1
    <3> QED BY <2>2, <2>3, <3>1, <3>2, <3>3, <3>4
  <2>8. CASE Wipe
    <3>1. /\ UNCHANGED <<requests, pendings, sequence>> /\ Become(<<>>) /\ top.op = "wipe"
          /\ socket' = "none" /\ outgoing' = <<>>
      BY <2>8 DEF Wipe, At, requestVars
    <3>2. Has("clear") => Has("clear")'
      BY <1>t, <2>1, <3>1, PopEntries
    <3>3. \A l \in {"requests", "pendings"} : Emptying(l)'  BY <2>6, <3>1
    <3> QED BY <2>2, <2>3, <3>1, <3>2, <3>3
  <2>9. CASE Cancel
    <3>1. UNCHANGED <<socket, outgoing, sequence>> /\ top.op = "cancel"
      BY <2>9 DEF Cancel, At, buffers
    <3>2. ASSUME NEW op, op # "cancel", Has(op)  PROVE Has(op)'
      <4>1. CASE Become(<<>>)  BY <1>t, <2>1, <3>1, <3>2, <4>1, PopEntries
      <4>2. CASE Current # None
        <5>1. PICK e \in Step : Onwards(Current) = <<e>>
          BY <1>t, <2>1, <3>1, Walking DEF Walks
        <5>2. Become(Refused \o <<e>>) \/ Become(<<>> \o <<e>>)
          <6>1. EndUnanswered(Current)  BY <2>9, <4>2 DEF Cancel
          <6>2. CASE made[Current].kind = "create"  BY <5>1, <6>1, <6>2 DEF EndUnanswered
          <6>3. CASE made[Current].kind # "create"  BY <5>1, <6>1, <6>3 DEF EndUnanswered
          <6> QED BY <6>2, <6>3
        <5>3. PICK u \in Seq(Step) : Become(u)
          <6>1. <<e>> \in Seq(Step) /\ <<>> \in Seq(Step) /\ Refused \in Seq(Step)
            BY OneStep, RefusedSteps, Kinships, SeqMonotonic, EmptySeq
          <6> QED BY <5>2, <6>1, ConcatProperties
        <5>4. PICK i \in DOMAIN todo : todo[i].op = op  BY <3>2 DEF Has
        <5>5. i \in 2 .. Len(todo)
          <6>1. todo \in Seq(Step) /\ top = todo[1] /\ DOMAIN todo = 1 .. Len(todo)
            BY <1>t DEF Typed, top
          <6>2. i # 1  BY <3>1, <3>2, <5>4, <6>1
          <6> QED BY <6>1, <6>2
        <5>6. PICK j \in DOMAIN todo' : todo'[j] = todo[i]
          BY <1>t, <2>1, <5>3, <5>5, PutEntries
        <5> QED BY <5>4, <5>6 DEF Has
      <4> QED BY <2>9, <4>1, <4>2 DEF Cancel
    <3>3. \A l \in {"requests", "pendings"} : Emptying(l)'  BY <2>2, <2>9, CancelEmpties
    <3> QED BY <2>2, <2>3, <3>1, <3>2, <3>3
  <2> QED BY <2>1, <2>2, <2>4, <2>5, <2>7, <2>8, <2>9, CalmActions
<1> QED BY <1>t, <1>1, <1>2, DialNew

LEMMA InitLined == Init => Lined
<1> SUFFICES ASSUME Init PROVE Lined  OBVIOUS
<1>1. /\ requests = <<>> /\ pendings = <<>> /\ routines = <<>> /\ subscriptions = <<>>
      /\ outgoing = <<>> /\ heard = <<>> /\ todo = <<>> /\ socket = "none"
  BY DEF Init
<1>2. ToSet(<<>>) = {} /\ IsInjective(<<>>)  BY DEF ToSet, IsInjective
<1>3. Queued = {}  BY <1>1, <1>2 DEF Queued
<1>4. \A s \in {requests, pendings, routines, subscriptions, outgoing, heard} : Listed(s)
  <2>1. Listed(<<>>)  BY <1>2 DEF Listed
  <2> QED BY <1>1, <2>1
<1>5. Lists  BY <1>1, <1>2, <1>4 DEF Lists, Apart
<1>6. Pointing /\ DialReady /\ ~ At("connect")
  BY <1>1 DEF Pointing, DialReady, Has, At
<1> QED BY <1>1, <1>3, <1>5, <1>6 DEF Lined, Alone, Dialing

LEMMA NextLined ==
  ASSUME Base, Lined, Base', [Next]_vars
  PROVE  Lined'
BY NextLists, NextPointing, NextAlone, NextDialing, NextDialReady DEF Lined

\* A request is on one of the two lists, or was sent, or is over; a create is the only
\* request of a connection that is not up yet; what is dialled is dialled with nothing
\* left of the connection before.
THEOREM ListsStayApart == Safe => [](Base /\ Lined)
<1>1. Init => Base /\ Lined  BY InitBase, InitLined
<1>2. Base /\ Lined /\ [Next]_vars => (Base /\ Lined)'  BY NextBase, NextLined
<1> QED BY <1>1, <1>2, PTL DEF Safe

\* The pointer to the next request that the loops of reset, timeouts and flush keep
\* over the callbacks is to a request that is still on the list.
THEOREM WalksStayOnTheirLists == Safe => []WalksLive
<1>1. Base /\ Lined => WalksLive
  <2> SUFFICES ASSUME Base, Lined, NEW i \in DOMAIN todo
               PROVE  todo[i].next \in {None, First} \cup ToSet(List(todo[i].list))
    BY DEF WalksLive
  <2>1. todo # <<>> /\ top = todo[1] /\ DOMAIN todo = 1 .. Len(todo)  BY DEF Base, Typed, top
  <2>2. CASE i = 1  BY <2>1, <2>2 DEF Lined, Pointing
  <2>3. CASE i # 1
    <3>1. i \in 2 .. Len(todo)  BY <2>1, <2>3
    <3> QED BY <3>1 DEF Lined, Pointing
  <2> QED BY <2>2, <2>3
<1> QED BY <1>1, ListsStayApart, PTL

-----------------------------------------------------------------------------
(* The sets, and each request's completion. *)

\* What is done to the sets, to the frames read, and to what was told.
LEMMA StepSets ==
  ASSUME [Next]_vars
  PROVE  /\ UNCHANGED expired \/ expired' = {} \/ expired' \subseteq Queued
         /\ UNCHANGED freed \/ Drop \/ HandleResult \/ Ending
         /\ UNCHANGED reread \/ HandleResult
         /\ \/ asked' \subseteq asked /\ UNCHANGED heard
            \/ Wipe
            \/ Write
         /\ UNCHANGED old \/ Dial
<1> DEFINE Same == UNCHANGED <<expired, freed, reread, asked, heard, old>>
           Goal == /\ UNCHANGED expired \/ expired' = {} \/ expired' \subseteq Queued
                   /\ UNCHANGED freed \/ Drop \/ HandleResult \/ Ending
                   /\ UNCHANGED reread \/ HandleResult
                   /\ \/ asked' \subseteq asked /\ UNCHANGED heard
                      \/ Wipe
                      \/ Write
                   /\ UNCHANGED old \/ Dial
<1>c. Same => Goal  OBVIOUS
<1>1. Shut \/ Clear \/ Refuse \/ Fallback \/ GiveUp \/ Lost \/ Parting \/ Fail => Same
  BY DEF Shut, Clear, Refuse, Fallback, GiveUp, Lost, Parting, Fail, nameVars, peerVars, toldVars
<1>2. Run \/ Wait \/ Polled \/ Read \/ ParsedAll => Same
  BY DEF Run, Wait, Polled, Read, ParsedAll, nameVars, peerVars, toldVars
<1>3. HandleStray \/ HandleEvent \/ HandleCommand => Same
  BY DEF HandleStray, HandleEvent, HandleCommand, nameVars, peerVars, toldVars
<1>4. Connecting \/ Complete => Same
  BY DEF Connecting, Complete, Created, nameVars, peerVars, toldVars
<1>5. Reply \/ CheckPong => Same
  BY DEF Reply, CheckPong, nameVars, peerVars, toldVars
<1>6. Cancel \/ TimeOut => Goal
  <2>1. Cancel \/ TimeOut => UNCHANGED <<expired, reread, asked, heard, old>>
    BY DEF Cancel, TimeOut, peerVars
  <2>2. Cancel \/ TimeOut => UNCHANGED freed \/ Ending
    BY DEF Cancel, TimeOut, Ending
  <2> QED BY <2>1, <2>2
<1>7. Flush => Goal
  BY DEF Flush, nameVars, peerVars
<1>8. Wipe => Goal
  BY DEF Wipe, nameVars
<1>9. Drop => Goal
  BY DEF Drop, peerVars, toldVars
<1>10. Dial => Goal
  BY DEF Dial, nameVars, peerVars
<1>11. TakeTime => Goal
  BY DEF TakeTime, nameVars, peerVars, toldVars
<1>12. HandleResult => Goal
  BY DEF HandleResult, peerVars
<1>13. Write => Goal
  BY DEF Write, nameVars
<1>14. Connect \/ Disconnect \/ Destroy \/ Destroyed \/ UNCHANGED vars => Same
  BY DEF Connect, Disconnect, Destroy, Destroyed, vars, clientVars, nameVars, toldVars, peerVars
<1>15. HangUp => Goal
  BY DEF HangUp, clientVars, nameVars, toldVars
<1>16. ASSUME (\E r \in 1 .. Len(made) : Answer(r)) \/ (\E type \in {"event", "pong", "call"} : Send(type))
       PROVE  Goal
  BY <1>16 DEF Answer, Send, Deliver, clientVars, nameVars, toldVars
<1>17. Asking => Same
  <2>1. ASSUME NEW kind, NEW name, NEW about, Queueing(kind, name, about)
        PROVE  Same
    BY <2>1 DEF Queueing, nameVars, peerVars, toldVars
  <2> QED BY <2>1, AskingQueues
<1> HIDE DEF Same, Goal
<1>18. ASSUME RunStep PROVE Goal
  BY <1>18, <1>c, <1>1, <1>2, <1>3, <1>4, <1>5, <1>6, <1>7, <1>8, <1>9, <1>10, <1>11, <1>12, <1>13
    DEF RunStep
<1>19. ASSUME Environment \/ Destroyed \/ UNCHANGED vars PROVE Goal
  BY <1>19, <1>c, <1>14, <1>15, <1>16, <1>17 DEF Environment
<1> QED BY <1>18, <1>19 DEF Next, Goal

\* Requests are only added.
LEMMA MadeGrows ==
  ASSUME Base, Lists, Base', [Next]_vars
  PROVE  /\ 1 .. Len(made) \subseteq 1 .. Len(made')
         /\ \A r \in 1 .. Len(made) : made'[r] = made[r]
<1>1. CASE \E kind, name, about : Enqueue(kind, name, about)
  <2>1. PICK kind, name, about : Enqueue(kind, name, about)  BY <1>1
  <2>2. /\ Len(made') = Len(made) + 1 /\ Len(made) \in Nat
        /\ \A r \in 1 .. Len(made) : made'[r] = made[r]
    BY <2>1, EnqueueLists
  <2> QED BY <2>2
<1>2. Opening \/ (\E kind, name, about : Queueing(kind, name, about)) \/ UNCHANGED made
  BY StepKinds DEF Ending, Flushing, Flush, HandleResult, Idle
<1> QED BY <1>1, <1>2, OpeningEnqueues

LEMMA NextSets ==
  ASSUME Base, Lined, Sets, Base', Lists', [Next]_vars
  PROVE  Sets'
<1>1. /\ 1 .. Len(made) \subseteq 1 .. Len(made')
      /\ \A r \in 1 .. Len(made) : made'[r] = made[r]
  BY MadeGrows DEF Lined
<1>2. /\ requests \in Seq(Ids) /\ Typed /\ Lists /\ Pointing
      /\ \A s \in {requests, pendings, routines, subscriptions, outgoing, heard} :
           ToSet(s) \subseteq 1 .. Len(made)
      /\ Queued \subseteq 1 .. Len(made)
  BY DEF Base, Lined, Lists, Listed, Queued, Typed
<1>3. expired' \subseteq 1 .. Len(made)
  BY <1>2, StepSets DEF Sets
<1>4. old' \subseteq 1 .. Len(made)
  <2>1. Dial => old' = Queued \cup ToSet(outgoing)  BY DEF Dial
  <2> QED BY <1>2, <2>1, StepSets DEF Sets
<1>5. freed' \subseteq 1 .. Len(made)
  <2>1. CASE UNCHANGED freed  BY <2>1 DEF Sets
  <2>2. CASE Drop
    <3>1. /\ routines \in Seq(Ids) /\ subscriptions \in Seq(Ids)  BY <1>2 DEF Typed
    <3>2. /\ routines # <<>> => Head(routines) \in ToSet(routines)
          /\ subscriptions # <<>> => Head(subscriptions) \in ToSet(subscriptions)
      BY <3>1 DEF ToSet
    <3>3. \/ UNCHANGED freed
          \/ routines # <<>> /\ freed' = freed \cup {Head(routines)}
          \/ subscriptions # <<>> /\ freed' = freed \cup {Head(subscriptions)}
      BY <2>2 DEF Drop, nameVars
    <3> QED BY <1>2, <3>2, <3>3 DEF Sets
  <2>3. CASE Ending
    <3>1. Current \in ToSet(List(top.list)) /\ top.list \in {"requests", "pendings"}
      BY <1>2, <2>3, StepsOf, CurrentListed, Walking DEF Ending, Walks
    <3>2. Current \in 1 .. Len(made)  BY <1>2, <3>1 DEF List
    <3>3. freed' \subseteq freed \cup {Current}  BY <2>3 DEF Ending, EndUnanswered
    <3> QED BY <3>2, <3>3 DEF Sets
  <2>4. CASE HandleResult
    <3>1. PICK r \in ToSet(pendings) :
            r = pendings[Awaiting(Head(incoming).seq)] /\ r \in 1 .. Len(made)
      BY <1>2, <2>4, Matched
    <3>2. \/ UNCHANGED freed \/ freed' = freed \cup {r}
          \/ made[r].kind \in {"unregister", "unsubscribe"} /\ freed' = freed \cup {made[r].about}
      BY <2>4, <3>1 DEF HandleResult, CreateResponse, RegisterResponse, UnregisterResponse,
        SubscribeResponse, UnsubscribeResponse, EventResponse, CommandResponse, nameVars
    <3>3. made[r].kind \in {"unregister", "unsubscribe"} => made[r].about \in 1 .. Len(made)
      BY <3>1 DEF Sets
    <3> QED BY <3>1, <3>2, <3>3 DEF Sets
  <2> QED BY <2>1, <2>2, <2>3, <2>4, StepSets
<1>r. reread' \subseteq (1 .. Len(made)) \X {"earlier", "itself"}
  <2>1. CASE UNCHANGED reread  BY <2>1 DEF Sets
  <2>2. CASE HandleResult
    <3>1. PICK r \in ToSet(pendings) :
            r = pendings[Awaiting(Head(incoming).seq)] /\ r \in 1 .. Len(made)
      BY <1>2, <2>2, Matched
    <3>2. reread' \subseteq reread \cup {<<r, "earlier">>, <<r, "itself">>}
      BY <2>2, <3>1 DEF HandleResult, CreateResponse, RegisterResponse, UnregisterResponse,
        SubscribeResponse, UnsubscribeResponse, EventResponse, CommandResponse, Reads, nameVars
    <3> QED BY <3>1, <3>2 DEF Sets
  <2> QED BY <2>1, <2>2, StepSets
<1>6. asked' \subseteq 1 .. Len(made) /\ asked' \subseteq ToSet(heard')
  <2>1. CASE asked' \subseteq asked /\ UNCHANGED heard  BY <2>1 DEF Sets
  <2>2. CASE Wipe  BY <2>2 DEF Wipe
  <2>3. CASE Write
    <3>1. /\ asked' \subseteq asked \cup (ToSet(heard') \cap 1 .. Len(made))
          /\ ToSet(heard) \subseteq ToSet(heard')
      BY <1>2, <2>3, WriteLists
    <3> QED BY <3>1 DEF Sets
  <2> QED BY <2>1, <2>2, <2>3, StepSets
<1>7. ASSUME NEW r \in 1 .. Len(made')
      PROVE  IF made'[r].kind \in {"unregister", "unsubscribe"}
             THEN made'[r].about \in 1 .. Len(made) ELSE made'[r].about = None
  <2>1. CASE r \in 1 .. Len(made)  BY <1>1, <2>1 DEF Sets
  <2>2. ASSUME NEW kind, NEW name, NEW about, Enqueue(kind, name, about)
        PROVE  r \in 1 .. Len(made) \/ (made'[r].kind = kind /\ made'[r].about = about)
    <3>1. /\ Len(made') = Len(made) + 1 /\ Len(made) \in Nat
          /\ made'[Len(made')] = [kind |-> kind, name |-> name, about |-> about, seq |-> sequence]
      BY <1>2, <2>2, EnqueueLists
    <3>2. r \in 1 .. Len(made) \/ r = Len(made')  BY <3>1
    <3> QED BY <3>1, <3>2
  <2>3. CASE Opening
    <3>1. Enqueue("create", None, None)  BY <2>3 DEF Opening
    <3> QED BY <2>1, <2>2, <3>1
  <2>4. ASSUME NEW kind, NEW name, NEW about, Queueing(kind, name, about)
        PROVE  IF made'[r].kind \in {"unregister", "unsubscribe"}
               THEN made'[r].about \in 1 .. Len(made) ELSE made'[r].about = None
    <3>1. Enqueue(kind, name, about) /\ Wanted(kind, name, about)  BY <2>4 DEF Queueing
    <3>2. routines \in Seq(Ids) /\ subscriptions \in Seq(Ids)  BY <1>2 DEF Typed
    <3>3. /\ Named(routines, name) # 0 => routines[Named(routines, name)] \in ToSet(routines)
          /\ Named(subscriptions, name) # 0 =>
               subscriptions[Named(subscriptions, name)] \in ToSet(subscriptions)
      BY <3>2, NamedPlace DEF ToSet
    <3>4. /\ kind \in {"unregister", "unsubscribe"} => about \in 1 .. Len(made)
          /\ kind \notin {"unregister", "unsubscribe"} => about = None
      BY <1>2, <3>1, <3>3 DEF Wanted
    <3> QED BY <2>1, <2>2, <3>1, <3>4
  <2>5. Opening \/ (\E kind, name, about : Queueing(kind, name, about)) \/ UNCHANGED made
    BY StepKinds DEF Ending, Flushing, Flush, HandleResult, Idle
  <2> QED BY <2>1, <2>3, <2>4, <2>5
<1> QED BY <1>1, <1>3, <1>4, <1>5, <1>6, <1>7, <1>r DEF Sets

\* A request is completed as it leaves the lists.
LEMMA CompleteOne ==
  ASSUME Base, Completion, UNCHANGED made, NEW r \in Ids, r \in 1 .. Len(made), r \in Queued,
         Queued' = Queued \ {r}, NEW how \in Outcomes, Tell(r, how)
  PROVE  /\ Completion'
         /\ Visible(r) => told[r] = <<>> /\ told' = [told EXCEPT ![r] = <<how>>]
         /\ ~ Visible(r) => UNCHANGED told
<1>1. told \in [Ids -> Seq(Outcomes)]  BY DEF Base, Typed
<1>2. \A q : Visible(q)' = Visible(q)  BY DEF Visible
<1>3. CASE Visible(r)
  <2>1. told[r] = <<>>  BY <1>3 DEF Completion
  <2>2. told' = [told EXCEPT ![r] = Append(told[r], how)]  BY <1>3 DEF Tell
  <2>3. told' = [told EXCEPT ![r] = <<how>>]  BY <2>1, <2>2
  <2>4. told'[r] = <<how>> /\ \A q \in Ids \ {r} : told'[q] = told[q]  BY <1>1, <2>3
  <2>5. <<how>> # <<>>  OBVIOUS
  <2>6. Completion'
    <3>1. ASSUME NEW q \in Ids
          PROVE  /\ told'[q] \in {<<>>} \cup {<<o>> : o \in Outcomes}
                 /\ told'[q] = <<>> <=> \/ q \notin 1 .. Len(made')
                                        \/ ~ Visible(q)'
                                        \/ q \in Queued'
      <4>1. CASE q = r  BY <1>2, <1>3, <2>4, <2>5, <4>1
      <4>2. CASE q # r  BY <1>2, <2>4, <4>2 DEF Completion
      <4> QED BY <4>1, <4>2
    <3> QED BY <3>1 DEF Completion
  <2> QED BY <1>3, <2>1, <2>3, <2>6
<1>4. CASE ~ Visible(r)
  <2>1. UNCHANGED told  BY <1>4 DEF Tell
  <2> QED BY <1>2, <1>4, <2>1 DEF Completion
<1> QED BY <1>3, <1>4

\* One request is completed, or one is made, or neither.
LEMMA CompleteStep ==
  ASSUME Base, Lined, Completion, Base', [Next]_vars
  PROVE  /\ Completion'
         /\ \/ \E r \in Ids, how \in Outcomes :
                 /\ r \in 1 .. Len(made) /\ UNCHANGED made /\ Visible(r) /\ told[r] = <<>>
                 /\ told' = [told EXCEPT ![r] = <<how>>]
            \/ /\ \E kind, name, about : Enqueue(kind, name, about)
               /\ UNCHANGED told
            \/ UNCHANGED <<made, told>>
<1> DEFINE Result == \E r \in Ids, how \in Outcomes :
                       /\ r \in 1 .. Len(made) /\ UNCHANGED made /\ Visible(r) /\ told[r] = <<>>
                       /\ told' = [told EXCEPT ![r] = <<how>>]
<1>o. "answered" \in Outcomes /\ "unanswered" \in Outcomes  BY DEF Outcomes
<1>b. Typed /\ Lists /\ Pointing  BY DEF Base, Lined
<1>1. ASSUME UNCHANGED made, NEW r \in Ids, r \in 1 .. Len(made), r \in Queued,
             Queued' = Queued \ {r}, NEW how \in Outcomes, Tell(r, how)
      PROVE  Completion' /\ (Result \/ UNCHANGED <<made, told>>)
  BY <1>1, CompleteOne
<1>2. ASSUME UNCHANGED <<made, told>>, Queued' = Queued
      PROVE  Completion'
  BY <1>2 DEF Completion, Visible
<1>3. CASE Opening \/ \E kind, name, about : Queueing(kind, name, about)
  <2>1. PICK kind, name, about : Enqueue(kind, name, about)  BY <1>3, OpeningEnqueues
  <2>2. UNCHANGED <<pendings, told>>  BY <1>3, OpeningEnqueues
  <2>3. PICK n \in Nat : n = Len(made)  BY <1>b DEF Typed
  <2>4. /\ Len(made') = n + 1 /\ n + 1 \in Ids
        /\ \A r \in 1 .. n : made'[r] = made[r]
        /\ ToSet(requests') = ToSet(requests) \cup {n + 1}
    BY <1>b, <2>1, <2>3, EnqueueLists
  <2>5. Queued' = Queued \cup {n + 1} /\ Queued \subseteq 1 .. n
    BY <1>b, <2>2, <2>3, <2>4 DEF Queued, Lists, Listed
  <2>6. ASSUME NEW q \in Ids
        PROVE  /\ told'[q] \in {<<>>} \cup {<<o>> : o \in Outcomes}
               /\ told'[q] = <<>> <=> \/ q \notin 1 .. Len(made')
                                      \/ ~ Visible(q)'
                                      \/ q \in Queued'
    <3>1. /\ told[q] \in {<<>>} \cup {<<o>> : o \in Outcomes}
          /\ told[q] = <<>> <=> (q \notin 1 .. n \/ ~ Visible(q) \/ q \in Queued)
      BY <2>3 DEF Completion
    <3>2. q \in 1 .. n + 1 <=> q \in 1 .. n \/ q = n + 1  OBVIOUS
    <3>3. n + 1 \notin 1 .. n  OBVIOUS
    <3>4. q \in 1 .. n => (Visible(q)' <=> Visible(q))  BY <2>4 DEF Visible
    <3> QED BY <2>2, <2>4, <2>5, <3>1, <3>2, <3>3, <3>4
  <2> QED BY <2>1, <2>2, <2>6 DEF Completion
<1>4. CASE Ending
  <2>1. /\ todo # <<>> /\ top.op \in Walks /\ Current # None /\ UNCHANGED made
        /\ CutOff(Current) /\ Tell(Current, "unanswered")
    BY <1>4, <1>b, StepsOf DEF Ending, EndUnanswered, Walks
  <2>2. Current \in ToSet(List(top.list)) /\ top.list \in {"requests", "pendings"}
    BY <1>b, <2>1, CurrentListed, Walking
  <2>3. Queued' = Queued \ {Current} /\ Current \in Queued
    BY <1>b, <2>1, <2>2, CutStep
  <2>4. Current \in Ids /\ Current \in 1 .. Len(made)
    <3>1. requests \in Seq(Ids) /\ pendings \in Seq(Ids)  BY <1>b DEF Typed
    <3> QED BY <1>b, <2>3, <3>1 DEF Queued, Lists, Listed, ToSet
  <2> QED BY <1>1, <1>o, <2>1, <2>3, <2>4
<1>5. CASE Flushing
  <2>1. /\ Current \in ToSet(requests)
        /\ made[Current].kind \in {"event", "ping"} => Queued' = Queued \ {Current}
        /\ made[Current].kind \notin {"event", "ping"} => Queued' = Queued
    BY <1>b, <1>5, FlushLists
  <2>2. /\ UNCHANGED made
        /\ IF made[Current].kind \in {"event", "ping"} THEN Tell(Current, "answered")
                                                       ELSE UNCHANGED told
    BY <1>5 DEF Flushing, Flush
  <2>3. Current \in Ids /\ Current \in 1 .. Len(made) /\ Current \in Queued
    <3>1. requests \in Seq(Ids)  BY <1>b DEF Typed
    <3> QED BY <1>b, <2>1, <3>1 DEF Queued, Lists, Listed, ToSet
  <2>4. CASE made[Current].kind \in {"event", "ping"}
    BY <1>1, <1>o, <2>1, <2>2, <2>3, <2>4
  <2>5. CASE made[Current].kind \notin {"event", "ping"}
    BY <1>2, <2>1, <2>2, <2>5
  <2> QED BY <2>4, <2>5
<1>6. CASE HandleResult
  <2>1. PICK r \in ToSet(pendings) :
          /\ r \in 1 .. Len(made) /\ r \in Ids /\ Tell(r, "answered")
          /\ Queued' = Queued \ {r} /\ r \in Queued /\ UNCHANGED made
    BY <1>b, <1>6, Matched
  <2> QED BY <1>1, <1>o, <2>1
<1>7. CASE Idle
  <2>1. UNCHANGED <<made, requests, pendings, told>>  BY <1>7 DEF Idle
  <2> QED BY <1>2, <2>1 DEF Queued
<1> QED BY <1>3, <1>4, <1>5, <1>6, <1>7, StepKinds

LEMMA InitSettled == Init => Sets /\ Completion
<1> SUFFICES ASSUME Init PROVE Sets /\ Completion  OBVIOUS
<1>1. /\ expired = {} /\ freed = {} /\ reread = {} /\ asked = {} /\ old = {} /\ made = <<>>
      /\ told = [r \in Ids |-> <<>>]
  BY DEF Init
<1>2. 1 .. Len(made) = {}  BY <1>1
<1> QED BY <1>1, <1>2 DEF Sets, Completion

Settled == Base /\ Lined /\ Sets /\ Completion

\* What the library knows of a request is where the request is: the lists of requests,
\* of those the broker has read and of those that were completed agree.
THEOREM RequestsAreSettled == Safe => []Settled
<1>1. Init => Settled  BY InitBase, InitLined, InitSettled DEF Settled
<1>2. Settled /\ [Next]_vars => Settled'
  <2> SUFFICES ASSUME Settled, [Next]_vars PROVE Settled'  OBVIOUS
  <2>1. Base' /\ Lined'  BY NextBase, NextLined DEF Settled
  <2>2. Sets' /\ Completion'  BY <2>1, NextSets, CompleteStep DEF Settled, Lined
  <2> QED BY <2>1, <2>2 DEF Settled
<1> QED BY <1>1, <1>2, PTL DEF Safe

LEMMA Places ==
  ASSUME NEW s \in Seq(Ids), IsInjective(s), NEW r
  PROVE  Cardinality({i \in DOMAIN s : s[i] = r}) = IF r \in ToSet(s) THEN 1 ELSE 0
<1>1. CASE r \in ToSet(s)
  <2>1. PICK k \in DOMAIN s : s[k] = r  BY <1>1 DEF ToSet
  <2>2. {i \in DOMAIN s : s[i] = r} = {k}  BY <2>1 DEF IsInjective
  <2> QED BY <1>1, <2>2, FS_Singleton
<1>2. CASE r \notin ToSet(s)
  <2>1. {i \in DOMAIN s : s[i] = r} = {}  BY <1>2 DEF ToSet
  <2> QED BY <1>2, <2>1, FS_EmptySet
<1> QED BY <1>1, <1>2

\* A request the application can see is queued, waits for its result, or is completed:
\* one of the three at any time, and completed once.
THEOREM RequestsAreAccountedFor == Safe => []Accounted
<1>1. Settled => Accounted
  <2> SUFFICES ASSUME Settled, NEW r \in 1 .. Len(made), Visible(r)
               PROVE  Cardinality({i \in DOMAIN requests : requests[i] = r})
                        + Cardinality({i \in DOMAIN pendings : pendings[i] = r})
                        + Len(told[r]) = 1
    BY DEF Accounted
  <2>1. /\ requests \in Seq(Ids) /\ pendings \in Seq(Ids) /\ IsInjective(requests)
        /\ IsInjective(pendings) /\ Apart(requests, pendings)
    BY DEF Settled, Base, Typed, Lined, Lists, Listed
  <2>2. r \in Ids
    BY CallsNatural DEF Settled, Base, Counted, Ids
  <2>3. /\ told[r] \in {<<>>} \cup {<<o>> : o \in Outcomes}
        /\ told[r] = <<>> <=> r \in Queued
    BY <2>2 DEF Settled, Completion
  <2>4. Len(told[r]) = IF r \in Queued THEN 0 ELSE 1
    <3>1. Len(<<>>) = 0 /\ \A o \in Outcomes : Len(<<o>>) = 1 /\ <<o>> # <<>>  OBVIOUS
    <3> QED BY <2>3, <3>1
  <2>5. /\ Cardinality({i \in DOMAIN requests : requests[i] = r})
             = IF r \in ToSet(requests) THEN 1 ELSE 0
        /\ Cardinality({i \in DOMAIN pendings : pendings[i] = r})
             = IF r \in ToSet(pendings) THEN 1 ELSE 0
    BY <2>1, Places
  <2>6. r \in Queued <=> r \in ToSet(requests) \/ r \in ToSet(pendings)  BY DEF Queued
  <2>7. ~ (r \in ToSet(requests) /\ r \in ToSet(pendings))  BY <2>1 DEF Apart
  <2> QED BY <2>4, <2>5, <2>6, <2>7
<1> QED BY <1>1, RequestsAreSettled, PTL

LEMMA Narrow ==
  ASSUME NEW S, NEW T, NEW s \in Seq(S), ToSet(s) \subseteq T
  PROVE  s \in Seq(T)
<1>1. \A i \in 1 .. Len(s) : s[i] \in T  BY DEF ToSet
<1>2. Len(s) \in Nat /\ s = [i \in 1 .. Len(s) |-> s[i]]  OBVIOUS
<1> QED BY <1>1, <1>2

\* Every variable has its type: the lists hold requests that were made, each of them once.
THEOREM ClientTyped == Safe => []TypeOK
<1>1. Settled => TypeOK
  <2> SUFFICES ASSUME Settled PROVE TypeOK  OBVIOUS
  <2>1. Typed /\ Lists /\ Sets /\ Counted  BY DEF Settled, Base, Lined
  <2>2. Len(made) <= MaxRequests
    <3>1. PICK n \in Nat, c \in Nat, f \in Nat, m \in Nat :
            n = Len(made) /\ c = Calls /\ f = MaxFrames /\ m = MaxRequests
      BY <2>1, CallsNatural
    <3>2. sent \in 0 .. f /\ n + c + (f - sent) <= m  BY <2>1, <3>1 DEF Counted
    <3> QED BY <3>1, <3>2
  <2>3. \A s \in {requests, pendings, routines, subscriptions, outgoing, heard} :
          s \in Seq(1 .. Len(made)) /\ IsInjective(s)
    BY <2>1, Narrow DEF Typed, Lists, Listed
  <2> QED BY <2>1, <2>2, <2>3 DEF TypeOK, Typed, Sets, Counted
<1> QED BY <1>1, RequestsAreSettled, PTL

\* The library implements what MbusRequest promises, as far as that is a safety property:
\* a request is accepted once and completed once, and only if it was accepted.
THEOREM RequestsAreCompletedOnce == Safe => Request!Safe
<1>1. Init => Request!Init
  BY DEF Init, Request!Init
<1>2. Settled /\ Settled' /\ [Next]_vars => [Request!Next]_(Request!vars)
  <2> SUFFICES ASSUME Settled, Settled', [Next]_vars PROVE [Request!Next]_(Request!vars)
    OBVIOUS
  <2> DEFINE A == {r \in 1 .. Len(made) : Visible(r)}
  <2>b. Base /\ Lined /\ Completion /\ Base'  BY DEF Settled
  <2>1. CASE \E r \in Ids, how \in Outcomes :
               /\ r \in 1 .. Len(made) /\ UNCHANGED made /\ Visible(r) /\ told[r] = <<>>
               /\ told' = [told EXCEPT ![r] = <<how>>]
    <3>1. PICK r \in Ids, how \in Outcomes :
               /\ r \in 1 .. Len(made) /\ UNCHANGED made /\ Visible(r) /\ told[r] = <<>>
               /\ told' = [told EXCEPT ![r] = <<how>>]
      BY <2>1
    <3>2. UNCHANGED A  BY <3>1 DEF Visible
    <3>3. Request!Complete(r)  BY <3>1, <3>2 DEF Request!Complete
    <3> QED BY <3>3 DEF Request!Next
  <2>2. CASE (\E kind, name, about : Enqueue(kind, name, about)) /\ UNCHANGED told
    <3>1. PICK kind, name, about : Enqueue(kind, name, about)  BY <2>2
    <3>2. PICK n \in Nat : n = Len(made)  BY <2>b DEF Base, Typed
    <3>3. /\ Len(made') = n + 1 /\ n + 1 \in Ids
          /\ \A r \in 1 .. n : made'[r] = made[r]
      BY <2>b, <3>1, <3>2, EnqueueLists DEF Lined
    <3>4. A' = IF Visible(n + 1)' THEN A \cup {n + 1} ELSE A
      <4>1. \A r : r \in 1 .. n + 1 <=> r \in 1 .. n \/ r = n + 1  BY <3>2
      <4>2. \A r \in 1 .. n : Visible(r)' <=> Visible(r)  BY <3>3 DEF Visible
      <4>3. \A r : r \in A' <=> r \in A \/ (r = n + 1 /\ Visible(n + 1)')
        BY <3>2, <3>3, <4>1, <4>2
      <4> QED BY <4>3
    <3>5. n + 1 \notin A  BY <3>2
    <3>6. CASE Visible(n + 1)'
      <4>1. Request!Accept(n + 1)  BY <2>2, <3>4, <3>5, <3>6 DEF Request!Accept
      <4> QED BY <3>3, <4>1 DEF Request!Next
    <3>7. CASE ~ Visible(n + 1)'
      BY <2>2, <3>4, <3>7 DEF Request!vars
    <3> QED BY <3>6, <3>7
  <2>3. CASE UNCHANGED <<made, told>>
    BY <2>3 DEF Request!vars, Visible
  <2> QED BY <2>b, <2>1, <2>2, <2>3, CompleteStep
<1> QED BY <1>1, <1>2, RequestsAreSettled, PTL DEF Safe, Request!Safe

-----------------------------------------------------------------------------
(* What goes out, and on which connection. *)

LEMMA LinkBy ==
  ASSUME [Next]_vars, link'
  PROVE  link \/ socket' = "up"
<1>1. ASSUME RunStep  PROVE link \/ socket' = "up"
  <2>1. CASE Shut \/ Cancel \/ Drop \/ Clear \/ Refuse \/ Parting \/ Fail \/ Wait
             \/ Polled \/ Read \/ Write \/ ParsedAll \/ Fallback \/ GiveUp \/ Lost \/ Run \/ Dial
    BY <2>1 DEF Shut, Cancel, Drop, Clear, Refuse, Parting, Fail, Wait, Polled, Read, Write,
         ParsedAll, Fallback, GiveUp, Lost, Run, Dial, peerVars
  <2>2. CASE HandleResult \/ HandleStray \/ HandleEvent \/ HandleCommand \/ Reply
             \/ TakeTime \/ CheckPong \/ TimeOut \/ Flush
    BY <2>2 DEF HandleResult, HandleStray, HandleEvent, HandleCommand, Reply,
         TakeTime, CheckPong, TimeOut, Flush, peerVars
  <2>3. CASE Connecting \/ Complete \/ Wipe
    BY <2>3 DEF Connecting, Complete, Created, Wipe, peerVars
  <2> QED BY <1>1, <2>1, <2>2, <2>3 DEF RunStep
<1>2. ASSUME NEW kind, NEW name, NEW about, Queueing(kind, name, about)
      PROVE  UNCHANGED link
  BY <1>2 DEF Queueing, peerVars
<1>3. CASE Asking  BY <1>2, <1>3, AskingQueues
<1>4. CASE \/ Connect \/ Disconnect \/ Destroy \/ HangUp \/ Destroyed \/ UNCHANGED vars
           \/ (\E r \in 1 .. Len(made) : Answer(r))
           \/ (\E type \in {"event", "pong", "call"} : Send(type))
  BY <1>4 DEF Connect, Disconnect, Destroy, HangUp, Destroyed, vars, clientVars, peerVars, Answer,
    Send, Deliver
<1> QED BY <1>1, <1>3, <1>4 DEF Next, Environment

LEMMA UpStays ==
  ASSUME Base, DialReady, [Next]_vars, socket = "up", ~ Wipe
  PROVE  socket' = "up"
<1>1. ~ Dial  BY DialAt DEF Dial, Base
<1>2. Connecting \/ Complete => socket' = "up" \/ UNCHANGED socket
  BY DEF Connecting, Complete, Created
<1> QED BY <1>1, <1>2, SocketBy

LEMMA NextClosed ==
  ASSUME Settled, Closed, [Next]_vars, Settled'
  PROVE  Closed'
<1>t. /\ Typed /\ Script /\ Base /\ Lists /\ DialReady /\ Len(made) <= MaxRequests
      /\ asked \subseteq ToSet(heard) /\ incoming \in Seq(Frame) /\ wire \in Seq(Frame)
  <2>1. Typed /\ Counted /\ Script /\ Base /\ Lists /\ DialReady /\ Sets
    BY DEF Settled, Base, Lined
  <2>2. Len(made) <= MaxRequests
    <3>1. PICK n \in Nat, c \in Nat, f \in Nat, m \in Nat :
            n = Len(made) /\ c = Calls /\ f = MaxFrames /\ m = MaxRequests
      BY <2>1, CallsNatural
    <3>2. sent \in 0 .. f /\ n + c + (f - sent) <= m  BY <2>1, <3>1 DEF Counted
    <3> QED BY <3>1, <3>2
  <2> QED BY <2>1, <2>2 DEF Sets, Typed
<1>n. ToSet(<<>>) = {} /\ \A n : n \notin 1 .. Len(<<>>)  BY DEF ToSet
<1>1. CASE Wipe
  <2>1. /\ incoming' = <<>> /\ wire' = <<>> /\ heard' = <<>> /\ asked' = {} /\ link' = FALSE
        /\ UNCHANGED old
    BY <1>1 DEF Wipe
  <2> QED BY <2>1 DEF Closed
\* Frames come over a connection that has been used, and are handled after they came.
<1>2. ASSUME incoming = <<>>, wire = <<>>, ~ link \/ heard = <<>>, ~ Wipe
      PROVE  incoming' = <<>> /\ wire' = <<>>
  <2>1. ~ HandleStray /\ ~ HandleResult /\ ~ HandleEvent /\ ~ HandleCommand
    BY <1>2 DEF HandleStray, HandleResult, HandleEvent, HandleCommand, Parse
  <2>2. CASE Read
    BY <1>2, <1>n, <2>2 DEF Read
  <2>3. ASSUME NEW frame \in Frame, Delivered(frame)  PROVE FALSE
    <3>1. link /\ (frame.of \in asked \/ heard # <<>>)  BY <2>3 DEF Delivered
    <3> QED BY <1>2, <1>n, <1>t, <3>1
  <2> QED BY <1>2, <1>t, <2>1, <2>2, <2>3, StepFrames
<1>3. ASSUME socket # "up", socket' # "up", ~ Wipe
      PROVE  /\ heard' = <<>> /\ incoming' = <<>> /\ wire' = <<>> /\ asked' = {} /\ ~ link'
  <2>1. heard = <<>> /\ incoming = <<>> /\ wire = <<>> /\ asked = {} /\ ~ link
    BY <1>3 DEF Closed
  <2>2. incoming' = <<>> /\ wire' = <<>>  BY <1>2, <1>3, <2>1
  <2>3. ~ link'  BY <1>3, <2>1, LinkBy
  <2>4. Write => UNCHANGED heard  BY <1>3, <1>t, WriteLists
  <2>5. Write => asked' \subseteq asked \cup ToSet(heard')  BY <1>t, WriteLists
  <2>6. heard' = <<>> /\ asked' = {}
    BY <1>3, <1>n, <2>1, <2>4, <2>5, StepSets
  <2> QED BY <2>2, <2>3, <2>6
<1>4. ASSUME socket = "up", ~ Wipe  PROVE socket' = "up"  BY <1>4, <1>t, UpStays
<1>5. ASSUME heard' = <<>>, ~ Wipe  PROVE incoming' = <<>> /\ wire' = <<>>
  <2>1. heard = <<>>  BY <1>5, <1>t, StepSets, WriteLists
  <2> QED BY <1>2, <1>5, <2>1 DEF Closed
<1>6. old' = {}
  <2>1. Dial => old' = {}
    <3>1. Dial => requests = <<>> /\ pendings = <<>> /\ outgoing = <<>>  BY <1>t, DialAt DEF Dial
    <3>2. Dial => old' = Queued \cup ToSet(outgoing)  BY DEF Dial
    <3> QED BY <1>n, <3>1, <3>2 DEF Queued
  <2> QED BY <2>1, StepSets DEF Closed
<1> QED BY <1>1, <1>3, <1>4, <1>5, <1>6 DEF Closed

LEMMA NextFresh ==
  ASSUME Settled, Closed, Fresh, [Next]_vars, Settled', Closed'
  PROVE  Fresh'
<1>t. /\ Typed /\ Script /\ Base /\ Base' /\ Lists /\ Pointing /\ Dialing /\ Typed'
      /\ 1 .. Len(made) \subseteq 1 .. Len(made')
      /\ \A r \in 1 .. Len(made) : made'[r] = made[r]
  <2>1. Base /\ Base' /\ Lists /\ Pointing /\ Dialing  BY DEF Settled, Lined
  <2> QED BY <2>1, MadeGrows DEF Base
<1>m. /\ heard \in Seq(Ids) /\ outgoing \in Seq(Ids)
      /\ heard # <<>> => Head(heard) \in 1 .. Len(made)
      /\ outgoing # <<>> => Head(outgoing) \in 1 .. Len(made)
      /\ Queued \subseteq 1 .. Len(made) /\ ToSet(requests) \subseteq Queued
  <2>1. heard \in Seq(Ids) /\ outgoing \in Seq(Ids)  BY <1>t DEF Typed
  <2>2. ASSUME NEW s \in Seq(Ids), s # <<>>  PROVE Head(s) \in ToSet(s)  BY <2>2 DEF ToSet
  <2> QED BY <1>t, <2>1, <2>2 DEF Lists, Listed, Queued
\* The first frame of a connection is its create.
<1>1. ASSUME heard' # <<>>  PROVE made'[Head(heard')].kind = "create"
  <2>1. ~ Wipe  BY <1>1 DEF Wipe
  <2>2. CASE UNCHANGED heard  BY <1>1, <1>m, <1>t, <2>2 DEF Fresh
  <2>3. CASE Write
    <3>1. CASE heard # <<>>
      BY <1>m, <1>t, <2>3, <3>1, WriteLists DEF Fresh
    <3>2. CASE heard = <<>>
      <4>1. outgoing # <<>> /\ Head(heard') = Head(outgoing) /\ socket = "up"
        <5>1. heard' # heard  BY <1>1, <3>2
        <5> QED BY <1>1, <1>t, <2>3, <3>2, <5>1, WriteLists
      <4>2. made[Head(outgoing)].kind = "create"  BY <3>2, <4>1 DEF Fresh
      <4> QED BY <1>m, <1>t, <4>1, <4>2
    <3> QED BY <3>1, <3>2
  <2> QED BY <2>1, <2>2, <2>3, StepSets
<1>2. ASSUME socket' = "up", heard' = <<>>
      PROVE  /\ state' # "connected"
             /\ outgoing' # <<>> => made'[Head(outgoing')].kind = "create"
             /\ \A r \in ToSet(requests') : made'[r].kind = "create"
  <2>1. ~ Wipe /\ ~ Dial  BY <1>2 DEF Wipe, Dial
  <2>2. heard = <<>>  BY <1>2, <1>t, <2>1, StepSets, WriteLists
  <2>3. incoming = <<>>  BY <2>2 DEF Closed
  <2>4. ~ HandleResult  BY <2>3 DEF HandleResult, Parse
  <2>5. /\ state # "connected"
        /\ outgoing # <<>> => made[Head(outgoing)].kind = "create"
        /\ \A r \in ToSet(requests) : made[r].kind = "create"
        /\ socket = "dialing" => Queued = {} /\ outgoing = <<>>
    <3>1. CASE socket = "up"  BY <2>2, <3>1 DEF Fresh
    <3>2. CASE socket # "up"
      <4>1. socket = "dialing"
        <5>1. Connecting \/ Complete  BY <1>2, <2>1, <3>2, SocketBy
        <5>2. Connecting => socket = "dialing"  BY <1>t DEF Connecting, Dialing
        <5>3. Complete => socket = "dialing"  BY DEF Complete
        <5> QED BY <5>1, <5>2, <5>3
      <4> QED BY <1>t, <1>m, <4>1 DEF Dialing
    <3> QED BY <3>1, <3>2
  <2>6. state' # "connected"  BY <2>4, <2>5, ConnectedBy
  <2>7. ~ \E kind, name, about : Queueing(kind, name, about)  BY <2>5 DEF Queueing
  <2>8. CASE Opening
    <3>1. UNCHANGED outgoing /\ Enqueue("create", None, None)  BY <2>8 DEF Opening, buffers
    <3>2. PICK n : /\ n = Len(made') /\ made'[n].kind = "create"
                   /\ ToSet(requests') = ToSet(requests) \cup {n}
      <4>1. /\ made'[Len(made')] = [kind |-> "create", name |-> None, about |-> None,
                                     seq |-> sequence]
            /\ ToSet(requests') = ToSet(requests) \cup {Len(made')}
        BY <1>t, <3>1, EnqueueLists
      <4>2. made'[Len(made')].kind = "create"  BY <4>1
      <4> QED BY <4>1, <4>2
    <3> QED BY <1>m, <1>t, <2>5, <2>6, <3>1, <3>2
  <2>9. CASE Ending
    <3>1. UNCHANGED <<made, outgoing>> /\ ToSet(requests') \subseteq ToSet(requests)
      <4>1. todo # <<>> /\ top.op \in Walks /\ Current # None /\ CutOff(Current)
            /\ UNCHANGED <<made, outgoing>>
        BY <2>9, StepsOf DEF Ending, Walks, EndUnanswered, buffers
      <4>2. Current \in ToSet(List(top.list)) /\ top.list \in {"requests", "pendings"}
        BY <1>t, <4>1, CurrentListed, Walking
      <4> QED BY <1>t, <4>1, <4>2, CutStep
    <3> QED BY <2>5, <2>6, <3>1
  <2>10. CASE Flushing
    <3>1. /\ UNCHANGED made /\ outgoing' = Append(outgoing, Current) /\ Current \in ToSet(requests)
          /\ ToSet(requests') = ToSet(requests) \ {Current}
      BY <1>t, <2>10, FlushLists DEF Flushing, Flush
    <3>2. Head(outgoing') = IF outgoing = <<>> THEN Current ELSE Head(outgoing)
      <4>1. Current \in Ids  BY <1>t, <3>1 DEF Typed, ToSet
      <4>2. PICK o \in Seq(Ids), c \in Ids : o = outgoing /\ c = Current  BY <1>m, <4>1
      <4>3. Head(Append(o, c)) = IF o = <<>> THEN c ELSE Head(o)  OBVIOUS
      <4> QED BY <3>1, <4>2, <4>3
    <3> QED BY <2>5, <2>6, <3>1, <3>2
  <2>11. CASE Idle /\ ~ Flushing
    <3>1. UNCHANGED <<made, requests>>  BY <2>11 DEF Idle
    <3>2. UNCHANGED outgoing
      <4>1. Drop => UNCHANGED outgoing  BY DEF Drop, buffers
      <4>2. Write => UNCHANGED outgoing  BY <1>2, <1>t, WriteLists
      <4>3. Ending => UNCHANGED outgoing  BY DEF Ending, buffers
      <4> QED BY <2>1, <2>4, <2>11, <4>1, <4>2, <4>3, StepLists
    <3> QED BY <2>5, <2>6, <3>1, <3>2
  <2> QED BY <2>4, <2>7, <2>8, <2>9, <2>10, <2>11, StepKinds
<1> QED BY <1>1, <1>2 DEF Fresh

LEMMA InitClosed == Init => Closed /\ Fresh
BY DEF Init, Closed, Fresh

Connected == Settled /\ Closed /\ Fresh

\* Nothing of one connection is there when the next is dialled, and nothing but the create
\* is written before the create.
THEOREM ConnectionsAreFresh == Safe => []Connected
<1>1. Init => Closed /\ Fresh  BY InitClosed
<1>2. Settled /\ Settled' /\ Closed /\ Fresh /\ [Next]_vars => (Closed /\ Fresh)'
  BY NextClosed, NextFresh
<1> QED BY <1>1, <1>2, RequestsAreSettled, PTL DEF Safe, Connected

\* What the broker reads on a connection was asked on that connection, create first:
\* nothing that a callback queued while the connection before was reset.
THEOREM FramesAreFresh == Safe => []FreshFrames
<1>1. Connected => FreshFrames
  BY DEF Connected, Closed, Fresh, FreshFrames
<1> QED BY <1>1, ConnectionsAreFresh, PTL

-----------------------------------------------------------------------------
(* What the application believes: the steps that tell on it. *)

Telling == {"wipe", "lost", "parting", "fallback", "giveup", "dial", "fail"}
Quiet == {e \in Step : e.op \notin Telling}

LEMMA QuietBecomes ==
  ASSUME Typed, todo # <<>>, NEW s \in Seq(Quiet), Become(s), NEW op \in Telling
  PROVE  /\ Has(op)' => Has(op)
         /\ Has(op) /\ top.op # op => Has(op)'
<1>1. s \in Seq(Step) /\ \A i \in DOMAIN s : s[i].op # op
  <2>1. Quiet \subseteq Step  BY DEF Quiet
  <2>2. \A i \in DOMAIN s : s[i] \in Quiet  OBVIOUS
  <2> QED BY <2>1, <2>2, SeqMonotonic DEF Quiet
<1>2. todo \in Seq(Step) /\ top = todo[1] /\ DOMAIN todo = 1 .. Len(todo) /\ Len(todo) \in Nat
  BY DEF Typed, top
<1>3. ASSUME Has(op)'  PROVE Has(op)
  <2>1. PICK i \in DOMAIN todo' : todo'[i].op = op  BY <1>3 DEF Has
  <2>2. PICK j : j \in 2 .. Len(todo) /\ todo[j].op = op  BY SMTT(30), <1>1, <2>1, PutEntries
  <2> QED BY <1>2, <2>2 DEF Has
<1>4. ASSUME Has(op), top.op # op  PROVE Has(op)'
  <2>1. PICK i \in DOMAIN todo : todo[i].op = op  BY <1>4 DEF Has
  <2>2. i \in 2 .. Len(todo)
    <3>1. i # 1  BY <1>2, <1>4, <2>1
    <3> QED BY <1>2, <3>1
  <2>3. PICK j \in DOMAIN todo' : todo'[j] = todo[i]  BY <1>1, <2>2, PutEntries
  <2> QED BY <2>1, <2>3 DEF Has
<1> QED BY <1>3, <1>4

LEMMA QuietGoes ==
  ASSUME NEW s \in Seq(Quiet), Goto(s), NEW op \in Telling
  PROVE  ~ Has(op)'
<1>1. \A i \in DOMAIN s : s[i].op # op  BY DEF Quiet
<1> QED BY <1>1 DEF Has, Goto

\* Before a step of a reset, or one that ends a run of them, there are only steps of a reset.
LEMMA CalmBefore ==
  ASSUME Typed, Script, NEW op \in Calm \cup Ends, Has(op)
  PROVE  todo # <<>> /\ top.op \in Calm \cup {op}
<1>1. PICK k \in DOMAIN todo : todo[k].op = op  BY DEF Has
<1>2. /\ todo \in Seq(Step) /\ Orderly(todo) /\ DOMAIN todo = 1 .. Len(todo) /\ Len(todo) \in Nat
      /\ todo # <<>>
  BY <1>1 DEF Typed, Script
<1>3. top = todo[1] /\ 1 \in DOMAIN todo  BY <1>2 DEF top
<1>4. CASE k = 1  BY <1>1, <1>2, <1>3, <1>4
<1>5. CASE k # 1
  <2>1. 1 < k  BY <1>2, <1>5
  <2> QED BY <1>1, <1>2, <1>3, <2>1 DEF Orderly
<1> QED BY <1>4, <1>5

LEMMA TellingOps ==
  /\ Telling \subseteq Calm \cup Ends
  /\ \A op \in {"connect", "write", "out", "read", "ping", "parse", "poll", "polled", "reply"} :
       op \notin Calm \cup Ends /\ op \in Ops \ Walks
BY DEF Telling, Calm, Ends, Ops, Walks

LEMMA QuietSteps ==
  /\ \A op \in {"connect", "write", "read", "parse", "polled", "reply"} : Do(op) \in Quiet
  /\ Out \in Seq(Quiet) /\ Poll \in Seq(Quiet) /\ <<>> \in Seq(Quiet)
  /\ \A e \in Step : e.op \in Walks \cup {"parse"} => e \in Quiet
<1>1. Usual \subseteq Quiet
  BY TellingOps DEF Usual, Quiet, Later
<1>2. Out \in Seq(Quiet) /\ Poll \in Seq(Quiet) /\ <<>> \in Seq(Quiet)
  BY <1>1, OutSteps, EmptySeq, SeqMonotonic
<1>3. ASSUME NEW op \in {"connect", "write", "read", "parse", "polled", "reply"}
      PROVE  Do(op) \in Quiet
  <2>1. Do(op) \in Step /\ Do(op).op = op  BY StepsOf, TellingOps
  <2> QED BY <2>1 DEF Quiet, Telling
<1>4. \A e \in Step : e.op \in Walks \cup {"parse"} => e \in Quiet
  BY DEF Quiet, Telling, Walks
<1> QED BY <1>2, <1>3, <1>4

Amid(a, e, c) == (a \o <<e>>) \o c

LEMMA Middle ==
  ASSUME NEW S, NEW a \in Seq(S), NEW e \in S, NEW c \in Seq(S)
  PROVE  /\ Amid(a, e, c) \in Seq(S)
         /\ \E i \in DOMAIN Amid(a, e, c) : Amid(a, e, c)[i] = e
<1>1. PICK b \in Seq(S) : b = <<e>>
  <2>1. <<e>> \in Seq(S)  OBVIOUS
  <2> QED BY <2>1
<1>2. Len(b) = 1 /\ b[1] = e  BY <1>1
<1>3. PICK u \in Seq(S) : u = a \o b  BY ConcatProperties
<1>4. PICK v \in Seq(S) : v = u \o c  BY ConcatProperties
<1>5. PICK m \in Nat, n \in Nat : m = Len(a) /\ n = Len(c)  OBVIOUS
<1>6. Len(u) = m + 1 /\ u[m + 1] = b[1]
  <2>1. Len(u) = Len(a) + Len(b) /\ \A i \in 1 .. Len(b) : u[Len(a) + i] = b[i]
    BY <1>3, JoinOf
  <2>2. 1 \in 1 .. Len(b)  BY <1>2
  <2> QED BY <1>2, <1>5, <2>1, <2>2
<1>7. Len(v) = (m + 1) + n /\ \A i \in 1 .. m + 1 : v[i] = u[i]
  <2>1. Len(v) = Len(u) + Len(c) /\ \A i \in 1 .. Len(u) : v[i] = u[i]
    BY <1>4, JoinOf
  <2> QED BY <1>5, <1>6, <2>1
<1>8. m + 1 \in 1 .. m + 1 /\ m + 1 \in DOMAIN v  BY <1>7
<1>9. v[m + 1] = e  BY <1>2, <1>6, <1>7, <1>8
<1> QED BY <1>1, <1>3, <1>4, <1>8, <1>9 DEF Amid

\* The whole of a reset with one step after it and a part of the usual, of whatever kind.
LEMMA ResetWhole ==
  ASSUME NEW bad \in SUBSET (Telling \ {"wipe"}),
         NEW S, S = {e \in Step : e.op \notin bad}
  PROVE  /\ Reset \in Seq(S) /\ Out \in Seq(S)
         /\ \A op \in {"lost", "parting", "fallback"} \ bad : Do(op) \in S /\ Do(op).op = op
<1>1. "wipe" \notin bad /\ bad \subseteq Telling  OBVIOUS
<1>2. \A op \in {"shut", "wipe", "drop", "clear", "lost", "parting", "fallback"} :
         Do(op) \in Step /\ Do(op).op = op
  <2>1. ASSUME NEW op \in {"shut", "wipe", "drop", "clear", "lost", "parting", "fallback"}
        PROVE  op \in Ops \ Walks
    BY DEF Ops, Walks, Calm, Ends
  <2> QED BY <2>1, StepsOf
<1>3. \A op \in {"shut", "wipe", "drop", "clear"} : Do(op) \in S
  <2>1. \A op \in {"shut", "wipe", "drop", "clear"} : op \notin bad  BY <1>1 DEF Telling
  <2> QED BY <1>2, <2>1
<1>4. \A l \in {"requests", "pendings"} : Walk("cancel", l) \in S
  <2>1. \A l \in {"requests", "pendings"} : Walk("cancel", l) \in Step /\ Walk("cancel", l).op = "cancel"
    BY WalkStep, Kinships DEF Clean
  <2>2. "cancel" \notin bad  BY <1>1 DEF Telling
  <2> QED BY <2>1, <2>2
<1>5. Reset \in Seq(S)  BY <1>3, <1>4 DEF Reset
<1>6. Out \in Seq(S)
  <2>1. Usual \subseteq S  BY <1>1, TellingOps, Kinships DEF Usual
  <2> QED BY <2>1, OutSteps, SeqMonotonic
<1>7. \A op \in {"lost", "parting", "fallback"} \ bad : Do(op) \in S /\ Do(op).op = op
  BY <1>2
<1> QED BY <1>5, <1>6, <1>7

\* What a reset after the loss of a connection tells, and one after too many missed pongs.
LEMMA LostWhole ==
  ASSUME Goto(Reset \o <<Do("lost")>> \o Out)
  PROVE  /\ Has("lost")'
         /\ \A op \in {"parting", "fallback", "giveup", "dial", "fail"} : ~ Has(op)'
<1>1. PICK bad \in SUBSET (Telling \ {"wipe"}) : bad = {"parting", "fallback", "giveup", "dial", "fail"}
  BY DEF Telling
<1>2. PICK S : S = {e \in Step : e.op \notin bad}  OBVIOUS
<1>3. "lost" \in {"lost", "parting", "fallback"} \ bad  BY <1>1
<1>4. Reset \in Seq(S) /\ Out \in Seq(S) /\ Do("lost") \in S /\ Do("lost").op = "lost"
  BY <1>2, <1>3, ResetWhole
<1>w. PICK v : v = (Reset \o <<Do("lost")>>) \o Out  OBVIOUS
<1>5. v \in Seq(S) /\ \E i \in DOMAIN v : v[i] = Do("lost")
  <2>1. v = Amid(Reset, Do("lost"), Out)  BY <1>w DEF Amid
  <2>2. /\ Amid(Reset, Do("lost"), Out) \in Seq(S)
        /\ \E i \in DOMAIN Amid(Reset, Do("lost"), Out) :
             Amid(Reset, Do("lost"), Out)[i] = Do("lost")
    BY <1>4, Middle
  <2> QED BY <2>1, <2>2
<1>6. todo' = v  BY <1>w DEF Goto
<1>7. \A i \in DOMAIN v : v[i] \in S  BY <1>5
<1> QED BY <1>1, <1>2, <1>4, <1>5, <1>6, <1>7 DEF Has

LEMMA PartingWhole ==
  ASSUME Goto(<<Do("parting")>> \o Reset \o <<Do("fallback")>> \o Out)
  PROVE  /\ At("parting")' /\ Has("fallback")'
         /\ \A op \in {"lost", "giveup", "dial", "fail"} : ~ Has(op)'
<1>1. PICK bad \in SUBSET (Telling \ {"wipe"}) : bad = {"lost", "giveup", "dial", "fail"}
  BY DEF Telling
<1>2. PICK S : S = {e \in Step : e.op \notin bad}  OBVIOUS
<1>3. "parting" \in {"lost", "parting", "fallback"} \ bad
      /\ "fallback" \in {"lost", "parting", "fallback"} \ bad  BY <1>1
<1>4. /\ Reset \in Seq(S) /\ Out \in Seq(S) /\ Do("parting") \in S
      /\ Do("fallback") \in S /\ Do("fallback").op = "fallback"
  BY <1>2, <1>3, ResetWhole
<1>5. <<Do("parting")>> \o Reset \in Seq(S)
  <2>1. <<Do("parting")>> \in Seq(S)  BY <1>4
  <2> QED BY <1>4, <2>1, ConcatProperties
<1>w. PICK v : v = <<Do("parting")>> \o Reset \o <<Do("fallback")>> \o Out  OBVIOUS
<1>6. v \in Seq(S) /\ \E i \in DOMAIN v : v[i] = Do("fallback")
  <2>1. PICK a \in Seq(S) : a = <<Do("parting")>> \o Reset  BY <1>5
  <2>2. v = Amid(a, Do("fallback"), Out)  BY <1>w, <2>1 DEF Amid
  <2>3. /\ Amid(a, Do("fallback"), Out) \in Seq(S)
        /\ \E i \in DOMAIN Amid(a, Do("fallback"), Out) :
             Amid(a, Do("fallback"), Out)[i] = Do("fallback")
    BY <1>4, Middle
  <2> QED BY <2>2, <2>3
<1>7. todo' = v  BY <1>w DEF Goto
<1>8. \A i \in DOMAIN v : v[i] \in S  BY <1>6
<1>9. v # <<>> /\ Head(v).op = "parting"  BY <1>w, PartingSteps
<1>10. At("parting")'  BY <1>7, <1>9 DEF At, top
<1> QED BY <1>1, <1>2, <1>4, <1>6, <1>7, <1>8, <1>10 DEF Has


QuietStep == /\ todo # <<>> /\ \E s \in Seq(Quiet) : Become(s)
             /\ top.op = "lost" => Lost
             /\ top.op = "parting" => Parting
             /\ top.op = "fallback" => Fallback

\* The canceled or refused create of a connection.
CreateEnds == \E r \in Queued : made[r].kind = "create" /\ (Ending \/ HandleResult) /\ Queued' = Queued \ {r}

LEMMA EndingQuiet ==
  ASSUME Base, Lists, Pointing, Ending
  PROVE  QuietStep \/ CreateEnds
<1>t. Typed /\ Script  BY DEF Base
<1>1. todo # <<>> /\ top.op \in {"cancel", "expire"} /\ top.op \in Walks /\ Current # None
  BY StepsOf DEF Ending, Walks
<1>2. PICK r : r = Current  OBVIOUS
<1>3. CutOff(r) /\ EndUnanswered(r)  BY <1>2 DEF Ending, EndUnanswered
<1>4. r \in ToSet(List(top.list)) /\ top.list \in {"requests", "pendings"}
  BY <1>t, <1>1, <1>2, CurrentListed, Walking
<1>5. r \in Queued /\ Queued' = Queued \ {r}
  BY <1>1, <1>2, <1>3, <1>4, <1>t, CutStep DEF Ending
<1>6. CASE made[r].kind = "create"  BY <1>5, <1>6 DEF CreateEnds
<1>7. CASE made[r].kind # "create"
  <2>1. PICK e \in Step : Onwards(r) = <<e>> /\ e.op = top.op  BY <1>t, <1>1, Walking
  <2>2. PICK w \in Seq(Quiet) : w = <<e>>
    <3>1. e \in Quiet  BY <1>1, <2>1, QuietSteps
    <3>2. <<e>> \in Seq(Quiet)  BY <3>1
    <3> QED BY <3>2
  <2>3. Become(w)
    <3>1. Become(<<>> \o w)  BY <1>3, <1>7, <2>1, <2>2 DEF EndUnanswered
    <3>2. <<>> \o w = w  BY <2>2, ConcatEmptySeq
    <3> QED BY <3>1, <3>2
  <2> QED BY <1>1, <2>3 DEF QuietStep
<1> QED BY <1>6, <1>7

LEMMA ResultQuiet ==
  ASSUME Base, Lists, HandleResult
  PROVE  UNCHANGED todo \/ CreateEnds
<1>1. PICK r \in ToSet(pendings) :
         /\ r = pendings[Awaiting(Head(incoming).seq)]
         /\ Queued' = Queued \ {r} /\ r \in Queued
  BY Matched
<1>2. CASE made[r].kind = "create"  BY <1>1, <1>2 DEF CreateEnds
<1>3. CASE made[r].kind # "create"
  BY <1>1, <1>3 DEF HandleResult, RegisterResponse, UnregisterResponse, SubscribeResponse,
    UnsubscribeResponse, EventResponse, CommandResponse
<1> QED BY <1>2, <1>3

\* What is left to do after a step, by what it tells.
LEMMA StepQuiet ==
  ASSUME Base, Lists, Pointing, [Next]_vars
  PROVE  \/ UNCHANGED todo
         \/ QuietStep
         \/ (todo = <<>> \/ At("reply") \/ At("write")) /\ \E s \in Seq(Quiet) : Goto(s)
         \/ Fail
         \/ Run /\ socket = "none"
         \/ At("connect") \/ ((At("write") \/ At("out")) /\ socket = "dialing")
         \/ (todo = <<>> \/ At("read")) /\ Goto(Reset \o <<Do("lost")>> \o Out)
         \/ Destroy
         \/ At("ping") /\ Goto(<<Do("parting")>> \o Reset \o <<Do("fallback")>> \o Out)
         \/ CreateEnds
<1> DEFINE Goal == \/ UNCHANGED todo
                   \/ QuietStep
                   \/ (todo = <<>> \/ At("reply") \/ At("write")) /\ \E s \in Seq(Quiet) : Goto(s)
                   \/ Fail
                   \/ Run /\ socket = "none"
                   \/ At("connect") \/ ((At("write") \/ At("out")) /\ socket = "dialing")
                   \/ (todo = <<>> \/ At("read")) /\ Goto(Reset \o <<Do("lost")>> \o Out)
                   \/ Destroy
                   \/ At("ping") /\ Goto(<<Do("parting")>> \o Reset \o <<Do("fallback")>> \o Out)
                   \/ CreateEnds
<1>t. Typed /\ Script  BY DEF Base
<1>e. <<>> \in Seq(Quiet) /\ Out \in Seq(Quiet) /\ Poll \in Seq(Quiet)  BY QuietSteps
<1>a. ASSUME NEW op, At(op), op \notin {"lost", "parting", "fallback"},
             NEW s \in Seq(Quiet), Become(s)
      PROVE  Goal
  <2>1. todo # <<>> /\ top.op = op  BY <1>a, StepsOf
  <2> QED BY <1>a, <2>1 DEF QuietStep
<1>b. ASSUME todo = <<>> \/ At("reply") \/ At("write"), NEW s \in Seq(Quiet), Goto(s)  PROVE Goal
  BY <1>b
<1>1. ASSUME Shut \/ Wipe \/ Clear \/ Refuse \/ GiveUp \/ ParsedAll  PROVE Goal
  <2> HIDE DEF Goal
  <2> QED BY <1>1, <1>a, <1>e DEF Shut, Wipe, Clear, Refuse, GiveUp, ParsedAll
<1>2. ASSUME Fallback \/ Lost \/ Parting  PROVE QuietStep
  <2>1. todo # <<>> /\ Become(<<>>)  BY <1>2, StepsOf DEF Fallback, Lost, Parting
  <2>2. /\ Fallback => top.op = "fallback"
        /\ Lost => top.op = "lost"
        /\ Parting => top.op = "parting"
    BY StepsOf DEF Fallback, Lost, Parting
  <2> QED BY <1>2, <1>e, <2>1, <2>2 DEF QuietStep
<1>3. ASSUME Drop  PROVE Goal
  <2>1. UNCHANGED todo \/ (At("drop") /\ Become(<<>>))  BY <1>3 DEF Drop
  <2>2. CASE At("drop") /\ Become(<<>>)
    <3> HIDE DEF Goal
    <3> QED BY <2>2, <1>a, <1>e
  <2> QED BY <2>1, <2>2
<1>4. ASSUME Cancel \/ TimeOut \/ Flush  PROVE Goal
  <2>1. PICK op \in {"cancel", "expire", "flush"} : At(op)  BY <1>4 DEF Cancel, TimeOut, Flush
  <2>2. todo # <<>> /\ top.op = op /\ op \in Walks  BY <2>1, StepsOf DEF Walks
  <2>3. Become(<<>>) \/ Ending \/ Become(Onwards(Current))
    BY <1>4 DEF Cancel, TimeOut, Flush, Ending
  <2>4. PICK w \in Seq(Quiet) : w = Onwards(Current)
    <3>1. PICK e \in Step : Onwards(Current) = <<e>> /\ e.op = top.op  BY <1>t, <2>2, Walking
    <3>2. e \in Quiet  BY <2>2, <3>1, QuietSteps
    <3>3. <<e>> \in Seq(Quiet)  BY <3>2
    <3> QED BY <3>1, <3>3
  <2>5. CASE Ending  BY <2>5, EndingQuiet DEF Base
  <2>6. CASE Become(<<>>) \/ Become(w)
    <3> HIDE DEF Goal
    <3> QED BY <2>1, <2>6, <1>a, <1>e
  <2> QED BY <2>3, <2>4, <2>5, <2>6
<1>5. ASSUME Run  PROVE Goal
  <2>1. todo = <<>>  BY <1>5 DEF Run
  <2>2. \/ socket = "none" \/ Goto(Poll) \/ Goto(Out) \/ Goto(Reset \o <<Do("lost")>> \o Out)
    BY <1>5 DEF Run
  <2>3. CASE Goto(Poll) \/ Goto(Out)
    <3> HIDE DEF Goal
    <3> QED BY <2>1, <2>3, <1>b, <1>e
  <2> QED BY <1>5, <2>1, <2>2, <2>3
<1>6. ASSUME Connecting \/ Complete  PROVE Goal
  BY <1>6 DEF Connecting, Complete
<1>7. ASSUME Dial \/ Wait \/ Polled  PROVE Goal
  <2>1. <<Do("connect")>> \in Seq(Quiet) /\ <<Do("polled")>> \in Seq(Quiet)
        /\ <<Do("read"), Do("write"), Do("parse")>> \in Seq(Quiet)
    <3>1. \A op \in {"connect", "write", "read", "parse", "polled", "reply"} : Do(op) \in Quiet
      BY QuietSteps
    <3> QED BY <3>1
  <2> HIDE DEF Goal
  <2> QED BY <1>7, <1>a, <1>e, <2>1 DEF Dial, Wait, Polled
<1>8. ASSUME Read  PROVE Goal
  <2>1. At("read") /\ (Become(<<>>) \/ Goto(Reset \o <<Do("lost")>> \o Out))
    BY <1>8 DEF Read
  <2>2. CASE Become(<<>>)
    <3> HIDE DEF Goal
    <3> QED BY <2>1, <2>2, <1>a, <1>e
  <2> QED BY <2>1, <2>2
<1>9. ASSUME Write \/ Reply  PROVE Goal
  <2>1. PICK op \in {"write", "reply"} : At(op)  BY <1>9 DEF Write, Reply
  <2>2. Become(<<>>) \/ Goto(<<>>)  BY <1>9 DEF Write, Reply
  <2> HIDE DEF Goal
  <2> QED BY <2>1, <2>2, <1>a, <1>b, <1>e
<1>10. ASSUME HandleResult  PROVE Goal  BY <1>10, ResultQuiet
<1>11. ASSUME HandleStray \/ HandleEvent  PROVE UNCHANGED todo
  BY <1>11 DEF HandleStray, HandleEvent
<1>12. ASSUME HandleCommand  PROVE Goal
  <2>1. At("parse") /\ todo # <<>> /\ top.op = "parse" /\ Become(<<Do("reply"), top>>)
    BY <1>12, StepsOf DEF HandleCommand, Parse
  <2>2. <<Do("reply"), top>> \in Seq(Quiet)
    <3>1. top \in Step  BY <1>t, <2>1, TailOf DEF top, Typed
    <3>2. top \in Quiet /\ Do("reply") \in Quiet  BY <2>1, <3>1, QuietSteps
    <3> QED BY <3>2
  <2> HIDE DEF Goal
  <2> QED BY <2>1, <2>2, <1>a
<1>13. ASSUME TakeTime  PROVE Goal
  <2>1. At("out") /\ (Become(<<>>) \/ socket = "dialing")  BY <1>13 DEF TakeTime
  <2>2. CASE Become(<<>>)
    <3> HIDE DEF Goal
    <3> QED BY <2>1, <2>2, <1>a, <1>e
  <2> QED BY <2>1, <2>2
<1>14. ASSUME CheckPong  PROVE Goal
  <2>1. /\ At("ping")
        /\ Become(<<>>) \/ Goto(<<Do("parting")>> \o Reset \o <<Do("fallback")>> \o Out)
    BY <1>14 DEF CheckPong
  <2>2. CASE Become(<<>>)
    <3> HIDE DEF Goal
    <3> QED BY <2>1, <2>2, <1>a, <1>e
  <2> QED BY <2>1, <2>2
<1>15. ASSUME Asking  PROVE UNCHANGED todo
  <2>1. ASSUME NEW kind, NEW name, NEW about, Ask(kind, name, about)
        PROVE  UNCHANGED todo
    BY <2>1 DEF Ask
  <2> QED BY <2>1, <1>15 DEF Asking, Publish, Command, Register, Unregister, Subscribe,
        Unsubscribe
<1>16. ASSUME \/ Connect \/ Disconnect \/ HangUp \/ Destroyed \/ UNCHANGED vars
              \/ (\E r \in 1 .. Len(made) : Answer(r))
              \/ (\E type \in {"event", "pong", "call"} : Send(type))
       PROVE  UNCHANGED todo
  BY <1>16 DEF Connect, Disconnect, HangUp, Destroyed, vars, clientVars, Answer, Send, Deliver
<1>17. ASSUME RunStep  PROVE Goal
  <2>1. ASSUME QuietStep \/ UNCHANGED todo \/ Fail  PROVE Goal  BY <2>1
  <2> HIDE DEF Goal
  <2> QED BY <1>17, <2>1, <1>1, <1>2, <1>3, <1>4, <1>5, <1>6, <1>7, <1>8, <1>9, <1>10, <1>11,
       <1>12, <1>13, <1>14 DEF RunStep
<1> QED BY <1>15, <1>16, <1>17 DEF Next, Environment

LEMMA SessionBy ==
  ASSUME [Next]_vars
  PROVE  /\ session' =>
              \/ session
              \/ HandleResult /\ state' = "connected" /\ UNCHANGED <<todo, socket>>
                 /\ made[pendings[Awaiting(Head(incoming).seq)]].kind = "create"
         /\ session => session' \/ Lost \/ Parting \/ GiveUp \/ Destroy
         /\ state' \in {"disconnected", "destroyed"} =>
              state' = state \/ Fallback \/ GiveUp \/ Lost \/ Destroy
<1> DEFINE Same == session' = session /\ (state' \in {"disconnected", "destroyed"} => state' = state)
<1>1. Shut \/ Wipe \/ Cancel \/ Drop \/ Clear \/ Refuse \/ Fail \/ Dial \/ Wait \/ Polled \/ Read
        \/ Write \/ ParsedAll \/ Run => Same
  BY DEF Shut, Wipe, Cancel, Drop, Clear, Refuse, Fail, Dial, Wait, Polled, Read, Write, ParsedAll,
    Run, toldVars
<1>2. Connecting \/ Complete \/ HandleStray \/ HandleEvent \/ HandleCommand \/ Reply \/ TakeTime
        \/ CheckPong \/ TimeOut \/ Flush => Same
  BY DEF Connecting, Complete, Created, HandleStray, HandleEvent, HandleCommand, Reply, TakeTime,
    CheckPong, TimeOut, Flush, toldVars
<1>3. /\ Fallback => session' = session
      /\ GiveUp => (session' => session)
      /\ Lost \/ Parting \/ Destroy => session' = FALSE
      /\ Parting => state' = state
  BY DEF Fallback, GiveUp, Lost, Parting, Destroy, toldVars
<1>4. HandleResult => \/ Same
                      \/ /\ state' = "connected" /\ session' = TRUE /\ UNCHANGED <<todo, socket>>
                         /\ made[pendings[Awaiting(Head(incoming).seq)]].kind = "create"
  BY DEF HandleResult, CreateResponse, RegisterResponse, UnregisterResponse, SubscribeResponse,
    UnsubscribeResponse, EventResponse, CommandResponse
<1>5. Asking => Same
  <2>1. ASSUME NEW kind, NEW name, NEW about, Ask(kind, name, about)  PROVE Same
    BY <2>1 DEF Ask, toldVars
  <2> QED BY <2>1 DEF Asking, Publish, Command, Register, Unregister, Subscribe, Unsubscribe
<1>6. Connect \/ Disconnect \/ HangUp \/ Destroyed \/ UNCHANGED vars => Same
  BY DEF Connect, Disconnect, HangUp, Destroyed, vars, clientVars, toldVars
<1>7. ASSUME (\E r \in 1 .. Len(made) : Answer(r)) \/ (\E type \in {"event", "pong", "call"} : Send(type))
      PROVE  Same
  BY <1>7 DEF Answer, Send, Deliver, clientVars, toldVars
<1>8. Same \/ Fallback \/ GiveUp \/ Lost \/ Parting \/ Destroy \/ HandleResult
  <2> HIDE DEF Same
  <2> QED BY <1>1, <1>2, <1>5, <1>6, <1>7 DEF Next, RunStep, Environment
<1> QED BY <1>3, <1>4, <1>8

LEMMA PartingBy ==
  ASSUME Typed, Script, [Next]_vars, At("parting")'
  PROVE  \/ UNCHANGED todo
         \/ Goto(<<Do("parting")>> \o Reset \o <<Do("fallback")>> \o Out)
<1>1. todo' \notin Seq(Later)
  <2>1. todo' \in Seq(Later) => (todo' # <<>> => Head(todo') \in Later)  BY HeadTailProperties
  <2> QED BY <2>1 DEF At, top, Later
<1>2. ~ HandleCommand  BY CommandNext DEF At
<1>3. ~ Dial
  <2>1. Dial => todo # <<>> /\ todo' = <<Do("connect")>> \o Tail(todo)  BY StepsOf DEF Dial, Become
  <2>2. Do("connect") \in Step /\ Do("connect").op = "connect"  BY StepsOf, PlainOps
  <2>3. todo # <<>> => Tail(todo) \in Seq(Step)  BY HeadTailProperties DEF Typed
  <2>4. Dial => Head(todo') = Do("connect")  BY <2>1, <2>2, <2>3, HeadOfJoin
  <2> QED BY <2>2, <2>4 DEF At, top
<1> QED BY <1>1, <1>2, <1>3, StepLater

\* A create that the broker let in: nothing is left of a reset, and nothing else is queued.
LEMMA NewSession ==
  ASSUME Settled, Closed, [Next]_vars, ~ session, session'
  PROVE  /\ state' = "connected" /\ UNCHANGED todo /\ socket' = "up" /\ Queued' = {}
         /\ \A op \in Telling : ~ Has(op)'
         /\ ~ At("parting")'
<1>t. Base /\ Typed /\ Script /\ Lists /\ Alone  BY DEF Settled, Base, Lined
<1>1. /\ HandleResult /\ state' = "connected" /\ UNCHANGED <<todo, socket>>
      /\ made[pendings[Awaiting(Head(incoming).seq)]].kind = "create"
  BY SessionBy
<1>2. At("parse") /\ incoming # <<>>  BY <1>1 DEF HandleResult, Parse
<1>3. socket = "up"  BY <1>2 DEF Closed
<1>4. PICK r \in Queued : made[r].kind = "create" /\ Queued' = Queued \ {r}
  BY <1>1, <1>t, Matched
<1>5. Queued' = {}  BY <1>t, <1>4 DEF Alone
<1>6. top.op = "parse" /\ "parse" \notin Calm \cup Ends  BY <1>2, StepsOf, TellingOps
<1>7. ASSUME NEW op \in Telling  PROVE ~ Has(op)'
  <2>1. op \in Calm \cup Ends  BY TellingOps
  <2>2. ~ Has(op)  BY <1>t, <1>6, <2>1, CalmBefore
  <2> QED BY <1>1, <2>2 DEF Has
<1>8. ~ At("parting")'  BY <1>1, <1>6 DEF At, top
<1> QED BY <1>1, <1>3, <1>5, <1>7, <1>8

\* The steps the application's belief survives.
LEMMA OldSession ==
  ASSUME Settled, Believed, [Next]_vars, session, session'
  PROVE  \/ UNCHANGED todo
         \/ /\ QuietStep /\ ~ At("parting")
            /\ top.op # "lost" /\ top.op # "fallback" /\ (Has("wipe") => top.op # "wipe" \/ Has("lost"))
         \/ (todo = <<>> \/ At("reply") \/ At("write")) /\ \E s \in Seq(Quiet) : Goto(s)
         \/ (todo = <<>> \/ At("read")) /\ Goto(Reset \o <<Do("lost")>> \o Out)
         \/ Goto(<<Do("parting")>> \o Reset \o <<Do("fallback")>> \o Out)
<1>t. Base /\ Typed /\ Script /\ Lists /\ Pointing /\ Dialing  BY DEF Settled, Base, Lined
<1>0. ~ Lost /\ ~ Parting /\ ~ Destroy  BY DEF Lost, Parting, Destroy
<1>1. (socket = "up" /\ ~ Has("wipe")) \/ Has("lost") \/ At("parting")  BY DEF Believed
<1>2. ~ Has("fail") /\ (Has("fallback") => At("parting"))  BY DEF Believed
<1>o. \A op \in {"connect", "write", "out", "read", "reply"} : op \notin Calm \cup Ends
  BY TellingOps
<1>3. ASSUME todo = <<>> \/ \E op \in {"connect", "write", "out", "read", "reply"} : At(op)
      PROVE  socket = "up"
  <2>1. ~ Has("lost")
    <3>1. Has("lost") => todo # <<>> /\ top.op \in Calm \cup {"lost"} /\ "lost" \in Ends
      BY <1>t, CalmBefore DEF Ends
    <3> QED BY <1>3, <1>o, <3>1, StepsOf
  <2>2. ~ At("parting")  BY <1>3, <1>o, StepsOf DEF Calm
  <2> QED BY <1>1, <2>1, <2>2
<1>4. ~ Fail
  <2>1. Fail => todo # <<>> /\ top.op = "fail"  BY StepsOf DEF Fail
  <2>2. todo # <<>> => 1 \in DOMAIN todo /\ top = todo[1]  BY <1>t DEF Typed, top
  <2> QED BY <1>2, <2>1, <2>2 DEF Has
<1>5. ~ CreateEnds  BY DEF Believed, CreateEnds
<1>6. ~ (Run /\ socket = "none")  BY <1>3 DEF Run
<1>7. ~ (At("connect") \/ ((At("write") \/ At("out")) /\ socket = "dialing"))
  BY <1>3, <1>t DEF Dialing
<1>8. ASSUME QuietStep
      PROVE  /\ ~ At("parting") /\ top.op # "lost" /\ top.op # "fallback"
             /\ Has("wipe") => top.op # "wipe" \/ Has("lost")
  <2>1. todo # <<>> /\ top.op # "lost" /\ ~ At("parting")
    BY <1>8, <1>0 DEF QuietStep, At
  <2>2. top.op # "fallback"
    <3>1. 1 \in DOMAIN todo /\ top = todo[1]  BY <1>t, <2>1 DEF Typed, top
    <3> QED BY <1>2, <2>1, <3>1 DEF Has
  <2> QED BY <1>1, <2>1, <2>2
<1> QED BY <1>t, <1>0, <1>4, <1>5, <1>6, <1>7, <1>8, StepQuiet

LEMMA NextBelieved ==
  ASSUME Settled, Closed, Believed, [Next]_vars, Settled'
  PROVE  Believed'
<1>t. /\ Base /\ Typed /\ Script /\ Lists /\ Pointing /\ Dialing /\ DialReady /\ Alone /\ Alone'
      /\ Lists' /\ 1 .. Len(made) \subseteq 1 .. Len(made')
      /\ \A r \in 1 .. Len(made) : made'[r] = made[r]
  <2>1. Base /\ Base' /\ Typed /\ Script /\ Lists /\ Lists' /\ Pointing /\ Dialing /\ DialReady
        /\ Alone /\ Alone'
    BY DEF Settled, Base, Lined
  <2> QED BY <2>1, MadeGrows
<1>q. Queued \subseteq 1 .. Len(made)  BY <1>t DEF Lists, Listed, Queued
<1>w. /\ {"wipe", "lost", "fallback", "giveup", "dial", "fail", "parting"} \subseteq Telling
      /\ \A op \in {"connect", "write", "read", "ping", "reply"} : op \notin Calm \cup Ends
      /\ Telling \subseteq Calm \cup Ends
  BY TellingOps DEF Telling
<1>u. \A op : UNCHANGED todo => Has(op)' = Has(op) /\ At(op)' = At(op)
  BY DEF Has, At, top
<1>c. ASSUME todo = <<>> \/ At("reply") \/ At("write") \/ At("read"), NEW op \in Telling
      PROVE  ~ Has(op) /\ ~ At(op)
  <2>1. op \in Calm \cup Ends  BY <1>w
  <2>2. ~ Has(op)  BY <1>c, <1>t, <1>w, <2>1, CalmBefore, StepsOf
  <2>3. ~ At(op)  BY <1>c, <1>w, <2>1, StepsOf
  <2> QED BY <2>2, <2>3
\* No create is under way.
<1>1. ASSUME session', NEW r \in Queued'  PROVE made'[r].kind # "create"
  <2>1. session  BY <1>1, NewSession
  <2>2. \A q \in Queued : made[q].kind # "create" /\ made'[q] = made[q]
    BY <1>t, <1>q, <2>1 DEF Believed
  <2>3. ASSUME Opening  PROVE FALSE
    <3>1. socket = "dialing" /\ (At("connect") \/ At("write"))  BY <2>3, <1>t DEF Opening, Dialing
    <3>2. Has("lost") \/ At("parting")  BY <2>1, <3>1 DEF Believed
    <3>3. todo # <<>> /\ top.op \notin Calm \cup Ends
      BY <1>w, <3>1, StepsOf
    <3>4. "lost" \in Ends /\ "parting" \in Calm  BY DEF Calm, Ends
    <3> QED BY <1>t, <3>2, <3>3, <3>4, CalmBefore, StepsOf
  <2>4. CASE \E kind, name, about : Queueing(kind, name, about)
    <3>1. state' = "connected"  BY <2>4 DEF Queueing
    <3> QED BY <1>1, <1>t, <3>1 DEF Alone
  <2>5. CASE Ending \/ Flushing \/ HandleResult \/ Idle
    <3>1. Queued' \subseteq Queued
      <4>1. CASE Ending
        <5>1. todo # <<>> /\ top.op \in Walks /\ Current # None /\ CutOff(Current) /\ UNCHANGED made
          BY <4>1, StepsOf DEF Ending, Walks, EndUnanswered
        <5>2. Current \in ToSet(List(top.list)) /\ top.list \in {"requests", "pendings"}
          BY <1>t, <5>1, CurrentListed, Walking
        <5> QED BY <1>t, <5>1, <5>2, CutStep
      <4>2. CASE Flushing  BY <1>t, <4>2, FlushLists
      <4>3. CASE HandleResult  BY <1>t, <4>3, Matched
      <4>4. CASE Idle  BY <4>4 DEF Idle, Queued
      <4> QED BY <2>5, <4>1, <4>2, <4>3, <4>4
    <3> QED BY <1>1, <2>2, <3>1
  <2> QED BY <2>3, <2>4, <2>5, StepKinds
\* Connected without a session only on the way out of a reset that was told.
<1>2. ASSUME state' = "connected", ~ session'  PROVE Has("fallback")'
  <2>1. ~ Lost /\ ~ GiveUp /\ ~ Destroy /\ ~ Fallback
    <3>1. GiveUp \/ Fallback => state' # "connected"
      <4>1. Fallback => state # "connected" \/ state' # "connected"  BY DEF Fallback
      <4> QED BY <1>2 DEF GiveUp, Fallback
    <3> QED BY <1>2, <3>1 DEF Lost, Destroy
  <2>2. state = "connected"
    <3>1. HandleResult => state' = state \/ session'
      BY DEF HandleResult, CreateResponse, RegisterResponse, UnregisterResponse, SubscribeResponse,
        UnsubscribeResponse, EventResponse, CommandResponse
    <3> QED BY <1>2, <3>1, ConnectedBy
  <2>3. Has("fallback")
    <3>1. CASE session
      <4>1. Parting  BY <1>2, <2>1, <3>1, SessionBy
      <4> QED BY <4>1 DEF Parting, Believed
    <3>2. CASE ~ session  BY <2>2, <3>2 DEF Believed
    <3> QED BY <3>1, <3>2
  <2>4. todo # <<>> /\ top.op \in Calm
    <3>1. "fallback" \in Calm  BY DEF Calm
    <3> QED BY <1>t, <2>3, <3>1, CalmBefore
  <2>5. ~ CreateEnds  BY <1>t, <2>2 DEF Alone, CreateEnds
  <2>6. ASSUME NEW op \in {"connect", "write", "out", "read", "reply", "ping", "fail"}  PROVE ~ At(op)
    <3>1. op \notin Calm  BY DEF Calm
    <3> QED BY <2>4, <3>1, StepsOf
  <2>7. UNCHANGED todo \/ QuietStep
    BY <1>t, <2>1, <2>4, <2>5, <2>6, StepQuiet DEF Fail, Run
  <2>8. CASE QuietStep
    <3>1. top.op # "fallback"  BY <2>1, <2>8 DEF QuietStep
    <3> QED BY <1>t, <1>w, <2>3, <2>8, <3>1, QuietBecomes DEF QuietStep
  <2> QED BY <1>u, <2>3, <2>7, <2>8
<1>3. ASSUME At("parting")'  PROVE Has("fallback")'
  <2>1. CASE UNCHANGED todo  BY <1>3, <1>u, <2>1 DEF Believed
  <2>2. CASE Goto(<<Do("parting")>> \o Reset \o <<Do("fallback")>> \o Out)
    BY <2>2, PartingWhole
  <2> QED BY <1>3, <1>t, <2>1, <2>2, PartingBy
<1>4. ASSUME session'  PROVE state' \notin {"disconnected", "destroyed"}
  <2>1. CASE ~ session  BY <1>4, <2>1, NewSession
  <2>2. CASE session
    <3>1. ~ Lost /\ ~ Destroy  BY <1>4 DEF Lost, Destroy
    <3>2. ~ GiveUp /\ ~ Fallback
      <4>1. todo # <<>> => 1 \in DOMAIN todo /\ top = todo[1]  BY <1>t DEF Typed, top
      <4>2. ASSUME NEW op, At(op)  PROVE Has(op) /\ (op # "parting" => ~ At("parting"))
        BY <4>1, <4>2, StepsOf DEF Has
      <4>3. GiveUp => Has("giveup")  BY <4>2 DEF GiveUp
      <4>4. Fallback => Has("fallback") /\ ~ At("parting")  BY <4>2 DEF Fallback
      <4> QED BY <2>2, <4>3, <4>4 DEF Believed
    <3>3. state \notin {"disconnected", "destroyed"}  BY <2>2 DEF Believed
    <3> QED BY <3>1, <3>2, <3>3, SessionBy
  <2> QED BY <2>1, <2>2
<1>5. ASSUME session'
      PROVE  /\ (socket' = "up" /\ ~ Has("wipe")') \/ Has("lost")' \/ At("parting")'
             /\ Has("fallback")' => At("parting")'
             /\ ~ Has("giveup")' /\ ~ Has("dial")' /\ ~ Has("fail")'
  <2>1. CASE ~ session  BY <1>5, <1>w, <2>1, NewSession
  <2>2. CASE session
    <3>1. /\ (socket = "up" /\ ~ Has("wipe")) \/ Has("lost") \/ At("parting")
          /\ Has("fallback") => At("parting")
          /\ ~ Has("giveup") /\ ~ Has("dial") /\ ~ Has("fail")
      BY <2>2 DEF Believed
    <3>2. ~ Wipe => (socket = "up" => socket' = "up")  BY <1>t, UpStays
    <3>3. ASSUME Wipe  PROVE Has("wipe") /\ todo # <<>> /\ top.op = "wipe"
      <4>1. todo # <<>> /\ top.op = "wipe"  BY <3>3, StepsOf DEF Wipe
      <4>2. 1 \in DOMAIN todo /\ top = todo[1]  BY <1>t, <4>1 DEF Typed, top
      <4> QED BY <4>1, <4>2 DEF Has
    <3>4. CASE UNCHANGED todo  BY <1>u, <3>1, <3>2, <3>3, <3>4
    <3>5. CASE /\ QuietStep /\ ~ At("parting")
               /\ top.op # "lost" /\ top.op # "fallback"
               /\ Has("wipe") => top.op # "wipe" \/ Has("lost")
      <4>1. \A op \in Telling : /\ Has(op)' => Has(op)
                                /\ Has(op) /\ top.op # op => Has(op)'
        BY <1>t, <3>5, QuietBecomes DEF QuietStep
      <4> QED BY <1>w, <3>1, <3>2, <3>3, <3>5, <4>1
    <3>6. CASE (todo = <<>> \/ At("reply") \/ At("write")) /\ \E s \in Seq(Quiet) : Goto(s)
      <4>1. \A op \in Telling : ~ Has(op)'  BY <3>6, QuietGoes
      <4>2. socket = "up" /\ ~ Wipe  BY <1>c, <1>w, <3>1, <3>3, <3>6
      <4> QED BY <1>w, <3>2, <4>1, <4>2
    <3>7. CASE Goto(Reset \o <<Do("lost")>> \o Out)
      BY <3>7, LostWhole
    <3>8. CASE Goto(<<Do("parting")>> \o Reset \o <<Do("fallback")>> \o Out)
      BY <3>8, PartingWhole
    <3> QED BY <1>5, <2>2, <3>4, <3>5, <3>6, <3>7, <3>8, OldSession
  <2> QED BY <2>1, <2>2
<1> QED BY <1>1, <1>2, <1>3, <1>4, <1>5 DEF Believed

LEMMA InitBelieved == Init => Believed
BY DEF Init, Believed, At

\* While the application believes itself connected no create is under way, so
\* connect(success) and disconnect alternate; and between two runs its belief is what the
\* state says.
THEOREM SessionsAgree == Safe => []SessionAgrees
<1>1. Believed /\ Connected /\ Connected' /\ [Next]_vars => Believed'
  BY NextBelieved DEF Connected
<1>2. Believed => SessionAgrees
  <2>1. todo = <<>> => \A op : ~ Has(op) /\ ~ At(op)  BY DEF Has, At
  <2> QED BY <2>1 DEF Believed, SessionAgrees
<1> QED BY <1>1, <1>2, InitBelieved, ConnectionsAreFresh, PTL DEF Safe

-----------------------------------------------------------------------------
(* Sequences. *)

LEMMA ToSetOfTail ==
  ASSUME NEW S, NEW s \in Seq(S), s # <<>>
  PROVE  ToSet(Tail(s)) \subseteq ToSet(s)
<1>1. /\ Tail(s) \in Seq(S) /\ Len(Tail(s)) = Len(s) - 1
      /\ \A i \in 1 .. Len(Tail(s)) : Tail(s)[i] = s[i + 1]
  BY HeadTailProperties
<1>2. PICK t \in Seq(S) : t = Tail(s)  BY <1>1
<1>3. \A i \in 1 .. Len(t) : i + 1 \in 1 .. Len(s) /\ t[i] = s[i + 1]  BY <1>1, <1>2
<1> QED BY <1>2, <1>3 DEF ToSet

\* A result is of a request the broker had read, and carries its sequence.
LEMMA NextFlying ==
  ASSUME Settled, [Next]_vars, NEW f \in Flying'
  PROVE  f \in Flying \/ (f.of \in asked /\ f.of \in 1 .. Len(made) /\ f.seq = made[f.of].seq)
<1>t. Typed /\ incoming \in Seq(Frame) /\ wire \in Seq(Frame) /\ Len(made) <= MaxRequests
  <2>1. Typed /\ Counted  BY DEF Settled, Base
  <2>2. Len(made) <= MaxRequests
    <3>1. PICK n \in Nat, c \in Nat, g \in Nat, m \in Nat :
            n = Len(made) /\ c = Calls /\ g = MaxFrames /\ m = MaxRequests
      BY <2>1, CallsNatural
    <3>2. sent \in 0 .. g /\ n + c + (g - sent) <= m  BY <2>1, <3>1 DEF Counted
    <3> QED BY <3>1, <3>2
  <2> QED BY <2>1, <2>2 DEF Typed
<1>f. f \in ToSet(incoming') \cup ToSet(wire') /\ f.type = "result"  BY DEF Flying
<1>1. CASE Wipe  BY <1>1, <1>f DEF Wipe, ToSet
<1>2. CASE Read
  <2>1. incoming' \o wire' = incoming \o wire  BY <1>t, <1>2, RestOfWire
  <2>2. incoming' \in Seq(Frame) /\ wire' \in Seq(Frame)
    BY <1>t, FramesStay DEF Typed, FramesTyped
  <2>3. ToSet(incoming') \cup ToSet(wire') = ToSet(incoming) \cup ToSet(wire)
    <3>1. PICK a \in Seq(Frame), b \in Seq(Frame), c \in Seq(Frame), d \in Seq(Frame) :
            a = incoming' /\ b = wire' /\ c = incoming /\ d = wire
      BY <1>t, <2>2
    <3>2. ToSet(a \o b) = ToSet(a) \cup ToSet(b) /\ ToSet(c \o d) = ToSet(c) \cup ToSet(d)
      BY ToSetJoin
    <3>3. a \o b = c \o d  BY <2>1, <3>1
    <3> QED BY <3>1, <3>2, <3>3
  <2> QED BY <1>f, <2>3 DEF Flying
<1>3. CASE HandleStray \/ HandleResult \/ HandleEvent \/ HandleCommand
  <2>1. incoming # <<>> /\ incoming' = Tail(incoming) /\ wire' = wire
    BY <1>3 DEF HandleStray, HandleResult, HandleEvent, HandleCommand, Parse, peerVars
  <2> QED BY <1>f, <1>t, <2>1, ToSetOfTail DEF Flying
<1>4. ASSUME NEW frame \in Frame, Delivered(frame)
      PROVE  f \in Flying \/ (f.of \in asked /\ f.of \in 1 .. Len(made) /\ f.seq = made[f.of].seq)
  <2>1. wire' = Append(wire, frame) /\ incoming' = incoming
    BY <1>4 DEF Delivered, clientVars, buffers
  <2>2. f \in ToSet(incoming) \cup ToSet(wire) \cup {frame}  BY <1>f, <1>t, <2>1, ToSetAppend
  <2> QED BY <1>4, <1>f, <2>2 DEF Flying, Delivered
<1>5. CASE UNCHANGED <<incoming, wire, sent>>  BY <1>5, <1>f DEF Flying
<1> QED BY <1>t, <1>1, <1>2, <1>3, <1>4, <1>5, StepFrames

\* What a connection has is what it had, and the request that is made.
LEMMA NextHere ==
  ASSUME Settled, Closed, [Next]_vars, Settled', socket' = "up"
  PROVE  /\ socket = "up" \/ Here = {}
         /\ Len(made) \in Nat
         /\ \/ UNCHANGED <<made, sequence>> /\ Here' \subseteq Here
            \/ /\ Len(made') = Len(made) + 1 /\ Here' \subseteq Here \cup {Len(made')}
               /\ made'[Len(made')].seq = sequence
               /\ sequence' = IF sequence + 1 >= SeqEnd THEN SeqStart ELSE sequence + 1
<1>t. /\ Base /\ Base' /\ Typed /\ Script /\ Lists /\ Lists' /\ Pointing /\ Dialing
  BY DEF Settled, Base, Lined
<1>w. ~ Wipe  BY DEF Wipe
<1>1. socket = "up" \/ Here = {}
  <2>1. ASSUME socket # "up"  PROVE socket = "dialing" /\ heard = <<>>
    <3>1. ~ Dial  BY DEF Dial
    <3>2. Connecting \/ Complete  BY <1>w, <2>1, <3>1, SocketBy
    <3> QED BY <1>t, <2>1, <3>2 DEF Connecting, Complete, Dialing, Closed
  <2> QED BY <1>t, <2>1 DEF Dialing, Here, ToSet
<1>2. Len(made) \in Nat  BY <1>t DEF Typed
<1>3. ASSUME NEW kind, NEW name, NEW about, Enqueue(kind, name, about),
             UNCHANGED <<pendings, outgoing, heard>>
      PROVE  /\ Len(made') = Len(made) + 1 /\ Here' \subseteq Here \cup {Len(made')}
             /\ made'[Len(made')].seq = sequence
             /\ sequence' = IF sequence + 1 >= SeqEnd THEN SeqStart ELSE sequence + 1
  <2>1. /\ Len(made') = Len(made) + 1
        /\ made'[Len(made')] = [kind |-> kind, name |-> name, about |-> about, seq |-> sequence]
        /\ ToSet(requests') = ToSet(requests) \cup {Len(made')}
    BY <1>t, <1>3, EnqueueLists
  <2>2. made'[Len(made')].seq = sequence  BY <2>1
  <2>3. Here' \subseteq Here \cup {Len(made')}  BY <1>3, <2>1 DEF Here, Queued
  <2>4. sequence' = IF sequence + 1 >= SeqEnd THEN SeqStart ELSE sequence + 1
    BY <1>3 DEF Enqueue
  <2> QED BY <2>1, <2>2, <2>3, <2>4
<1>4. CASE Opening  BY <1>2, <1>1, <1>3, <1>4 DEF Opening, buffers, toldVars
<1>5. ASSUME NEW kind, NEW name, NEW about, Queueing(kind, name, about)
      PROVE  /\ Len(made') = Len(made) + 1 /\ Here' \subseteq Here \cup {Len(made')}
             /\ made'[Len(made')].seq = sequence
             /\ sequence' = IF sequence + 1 >= SeqEnd THEN SeqStart ELSE sequence + 1
  BY <1>3, <1>5 DEF Queueing, buffers, toldVars
<1>6. CASE Ending
  <2>1. /\ UNCHANGED <<made, sequence, outgoing, heard>>
        /\ todo # <<>> /\ top.op \in Walks /\ Current # None /\ CutOff(Current)
    BY <1>6, StepsOf DEF Ending, Walks, EndUnanswered, buffers
  <2>2. Current \in ToSet(List(top.list)) /\ top.list \in {"requests", "pendings"}
    BY <1>t, <2>1, CurrentListed, Walking
  <2>3. Queued' \subseteq Queued  BY <1>t, <2>1, <2>2, CutStep
  <2> QED BY <1>1, <1>2, <2>1, <2>3 DEF Here
<1>7. CASE Flushing
  <2>1. /\ UNCHANGED <<made, sequence, heard>> /\ outgoing' = Append(outgoing, Current)
        /\ Queued' \subseteq Queued /\ Current \in Queued
    BY <1>t, <1>7, FlushLists DEF Flushing, Flush, Queued
  <2>2. ToSet(outgoing') = ToSet(outgoing) \cup {Current}
    <3>1. Current \in Ids /\ outgoing \in Seq(Ids)  BY <1>t, <1>7, FlushLists DEF Typed, ToSet
    <3> QED BY <2>1, <3>1, ToSetAppend
  <2> QED BY <1>1, <1>2, <2>1, <2>2 DEF Here
<1>8. CASE HandleResult
  <2>1. UNCHANGED <<made, sequence, outgoing, heard>> /\ Queued' \subseteq Queued
    BY <1>t, <1>8, Matched
  <2> QED BY <1>1, <1>2, <2>1 DEF Here
<1>9. CASE Idle /\ ~ Ending /\ ~ Flushing /\ ~ HandleResult
  <2>1. UNCHANGED <<made, Queued>>  BY <1>9 DEF Idle, Queued
  <2>2. ~ Clear
    <3>1. Clear => todo # <<>> /\ top.op = "clear" /\ UNCHANGED socket  BY StepsOf DEF Clear
    <3>2. todo # <<>> => 1 \in DOMAIN todo /\ top = todo[1] /\ \A j : j \notin 1 .. 1 - 1
      BY <1>t DEF Typed, top
    <3>3. "clear" \in Afterwards  BY DEF Afterwards
    <3>4. Clear => socket = "none"  BY <1>t, <3>1, <3>2, <3>3 DEF Script, WipedFirst
    <3> QED BY <3>1, <3>4
  <2>3. UNCHANGED sequence  BY <1>9, <2>2 DEF Idle
  <2>4. ToSet(outgoing') \cup ToSet(heard') \subseteq ToSet(outgoing) \cup ToSet(heard)
    <3>1. Drop => UNCHANGED <<outgoing, heard>>  BY DEF Drop, buffers, toldVars
    <3>2. Write => ToSet(outgoing') \cup ToSet(heard') \subseteq ToSet(outgoing) \cup ToSet(heard)
      BY <1>t, WriteLists
    <3> QED BY <1>w, <1>9, <3>1, <3>2, StepLists
  <2> QED BY <1>1, <1>2, <2>1, <2>3, <2>4 DEF Here
<1> QED BY <1>1, <1>2, <1>4, <1>5, <1>6, <1>7, <1>8, <1>9, StepKinds

LEMMA Rounds ==
  ASSUME NEW s \in SeqStart .. (SeqEnd - 1), NEW n \in Nat, n + 1 <= Round,
         NEW v, v = After(s, n),
         NEW w, w = IF v + 1 >= SeqEnd THEN SeqStart ELSE v + 1
  PROVE  w = After(s, n + 1) /\ (n # 0 => v # s)
BY ClientAssumption DEF ClientAssumption, After, Round

LEMMA NextNumbers ==
  ASSUME Settled, Closed, Numbers, [Next]_vars, Settled'
  PROVE  Numbers'
<1>t. /\ Base /\ Base' /\ Typed /\ Lists /\ Lists' /\ Sets
      /\ 1 .. Len(made) \subseteq 1 .. Len(made')
      /\ \A r \in 1 .. Len(made) : made'[r] = made[r]
  <2>1. Base /\ Base' /\ Typed /\ Lists /\ Lists' /\ Sets  BY DEF Settled, Base, Lined
  <2> QED BY <2>1, MadeGrows
<1>h. ToSet(heard) \subseteq Here /\ Here \subseteq 1 .. Len(made)
  BY <1>t DEF Here, Lists, Listed, Queued
<1>1. ASSUME NEW f \in Flying'
      PROVE  f.of \in ToSet(heard') /\ f.seq = made'[f.of].seq
  <2>1. ~ Wipe  BY <1>1 DEF Wipe, Flying, ToSet
  <2>2. ToSet(heard) \subseteq ToSet(heard')  BY <1>t, <2>1, StepSets, WriteLists
  <2>3. f.of \in ToSet(heard) /\ f.seq = made[f.of].seq
    <3>1. asked \subseteq ToSet(heard)  BY <1>t DEF Sets
    <3> QED BY <3>1, NextFlying DEF Numbers
  <2> QED BY <1>h, <1>t, <2>2, <2>3
<1>2. ASSUME socket' = "up", NEW r \in Here'
      PROVE  /\ made'[r].seq < SeqEnd
             /\ Len(made') + 1 - r <= Round => sequence' = After(made'[r].seq, Len(made') + 1 - r)
             /\ \A q \in Here' : r < q /\ q - r < Round => made'[q].seq # made'[r].seq
  <2>0. sequence \in SeqStart .. (SeqEnd - 1) /\ SeqStart \in Nat /\ SeqEnd \in Nat
        /\ SeqStart < SeqEnd /\ Round \in Nat
    BY <1>t, ClientAssumption DEF Typed, ClientAssumption, Round
  <2>1. ASSUME NEW o \in Here
        PROVE  /\ o \in 1 .. Len(made) /\ made'[o] = made[o]
               /\ made[o].seq \in SeqStart .. (SeqEnd - 1)
               /\ Len(made) + 1 - o <= Round => sequence = After(made[o].seq, Len(made) + 1 - o)
               /\ \A q \in Here : o < q /\ q - o < Round => made[q].seq # made[o].seq
    <3>1. socket = "up"  BY <1>2, <2>1, NextHere
    <3>2. o \in 1 .. Len(made) /\ made[o] \in Job  BY <1>h, <1>t, <2>1, SeqTyped
    <3>3. made[o].seq \in SeqStart .. SeqEnd  BY <3>2 DEF Job
    <3>4. made[o].seq < SeqEnd  BY <2>1, <3>1 DEF Numbers
    <3> QED BY <1>t, <2>0, <2>1, <3>1, <3>2, <3>3, <3>4 DEF Numbers
  <2>2. CASE UNCHANGED <<made, sequence>> /\ Here' \subseteq Here
    BY <1>2, <2>0, <2>1, <2>2
  <2>3. CASE /\ Len(made') = Len(made) + 1 /\ Here' \subseteq Here \cup {Len(made')}
             /\ made'[Len(made')].seq = sequence
             /\ sequence' = IF sequence + 1 >= SeqEnd THEN SeqStart ELSE sequence + 1
    <3>1. PICK n \in Nat : n = Len(made)
      <4>1. Len(made) \in Nat  BY <1>t DEF Typed
      <4> QED BY <4>1
    <3>2. PICK v : v = sequence  OBVIOUS
    <3>3. PICK w : w = sequence'  OBVIOUS
    <3>4. Len(made') = n + 1 /\ made'[n + 1].seq = v /\ Here' \subseteq Here \cup {n + 1}
          /\ w = (IF v + 1 >= SeqEnd THEN SeqStart ELSE v + 1) /\ v \in SeqStart .. (SeqEnd - 1)
      BY <2>0, <2>3, <3>1, <3>2, <3>3
    <3>5. CASE r = n + 1
      <4>1. Len(made') + 1 - r = 1  BY <3>4, <3>5
      <4>2. w = After(v, 1)
        <5>1. v = After(v, 0)  BY <2>0, <3>4 DEF After
        <5>2. 0 + 1 <= Round  BY <2>0 DEF Round
        <5> QED BY <2>0, <3>4, <5>1, <5>2, Rounds
      <4>3. \A q \in Here' : q <= n + 1
        BY <1>t, <3>4 DEF Here, Lists, Listed, Queued
      <4>4. \A q \in Here' : ~ (r < q)  BY <3>5, <4>3, <1>t DEF Here, Lists, Listed, Queued
      <4> QED BY <2>0, <3>3, <3>4, <3>5, <4>1, <4>2, <4>4
    <3>6. CASE r # n + 1
      <4>1. PICK s : s = made[r].seq  OBVIOUS
      <4>2. PICK d \in Nat : d = n + 1 - r /\ d # 0 /\ r \in 1 .. n
        <5>1. r \in 1 .. n  BY <1>2, <2>1, <3>1, <3>4, <3>6
        <5> QED BY <3>1, <5>1
      <4>3. /\ r \in Here /\ made'[r].seq = s /\ s \in SeqStart .. (SeqEnd - 1)
            /\ d <= Round => v = After(s, d)
            /\ \A q \in Here : r < q /\ q - r < Round => made'[q].seq # s
        BY <1>2, <2>1, <3>1, <3>2, <3>4, <3>6, <4>1, <4>2
      <4>4. d + 1 <= Round => w = After(s, d + 1) /\ v # s
        BY <2>0, <3>4, <4>2, <4>3, Rounds
      <4>5. Len(made') + 1 - r = d + 1 /\ (n + 1) - r = d  BY <3>1, <3>4, <4>2
      <4>6. (n + 1) - r < Round => made'[n + 1].seq # s  BY <2>0, <3>4, <4>2, <4>4, <4>5
      <4>7. \A q \in Here' : r < q /\ q - r < Round => made'[q].seq # made'[r].seq
        BY <3>4, <4>3, <4>6
      <4> QED BY <2>0, <3>3, <4>3, <4>4, <4>5, <4>7
    <3> QED BY <3>5, <3>6
  <2> QED BY <1>2, <2>2, <2>3, NextHere
<1> QED BY <1>1, <1>2 DEF Numbers

LEMMA InitNumbers == Init => Numbers
BY DEF Init, Numbers, Flying, ToSet

\* The requests of a connection have sequences of their own, but for those that are a round
\* of sequences apart, and the results on their way carry those of their requests.
THEOREM SequencesDiffer == Safe => []Numbers
<1>1. Numbers /\ Connected /\ Connected' /\ [Next]_vars => Numbers'
  BY NextNumbers DEF Connected
<1> QED BY <1>1, InitNumbers, ConnectionsAreFresh, PTL DEF Safe

\* The requests that wait for a result, and those whose results are on their way, were
\* made within a round of sequences.
WithinARound ==
  \A r \in ToSet(pendings), f \in Flying : r - f.of < Round /\ f.of - r < Round

\* A result is matched to a request by its sequence alone, and sequences start again with
\* every connection: it is never taken for another request's, as long as no request is
\* still under way when its sequence comes round again.
THEOREM AnswersMatchWithinARound == Safe => [](WithinARound => AnswerMatches)
<1>1. ASSUME Numbers, Connected, WithinARound  PROVE AnswerMatches
  <2>1. Lists /\ Closed /\ Typed  BY <1>1 DEF Connected, Settled, Base, Lined
  <2>2. SUFFICES ASSUME NEW f \in Flying, NEW r \in ToSet(pendings), made[r].seq = f.seq
                 PROVE  r = f.of
    BY DEF AnswerMatches, Flying
  <2>3. socket = "up"  BY <2>1, <2>2 DEF Closed, Flying, ToSet
  <2>4. f.of \in Here /\ r \in Here /\ made[f.of].seq = made[r].seq
    BY <1>1, <2>2 DEF Numbers, Here, Queued
  <2>5. PICK a \in Nat, b \in Nat : a = f.of /\ b = r
    BY <2>1, <2>4 DEF Here, Lists, Listed, Queued
  <2>6. a - b < Round /\ b - a < Round  BY <1>1, <2>2, <2>5 DEF WithinARound
  <2>7. ~ (a < b) /\ ~ (b < a)  BY <1>1, <2>3, <2>4, <2>5, <2>6 DEF Numbers
  <2> QED BY <2>5, <2>7
<1> QED BY <1>1, SequencesDiffer, ConnectionsAreFresh, PTL

\* So an application that makes no more requests than there are sequences always has the
\* result of a request given to the request.
THEOREM AnswersMatch == ASSUME MaxRequests <= Round PROVE Safe => []AnswerMatches
<1>1. Connected /\ Numbers => WithinARound
  <2> SUFFICES ASSUME Connected, Numbers, NEW r \in ToSet(pendings), NEW f \in Flying
               PROVE  r - f.of < Round /\ f.of - r < Round
    BY DEF WithinARound
  <2>1. r \in 1 .. MaxRequests /\ f.of \in 1 .. MaxRequests
    <3>1. pendings \in Seq(Ids) /\ heard \in Seq(Ids)  BY DEF Connected, Settled, Base, Typed
    <3>2. \A s \in Seq(Ids) : ToSet(s) \subseteq Ids  BY DEF ToSet
    <3>3. f.of \in ToSet(heard)  BY DEF Numbers
    <3> QED BY <3>1, <3>2, <3>3 DEF Ids
  <2> QED BY <2>1, ClientAssumption DEF ClientAssumption, Round
<1> QED BY <1>1, SequencesDiffer, ConnectionsAreFresh, AnswersMatchWithinARound, PTL

-----------------------------------------------------------------------------
(* Routines and subscriptions. *)

LEMMA NextQueued ==
  ASSUME Settled, [Next]_vars, Settled'
  PROVE  \/ Queued' \subseteq Queued
         \/ /\ Opening \/ \E kind, name, about : Queueing(kind, name, about)
            /\ UNCHANGED nameVars
<1>t. Base /\ Base' /\ Typed /\ Lists /\ Pointing  BY DEF Settled, Base, Lined
<1>1. CASE Ending
  <2>1. todo # <<>> /\ top.op \in Walks /\ Current # None /\ CutOff(Current) /\ UNCHANGED made
    BY <1>1, StepsOf DEF Ending, Walks, EndUnanswered
  <2>2. Current \in ToSet(List(top.list)) /\ top.list \in {"requests", "pendings"}
    BY <1>t, <2>1, CurrentListed, Walking
  <2> QED BY <1>t, <2>1, <2>2, CutStep
<1>2. CASE Flushing  BY <1>t, <1>2, FlushLists
<1>3. CASE HandleResult  BY <1>t, <1>3, Matched
<1>4. CASE Idle  BY <1>4 DEF Idle, Queued
<1>5. CASE Opening  BY <1>5 DEF Opening
<1>6. CASE \E kind, name, about : Queueing(kind, name, about)  BY <1>6 DEF Queueing
<1> QED BY <1>1, <1>2, <1>3, <1>4, <1>5, <1>6, StepKinds

\* The request that is made, if any.
LEMMA NewRequest ==
  ASSUME Careful, Settled, [Next]_vars, Settled', NEW r \in Queued', r \notin Queued
  PROVE  /\ UNCHANGED nameVars /\ Queued' = Queued \cup {r}
         /\ \/ made'[r].name = None
            \/ \A q \in Queued : made[q].name # made'[r].name
         /\ made'[r].kind \in {"unregister", "unsubscribe"} =>
              made'[r].name # None /\ made[made'[r].about].name = made'[r].name
         /\ made'[r].kind = "unregister" => made'[r].about \in ToSet(routines)
         /\ made'[r].kind = "unsubscribe" => made'[r].about \in ToSet(subscriptions)
<1>t. Base /\ Base' /\ Typed /\ Lists /\ routines \in Seq(Ids) /\ subscriptions \in Seq(Ids)
  BY DEF Settled, Base, Lined, Typed
<1>1. /\ UNCHANGED nameVars
      /\ Opening \/ \E kind, name, about : Queueing(kind, name, about)
  BY NextQueued
<1>2. ASSUME NEW kind, NEW name, NEW about, Enqueue(kind, name, about), UNCHANGED pendings
      PROVE  /\ made'[r].kind = kind /\ made'[r].name = name /\ made'[r].about = about
             /\ Queued' = Queued \cup {r}
  <2>1. /\ made'[Len(made')] = [kind |-> kind, name |-> name, about |-> about, seq |-> sequence]
        /\ ToSet(requests') = ToSet(requests) \cup {Len(made')}
    BY <1>t, <1>2, EnqueueLists
  <2>2. Queued' = Queued \cup {Len(made')}  BY <1>2, <2>1 DEF Queued
  <2>3. r = Len(made')  BY <2>2
  <2> QED BY <2>1, <2>2, <2>3
<1>3. CASE Opening
  <2>1. Enqueue("create", None, None) /\ UNCHANGED pendings  BY <1>3 DEF Opening
  <2>2. /\ made'[r].kind = "create" /\ made'[r].name = None /\ Queued' = Queued \cup {r}
    BY <1>2, <2>1
  <2> QED BY <1>1, <2>2
<1>4. ASSUME NEW kind, NEW name, NEW about, Queueing(kind, name, about)
      PROVE  /\ Queued' = Queued \cup {r}
             /\ \/ made'[r].name = None
                \/ \A q \in Queued : made[q].name # made'[r].name
             /\ made'[r].kind \in {"unregister", "unsubscribe"} =>
                  made'[r].name # None /\ made[made'[r].about].name = made'[r].name
             /\ made'[r].kind = "unregister" => made'[r].about \in ToSet(routines)
             /\ made'[r].kind = "unsubscribe" => made'[r].about \in ToSet(subscriptions)
  <2>1. /\ Enqueue(kind, name, about) /\ UNCHANGED pendings /\ Wanted(kind, name, about)
        /\ ~ InProgress(name)
    BY <1>4 DEF Queueing
  <2>2. /\ made'[r].kind = kind /\ made'[r].name = name /\ made'[r].about = about
        /\ Queued' = Queued \cup {r}
    BY <1>2, <2>1
  <2>3. name = None \/ \A q \in Queued : made[q].name # name  BY <2>1 DEF InProgress
  <2>4. 0 \notin Commands \cup Topics  BY ClientAssumption DEF ClientAssumption
  <2>5. ASSUME kind = "unregister"
        PROVE  name # None /\ made[about].name = name /\ about \in ToSet(routines)
    <3>1. name \in Commands /\ Named(routines, name) # 0 /\ about = routines[Named(routines, name)]
      BY <2>1, <2>5 DEF Wanted
    <3> QED BY <1>t, <2>4, <3>1, NamedPlace DEF ToSet, None
  <2>6. ASSUME kind = "unsubscribe"
        PROVE  name # None /\ made[about].name = name /\ about \in ToSet(subscriptions)
    <3>1. /\ name \in Topics /\ Named(subscriptions, name) # 0
          /\ about = subscriptions[Named(subscriptions, name)]
      BY <2>1, <2>6 DEF Wanted
    <3> QED BY <1>t, <2>4, <3>1, NamedPlace DEF ToSet, None
  <2> QED BY <2>2, <2>3, <2>5, <2>6
<1> QED BY <1>1, <1>3, <1>4

\* A connection keeps its routines but for those of an unregister that was answered.
LEMMA NextRoutines ==
  ASSUME Settled, [Next]_vars, socket' # "none", Queued' # {}
  PROVE  /\ socket # "none"
         /\ \/ UNCHANGED <<routines, subscriptions>>
            \/ \E r \in Queued :
                 /\ Queued' = Queued \ {r} /\ UNCHANGED made
                 /\ ToSet(routines) \subseteq ToSet(routines')
                      \cup {a \in {made[r].about} : made[r].kind = "unregister"}
                 /\ ToSet(subscriptions) \subseteq ToSet(subscriptions')
                      \cup {a \in {made[r].about} : made[r].kind = "unsubscribe"}
<1>t. /\ Base /\ Typed /\ Script /\ Lists /\ Dialing /\ DialReady
      /\ routines \in Seq(Ids) /\ subscriptions \in Seq(Ids)
      /\ IsInjective(routines) /\ IsInjective(subscriptions)
  BY DEF Settled, Base, Lined, Typed, Lists, Listed
<1>1. ~ Wipe  BY DEF Wipe
<1>2. ~ Dial
  <2>1. Dial => requests = <<>> /\ pendings = <<>> /\ UNCHANGED <<requests, pendings>>
    BY <1>t, DialAt DEF Dial, requestVars
  <2> QED BY <2>1 DEF Queued, ToSet
<1>3. socket # "none"  BY <1>t, <1>1, <1>2, SocketBy DEF Connecting, Complete, Dialing
<1>4. ~ Drop
  <2>1. Drop => todo # <<>> /\ top.op = "drop"  BY StepsOf DEF Drop
  <2>2. todo # <<>> => 1 \in DOMAIN todo /\ top = todo[1] /\ \A j : j \notin 1 .. 1 - 1
    BY <1>t DEF Typed, top
  <2>3. "drop" \in Afterwards  BY DEF Afterwards
  <2> QED BY <1>t, <1>3, <2>1, <2>2, <2>3 DEF Script, WipedFirst
<1>5. CASE HandleResult
  <2>1. PICK r \in ToSet(pendings) :
           /\ r = pendings[Awaiting(Head(incoming).seq)] /\ r \in 1 .. Len(made) /\ r \in Ids
           /\ Queued' = Queued \ {r} /\ r \in Queued /\ UNCHANGED made
    BY <1>t, <1>5, Matched
  <2>2. /\ \/ routines' = routines \/ routines' = Append(routines, r)
           \/ routines' = RemoveFirst(routines, made[r].about) /\ made[r].kind = "unregister"
        /\ \/ subscriptions' = subscriptions \/ subscriptions' = Append(subscriptions, r)
           \/ subscriptions' = RemoveFirst(subscriptions, made[r].about) /\ made[r].kind = "unsubscribe"
    BY <1>5, <2>1 DEF HandleResult, CreateResponse, RegisterResponse, UnregisterResponse, nameVars,
      SubscribeResponse, UnsubscribeResponse, EventResponse, CommandResponse
  <2>3. \A s \in {routines, subscriptions} :
          /\ ToSet(Append(s, r)) = ToSet(s) \cup {r}
          /\ \A a : ToSet(RemoveFirst(s, a)) = ToSet(s) \ {a}
    BY <1>t, <2>1, ToSetAppend, RemoveOne
  <2>4. ToSet(routines) \subseteq ToSet(routines')
                      \cup {a \in {made[r].about} : made[r].kind = "unregister"}
    BY <2>2, <2>3
  <2>5. ToSet(subscriptions) \subseteq ToSet(subscriptions')
                      \cup {a \in {made[r].about} : made[r].kind = "unsubscribe"}
    BY <2>2, <2>3
  <2> QED BY <1>3, <2>1, <2>4, <2>5
<1>6. CASE Ending \/ Flushing \/ Write
  BY <1>3, <1>6 DEF Ending, Flushing, Flush, Write, nameVars
<1>7. CASE UNCHANGED nameVars  BY <1>3, <1>7 DEF nameVars
<1> QED BY <1>1, <1>4, <1>5, <1>6, <1>7, StepLists

LEMMA NextNames ==
  ASSUME Careful, Settled, Names, [Next]_vars, Settled'
  PROVE  Names'
<1>t. /\ Base /\ Lists /\ Sets /\ Lists' /\ Queued \subseteq 1 .. Len(made)
      /\ 1 .. Len(made) \subseteq 1 .. Len(made')
      /\ \A r \in 1 .. Len(made) : made'[r] = made[r]
  <2>1. Base /\ Base' /\ Lists /\ Lists' /\ Sets  BY DEF Settled, Base, Lined
  <2> QED BY <2>1, MadeGrows DEF Lists, Listed, Queued
<1>a. \A r \in Queued : made[r].kind \in {"unregister", "unsubscribe"} =>
        made[r].about \in 1 .. Len(made) /\ made'[made[r].about] = made[made[r].about]
  BY <1>t DEF Sets
<1>1. ASSUME NEW r \in Queued', NEW q \in Queued', made'[r].name = made'[q].name
      PROVE  r = q \/ made'[r].name = None
  <2>1. CASE r \in Queued /\ q \in Queued  BY <1>1, <1>t, <2>1 DEF Names
  <2>2. CASE r \notin Queued
    <3>1. q = r \/ q \in Queued  BY <2>2, NewRequest
    <3> QED BY <1>1, <1>t, <2>2, <3>1, NewRequest
  <2>3. CASE q \notin Queued
    <3>1. r = q \/ r \in Queued  BY <2>3, NewRequest
    <3> QED BY <1>1, <1>t, <2>3, <3>1, NewRequest
  <2> QED BY <2>1, <2>2, <2>3
<1>2. ASSUME NEW r \in Queued', made'[r].kind \in {"unregister", "unsubscribe"}
      PROVE  made'[r].name # None /\ made'[made'[r].about].name = made'[r].name
  <2>1. CASE r \in Queued  BY <1>2, <1>a, <1>t, <2>1 DEF Names
  <2>2. CASE r \notin Queued
    <3>1. /\ made'[r].name # None /\ made[made'[r].about].name = made'[r].name
          /\ made'[r].about \in ToSet(routines) \cup ToSet(subscriptions)
      BY <1>2, <2>2, NewRequest
    <3>2. made'[r].about \in 1 .. Len(made)  BY <1>t, <3>1 DEF Lists, Listed
    <3> QED BY <1>t, <3>1, <3>2
  <2> QED BY <2>1, <2>2
<1>3. ASSUME socket' # "none", NEW r \in Queued'
      PROVE  /\ made'[r].kind = "unregister" => made'[r].about \in ToSet(routines')
             /\ made'[r].kind = "unsubscribe" => made'[r].about \in ToSet(subscriptions')
  <2>1. CASE r \notin Queued  BY <2>1, NewRequest DEF nameVars
  <2>2. CASE r \in Queued
    <3>1. /\ socket # "none" /\ made'[r] = made[r]
          /\ made[r].kind = "unregister" => made[r].about \in ToSet(routines)
          /\ made[r].kind = "unsubscribe" => made[r].about \in ToSet(subscriptions)
      BY <1>3, <1>t, <2>2, NextRoutines DEF Names
    <3>2. CASE UNCHANGED <<routines, subscriptions>>  BY <3>1, <3>2
    <3>3. ASSUME NEW o \in Queued, Queued' = Queued \ {o}, UNCHANGED made,
                 ToSet(routines) \subseteq ToSet(routines')
                      \cup {a \in {made[o].about} : made[o].kind = "unregister"},
                 ToSet(subscriptions) \subseteq ToSet(subscriptions')
                      \cup {a \in {made[o].about} : made[o].kind = "unsubscribe"}
          PROVE  /\ made[r].kind = "unregister" => made[r].about \in ToSet(routines')
                 /\ made[r].kind = "unsubscribe" => made[r].about \in ToSet(subscriptions')
      <4>1. r # o  BY <1>3, <3>3
      <4>2. ASSUME made[r].kind \in {"unregister", "unsubscribe"},
                   made[o].kind \in {"unregister", "unsubscribe"}
            PROVE  made[r].about # made[o].about
        BY <2>2, <3>3, <4>1, <4>2 DEF Names
      <4> QED BY <3>1, <3>3, <4>2
    <3> QED BY <1>3, <3>1, <3>2, <3>3, NextRoutines
  <2> QED BY <2>1, <2>2
<1> QED BY <1>1, <1>2, <1>3 DEF Names

LEMMA ResultFreed ==
  ASSUME Settled, Closed, Names, Freed, HandleResult
  PROVE  Freed'
<1>t. /\ Base /\ Typed /\ Lists /\ Sets
      /\ routines \in Seq(Ids) /\ subscriptions \in Seq(Ids)
      /\ IsInjective(routines) /\ IsInjective(subscriptions)
      /\ \A q \in ToSet(routines) : made[q].kind = "register" /\ q \notin Queued
      /\ \A q \in ToSet(subscriptions) : made[q].kind = "subscribe" /\ q \notin Queued
  BY DEF Settled, Base, Lined, Typed, Lists, Listed
<1>1. PICK r \in ToSet(pendings) :
         /\ r = pendings[Awaiting(Head(incoming).seq)] /\ r \in 1 .. Len(made) /\ r \in Ids
         /\ Queued' = Queued \ {r} /\ r \in Queued /\ UNCHANGED made
  BY <1>t, Matched
<1>2. PICK a : a = made[r].about  OBVIOUS
<1>3. socket # "none"
  <2>1. incoming # <<>>  BY DEF HandleResult, Parse
  <2> QED BY <2>1 DEF Closed
<1>4. /\ made[r].kind = "unregister" => a \in ToSet(routines)
      /\ made[r].kind = "unsubscribe" => a \in ToSet(subscriptions)
  BY <1>1, <1>2, <1>3 DEF Names
<1>5. \/ /\ UNCHANGED <<routines, subscriptions>>
         /\ freed' \subseteq freed \cup {r}
      \/ routines' = Append(routines, r) /\ UNCHANGED <<subscriptions, freed>>
      \/ subscriptions' = Append(subscriptions, r) /\ UNCHANGED <<routines, freed>>
      \/ /\ made[r].kind = "unregister" /\ freed' = freed \cup {a} /\ UNCHANGED subscriptions
         /\ routines' = RemoveFirst(routines, a)
      \/ /\ made[r].kind = "unsubscribe" /\ freed' = freed \cup {a} /\ UNCHANGED routines
         /\ subscriptions' = RemoveFirst(subscriptions, a)
  BY <1>1, <1>2 DEF HandleResult, CreateResponse, RegisterResponse, UnregisterResponse, nameVars,
    SubscribeResponse, UnsubscribeResponse, EventResponse, CommandResponse
<1>6. \A s \in {routines, subscriptions} :
        /\ ToSet(Append(s, r)) = ToSet(s) \cup {r}
        /\ ToSet(RemoveFirst(s, a)) = ToSet(s) \ {a}
  BY <1>t, <1>1, ToSetAppend, RemoveOne
<1>7. r \notin freed  BY <1>1 DEF Freed
<1>r. \A read \in reread' : read[2] = "itself"
  <2>1. \/ UNCHANGED reread
        \/ Reads(r, r)
        \/ made[r].kind \in {"unregister", "unsubscribe"} /\ Reads(r, a)
    BY <1>1, <1>2 DEF HandleResult, CreateResponse, RegisterResponse, UnregisterResponse,
      nameVars, SubscribeResponse, UnsubscribeResponse, EventResponse, CommandResponse
  <2>2. made[r].kind \in {"unregister", "unsubscribe"} => a \notin freed
    BY <1>4 DEF Freed
  <2>3. ASSUME NEW e, e \notin freed, Reads(r, e)
        PROVE  \A read \in reread' : read[2] = "itself"
    BY <2>3 DEF Reads, Freed
  <2>4. CASE UNCHANGED reread  BY <2>4 DEF Freed
  <2> QED BY <1>7, <2>1, <2>2, <2>3, <2>4
<1>8. CASE UNCHANGED <<routines, subscriptions>> /\ freed' \subseteq freed \cup {r}
  BY <1>t, <1>1, <1>r, <1>8 DEF Freed
<1>9. CASE /\ UNCHANGED freed
           /\ ToSet(routines') \cup ToSet(subscriptions')
                \subseteq ToSet(routines) \cup ToSet(subscriptions) \cup {r}
  BY <1>1, <1>7, <1>9, <1>r DEF Freed
<1>10. CASE /\ freed' = freed \cup {a} /\ a \in ToSet(routines) /\ UNCHANGED subscriptions
            /\ ToSet(routines') = ToSet(routines) \ {a}
  <2>1. a \notin Queued /\ a \notin ToSet(subscriptions)  BY <1>t, <1>10
  <2> QED BY <1>1, <1>10, <1>r, <2>1 DEF Freed
<1>11. CASE /\ freed' = freed \cup {a} /\ a \in ToSet(subscriptions) /\ UNCHANGED routines
            /\ ToSet(subscriptions') = ToSet(subscriptions) \ {a}
  <2>1. a \notin Queued /\ a \notin ToSet(routines)  BY <1>t, <1>11
  <2> QED BY <1>1, <1>11, <1>r, <2>1 DEF Freed
<1> QED BY <1>4, <1>5, <1>6, <1>8, <1>9, <1>10, <1>11

LEMMA NextFreed ==
  ASSUME Settled, Closed, Names, Freed, [Next]_vars, Settled'
  PROVE  Freed'
<1>t. /\ Base /\ Base' /\ Typed /\ Lists /\ Pointing /\ Sets
      /\ routines \in Seq(Ids) /\ subscriptions \in Seq(Ids)
      /\ IsInjective(routines) /\ IsInjective(subscriptions)
      /\ \A q \in ToSet(routines) : made[q].kind = "register" /\ q \notin Queued
      /\ \A q \in ToSet(subscriptions) : made[q].kind = "subscribe" /\ q \notin Queued
      /\ freed \subseteq 1 .. Len(made)
  BY DEF Settled, Base, Lined, Typed, Lists, Listed, Sets
<1>1. CASE Drop
  <2>1. Queued' = Queued /\ UNCHANGED reread  BY <1>1 DEF Drop, requestVars, Queued
  <2>2. \/ UNCHANGED nameVars
        \/ /\ routines # <<>> /\ routines' = Tail(routines) /\ UNCHANGED subscriptions
           /\ freed' = freed \cup {Head(routines)}
        \/ /\ subscriptions # <<>> /\ subscriptions' = Tail(subscriptions) /\ UNCHANGED routines
           /\ freed' = freed \cup {Head(subscriptions)}
    BY <1>1 DEF Drop
  <2>3. ASSUME routines # <<>>
        PROVE  /\ ToSet(Tail(routines)) = ToSet(routines) \ {Head(routines)}
               /\ Head(routines) \in ToSet(routines)
    BY <1>t, <2>3, ToSetTail
  <2>4. ASSUME subscriptions # <<>>
        PROVE  /\ ToSet(Tail(subscriptions)) = ToSet(subscriptions) \ {Head(subscriptions)}
               /\ Head(subscriptions) \in ToSet(subscriptions)
    BY <1>t, <2>4, ToSetTail
  <2>5. ToSet(routines) \cap ToSet(subscriptions) = {}  BY <1>t
  <2>6. CASE UNCHANGED nameVars  BY <2>1, <2>6 DEF Freed, nameVars
  <2>7. CASE /\ routines # <<>> /\ routines' = Tail(routines) /\ UNCHANGED subscriptions
             /\ freed' = freed \cup {Head(routines)}
    BY <1>t, <2>1, <2>3, <2>5, <2>7 DEF Freed
  <2>8. CASE /\ subscriptions # <<>> /\ subscriptions' = Tail(subscriptions) /\ UNCHANGED routines
             /\ freed' = freed \cup {Head(subscriptions)}
    BY <1>t, <2>1, <2>4, <2>5, <2>8 DEF Freed
  <2> QED BY <2>2, <2>6, <2>7, <2>8
<1>2. CASE Ending
  <2>1. /\ todo # <<>> /\ top.op \in Walks /\ Current # None /\ CutOff(Current)
        /\ UNCHANGED <<made, routines, subscriptions, reread>>
        /\ freed' \subseteq freed \cup {Current}
    BY <1>2, StepsOf DEF Ending, Walks, EndUnanswered
  <2>2. Current \in ToSet(List(top.list)) /\ top.list \in {"requests", "pendings"}
    BY <1>t, <2>1, CurrentListed, Walking
  <2>3. Queued' = Queued \ {Current} /\ Current \in Queued  BY <1>t, <2>1, <2>2, CutStep
  <2> QED BY <1>t, <2>1, <2>3 DEF Freed
<1>3. CASE HandleResult  BY <1>3, ResultFreed
<1>4. CASE ~ Drop /\ ~ Ending /\ ~ HandleResult
  <2>1. UNCHANGED <<freed, reread>>  BY <1>4, StepSets
  <2>2. UNCHANGED <<routines, subscriptions>>
    <3>1. Flushing \/ Write \/ Wipe => UNCHANGED nameVars  BY DEF Flushing, Flush, Write, Wipe
    <3> QED BY <1>4, <3>1, StepLists DEF nameVars
  <2>3. \A r \in Queued' : r \in Queued \/ r \notin 1 .. Len(made)
    <3>1. CASE Queued' \subseteq Queued  BY <3>1
    <3>2. ASSUME NEW kind, NEW name, NEW about, Enqueue(kind, name, about), UNCHANGED pendings
          PROVE  \A r \in Queued' : r \in Queued \/ r \notin 1 .. Len(made)
      <4>1. /\ Len(made') = Len(made) + 1 /\ Len(made) \in Nat
            /\ ToSet(requests') = ToSet(requests) \cup {Len(made')}
        BY <1>t, <3>2, EnqueueLists
      <4>2. Queued' = Queued \cup {Len(made')}  BY <3>2, <4>1 DEF Queued
      <4> QED BY <4>1, <4>2
    <3> QED BY <3>1, <3>2, NextQueued DEF Opening, Queueing
  <2> QED BY <1>t, <2>1, <2>2, <2>3 DEF Freed
<1> QED BY <1>1, <1>2, <1>3, <1>4

LEMMA InitNames == Init => Names /\ Freed
BY DEF Init, Names, Freed, Queued, ToSet

\* A routine or subscription is destroyed once: it is not on its list when it was freed, and no
\* answer to an unregister that still counts is about one that was.  And no completion reads
\* one that was freed, but the one that frees it, which does.  It takes an application that
\* does not register, unregister, subscribe or unsubscribe a name it has a request under way
\* for: the library does not keep it from that.
THEOREM NothingDangles == ASSUME Careful PROVE Safe => []NoDangling
<1>1. Careful  OBVIOUS
<1>2. Names /\ Freed /\ Connected /\ Connected' /\ [Next]_vars => Names' /\ Freed'
  BY <1>1, NextNames, NextFreed DEF Connected
<1>3. ASSUME Names, Freed, Connected  PROVE NoDangling
  <2>1. /\ Lists /\ Sets /\ Closed /\ routines \in Seq(Ids) /\ subscriptions \in Seq(Ids)
    BY <1>3 DEF Connected, Settled, Base, Lined, Typed
  <2>2. ToSet(routines \o subscriptions) \cap freed = {}
    BY <1>3, <2>1, ToSetJoin DEF Freed
  <2>3. ASSUME NEW r \in ToSet(pendings), asked # {} \/ incoming # <<>> \/ wire # <<>>
        PROVE  made[r].about \notin freed
    <3>1. socket # "none"  BY <2>1, <2>3 DEF Closed
    <3>2. r \in Queued /\ r \in 1 .. Len(made)  BY <2>1, <2>3 DEF Queued, Lists, Listed
    <3>3. CASE made[r].kind \in {"unregister", "unsubscribe"}
      BY <1>3, <3>1, <3>2, <3>3 DEF Names, Freed
    <3>4. CASE made[r].kind \notin {"unregister", "unsubscribe"}
      BY <2>1, <3>2, <3>4 DEF Sets, None
    <3> QED BY <3>3, <3>4
  <2>4. \A r \in (asked \cup {f.of : f \in ToSet(incoming) \cup ToSet(wire)}) :
          asked # {} \/ incoming # <<>> \/ wire # <<>>
    BY DEF ToSet
  <2>5. \A read \in reread : read[2] = "itself"  BY <1>3 DEF Freed
  <2> QED BY <2>2, <2>3, <2>4, <2>5 DEF NoDangling
<1> QED BY <1>2, <1>3, InitNames, ConnectionsAreFresh, PTL DEF Safe

=============================================================================
