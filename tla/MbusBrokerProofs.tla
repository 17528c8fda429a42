-------------------------- MODULE MbusBrokerProofs --------------------------
(***************************************************************************)
(* Theorems about MbusBroker, for any number of slots, identifiers,        *)
(* commands, events and frames: its types, and the safety of its           *)
(* bookkeeping.  Bookkeeping is the inductive invariant; each lemma        *)
(* carries one of its conjuncts over a step.                               *)
(***************************************************************************)
EXTENDS MbusBroker, SequenceTheorems, WellFoundedInduction, TLAPS

-----------------------------------------------------------------------------
(* Type correctness. *)

LEMMA HeadType ==
  ASSUME TypeOK, methods # << >>
  PROVE  Head(methods) \in Method /\ Tail(methods) \in Seq(Method)
BY HeadTailProperties DEF TypeOK

LEMMA RespondType ==
  ASSUME TypeOK, NEW m \in Method, NEW rc \in {0, -1}, Respond(m, rc)
  PROVE  results' \in [Slot -> Seq(Answer)]
<1>1. Answered(m, rc, 0) \in Answer  BY DEF Answered, Answer
<1>2. m.src \in Slot  BY DEF Method
<1> QED BY <1>1, <1>2 DEF Respond, TypeOK

LEMMA QueueType ==
  ASSUME TypeOK, NEW T, NEW source \in Id \cup {Server}, NEW what \in Name,
         NEW about \in Id \cup {None}, Queue(T, source, what, about)
  PROVE  events' \in [Slot -> Seq(Notice)] /\ eseq' \in [Slot -> Int]
<1>1. ASSUME NEW c \in Slot
      PROVE  [source |-> source, what |-> what, about |-> about, seq |-> eseq[c]]
               \in Notice
  BY DEF Notice, TypeOK
<1>2. \A c \in Slot : NextSeq(eseq[c]) \in Int
  BY BrokerAssumption DEF NextSeq, TypeOK
<1> QED BY SMTT(30), <1>1, <1>2 DEF Queue, TypeOK

LEMMA RouteType ==
  ASSUME TypeOK, NEW source \in Id \cup {None}, NEW dest, NEW what \in Name,
         Route(source, dest, what)
  PROVE  events' \in [Slot -> Seq(Notice)] /\ eseq' \in [Slot -> Int]
<1>1. CASE NoEvent  BY <1>1 DEF NoEvent, TypeOK
<1>2. "pong" \in Name  BY DEF Name, ServerEvent
<1>3. CASE source # None
  BY <1>2, <1>3, QueueType DEF Route
<1> QED BY <1>1, <1>3 DEF Route

LEMMA AnnouncementType ==
  ASSUME TypeOK, NEW m \in Method, NEW ok \in BOOLEAN, NEW what \in ServerEvent,
         Announcement(m, ok, what)
  PROVE  /\ results' \in [Slot -> Seq(Answer)]
         /\ events' \in [Slot -> Seq(Notice)] /\ eseq' \in [Slot -> Int]
<1>1. m.src \in Slot /\ what \in Name  BY DEF Method, Name
<1>2. results' \in [Slot -> Seq(Answer)]
  BY RespondType DEF Announcement
<1> DEFINE T == {c \in Live : Matches(subs'[c], Server, what)}
<1>3. ok /\ ident[m.src] # None => Queue(T, Server, what, ident[m.src])
  BY DEF Announcement
<1>4. ~(ok /\ ident[m.src] # None) => NoEvent
  BY DEF Announcement
<1> HIDE DEF T
<1>5. CASE ok /\ ident[m.src] # None
  BY <1>1, <1>2, <1>3, <1>5, QueueType DEF TypeOK
<1>6. CASE ~(ok /\ ident[m.src] # None)
  BY <1>2, <1>4, <1>6 DEF NoEvent, TypeOK
<1> QED BY <1>2, <1>5, <1>6

\* What every handler that takes a method leaves well-typed.
LEMMA TakeType ==
  ASSUME TypeOK, NEW op, Take(op)
  PROVE  /\ Head(methods) \in Method
         /\ Head(methods).src \in Slot
         /\ methods' \in Seq(Method)
         /\ UNCHANGED <<phase, inbox, outbuf, accepted, announced, frames, stage,
                        owed, held, routines, heard>>
<1>1. Head(methods) \in Method /\ Tail(methods) \in Seq(Method)
  BY HeadType DEF Take
<1> QED BY <1>1 DEF Take, Method, peer

LEMMA OldestExists ==
  ASSUME NEW S \in SUBSET Method, S # {}
  PROVE  Oldest(S) \in S
<1> DEFINE tags == {m.tag : m \in S}
<1>1. tags # {} /\ tags \in SUBSET Nat  BY DEF Method
<1> DEFINE less == {ss \in Nat \X Nat : ss[1] < ss[2]}
<1> HIDE DEF tags
<1>5. IsWellFoundedOn(less, Nat)
  BY NatLessThanWellFounded DEF OpToRel
<1> HIDE DEF less
<1>6. PICK t \in tags : \A u \in tags : ~ (<<u, t>> \in less)
  BY <1>1, <1>5, WFMin
<1>2. t \in tags /\ \A u \in tags : t <= u
  <2>1. ASSUME NEW u \in tags PROVE t <= u
    <3>1. t \in Nat /\ u \in Nat  BY <1>1, <2>1
    <3>2. u < t => <<u, t>> \in less  BY <3>1 DEF less
    <3> QED BY <1>6, <2>1, <3>1, <3>2
  <2> QED BY <1>6, <2>1
<1>3. PICK m \in S : m.tag = t  BY <1>2 DEF tags
<1>4. \A n \in S : m.tag <= n.tag  BY <1>2, <1>3 DEF tags
<1> QED BY <1>4 DEF Oldest

LEMMA CreateType == TypeOK /\ HandleCreate => TypeOK'
<1> SUFFICES ASSUME TypeOK, HandleCreate PROVE TypeOK'
  OBVIOUS
<1> DEFINE m == Head(methods)
<1>1. Take("create")  BY DEF HandleCreate
<1>2. /\ m \in Method /\ m.src \in Slot /\ methods' \in Seq(Method)
      /\ UNCHANGED <<phase, inbox, outbuf, accepted, announced, frames, stage,
                     owed, held, routines, heard>>
  BY <1>1, TakeType
<1>3. /\ UNCHANGED <<running, link, subs, cmds, requests, waits, roster>>
      /\ UNCHANGED <<events, eseq>>
  BY DEF HandleCreate, NoEvent, SetIdentifier
<1>4. \E rc \in {0, -1} : Respond(m, rc)
  BY DEF HandleCreate, SetIdentifier
<1>5. ident' = ident \/ \E id \in Id : ident' = [ident EXCEPT ![m.src] = id]
  BY DEF HandleCreate, SetIdentifier
<1>6. zlib' \in SUBSET Slot /\ pinged' \in SUBSET Slot
  BY <1>2 DEF HandleCreate, TypeOK, SetIdentifier
<1> HIDE DEF m
<1>8. ident' \in [Slot -> Id \cup {None}]
  <2>1. CASE ident' = ident  BY <2>1 DEF TypeOK
  <2>2. CASE \E id \in Id : ident' = [ident EXCEPT ![m.src] = id]
    BY <1>2, <2>2 DEF TypeOK
  <2> QED BY <1>5, <2>1, <2>2
<1>7. results' \in [Slot -> Seq(Answer)]
  BY <1>2, <1>4, RespondType
<1> QED BY <1>2, <1>3, <1>6, <1>7, <1>8 DEF TypeOK

LEMMA FollowType ==
  ASSUME TypeOK, NEW c \in Slot, Follow(c)
  PROVE  roster' \in [Slot -> SUBSET (Id \cup {None})]
<1>1. {ident[d] : d \in announced} \in SUBSET (Id \cup {None})
  BY DEF TypeOK
<1> QED BY <1>1 DEF Follow, TypeOK

LEMMA SubscribeType == TypeOK /\ HandleSubscribe => TypeOK'
<1> SUFFICES ASSUME TypeOK, HandleSubscribe PROVE TypeOK'
  OBVIOUS
<1> DEFINE m == Head(methods)
<1>1. Take("subscribe")  BY DEF HandleSubscribe
<1>2. /\ m \in Method /\ m.src \in Slot /\ methods' \in Seq(Method)
      /\ UNCHANGED <<phase, inbox, outbuf, accepted, announced, frames, stage,
                     owed, held, routines, heard>>
  BY <1>1, TakeType
<1>3. UNCHANGED <<running, link, ident, cmds, zlib, pinged, requests, waits>>
  BY DEF HandleSubscribe, AddSubscription
<1>4. /\ subs' = [subs EXCEPT ![m.src] = @ \cup {<<m.who, m.what>>}]
      /\ Announcement(m, TRUE, "subscribed") /\ Follow(m.src)
  BY DEF HandleSubscribe, AddSubscription
<1> HIDE DEF m
<1>5. subs' \in [Slot -> SUBSET (Party \X Name)]
  BY SMTT(30), <1>2, <1>4 DEF TypeOK, Method
<1>6. /\ results' \in [Slot -> Seq(Answer)]
      /\ events' \in [Slot -> Seq(Notice)] /\ eseq' \in [Slot -> Int]
  BY <1>2, <1>4, AnnouncementType DEF ServerEvent
<1>7. roster' \in [Slot -> SUBSET (Id \cup {None})]
  BY <1>2, <1>4, FollowType
<1> QED BY <1>2, <1>3, <1>5, <1>6, <1>7 DEF TypeOK

LEMMA UnsubscribeType == TypeOK /\ HandleUnsubscribe => TypeOK'
<1> SUFFICES ASSUME TypeOK, HandleUnsubscribe PROVE TypeOK'
  OBVIOUS
<1> DEFINE m == Head(methods)
           ok == <<m.who, m.what>> \in subs[m.src]
<1>1. Take("unsubscribe")  BY DEF HandleUnsubscribe
<1>2. /\ m \in Method /\ m.src \in Slot /\ methods' \in Seq(Method)
      /\ UNCHANGED <<phase, inbox, outbuf, accepted, announced, frames, stage,
                     owed, held, routines, heard>>
  BY <1>1, TakeType
<1>3. UNCHANGED <<running, link, ident, cmds, zlib, pinged, requests, waits>>
  BY DEF HandleUnsubscribe, DelSubscription
<1>4. /\ subs' = [subs EXCEPT ![m.src] = @ \ {<<m.who, m.what>>}]
      /\ Announcement(m, ok, "unsubscribed") /\ Follow(m.src)
  BY DEF HandleUnsubscribe, DelSubscription
<1>5. ok \in BOOLEAN  OBVIOUS
<1> HIDE DEF m, ok
<1>6. subs' \in [Slot -> SUBSET (Party \X Name)]
  BY <1>2, <1>4 DEF TypeOK
<1>7. /\ results' \in [Slot -> Seq(Answer)]
      /\ events' \in [Slot -> Seq(Notice)] /\ eseq' \in [Slot -> Int]
  BY <1>2, <1>4, <1>5, AnnouncementType DEF ServerEvent
<1>8. roster' \in [Slot -> SUBSET (Id \cup {None})]
  BY <1>2, <1>4, FollowType
<1> QED BY <1>2, <1>3, <1>6, <1>7, <1>8 DEF TypeOK

LEMMA RegisterType == TypeOK /\ (HandleRegister \/ HandleUnregister) => TypeOK'
<1> SUFFICES ASSUME TypeOK, HandleRegister \/ HandleUnregister PROVE TypeOK'
  OBVIOUS
<1> DEFINE m == Head(methods)
<1>1. \E op : Take(op)  BY DEF HandleRegister, HandleUnregister
<1>2. /\ m \in Method /\ m.src \in Slot /\ methods' \in Seq(Method)
      /\ UNCHANGED <<phase, inbox, outbuf, accepted, announced, frames, stage,
                     owed, held, routines, heard>>
  BY <1>1, TakeType
<1>3. UNCHANGED <<running, link, ident, subs, zlib, pinged, requests, waits,
                  roster>>
  BY DEF HandleRegister, HandleUnregister, AddCommand, DelCommand
<1>4. /\ \/ cmds' = [cmds EXCEPT ![m.src] = @ \cup {m.what}]
         \/ cmds' = [cmds EXCEPT ![m.src] = @ \ {m.what}]
      /\ \E what \in {"registered", "unregistered"} : Announcement(m, TRUE, what)
  BY DEF HandleRegister, HandleUnregister, AddCommand, DelCommand
<1> HIDE DEF m
<1>5. cmds' \in [Slot -> SUBSET Name]
  <2>1. m.what \in Name  BY <1>2 DEF Method
  <2>2. CASE cmds' = [cmds EXCEPT ![m.src] = @ \cup {m.what}]
    BY <1>2, <2>1, <2>2 DEF TypeOK
  <2>3. CASE cmds' = [cmds EXCEPT ![m.src] = @ \ {m.what}]
    BY <1>2, <2>1, <2>3 DEF TypeOK
  <2> QED BY <1>4, <2>2, <2>3
<1>6. /\ results' \in [Slot -> Seq(Answer)]
      /\ events' \in [Slot -> Seq(Notice)] /\ eseq' \in [Slot -> Int]
  BY <1>2, <1>4, AnnouncementType DEF ServerEvent
<1> QED BY <1>2, <1>3, <1>5, <1>6 DEF TypeOK

LEMMA PublishType == TypeOK /\ (HandlePublish \/ HandleEvent) => TypeOK'
<1> SUFFICES ASSUME TypeOK, HandlePublish \/ HandleEvent PROVE TypeOK'
  OBVIOUS
<1> DEFINE m == Head(methods)
<1>1. \E op : Take(op)  BY DEF HandlePublish, HandleEvent
<1>2. /\ m \in Method /\ m.src \in Slot /\ methods' \in Seq(Method)
      /\ UNCHANGED <<phase, inbox, outbuf, accepted, announced, frames, stage,
                     owed, held, routines, heard>>
  BY <1>1, TakeType
<1>3. UNCHANGED <<running, link, ident, subs, cmds, zlib, pinged, requests,
                  waits, roster>>
  BY DEF HandlePublish, HandleEvent
<1>4. /\ NoEvent \/ Route(ident[m.src], m.who, m.what)
      /\ (\E rc \in {0, -1} : Respond(m, rc)) \/ UNCHANGED results
  BY DEF HandlePublish, HandleEvent
<1> HIDE DEF m
<1>5. ident[m.src] \in Id \cup {None} /\ m.what \in Name
  BY <1>2 DEF TypeOK, Method
<1>6. events' \in [Slot -> Seq(Notice)] /\ eseq' \in [Slot -> Int]
  BY <1>4, <1>5, RouteType DEF NoEvent, TypeOK
<1>7. results' \in [Slot -> Seq(Answer)]
  BY <1>2, <1>4, RespondType DEF TypeOK
<1> QED BY <1>2, <1>3, <1>6, <1>7 DEF TypeOK

LEMMA QueryType == TypeOK /\ HandleQuery => TypeOK'
<1> SUFFICES ASSUME TypeOK, HandleQuery PROVE TypeOK'
  OBVIOUS
<1> DEFINE m == Head(methods)
<1>1. \E op : Take(op)  BY DEF HandleQuery
<1>2. /\ m \in Method /\ m.src \in Slot /\ methods' \in Seq(Method)
      /\ UNCHANGED <<phase, inbox, outbuf, accepted, announced, frames, stage,
                     owed, held, routines, heard>>
  BY <1>1, TakeType
<1>3. UNCHANGED <<running, link, ident, subs, cmds, zlib, pinged, requests,
                  waits, roster, events, eseq>>
  BY DEF HandleQuery, NoEvent
<1>4. \E rc \in {0, -1} : Respond(m, rc)
  BY DEF HandleQuery
<1> HIDE DEF m
<1>5. results' \in [Slot -> Seq(Answer)]
  BY <1>2, <1>4, RespondType
<1> QED BY <1>2, <1>3, <1>5 DEF TypeOK

LEMMA CloseType == TypeOK /\ HandleClose => TypeOK'
<1> SUFFICES ASSUME TypeOK, HandleClose PROVE TypeOK'
  OBVIOUS
<1> DEFINE m == Head(methods)
<1>1. Take("close")  BY DEF HandleClose
<1>2. /\ m \in Method /\ m.src \in Slot /\ methods' \in Seq(Method)
      /\ UNCHANGED <<phase, inbox, outbuf, accepted, announced, frames, stage,
                     owed, held, routines, heard>>
  BY <1>1, TakeType
<1>3. UNCHANGED <<ident, subs, cmds, zlib, pinged, requests, waits, roster,
                  events, eseq>>
  BY DEF HandleClose, NoEvent
<1>4. /\ running' = (running /\ m.who # Server)
      /\ link' = [c \in Slot |->
           IF m.who # Server /\ c \in Named(m.who) THEN "close_command"
           ELSE link[c]]
      /\ \E rc \in {0, -1} : Respond(m, rc)
  BY DEF HandleClose
<1> HIDE DEF m
<1>5. results' \in [Slot -> Seq(Answer)]
  BY <1>2, <1>4, RespondType
<1>6. running' \in BOOLEAN  BY <1>4 DEF TypeOK
<1> QED BY <1>2, <1>3, <1>4, <1>5, <1>6 DEF TypeOK

LEMMA CallType == TypeOK /\ HandleCall => TypeOK'
<1> SUFFICES ASSUME TypeOK, HandleCall PROVE TypeOK'
  OBVIOUS
<1> DEFINE m == Head(methods)
           r == [from |-> ident[m.src], what |-> m.what, seq |-> m.seq,
                 tag |-> m.tag]
<1>1. Take("call")  BY DEF HandleCall
<1>2. /\ m \in Method /\ m.src \in Slot /\ methods' \in Seq(Method)
      /\ UNCHANGED <<phase, inbox, outbuf, accepted, announced, frames, stage,
                     owed, held, routines, heard>>
  BY <1>1, TakeType
<1>3. UNCHANGED <<running, link, ident, subs, cmds, zlib, pinged, roster,
                  events, eseq>>
  BY DEF HandleCall, NoEvent
<1>4. \/ /\ ident[m.src] # None
         /\ \E d \in Slot : requests' = [requests EXCEPT ![d] = Append(@, r)]
         /\ waits' = [waits EXCEPT ![m.src] = @ \cup {m}]
         /\ UNCHANGED results
      \/ Respond(m, -1) /\ UNCHANGED <<requests, waits>>
  BY DEF HandleCall, Named, Live
<1>5. ident[m.src] # None => r \in Request
  BY <1>2 DEF Request, Method, TypeOK
<1> HIDE DEF m, r
<1>6. requests' \in [Slot -> Seq(Request)] /\ waits' \in [Slot -> SUBSET Method]
  <2>1. CASE UNCHANGED <<requests, waits>>  BY <2>1 DEF TypeOK
  <2>2. CASE /\ r \in Request
             /\ \E d \in Slot : requests' = [requests EXCEPT ![d] = Append(@, r)]
             /\ waits' = [waits EXCEPT ![m.src] = @ \cup {m}]
    <3>1. PICK d \in Slot : requests' = [requests EXCEPT ![d] = Append(@, r)]
      BY <2>2
    <3>2. Append(requests[d], r) \in Seq(Request)  BY <2>2 DEF TypeOK
    <3>3. requests' \in [Slot -> Seq(Request)]  BY <3>1, <3>2 DEF TypeOK
    <3>4. waits' \in [Slot -> SUBSET Method]
      <4>1. waits \in [Slot -> SUBSET Method]  BY DEF TypeOK
      <4>2. waits[m.src] \cup {m} \in SUBSET Method \/ m.src \notin Slot  BY <1>2, <4>1
      <4> QED BY <2>2, <4>1, <4>2
    <3> QED BY <3>3, <3>4
  <2> QED BY <1>4, <1>5, <2>1, <2>2
<1>7. results' \in [Slot -> Seq(Answer)]
  <2>1. CASE UNCHANGED results  BY <2>1 DEF TypeOK
  <2>2. CASE Respond(m, -1)  BY <1>2, <2>2, RespondType
  <2> QED BY <1>4, <2>1, <2>2
<1> QED BY <1>2, <1>3, <1>6, <1>7 DEF TypeOK

LEMMA ResultType == TypeOK /\ HandleResult => TypeOK'
<1> SUFFICES ASSUME TypeOK, HandleResult PROVE TypeOK'
  OBVIOUS
<1> DEFINE m == Head(methods)
<1>1. Take("result")  BY DEF HandleResult
<1>2. /\ m \in Method /\ m.src \in Slot /\ methods' \in Seq(Method)
      /\ UNCHANGED <<phase, inbox, outbuf, accepted, announced, frames, stage,
                     owed, held, routines, heard>>
  BY <1>1, TakeType
<1>3. UNCHANGED <<running, link, ident, subs, cmds, zlib, pinged, requests,
                  roster, events, eseq>>
  BY DEF HandleResult, NoEvent
<1>4. \/ \E c \in Slot : \E w \in waits[c] :
           /\ waits' = [waits EXCEPT ![c] = @ \ {w}]
           /\ results' = [[results EXCEPT ![c] = Append(@, Answered(w, 0, m.re))]
                EXCEPT ![m.src] = Append(@, Answered(m, 0, 0))]
      \/ (\E rc \in {0, -1} : Respond(m, rc)) /\ UNCHANGED waits
  <2> DEFINE valid == ident[m.src] # None /\ ValidSequence(m.seq)
             callers == {c \in Named(m.who) : WaitFor(c, m.src, m) # {}}
  <2>1. CASE \E c \in callers :
               LET w == Oldest(WaitFor(c, m.src, m)) IN
               /\ waits' = [waits EXCEPT ![c] = @ \ {w}]
               /\ results' = [[results EXCEPT ![c] = Append(@, Answered(w, 0, m.re))]
                    EXCEPT ![m.src] = Append(@, Answered(m, 0, 0))]
    <3>1. PICK c \in callers :
               LET w == Oldest(WaitFor(c, m.src, m)) IN
               /\ waits' = [waits EXCEPT ![c] = @ \ {w}]
               /\ results' = [[results EXCEPT ![c] = Append(@, Answered(w, 0, m.re))]
                    EXCEPT ![m.src] = Append(@, Answered(m, 0, 0))]
      BY <2>1
    <3>2. WaitFor(c, m.src, m) \subseteq Method /\ WaitFor(c, m.src, m) # {}
      BY DEF WaitFor, TypeOK, Named, Live
    <3>3. Oldest(WaitFor(c, m.src, m)) \in WaitFor(c, m.src, m)
      BY <3>2, OldestExists
    <3> QED BY <3>1, <3>3 DEF WaitFor, Named, Live
  <2>2. CASE Respond(m, IF valid THEN 0 ELSE -1) /\ UNCHANGED waits
    BY <2>2
  <2> QED BY <2>1, <2>2 DEF HandleResult
<1> HIDE DEF m
<1>5. CASE (\E rc \in {0, -1} : Respond(m, rc)) /\ UNCHANGED waits
  <2>1. results' \in [Slot -> Seq(Answer)]
    BY <1>2, <1>5, RespondType
  <2> QED BY <1>2, <1>3, <1>5, <2>1 DEF TypeOK
<1>6. CASE \E c \in Slot : \E w \in waits[c] :
           /\ waits' = [waits EXCEPT ![c] = @ \ {w}]
           /\ results' = [[results EXCEPT ![c] = Append(@, Answered(w, 0, m.re))]
                EXCEPT ![m.src] = Append(@, Answered(m, 0, 0))]
  <2>7. PICK c \in Slot : \E w \in waits[c] :
           /\ waits' = [waits EXCEPT ![c] = @ \ {w}]
           /\ results' = [[results EXCEPT ![c] = Append(@, Answered(w, 0, m.re))]
                EXCEPT ![m.src] = Append(@, Answered(m, 0, 0))]
    BY <1>6
  <2>1. PICK w \in waits[c] :
           /\ waits' = [waits EXCEPT ![c] = @ \ {w}]
           /\ results' = [[results EXCEPT ![c] = Append(@, Answered(w, 0, m.re))]
                EXCEPT ![m.src] = Append(@, Answered(m, 0, 0))]
    BY <2>7
  <2>2. Answered(w, 0, m.re) \in Answer /\ Answered(m, 0, 0) \in Answer
    BY <1>2 DEF Answered, Answer, Method, TypeOK
  <2> DEFINE A == Answered(w, 0, m.re)
             B == Answered(m, 0, 0)
             res1 == [results EXCEPT ![c] = Append(@, A)]
  <2>3. results' = [res1 EXCEPT ![m.src] = Append(@, B)]
    BY <2>1
  <2> HIDE DEF A, B
  <2>4. res1 \in [Slot -> Seq(Answer)]
    BY <2>2 DEF TypeOK, A
  <2> HIDE DEF res1
  <2>5. results' \in [Slot -> Seq(Answer)]
    BY <1>2, <2>2, <2>3, <2>4 DEF B
  <2>6. waits' \in [Slot -> SUBSET Method]
    BY <2>1 DEF TypeOK
  <2> QED BY <1>2, <1>3, <2>5, <2>6 DEF TypeOK
<1> QED BY <1>4, <1>5, <1>6

LEMMA FrontType ==
  ASSUME TypeOK, NEW c \in Slot
  PROVE  Front(c) \in Seq(Out)
<1>1. ASSUME NEW kind, NEW body,
             \/ kind = "result" /\ body \in Answer
             \/ kind = "request" /\ body \in Request
             \/ kind = "event" /\ body \in Notice
      PROVE  Packed(c, kind, body) \in Seq(Out)
  <2>1. Compressed(c, kind, body) \in BOOLEAN  BY DEF Compressed
  <2> DEFINE z == Compressed(c, kind, body)
  <2> HIDE DEF z
  <2>2. [kind |-> kind, body |-> body, zlib |-> z] \in Out
    BY <1>1, <2>1 DEF Out, z
  <2> QED BY <2>2 DEF Packed, z
<1>2. results[c] # << >> => Head(results[c]) \in Answer
  BY HeadTailProperties DEF TypeOK
<1>3. requests[c] # << >> => Head(requests[c]) \in Request
  BY HeadTailProperties DEF TypeOK
<1>4. events[c] # << >> => Head(events[c]) \in Notice
  BY HeadTailProperties DEF TypeOK
<1>5. << >> \in Seq(Out)  OBVIOUS
<1> QED BY <1>1, <1>2, <1>3, <1>4, <1>5 DEF Front

LEMMA PrepareType == TypeOK /\ PrepareOut => TypeOK'
<1> SUFFICES ASSUME TypeOK, PrepareOut PROVE TypeOK'
  OBVIOUS
<1>1. outbuf' \in [Slot -> Seq(Out)]
  <2>1. \A c \in Slot : Front(c) \in Seq(Out)  BY FrontType
  <2>2. \A c \in Slot : outbuf[c] \o Front(c) \in Seq(Out)
    BY <2>1, ConcatProperties DEF TypeOK
  <2> QED BY <2>2 DEF PrepareOut, TypeOK
<1>2. ASSUME NEW c \in Slot, NEW kind, Front(c) # << >>,
             Head(Front(c)).kind = kind
      PROVE  /\ kind = "result"  => results[c] # << >>
             /\ kind = "request" => requests[c] # << >>
             /\ kind = "event"   => events[c] # << >>
  <2>1. ASSUME NEW k, NEW body PROVE Head(Packed(c, k, body)).kind = k
    BY DEF Packed
  <2>2. CASE results[c] # << >>
    <3>1. Head(Front(c)).kind = "result"  BY <2>1, <2>2 DEF Front
    <3> QED BY <1>2, <2>2, <3>1
  <2>3. CASE results[c] = << >> /\ requests[c] # << >>
    <3>1. Head(Front(c)).kind = "request"  BY <2>1, <2>3 DEF Front
    <3> QED BY <1>2, <2>3, <3>1
  <2>4. CASE results[c] = << >> /\ requests[c] = << >> /\ events[c] # << >>
    <3>1. Head(Front(c)).kind = "event"  BY <2>1, <2>4 DEF Front
    <3> QED BY <1>2, <2>4, <3>1
  <2> QED BY <1>2, <2>2, <2>3, <2>4 DEF Front
<1>3. ASSUME NEW S, NEW q \in [Slot -> Seq(S)], NEW kind,
             \A c \in Slot : Front(c) # << >> /\ Head(Front(c)).kind = kind
                               => q[c] # << >>
      PROVE  Popped(q, kind) \in [Slot -> Seq(S)]
  <2>1. ASSUME NEW c \in Slot, q[c] # << >> PROVE Tail(q[c]) \in Seq(S)
    BY <2>1, HeadTailProperties
  <2> QED BY <1>3, <2>1 DEF Popped
<1>4. results' \in [Slot -> Seq(Answer)]
  BY <1>2, <1>3 DEF PrepareOut, TypeOK
<1>5. requests' \in [Slot -> Seq(Request)]
  BY <1>2, <1>3 DEF PrepareOut, TypeOK
<1>6. events' \in [Slot -> Seq(Notice)]
  BY <1>2, <1>3 DEF PrepareOut, TypeOK
<1> QED BY <1>1, <1>4, <1>5, <1>6 DEF PrepareOut, TypeOK, registry, peer

\* A step that changes nothing but where the pass is, links and marks.
LEMMA ControlType ==
  ASSUME TypeOK,
         phase' \in {"top", "out", "poll", "write", "parse", "handle", "status",
                     "cleanup", "stopped", "crashed"},
         link' \in [Slot -> {"free", "open", "close_command", "ping_threshold",
                             "connection_closed", "internal_error"}],
         accepted' \in SUBSET Slot,
         UNCHANGED <<running, ident, announced, subs, cmds, zlib, pinged, inbox,
                     outbuf, methods, queues, peer, roster>>
  PROVE  TypeOK'
BY DEF TypeOK, queues, peer

LEMMA PhaseType ==
  TypeOK /\ (\/ CheckPing \/ ReadDone \/ WriteDone \/ ParseDone \/ HandleDone
             \/ StatusDone \/ CleanupDone \/ CrashInUnregister \/ Halted) => TypeOK'
<1> SUFFICES ASSUME TypeOK,
                    \/ CheckPing \/ ReadDone \/ WriteDone \/ ParseDone
                    \/ HandleDone \/ StatusDone \/ CleanupDone
                    \/ CrashInUnregister \/ Halted
             PROVE  TypeOK'
  OBVIOUS
<1>1. CASE CheckPing
  <2>1. PICK S : link' = [c \in Slot |-> IF c \in S THEN "ping_threshold"
                                         ELSE link[c]]
    BY <1>1 DEF CheckPing
  <2>2. link' \in [Slot -> {"free", "open", "close_command", "ping_threshold",
                            "connection_closed", "internal_error"}]
    BY <2>1 DEF TypeOK
  <2> QED BY <1>1, <2>2, ControlType DEF CheckPing, TypeOK, queues, peer
<1>2. CASE ReadDone \/ WriteDone \/ ParseDone \/ StatusDone \/ CrashInUnregister
  BY <1>2, ControlType
     DEF ReadDone, WriteDone, ParseDone, StatusDone, CrashInUnregister, TypeOK,
         registry
<1>3. CASE HandleDone
  BY <1>3, ControlType DEF HandleDone, TypeOK, Open
<1>4. CASE CleanupDone
  BY <1>4, ControlType DEF CleanupDone, TypeOK, registry
<1>5. CASE Halted
  BY <1>5, ControlType DEF Halted, vars, registry, TypeOK
<1> QED BY <1>1, <1>2, <1>3, <1>4, <1>5

LEMMA ConnectionType ==
  ASSUME TypeOK, NEW c \in Slot, Accept(c) \/ HangUp(c)
  PROVE  TypeOK'
<1>1. link' \in [Slot -> {"free", "open", "close_command", "ping_threshold",
                          "connection_closed", "internal_error"}]
  BY DEF Accept, HangUp, TypeOK
<1> QED BY <1>1, ControlType DEF Accept, HangUp, TypeOK

LEMMA ReceiveType ==
  ASSUME TypeOK, NEW c \in Slot, NEW f \in Frame, NEW re \in Nat,
         Receive(c, f, re)
  PROVE  /\ frames' \in Nat
         /\ inbox' \in [Slot -> Seq(Method)]
         /\ owed' \in [Slot -> SUBSET Method]
         /\ UNCHANGED <<phase, running, registry, outbuf, methods, queues,
                        routines, heard, roster>>
<1> DEFINE m == [src |-> c, tag |-> frames + 1, re |-> re, op |-> f.op,
                 who |-> f.who, what |-> f.what, seq |-> f.seq, opt |-> f.opt]
<1>1. frames' \in Nat  BY DEF Receive, TypeOK
<1>2. m \in Method  BY DEF TypeOK, Frame, Method
<1>3. /\ inbox' = [inbox EXCEPT ![c] = Append(@, m)]
      /\ owed' = owed \/ owed' = [owed EXCEPT ![c] = @ \cup {m}]
  BY DEF Receive
<1> HIDE DEF m
<1>4. inbox' \in [Slot -> Seq(Method)]
  BY <1>2, <1>3 DEF TypeOK
<1>5. owed' \in [Slot -> SUBSET Method]
  <2>1. CASE owed' = owed  BY <2>1 DEF TypeOK
  <2>2. CASE owed' = [owed EXCEPT ![c] = @ \cup {m}]
    BY <1>2, <2>2 DEF TypeOK
  <2> QED BY <1>3, <2>1, <2>2
<1> QED BY <1>1, <1>4, <1>5 DEF Receive

LEMMA ReadType ==
  ASSUME TypeOK, NEW c \in Slot, NEW f \in Frames, Read(c, f)
  PROVE  TypeOK'
<1>1. f \in Frame  BY BrokerAssumption
<1>2. Receive(c, f, 0) /\ UNCHANGED held  BY DEF Read
<1>3. stage' \in [Slot -> {"new", "asked", "created", "refused"}]
  BY DEF Read, TypeOK
<1>4. /\ frames' \in Nat
      /\ inbox' \in [Slot -> Seq(Method)]
      /\ owed' \in [Slot -> SUBSET Method]
      /\ UNCHANGED <<phase, running, registry, outbuf, methods, queues,
                     routines, heard, roster>>
  BY <1>1, <1>2, ReceiveType
<1> QED BY <1>2, <1>3, <1>4 DEF TypeOK, registry, queues

LEMMA ReplyType ==
  ASSUME TypeOK, NEW c \in Slot, NEW r \in held[c], Reply(c, r)
  PROVE  TypeOK'
<1> DEFINE f == [op |-> "result", who |-> r.from, what |-> r.what,
                 seq |-> r.seq, opt |-> {}]
<1>1. r \in Request  BY DEF TypeOK
<1>2. f \in Frame /\ r.tag \in Nat
  BY <1>1 DEF Request, Frame, Op, Party
<1>3. Receive(c, f, r.tag) /\ UNCHANGED stage  BY DEF Reply
<1> HIDE DEF f
<1>4. /\ frames' \in Nat
      /\ inbox' \in [Slot -> Seq(Method)]
      /\ owed' \in [Slot -> SUBSET Method]
      /\ UNCHANGED <<phase, running, registry, outbuf, methods, queues,
                     routines, heard, roster>>
  BY <1>2, <1>3, ReceiveType
<1>5. held' \in [Slot -> SUBSET Request]
  BY DEF Reply, TypeOK
<1> QED BY <1>3, <1>4, <1>5 DEF TypeOK, registry, queues

LEMMA WriteType ==
  ASSUME TypeOK, NEW c \in Slot, Write(c)
  PROVE  TypeOK'
<1> DEFINE f == Head(outbuf[c])
<1>1. f \in Out /\ Tail(outbuf[c]) \in Seq(Out)
  BY HeadTailProperties DEF Write, TypeOK
<1>2. /\ outbuf' = [outbuf EXCEPT ![c] = Tail(@)]
      /\ Learn(c, f)
      /\ UNCHANGED <<phase, running, registry, inbox, methods, queues, frames,
                     roster>>
  BY DEF Write
<1> HIDE DEF f
<1>3. outbuf' \in [Slot -> Seq(Out)]  BY <1>1, <1>2 DEF TypeOK
<1>4. /\ f.kind = "result" => f.body \in Answer /\ f.body.to \in Method
      /\ f.kind = "request" => f.body \in Request
      /\ f.kind = "event" => f.body \in Notice /\ f.body.seq \in Int
  <2>1. CASE f \in [kind: {"result"}, body: Answer, zlib: BOOLEAN]
    BY <2>1 DEF Answer
  <2>2. CASE f \in [kind: {"request"}, body: Request, zlib: BOOLEAN]
    BY <2>2
  <2>3. CASE f \in [kind: {"event"}, body: Notice, zlib: BOOLEAN]
    BY <2>3 DEF Notice
  <2> QED BY <1>1, <2>1, <2>2, <2>3 DEF Out
<1>5. owed' \in [Slot -> SUBSET Method]
  <2>1. CASE f.kind = "result"
    BY <1>2, <2>1 DEF Learn, TypeOK
  <2> QED BY <1>2, <2>1 DEF Learn, TypeOK
<1>6. held' \in [Slot -> SUBSET Request]
  <2>1. CASE f.kind = "request"
    BY <1>2, <1>4, <2>1 DEF Learn, TypeOK
  <2> QED BY <1>2, <2>1 DEF Learn, TypeOK
<1>7. heard' \in [Slot -> Int]
  <2>1. CASE f.kind = "event"
    <3>1. NextSeq(f.body.seq) \in Int  BY <1>4, <2>1, BrokerAssumption DEF NextSeq
    <3> QED BY <1>2, <2>1, <3>1 DEF Learn, TypeOK
  <2> QED BY <1>2, <2>1 DEF Learn, TypeOK
<1>8. routines' \in [Slot -> SUBSET Name]
  <2>1. \/ routines' = routines
        \/ /\ f.kind = "result"
           /\ routines' = [routines EXCEPT ![c] = @ \cup {f.body.to.what}]
        \/ routines' = [routines EXCEPT ![c] = @ \ {f.body.to.what}]
    BY <1>2 DEF Learn
  <2>2. CASE routines' = routines  BY <2>2 DEF TypeOK
  <2>3. CASE /\ f.kind = "result"
             /\ routines' = [routines EXCEPT ![c] = @ \cup {f.body.to.what}]
    <3>1. f.body.to.what \in Name  BY <1>4, <2>3 DEF Method
    <3> QED BY <2>3, <3>1 DEF TypeOK
  <2>4. CASE routines' = [routines EXCEPT ![c] = @ \ {f.body.to.what}]
    BY <2>4 DEF TypeOK
  <2> QED BY <2>1, <2>2, <2>3, <2>4
<1>9. stage' \in [Slot -> {"new", "asked", "created", "refused"}]
  <2>1. \/ stage' = stage
        \/ stage' = [stage EXCEPT ![c] = "created"]
        \/ stage' = [stage EXCEPT ![c] = "refused"]
    BY <1>2 DEF Learn
  <2> QED BY <2>1 DEF TypeOK
<1> QED BY <1>2, <1>3, <1>5, <1>6, <1>7, <1>8, <1>9 DEF TypeOK, registry, queues

LEMMA ParseType ==
  ASSUME TypeOK, NEW c \in Slot, Parse(c)
  PROVE  TypeOK'
<1>1. inbox' \in [Slot -> Seq(Method)]  BY DEF Parse, TypeOK
<1>2. link' \in [Slot -> {"free", "open", "close_command", "ping_threshold",
                          "connection_closed", "internal_error"}]
  BY DEF Parse, TypeOK
<1>3. methods' \in Seq(Method)
  <2>1. inbox[c] \in Seq(Method)  BY DEF TypeOK
  <2>2. \E s \in Seq(Method) : methods' = methods \o s
    <3>1. CASE methods' = methods \o inbox[c]  BY <2>1, <3>1
    <3>2. CASE \E i \in DOMAIN inbox[c] : methods' = methods \o SubSeq(inbox[c], 1, i - 1)
      <4>1. PICK i \in DOMAIN inbox[c] : methods' = methods \o SubSeq(inbox[c], 1, i - 1)
        BY <3>2
      <4>2. i \in 1 .. Len(inbox[c])  BY <2>1
      <4>3. SubSeq(inbox[c], 1, i - 1) \in Seq(Method)
        BY <2>1, <4>2, SubSeqProperties
      <4> QED BY <4>1, <4>3
    <3> QED BY <3>1, <3>2 DEF Parse
  <2> QED BY <2>2, ConcatProperties DEF TypeOK
<1> QED BY <1>1, <1>2, <1>3 DEF Parse, TypeOK, queues, peer

LEMMA ToggleType ==
  ASSUME TypeOK, NEW T, NEW id \in Id \cup {None}
  PROVE  Toggle(T, id) \in [Slot -> SUBSET (Id \cup {None})]
BY DEF Toggle, TypeOK

LEMMA AnnounceType ==
  ASSUME TypeOK, NEW c \in Slot, Announce(c)
  PROVE  TypeOK'
<1> DEFINE told == Targets(Live, Server, Subscribers, "connected")
           T == {d \in told : Follows(subs[d])}
<1>1. /\ announced' = announced \cup {c}
      /\ Queue(told, Server, "connected", ident[c])
      /\ roster' = Toggle(T, ident[c])
      /\ UNCHANGED <<phase, running, link, ident, accepted, subs, cmds, zlib,
                     pinged, inbox, outbuf, methods, requests, results, waits,
                     peer>>
  BY DEF Announce, SendConnected
<1>2. ident[c] \in Id \cup {None} /\ "connected" \in Name
  BY DEF TypeOK, Name, ServerEvent, Presence
<1> HIDE DEF told, T
<1>3. events' \in [Slot -> Seq(Notice)] /\ eseq' \in [Slot -> Int]
  BY <1>1, <1>2, QueueType
<1>4. roster' \in [Slot -> SUBSET (Id \cup {None})]
  BY <1>1, <1>2, ToggleType
<1> QED BY <1>1, <1>3, <1>4 DEF TypeOK, peer

LEMMA FailWaitType ==
  ASSUME TypeOK, NEW d \in Slot, NEW c \in Slot, FailWait(d, c)
  PROVE  TypeOK'
<1> DEFINE w == Oldest(Orphans(d, c))
<1>1. w \in Orphans(d, c)
  BY OldestExists DEF FailWait, Orphans, TypeOK
<1>2. w \in Method  BY <1>1 DEF Orphans, TypeOK
<1>3. /\ waits' = [waits EXCEPT ![c] = @ \ {w}]
      /\ results' = [results EXCEPT ![c] = Append(@, Answered(w, -1, 0))]
      /\ UNCHANGED <<phase, running, registry, inbox, outbuf, methods, requests,
                     events, eseq, peer, roster>>
  BY DEF FailWait
<1> HIDE DEF w
<1>4. waits' \in [Slot -> SUBSET Method]  BY <1>3 DEF TypeOK
<1>5. Answered(w, -1, 0) \in Answer  BY <1>2 DEF Answered, Answer
<1>6. results' \in [Slot -> Seq(Answer)]  BY <1>3, <1>5 DEF TypeOK
<1> QED BY <1>3, <1>4, <1>6 DEF TypeOK, registry, peer

LEMMA CleanupType ==
  ASSUME TypeOK, NEW d \in Slot, Cleanup(d)
  PROVE  TypeOK'
<1> DEFINE told == {c \in Targets(Live \ {d}, Server, Subscribers, "disconnected") :
                      d \in announced}
           T == {c \in told : Follows(subs[c])}
<1>1. /\ link' = [link EXCEPT ![d] = "free"]
      /\ ident' = [ident EXCEPT ![d] = None]
      /\ accepted' = accepted \ {d} /\ announced' = announced \ {d}
      /\ zlib' = zlib \ {d} /\ pinged' = pinged \ {d}
      /\ subs' = [subs EXCEPT ![d] = {}] /\ cmds' = [cmds EXCEPT ![d] = {}]
      /\ inbox' = [inbox EXCEPT ![d] = << >>]
      /\ outbuf' = [outbuf EXCEPT ![d] = << >>]
      /\ requests' = [requests EXCEPT ![d] = << >>]
      /\ results' = [results EXCEPT ![d] = << >>]
      /\ waits' = [waits EXCEPT ![d] = {}]
  BY DEF Cleanup, Destroy
<1>2. /\ events' = [c \in Slot |->
           IF c = d THEN << >>
           ELSE IF c \in told
           THEN Append(events[c], [source |-> Server, what |-> "disconnected",
                                   about |-> ident[d], seq |-> eseq[c]])
           ELSE events[c]]
      /\ eseq' = [c \in Slot |-> IF c = d THEN SeqStart
                    ELSE IF c \in told THEN NextSeq(eseq[c]) ELSE eseq[c]]
  BY DEF Cleanup, SendDisconnected
<1>3. roster' = [Toggle(T, ident[d]) EXCEPT ![d] = {}]
  BY DEF Cleanup
<1>4. /\ stage' = [stage EXCEPT ![d] = "new"]
      /\ owed' = [owed EXCEPT ![d] = {}] /\ held' = [held EXCEPT ![d] = {}]
      /\ routines' = [routines EXCEPT ![d] = {}]
      /\ heard' = [heard EXCEPT ![d] = SeqStart]
      /\ UNCHANGED <<phase, running, methods, frames>>
  BY DEF Cleanup
<1> HIDE DEF told, T
<1>5. ident[d] \in Id \cup {None}  BY DEF TypeOK
<1>6. /\ link' \in [Slot -> {"free", "open", "close_command", "ping_threshold",
                             "connection_closed", "internal_error"}]
      /\ ident' \in [Slot -> Id \cup {None}]
      /\ accepted' \in SUBSET Slot /\ announced' \in SUBSET Slot
      /\ zlib' \in SUBSET Slot /\ pinged' \in SUBSET Slot
      /\ subs' \in [Slot -> SUBSET (Party \X Name)]
      /\ cmds' \in [Slot -> SUBSET Name]
  BY <1>1 DEF TypeOK
<1>7. /\ inbox' \in [Slot -> Seq(Method)]
      /\ outbuf' \in [Slot -> Seq(Out)]
      /\ requests' \in [Slot -> Seq(Request)]
      /\ results' \in [Slot -> Seq(Answer)]
      /\ waits' \in [Slot -> SUBSET Method]
  BY <1>1 DEF TypeOK
<1>8. events' \in [Slot -> Seq(Notice)]
  <2>1. ASSUME NEW c \in Slot
        PROVE  Append(events[c], [source |-> Server, what |-> "disconnected",
                       about |-> ident[d], seq |-> eseq[c]]) \in Seq(Notice)
    <3>1. "disconnected" \in Name  BY DEF Name, ServerEvent, Presence
    <3>2. [source |-> Server, what |-> "disconnected", about |-> ident[d],
           seq |-> eseq[c]] \in Notice
      BY <1>5, <3>1 DEF Notice, TypeOK
    <3> QED BY <3>2 DEF TypeOK
  <2> QED BY <1>2, <2>1 DEF TypeOK
<1>9. eseq' \in [Slot -> Int]
  <2>1. \A c \in Slot : NextSeq(eseq[c]) \in Int
    BY BrokerAssumption DEF NextSeq, TypeOK
  <2> QED BY <1>2, <2>1, BrokerAssumption DEF TypeOK
<1>10. roster' \in [Slot -> SUBSET (Id \cup {None})]
  BY <1>3, <1>5, ToggleType
<1>11. /\ stage' \in [Slot -> {"new", "asked", "created", "refused"}]
       /\ owed' \in [Slot -> SUBSET Method]
       /\ held' \in [Slot -> SUBSET Request]
       /\ routines' \in [Slot -> SUBSET Name]
       /\ heard' \in [Slot -> Int]
  BY <1>4, BrokerAssumption DEF TypeOK
<1> QED BY <1>4, <1>6, <1>7, <1>8, <1>9, <1>10, <1>11 DEF TypeOK

LEMMA InitType == Init => TypeOK
BY BrokerAssumption DEF Init, TypeOK

LEMMA NextType == TypeOK /\ [Next]_vars => TypeOK'
<1> SUFFICES ASSUME TypeOK, [Next]_vars PROVE TypeOK'
  OBVIOUS
<1>1. CASE UNCHANGED vars
  BY <1>1 DEF vars, registry, queues, peer, TypeOK
<1>2. CASE HandleMethod
  BY <1>2, CreateType, SubscribeType, UnsubscribeType, RegisterType, PublishType,
     QueryType, CloseType, CallType, ResultType, PhaseType DEF HandleMethod
<1>3. CASE Pass
  BY <1>2, <1>3, PhaseType, PrepareType, ParseType, AnnounceType, FailWaitType,
     CleanupType DEF Pass
<1>4. CASE Next
  BY <1>3, <1>4, ConnectionType, WriteType, ReadType, ReplyType, PhaseType
     DEF Next
<1> QED BY <1>1, <1>4

\* Every variable keeps its type: no handler queues an event, a result or a
\* request of a client without an identifier, whatever clients send and in
\* whatever order.
THEOREM TypeCorrect == Spec => []TypeOK
<1>1. Init => TypeOK  BY InitType
<1>2. TypeOK /\ [Next]_vars => TypeOK'  BY NextType
<1> QED BY <1>1, <1>2, PTL DEF Spec

-----------------------------------------------------------------------------
(* What whole groups of actions leave alone. *)

\* Steps of a pass that touch neither the list of clients nor what is on it.
Quiet ==
  \/ CheckPing \/ PrepareOut \/ ReadDone \/ WriteDone \/ ParseDone
  \/ HandleDone \/ StatusDone \/ CleanupDone \/ Halted
  \/ \E c \in Slot : HangUp(c) \/ Write(c)

LEMMA NextCases ==
  ASSUME [Next]_vars
  PROVE  \/ HandleMethod
         \/ Quiet
         \/ \E c \in Slot : \/ Accept(c) \/ Parse(c) \/ Announce(c) \/ Cleanup(c)
                            \/ \E f \in Frames : Read(c, f)
                            \/ \E r \in held[c] : Reply(c, r)
                            \/ \E d \in Slot : FailWait(d, c)
         \/ UNCHANGED vars
BY DEF Next, Pass, Quiet

LEMMA HandlerFrame ==
  ASSUME Bookkeeping, HandleMethod
  PROVE  /\ phase = "handle" /\ phase' \in {"handle", "crashed"}
         /\ methods' = Tail(methods) \/ methods' = methods
         /\ methods # << >>
         /\ UNCHANGED <<inbox, accepted, announced>>
         /\ Live' = Live
<1>1. phase \in {"top", "handle"} /\ methods # << >>
  BY DEF HandleMethod, HandleCreate, HandleSubscribe, HandleUnsubscribe,
         HandleRegister, HandleUnregister, CrashInUnregister, HandlePublish,
         HandleEvent, HandleQuery, HandleClose, HandleCall, HandleResult, Take,
         SetIdentifier, AddSubscription, DelSubscription, AddCommand,
         DelCommand
<1>2. phase = "handle"  BY <1>1 DEF Bookkeeping, Drained
<1>3. CASE \E op : Take(op)
  <2>1. link' = link \/ HandleClose
    BY <1>3 DEF HandleMethod, HandleCreate, HandleSubscribe, HandleUnsubscribe,
       HandleRegister, HandleUnregister, CrashInUnregister, HandlePublish,
       HandleEvent, HandleQuery, HandleCall, HandleResult, registry,
       SetIdentifier, AddSubscription, DelSubscription, AddCommand, DelCommand
  <2>2. HandleClose => Live' = Live
    BY DEF HandleClose, Live, Named
  <2>3. Live' = Live  BY <2>1, <2>2 DEF Live
  <2> QED BY <1>1, <1>2, <1>3, <2>3 DEF Take
<1>4. CASE CrashInUnregister
  BY <1>1, <1>2, <1>4 DEF CrashInUnregister, registry, Live
<1> QED
  BY <1>3, <1>4 DEF HandleMethod, HandleCreate, HandleSubscribe, HandleUnsubscribe,
     HandleRegister, HandleUnregister, HandlePublish, HandleEvent, HandleQuery,
     HandleClose, HandleCall, HandleResult, SetIdentifier, AddSubscription,
     DelSubscription, AddCommand, DelCommand

LEMMA QuietFrame ==
  ASSUME Bookkeeping, Quiet
  PROVE  /\ Live' = Live /\ Open' \subseteq Open
         /\ UNCHANGED <<ident, subs, announced, inbox, methods, waits, roster>>
<1>1. CASE CheckPing
  BY <1>1 DEF CheckPing, Live, Open, queues, peer
<1>2. CASE PrepareOut
  BY <1>2 DEF PrepareOut, Live, Open, registry, peer
<1>3. CASE ReadDone \/ WriteDone \/ ParseDone \/ StatusDone \/ CleanupDone
  BY <1>3 DEF ReadDone, WriteDone, ParseDone, StatusDone, CleanupDone, Live,
     Open, registry, queues
<1>4. CASE HandleDone
  BY <1>4 DEF HandleDone, Live, Open, queues
<1>5. CASE Halted
  BY <1>5 DEF Halted, vars, Live, Open, registry, queues
<1>6. ASSUME NEW c \in Slot, HangUp(c)
      PROVE  /\ Live' = Live /\ Open' \subseteq Open
             /\ UNCHANGED <<ident, subs, announced, inbox, methods, waits, roster>>
  BY <1>6 DEF HangUp, Live, Open, queues, Bookkeeping, TypeOK
<1>7. ASSUME NEW c \in Slot, Write(c)
      PROVE  /\ Live' = Live /\ Open' \subseteq Open
             /\ UNCHANGED <<ident, subs, announced, inbox, methods, waits, roster>>
  BY <1>7 DEF Write, Live, Open, registry, queues
<1> QED BY <1>1, <1>2, <1>3, <1>4, <1>5, <1>6, <1>7 DEF Quiet

\* The steps of a client or for a client, one at a time.
LEMMA ReceiveFrame ==
  ASSUME Bookkeeping, NEW c \in Slot,
         \/ \E f \in Frames : Read(c, f)
         \/ \E r \in held[c] : Reply(c, r)
  PROVE  /\ phase = "poll" /\ c \in Open
         /\ \E m \in Method : m.src = c /\ inbox' = [inbox EXCEPT ![c] = Append(@, m)]
         /\ UNCHANGED <<phase, link, ident, accepted, announced, subs, methods,
                        waits, roster>>
         /\ Live' = Live /\ Open' = Open
<1>1. PICK f \in Frame, re \in Nat : Receive(c, f, re)
  <2>1. CASE \E f \in Frames : Read(c, f)
    BY <2>1, BrokerAssumption DEF Read
  <2>2. CASE \E r \in held[c] : Reply(c, r)
    <3>1. PICK r \in held[c] : Reply(c, r)  BY <2>2
    <3> DEFINE f == [op |-> "result", who |-> r.from, what |-> r.what,
                     seq |-> r.seq, opt |-> {}]
    <3>2. r \in Request  BY DEF Bookkeeping, TypeOK
    <3>3. f \in Frame /\ r.tag \in Nat
      BY <3>2 DEF Request, Frame, Op, Party
    <3> QED BY <3>1, <3>3 DEF Reply
  <2> QED BY <2>1, <2>2
<1> DEFINE m == [src |-> c, tag |-> frames + 1, re |-> re, op |-> f.op,
                 who |-> f.who, what |-> f.what, seq |-> f.seq, opt |-> f.opt]
<1>2. m \in Method /\ m.src = c  BY DEF Bookkeeping, TypeOK, Frame, Method
<1>3. inbox' = [inbox EXCEPT ![c] = Append(@, m)]  BY <1>1 DEF Receive
<1> HIDE DEF m
<1> QED BY <1>1, <1>2, <1>3 DEF Receive, registry, queues, Live, Open

LEMMA ParseFrame ==
  ASSUME Bookkeeping, NEW c \in Slot, Parse(c)
  PROVE  /\ phase = "parse" /\ phase' = "parse"
         /\ inbox[c] # << >> /\ inbox' = [inbox EXCEPT ![c] = << >>]
         /\ methods' \in Seq(Method)
         /\ \A i \in DOMAIN methods' :
              methods'[i].src = c \/ \E j \in DOMAIN methods : methods'[i] = methods[j]
         /\ UNCHANGED <<ident, accepted, announced, subs, waits, roster>>
         /\ c \in Live /\ Live' = Live
<1> DEFINE s == inbox[c]
<1>1. s \in Seq(Method) /\ methods \in Seq(Method)  BY DEF Bookkeeping, TypeOK
<1>2. \A i \in DOMAIN s : s[i].src = c  BY DEF Bookkeeping, OwnFrames
<1>3. \E n \in 0 .. Len(s) : methods' = methods \o SubSeq(s, 1, n)
  <2>1. CASE methods' = methods \o s
    <3>1. s = SubSeq(s, 1, Len(s))  BY <1>1
    <3>2. Len(s) \in 0 .. Len(s)  BY <1>1
    <3> HIDE DEF s
    <3> QED BY <2>1, <3>1, <3>2
  <2>2. CASE \E i \in DOMAIN s : methods' = methods \o SubSeq(s, 1, i - 1)
    <3>1. PICK i \in DOMAIN s : methods' = methods \o SubSeq(s, 1, i - 1)  BY <2>2
    <3>2. i - 1 \in 0 .. Len(s)  BY <1>1
    <3> HIDE DEF s
    <3> QED BY <3>1, <3>2
  <2> QED BY <2>1, <2>2 DEF Parse
<1>4. PICK n \in 0 .. Len(s) : methods' = methods \o SubSeq(s, 1, n)  BY <1>3
<1>5. c \in Live  BY DEF Parse, Bookkeeping, FreeSlots
<1>6. link' = link \/ link' = [link EXCEPT ![c] = "internal_error"]
  BY DEF Parse
<1>7. Live' = Live  BY <1>5, <1>6 DEF Live, Bookkeeping, TypeOK
<1> HIDE DEF s
<1>8. /\ SubSeq(s, 1, n) \in Seq(Method) /\ Len(SubSeq(s, 1, n)) = n
      /\ \A i \in 1 .. n : SubSeq(s, 1, n)[i] = s[i]
  BY <1>1, <1>4, SubSeqProperties
<1>9. \A i \in DOMAIN methods' :
        methods'[i].src = c \/ \E j \in DOMAIN methods : methods'[i] = methods[j]
  BY <1>1, <1>2, <1>4, <1>8
<1>10. methods' \in Seq(Method)
  BY <1>1, <1>4, <1>8, ConcatProperties
<1> QED BY <1>5, <1>7, <1>9, <1>10 DEF Parse, queues

LEMMA CleanupFrame ==
  ASSUME Bookkeeping, NEW d \in Slot, Cleanup(d)
  PROVE  /\ phase = "cleanup" /\ UNCHANGED <<phase, methods>>
         /\ d \in Dead /\ Live' = Live \ {d} /\ Open' = Open /\ Dead' = Dead \ {d}
         /\ ident' = [ident EXCEPT ![d] = None] /\ subs' = [subs EXCEPT ![d] = {}]
         /\ waits' = [waits EXCEPT ![d] = {}] /\ inbox' = [inbox EXCEPT ![d] = << >>]
         /\ announced' = announced \ {d} /\ accepted' = accepted \ {d}
         /\ \A c \in Live \ {d} : Orphans(d, c) = {}
<1>1. d \in Dead /\ link' = [link EXCEPT ![d] = "free"]
  BY DEF Cleanup, Destroy
<1>2. Live' = Live \ {d} /\ Open' = Open /\ Dead' = Dead \ {d}
  BY <1>1 DEF Live, Open, Dead, Bookkeeping, TypeOK
<1> QED BY <1>1, <1>2 DEF Cleanup, Destroy, SendDisconnected

LEMMA FailWaitFrame ==
  ASSUME Bookkeeping, NEW d \in Slot, NEW c \in Slot, FailWait(d, c)
  PROVE  /\ UNCHANGED <<phase, link, ident, accepted, announced, subs, inbox,
                        methods, roster>>
         /\ \A k \in Slot : waits'[k] \subseteq waits[k]
         /\ Live' = Live /\ Open' = Open /\ Dead' = Dead
BY DEF FailWait, registry, Live, Open, Dead, Bookkeeping, TypeOK

LEMMA AcceptFrame ==
  ASSUME Bookkeeping, NEW c \in Slot, Accept(c)
  PROVE  /\ phase = "poll" /\ c \notin Live
         /\ Live' = Live \cup {c} /\ Open' = Open \cup {c} /\ Dead' = Dead
         /\ UNCHANGED <<phase, ident, accepted, announced, subs, inbox, methods,
                        waits, roster>>
BY DEF Accept, queues, Live, Open, Dead, Bookkeeping, TypeOK

LEMMA AnnounceFrame ==
  ASSUME Bookkeeping, NEW c \in Slot, Announce(c)
  PROVE  /\ phase = "status" /\ c \in Open /\ ident[c] # None /\ c \notin announced
         /\ announced' = announced \cup {c}
         /\ UNCHANGED <<phase, link, ident, accepted, subs, inbox, methods, waits>>
         /\ Live' = Live /\ Open' = Open /\ Dead' = Dead
BY DEF Announce, Unannounced, Live, Open, Dead, SendConnected

-----------------------------------------------------------------------------
(* One lemma per conjunct of Bookkeeping. *)

LEMMA InitBookkeeping == Init => Bookkeeping
<1> SUFFICES ASSUME Init PROVE Bookkeeping
  OBVIOUS
<1>1. TypeOK  BY InitType
<1>2. Live = {} /\ Open = {} /\ Dead = {}  BY DEF Init, Live, Open, Dead
<1>3. Drained  BY <1>2 DEF Init, Drained
<1> QED
  BY <1>1, <1>2, <1>3 DEF Init, Bookkeeping, UniqueIdentifiers, FreeSlots,
     OwnFrames, WaitsNamed, Announcements, Rosters

LEMMA OwnFramesStep == Bookkeeping /\ [Next]_vars => OwnFrames'
<1> SUFFICES ASSUME Bookkeeping, [Next]_vars PROVE OwnFrames'
  OBVIOUS
<1> USE DEF Bookkeeping, OwnFrames
<1>1. CASE UNCHANGED inbox  BY <1>1
<1>2. ASSUME NEW c \in Slot, NEW m \in Method,
             m.src = c, inbox' = [inbox EXCEPT ![c] = Append(@, m)]
      PROVE  OwnFrames'
  BY SMTT(30), <1>2 DEF TypeOK
<1>3. ASSUME NEW c \in Slot, inbox' = [inbox EXCEPT ![c] = << >>]
      PROVE  OwnFrames'
  BY <1>3 DEF TypeOK
<1> QED
  BY <1>1, <1>2, <1>3, NextCases, HandlerFrame, QuietFrame, ReceiveFrame,
     ParseFrame, CleanupFrame, FailWaitFrame, AcceptFrame, AnnounceFrame
     DEF vars

LEMMA DrainedStep == Bookkeeping /\ [Next]_vars => Drained'
<1> SUFFICES ASSUME Bookkeeping, [Next]_vars PROVE Drained'
  OBVIOUS
<1> USE DEF Bookkeeping
<1>1. ASSUME HandleMethod PROVE Drained'
  <2>1. /\ phase' \in {"handle", "crashed"} /\ Live' = Live
        /\ methods' = Tail(methods) \/ methods' = methods
        /\ methods # << >>
    BY <1>1, HandlerFrame
  <2>2. \A i \in DOMAIN methods' : \E j \in DOMAIN methods : methods'[i] = methods[j]
    <3>1. methods \in Seq(Method)  BY DEF TypeOK
    <3>2. CASE methods' = Tail(methods)
      <4>1. /\ Len(methods') = Len(methods) - 1 /\ methods' \in Seq(Method)
            /\ \A i \in 1 .. Len(methods') : methods'[i] = methods[i + 1]
        BY <2>1, <3>1, <3>2, HeadTailProperties
      <4> QED BY <3>1, <4>1
    <3> QED BY <2>1, <3>2
  <2> QED BY <2>1, <2>2 DEF Drained
<1>2. ASSUME Quiet PROVE Drained'
  <2>1. Live' = Live /\ Open' \subseteq Open /\ methods' = methods
    BY <1>2, QuietFrame
  <2>2. \/ UNCHANGED phase /\ phase \notin {"top", "stopped"}
        \/ UNCHANGED <<phase, link>>
        \/ phase = "top" /\ phase' = "out"
        \/ phase = "out" /\ phase' = "poll"
        \/ phase = "poll" /\ phase' = "write"
        \/ phase = "write" /\ phase' = "parse"
        \/ phase = "parse" /\ phase' = "handle"
        \/ phase = "handle" /\ phase' = "status" /\ methods = << >>
        \/ phase = "status" /\ phase' = "cleanup"
        \/ /\ phase = "cleanup" /\ phase' \in {"top", "stopped"}
           /\ Dead = {} /\ UNCHANGED link
    BY <1>2 DEF Quiet, CheckPing, PrepareOut, ReadDone, WriteDone, ParseDone,
       HandleDone, StatusDone, CleanupDone, Halted, HangUp, Write, registry, vars
  <2>3. UNCHANGED link => Dead' = Dead  BY DEF Dead, Live, Open
  <2> QED BY <2>1, <2>2, <2>3 DEF Drained
<1>3. ASSUME NEW c \in Slot, Parse(c) PROVE Drained'
  <2>1. /\ phase' = "parse" /\ c \in Live /\ Live' = Live
        /\ \A i \in DOMAIN methods' :
             methods'[i].src = c \/ \E j \in DOMAIN methods : methods'[i] = methods[j]
    BY <1>3, ParseFrame
  <2> QED BY <2>1 DEF Drained
<1>4. ASSUME NEW c \in Slot, Cleanup(c) PROVE Drained'
  <2>1. phase' = "cleanup" /\ methods' = << >>
    BY <1>4, CleanupFrame DEF Drained
  <2> QED BY <2>1 DEF Drained
<1>5. ASSUME UNCHANGED <<phase, methods>>, Live \subseteq Live',
             phase \notin {"top", "stopped"}
      PROVE  Drained'
  BY <1>5 DEF Drained
<1>6. ASSUME NEW c \in Slot, Accept(c) PROVE Drained'
  BY <1>5, <1>6, AcceptFrame
<1>7. ASSUME NEW c \in Slot, Announce(c) PROVE Drained'
  BY <1>5, <1>7, AnnounceFrame
<1>8. ASSUME NEW c \in Slot, NEW d \in Slot, FailWait(d, c) PROVE Drained'
  <2>1. phase = "cleanup"  BY <1>8 DEF FailWait
  <2> QED BY <1>5, <1>8, <2>1, FailWaitFrame
<1>9. ASSUME NEW c \in Slot,
             \/ \E f \in Frames : Read(c, f)
             \/ \E r \in held[c] : Reply(c, r)
      PROVE  Drained'
  BY <1>5, <1>9, ReceiveFrame
<1>10. CASE UNCHANGED vars
  BY <1>10 DEF vars, registry, Drained, Live, Open, Dead
<1> QED BY <1>1, <1>2, <1>3, <1>4, <1>6, <1>7, <1>8, <1>9, <1>10, NextCases

\* The variables a handler may change, and how.
LEMMA HandlerSender ==
  ASSUME Bookkeeping, methods # << >>
  PROVE  Head(methods).src \in Live
<1>1. methods \in Seq(Method) /\ 1 \in DOMAIN methods /\ Head(methods) = methods[1]
  BY HeadTailProperties DEF Bookkeeping, TypeOK
<1> QED BY <1>1 DEF Bookkeeping, Drained

LEMMA HandlerIdent ==
  ASSUME Bookkeeping, HandleMethod
  PROVE  \/ UNCHANGED ident
         \/ \E s \in Live, id \in Id : /\ ident[s] = None /\ Named(id) = {}
                                       /\ ident' = [ident EXCEPT ![s] = id]
<1>1. CASE HandleCreate
  <2>1. Head(methods).src \in Live  BY <1>1, HandlerSender DEF HandleCreate, Take
  <2> QED BY <1>1, <2>1 DEF HandleCreate, SetIdentifier
<1>2. CASE ~HandleCreate
  BY <1>2 DEF HandleMethod, HandleSubscribe, HandleUnsubscribe, HandleRegister,
     HandleUnregister, CrashInUnregister, HandlePublish, HandleEvent, HandleQuery,
     HandleClose, HandleCall, HandleResult, registry, AddSubscription,
     DelSubscription, AddCommand, DelCommand
<1> QED BY <1>1, <1>2

LEMMA HandlerSubs ==
  ASSUME Bookkeeping, HandleMethod
  PROVE  \/ UNCHANGED <<subs, roster>>
         \/ \E s \in Live : \E S : subs' = [subs EXCEPT ![s] = S] /\ Follow(s)
<1>1. CASE HandleSubscribe \/ HandleUnsubscribe
  <2>1. Head(methods).src \in Live
    BY <1>1, HandlerSender DEF HandleSubscribe, HandleUnsubscribe, Take
  <2> QED BY <1>1, <2>1 DEF HandleSubscribe, HandleUnsubscribe, AddSubscription,
                            DelSubscription
<1>2. CASE ~(HandleSubscribe \/ HandleUnsubscribe)
  BY <1>2 DEF HandleMethod, HandleCreate, HandleRegister, HandleUnregister,
     CrashInUnregister, HandlePublish, HandleEvent, HandleQuery, HandleClose,
     HandleCall, HandleResult, registry, SetIdentifier, AddCommand, DelCommand
<1> QED BY <1>1, <1>2

LEMMA HandlerWaits ==
  ASSUME Bookkeeping, HandleMethod
  PROVE  \/ \A k \in Slot : waits'[k] \subseteq waits[k]
         \/ \E s \in Live, m \in Method :
              /\ Named(m.who) # {}
              /\ waits' = [waits EXCEPT ![s] = @ \cup {m}]
<1>1. CASE HandleCall
  <2>1. Head(methods).src \in Live /\ Head(methods) \in Method
    BY <1>1, HandlerSender, HeadType DEF HandleCall, Take, Bookkeeping
  <2> QED BY <1>1, <2>1 DEF HandleCall
<1>2. CASE HandleResult
  <2>1. \/ UNCHANGED waits
        \/ \E c \in Slot : \E w : waits' = [waits EXCEPT ![c] = @ \ {w}]
    BY <1>2 DEF HandleResult, Named, Live
  <2>2. waits \in [Slot -> SUBSET Method]  BY DEF Bookkeeping, TypeOK
  <2> QED BY <2>1, <2>2
<1>3. CASE ~(HandleCall \/ HandleResult)
  BY <1>3 DEF HandleMethod, HandleCreate, HandleSubscribe, HandleUnsubscribe,
     HandleRegister, HandleUnregister, CrashInUnregister, HandlePublish,
     HandleEvent, HandleQuery, HandleClose, queues, SetIdentifier,
     AddSubscription, DelSubscription, AddCommand, DelCommand
<1> QED BY <1>1, <1>2, <1>3

LEMMA HandlerOpen ==
  ASSUME Bookkeeping, HandleMethod
  PROVE  Open' \subseteq Open
<1>1. CASE HandleClose  BY <1>1 DEF HandleClose, Open
<1>2. CASE ~HandleClose
  BY <1>2 DEF HandleMethod, HandleCreate, HandleSubscribe, HandleUnsubscribe,
     HandleRegister, HandleUnregister, CrashInUnregister, HandlePublish,
     HandleEvent, HandleQuery, HandleCall, HandleResult, registry, Open,
     SetIdentifier, AddSubscription, DelSubscription, AddCommand, DelCommand
<1> QED BY <1>1, <1>2

LEMMA UniqueIdentifiersStep ==
  Bookkeeping /\ [Next]_vars => UniqueIdentifiers'
<1> SUFFICES ASSUME Bookkeeping, [Next]_vars PROVE UniqueIdentifiers'
  OBVIOUS
<1> USE DEF Bookkeeping
<1>1. ASSUME Live' \subseteq Live, UNCHANGED ident PROVE UniqueIdentifiers'
  BY <1>1 DEF UniqueIdentifiers
<1>2. ASSUME HandleMethod PROVE UniqueIdentifiers'
  <2>1. Live' = Live  BY <1>2, HandlerFrame
  <2>2. ASSUME NEW s \in Live, NEW id \in Id, ident[s] = None, Named(id) = {},
               ident' = [ident EXCEPT ![s] = id]
        PROVE  UniqueIdentifiers'
    <3>1. id # None  BY BrokerAssumption
    <3>2. \A c \in Live : ident[c] # id  BY <2>2, <3>1 DEF Named
    <3> QED BY <2>1, <2>2, <3>2 DEF UniqueIdentifiers, TypeOK, Live
  <2> QED BY <1>1, <1>2, <2>1, <2>2, HandlerIdent
<1>3. ASSUME NEW c \in Slot, Accept(c) PROVE UniqueIdentifiers'
  <2>1. ident[c] = None  BY <1>3, AcceptFrame DEF FreeSlots
  <2> QED BY <1>3, <2>1, AcceptFrame DEF UniqueIdentifiers
<1>4. ASSUME NEW c \in Slot, Cleanup(c) PROVE UniqueIdentifiers'
  <2>1. Live' = Live \ {c} /\ ident' = [ident EXCEPT ![c] = None]
    BY <1>4, CleanupFrame
  <2>2. \A k \in Live' : ident'[k] = ident[k]
    BY <2>1 DEF TypeOK, Live
  <2> QED BY <2>1, <2>2 DEF UniqueIdentifiers
<1>5. CASE UNCHANGED vars  BY <1>1, <1>5 DEF vars, registry, Live
<1> QED
  BY <1>1, <1>2, <1>3, <1>4, <1>5, NextCases, QuietFrame, ReceiveFrame,
     ParseFrame, FailWaitFrame, AnnounceFrame

LEMMA FreeSlotsStep == Bookkeeping /\ [Next]_vars => FreeSlots'
<1> SUFFICES ASSUME Bookkeeping, [Next]_vars PROVE FreeSlots'
  OBVIOUS
<1> USE DEF Bookkeeping
<1>1. ASSUME Live \subseteq Live',
             UNCHANGED <<ident, subs, waits, inbox, announced>>
      PROVE  FreeSlots'
  BY <1>1 DEF FreeSlots
<1>2. ASSUME HandleMethod PROVE FreeSlots'
  <2>1. Live' = Live /\ UNCHANGED <<inbox, announced>>  BY <1>2, HandlerFrame
  <2> SUFFICES ASSUME NEW c \in Slot, c \notin Live
               PROVE  ident'[c] = None /\ subs'[c] = {} /\ waits'[c] = {}
    BY <2>1 DEF FreeSlots
  <2>2. ident'[c] = ident[c]  BY <1>2, HandlerIdent DEF TypeOK
  <2>3. subs'[c] = subs[c]  BY <1>2, HandlerSubs DEF TypeOK
  <2>4. waits'[c] \subseteq waits[c]  BY <1>2, HandlerWaits DEF TypeOK
  <2> QED BY <2>2, <2>3, <2>4 DEF FreeSlots
<1>3. ASSUME NEW c \in Slot, \/ \E f \in Frames : Read(c, f)
                             \/ \E r \in held[c] : Reply(c, r)
      PROVE  FreeSlots'
  <2>1. /\ c \in Live /\ Live' = Live
        /\ UNCHANGED <<ident, subs, waits, announced>>
        /\ \E m : inbox' = [inbox EXCEPT ![c] = Append(@, m)]
    BY <1>3, ReceiveFrame DEF Open, Live
  <2>2. \A k \in Slot \ Live : inbox'[k] = inbox[k]  BY <2>1 DEF TypeOK
  <2> QED BY <2>1, <2>2 DEF FreeSlots
<1>4. ASSUME NEW c \in Slot, Parse(c) PROVE FreeSlots'
  <2>1. /\ c \in Live /\ Live' = Live
        /\ UNCHANGED <<ident, subs, waits, announced>>
        /\ inbox' = [inbox EXCEPT ![c] = << >>]
    BY <1>4, ParseFrame
  <2>2. \A k \in Slot \ Live : inbox'[k] = inbox[k]  BY <2>1 DEF TypeOK
  <2> QED BY <2>1, <2>2 DEF FreeSlots
<1>5. ASSUME NEW c \in Slot, Cleanup(c) PROVE FreeSlots'
  <2>1. /\ Live' = Live \ {c} /\ announced' = announced \ {c}
        /\ ident' = [ident EXCEPT ![c] = None] /\ subs' = [subs EXCEPT ![c] = {}]
        /\ waits' = [waits EXCEPT ![c] = {}] /\ inbox' = [inbox EXCEPT ![c] = << >>]
    BY <1>5, CleanupFrame
  <2>2. /\ ident'[c] = None /\ subs'[c] = {} /\ waits'[c] = {}
        /\ inbox'[c] = << >>
    BY <2>1 DEF TypeOK
  <2>3. \A k \in Slot \ {c} : /\ ident'[k] = ident[k] /\ subs'[k] = subs[k]
                               /\ waits'[k] = waits[k] /\ inbox'[k] = inbox[k]
    BY <2>1 DEF TypeOK
  <2> QED BY <2>1, <2>2, <2>3 DEF FreeSlots
<1>6. ASSUME NEW c \in Slot, NEW d \in Slot, FailWait(d, c) PROVE FreeSlots'
  BY <1>6, FailWaitFrame DEF FreeSlots
<1>7. ASSUME NEW c \in Slot, Announce(c) PROVE FreeSlots'
  <2>1. c \in Live  BY <1>7, AnnounceFrame DEF Open, Live
  <2> QED BY <1>7, <2>1, AnnounceFrame DEF FreeSlots
<1>8. CASE UNCHANGED vars  BY <1>1, <1>8 DEF vars, registry, queues, Live
<1> QED
  BY <1>1, <1>2, <1>3, <1>4, <1>5, <1>6, <1>7, <1>8, NextCases, QuietFrame,
     AcceptFrame

LEMMA WaitsNamedStep == Bookkeeping /\ [Next]_vars => WaitsNamed'
<1> SUFFICES ASSUME Bookkeeping, [Next]_vars PROVE WaitsNamed'
  OBVIOUS
<1> USE DEF Bookkeeping
<1>1. ASSUME Live \subseteq Live', UNCHANGED ident,
             \A k \in Slot : waits'[k] \subseteq waits[k]
      PROVE  WaitsNamed'
  BY <1>1 DEF WaitsNamed
<1>2. ASSUME HandleMethod PROVE WaitsNamed'
  <2>1. Live' = Live  BY <1>2, HandlerFrame
  <2>2. \A d \in Live : ident[d] # None => ident'[d] = ident[d]
    BY <1>2, HandlerIdent DEF TypeOK, Live
  <2>3. CASE \A k \in Slot : waits'[k] \subseteq waits[k]
    BY <2>1, <2>2, <2>3 DEF WaitsNamed
  <2>4. ASSUME NEW s \in Live, NEW m \in Method, Named(m.who) # {},
               waits' = [waits EXCEPT ![s] = @ \cup {m}]
        PROVE  WaitsNamed'
    <3>1. m.who # None /\ \E d \in Live : ident'[d] = m.who
      BY <2>2, <2>4 DEF Named
    <3>2. ASSUME NEW c \in Slot, NEW w \in waits'[c]
          PROVE  w = m \/ w \in waits[c]
      BY <2>4, <3>2 DEF TypeOK, Live
    <3> QED BY <2>1, <2>2, <3>1, <3>2 DEF WaitsNamed
  <2> QED BY <1>2, <2>3, <2>4, HandlerWaits
<1>3. ASSUME NEW d \in Slot, Cleanup(d) PROVE WaitsNamed'
  <2>1. /\ Live' = Live \ {d} /\ ident' = [ident EXCEPT ![d] = None]
        /\ waits' = [waits EXCEPT ![d] = {}]
        /\ \A c \in Live \ {d} : Orphans(d, c) = {}
    BY <1>3, CleanupFrame
  <2> SUFFICES ASSUME NEW c \in Slot, NEW w \in waits'[c]
               PROVE  w.who # None /\ \E k \in Live' : ident'[k] = w.who
    BY DEF WaitsNamed
  <2>2. c # d /\ w \in waits[c]  BY <2>1 DEF TypeOK
  <2>3. c \in Live  BY <2>2 DEF FreeSlots
  <2>4. PICK k \in Live : ident[k] = w.who  BY <2>2 DEF WaitsNamed
  <2>5. w.who # None  BY <2>2 DEF WaitsNamed
  <2>6. k # d  BY <2>1, <2>2, <2>3, <2>4, <2>5 DEF Orphans
  <2>7. ident'[k] = ident[k]  BY <2>1, <2>6 DEF TypeOK, Live
  <2> QED BY <2>1, <2>4, <2>5, <2>6, <2>7
<1>4. CASE UNCHANGED vars  BY <1>1, <1>4 DEF vars, registry, queues, Live
<1>5. ASSUME NEW c \in Slot,
             \/ Accept(c) \/ Parse(c) \/ Announce(c)
             \/ \E f \in Frames : Read(c, f)
             \/ \E r \in held[c] : Reply(c, r)
      PROVE  WaitsNamed'
  BY <1>1, <1>5, AcceptFrame, ReceiveFrame, ParseFrame, AnnounceFrame
<1>6. ASSUME NEW c \in Slot, NEW d \in Slot, FailWait(d, c) PROVE WaitsNamed'
  BY <1>1, <1>6, FailWaitFrame
<1>7. ASSUME Quiet PROVE WaitsNamed'
  BY <1>1, <1>7, QuietFrame
<1> QED BY <1>2, <1>3, <1>4, <1>5, <1>6, <1>7, NextCases

LEMMA AnnouncementsStep == Bookkeeping /\ [Next]_vars => Announcements'
<1> SUFFICES ASSUME Bookkeeping, [Next]_vars PROVE Announcements'
  OBVIOUS
<1> USE DEF Bookkeeping
<1>1. ASSUME Open' \subseteq Open, UNCHANGED <<phase, ident, accepted, announced>>
      PROVE  Announcements'
  BY <1>1 DEF Announcements
<1>2. ASSUME HandleMethod PROVE Announcements'
  <2>1. phase' \in {"handle", "crashed"} /\ UNCHANGED announced
    BY <1>2, HandlerFrame
  <2>2. \A d \in announced : ident'[d] # None
    BY <1>2, HandlerIdent, BrokerAssumption DEF Announcements, TypeOK
  <2> QED BY <2>1, <2>2 DEF Announcements
<1>3. ASSUME Quiet PROVE Announcements'
  <2>1. Open' \subseteq Open /\ UNCHANGED <<ident, announced>>
    BY <1>3, QuietFrame
  <2>2. \/ UNCHANGED <<phase, accepted>>
        \/ phase = "top" /\ phase' = "out"
        \/ phase = "out" /\ phase' = "poll"
        \/ phase = "poll" /\ phase' = "write"
        \/ phase' \in {"parse", "handle"}
        \/ phase = "handle" /\ phase' = "status" /\ accepted' = accepted \cup Open
        \/ phase = "status" /\ phase' = "cleanup" /\ Unannounced = {}
        \/ phase = "cleanup" /\ phase' \in {"top", "stopped"}
    BY <1>3 DEF Quiet, CheckPing, PrepareOut, ReadDone, WriteDone, ParseDone,
       HandleDone, StatusDone, CleanupDone, Halted, HangUp, Write, registry, vars
  <2> QED BY <2>1, <2>2 DEF Announcements, Unannounced
<1>4. ASSUME NEW c \in Slot, Accept(c) PROVE Announcements'
  <2>1. ident[c] = None  BY <1>4, AcceptFrame DEF FreeSlots
  <2> QED BY <1>4, <2>1, AcceptFrame DEF Announcements
<1>5. ASSUME NEW c \in Slot, Announce(c) PROVE Announcements'
  BY <1>5, AnnounceFrame DEF Announcements
<1>6. ASSUME NEW d \in Slot, Cleanup(d) PROVE Announcements'
  <2>1. /\ Open' = Open /\ d \in Dead /\ ident' = [ident EXCEPT ![d] = None]
        /\ announced' = announced \ {d} /\ phase = "cleanup" /\ UNCHANGED phase
    BY <1>6, CleanupFrame
  <2>2. \A k \in Slot \ {d} : ident'[k] = ident[k]  BY <2>1 DEF TypeOK
  <2>3. announced \subseteq Slot /\ Open \subseteq Slot /\ d \notin Open
    BY <2>1 DEF TypeOK, Open, Dead
  <2> QED BY <2>1, <2>2, <2>3 DEF Announcements
<1>7. ASSUME NEW c \in Slot, Parse(c) PROVE Announcements'
  BY <1>7, ParseFrame DEF Announcements
<1>8. ASSUME NEW c \in Slot,
             \/ \E f \in Frames : Read(c, f)
             \/ \E r \in held[c] : Reply(c, r)
      PROVE  Announcements'
  BY <1>1, <1>8, ReceiveFrame
<1>9. ASSUME NEW c \in Slot, NEW d \in Slot, FailWait(d, c) PROVE Announcements'
  BY <1>1, <1>9, FailWaitFrame
<1>10. CASE UNCHANGED vars  BY <1>1, <1>10 DEF vars, registry, Open
<1> QED
  BY <1>2, <1>3, <1>4, <1>5, <1>6, <1>7, <1>8, <1>9, <1>10, NextCases

LEMMA RostersStep == Bookkeeping /\ [Next]_vars => Rosters'
<1> SUFFICES ASSUME Bookkeeping, [Next]_vars PROVE Rosters'
  OBVIOUS
<1> USE DEF Bookkeeping
<1>1. ASSUME Live' \subseteq Live,
             UNCHANGED <<ident, subs, announced, roster>>
      PROVE  Rosters'
  BY <1>1 DEF Rosters, Follows
<1>2. ASSUME HandleMethod PROVE Rosters'
  <2>1. Live' = Live /\ announced' = announced  BY <1>2, HandlerFrame
  <2>2. \A d \in announced : ident'[d] = ident[d]
    BY <1>2, HandlerIdent DEF Announcements, TypeOK
  <2>3. {ident'[d] : d \in announced'} = {ident[d] : d \in announced}
    BY <2>1, <2>2
  <2> SUFFICES ASSUME NEW c \in Live, Follows(subs'[c])
               PROVE  roster'[c] = {ident[d] : d \in announced}
    BY <2>1, <2>3 DEF Rosters, Follows
  <2>4. CASE UNCHANGED <<subs, roster>>
    BY <2>4 DEF Rosters
  <2>5. ASSUME NEW s \in Live, NEW S, subs' = [subs EXCEPT ![s] = S], Follow(s)
        PROVE  roster'[c] = {ident[d] : d \in announced}
    <3>1. CASE c # s
      <4>1. subs'[c] = subs[c] /\ roster'[c] = roster[c]
        BY <2>5, <3>1 DEF Follow, TypeOK, Live
      <4> QED BY <4>1 DEF Rosters
    <3>2. CASE c = s
      <4>1. roster'[c] = IF Follows(subs[c]) THEN roster[c]
                         ELSE {ident[d] : d \in announced}
        BY <2>5, <3>2 DEF Follow, TypeOK, Live
      <4> QED BY <4>1 DEF Rosters
    <3> QED BY <3>1, <3>2
  <2> QED BY <1>2, <2>4, <2>5, HandlerSubs
<1>3. ASSUME NEW c \in Slot, Announce(c) PROVE Rosters'
  <2> DEFINE told == Targets(Live, Server, Subscribers, "connected")
             T == {d \in told : Follows(subs[d])}
             known == {ident[d] : d \in announced}
  <2>1. /\ announced' = announced \cup {c} /\ Live' = Live
        /\ UNCHANGED <<ident, subs>> /\ c \in Live /\ c \notin announced
        /\ ident[c] # None
    BY <1>3, AnnounceFrame DEF Open, Live
  <2>2. roster' = Toggle(T, ident[c])  BY <1>3 DEF Announce
  <2>3. \A k \in Live : Follows(subs[k]) <=> k \in T
    BY BrokerAssumption DEF Targets, Follows, Presence, Server, Subscribers, All
  <2>4. ident[c] \notin known
    <3>1. announced \subseteq Live  BY DEF FreeSlots, TypeOK
    <3> QED BY <2>1, <3>1 DEF UniqueIdentifiers
  <2>5. {ident'[d] : d \in announced'} = known \cup {ident[c]}
    BY <2>1
  <2> HIDE DEF T, known
  <2> SUFFICES ASSUME NEW k \in Live, Follows(subs[k])
               PROVE  roster'[k] = known \cup {ident[c]}
    BY <2>1, <2>5 DEF Rosters, Follows
  <2>6. k \in T /\ k \in Slot  BY <2>3 DEF Live
  <2>7. roster'[k] = (roster[k] \cup {ident[c]}) \ (roster[k] \cap {ident[c]})
    BY <2>2, <2>6 DEF Toggle
  <2>8. roster[k] = known  BY DEF Rosters, known
  <2> QED BY <2>4, <2>7, <2>8
<1>4. ASSUME NEW d \in Slot, Cleanup(d) PROVE Rosters'
  <2> DEFINE told == {c \in Targets(Live \ {d}, Server, Subscribers, "disconnected") :
                        d \in announced}
             T == {c \in told : Follows(subs[c])}
             known == {ident[k] : k \in announced}
  <2>1. /\ Live' = Live \ {d} /\ announced' = announced \ {d} /\ d \in Live
        /\ ident' = [ident EXCEPT ![d] = None] /\ subs' = [subs EXCEPT ![d] = {}]
    BY <1>4, CleanupFrame DEF Dead
  <2>2. roster' = [Toggle(T, ident[d]) EXCEPT ![d] = {}]
    BY <1>4 DEF Cleanup
  <2>3. announced \subseteq Live  BY DEF FreeSlots, TypeOK
  <2>4. \A k \in Slot \ {d} : ident'[k] = ident[k] /\ subs'[k] = subs[k]
    BY <2>1 DEF TypeOK
  <2>5. {ident'[k] : k \in announced'} = {ident[k] : k \in announced \ {d}}
    BY <2>1, <2>3, <2>4 DEF Live
  <2>6. \A k \in Live \ {d} :
          Follows(subs[k]) => (k \in T <=> d \in announced)
    BY BrokerAssumption DEF Targets, Follows, Presence, Server, Subscribers, All
  <2>7. {ident[k] : k \in announced \ {d}} =
          IF d \in announced THEN known \ {ident[d]} ELSE known
    BY <2>3 DEF UniqueIdentifiers, Announcements
  <2>8. d \in announced => ident[d] \in known
    OBVIOUS
  <2> HIDE DEF T, known
  <2> SUFFICES ASSUME NEW k \in Live \ {d}, Follows(subs[k])
               PROVE  roster'[k] = IF d \in announced THEN known \ {ident[d]}
                                   ELSE known
    BY <2>1, <2>4, <2>5, <2>7 DEF Rosters, Follows, Live
  <2>9. roster[k] = known  BY DEF Rosters, known
  <2>10. k \in Slot /\ k # d  BY DEF Live
  <2>11. roster'[k] = Toggle(T, ident[d])[k]
    BY <2>2, <2>10 DEF Toggle
  <2>12. CASE d \in announced
    <3>1. roster'[k] = (roster[k] \cup {ident[d]}) \ (roster[k] \cap {ident[d]})
      BY <2>6, <2>10, <2>11, <2>12 DEF Toggle
    <3> QED BY <2>8, <2>9, <2>12, <3>1
  <2>13. CASE d \notin announced
    <3>1. roster'[k] = roster[k]
      BY <2>6, <2>10, <2>11, <2>13 DEF Toggle
    <3> QED BY <2>9, <2>13, <3>1
  <2> QED BY <2>12, <2>13
<1>5. ASSUME NEW c \in Slot, Accept(c) PROVE Rosters'
  <2>1. subs[c] = {}  BY <1>5, AcceptFrame DEF FreeSlots
  <2>2. ~Follows(subs[c])  BY <2>1 DEF Follows, Matches, Presence
  <2> QED BY <1>5, <2>2, AcceptFrame DEF Rosters, Follows
<1>6. CASE UNCHANGED vars  BY <1>1, <1>6 DEF vars, registry, Live
<1>7. ASSUME NEW c \in Slot, Parse(c) \/ (\E f \in Frames : Read(c, f))
                             \/ (\E r \in held[c] : Reply(c, r))
      PROVE  Rosters'
  BY <1>1, <1>7, ParseFrame, ReceiveFrame
<1>8. ASSUME NEW c \in Slot, NEW d \in Slot, FailWait(d, c) PROVE Rosters'
  BY <1>1, <1>8, FailWaitFrame
<1>9. ASSUME Quiet PROVE Rosters'
  BY <1>1, <1>9, QuietFrame
<1> QED
  BY <1>2, <1>3, <1>4, <1>5, <1>6, <1>7, <1>8, <1>9, NextCases

-----------------------------------------------------------------------------
(* The theorems. *)

\* Bookkeeping holds at every step of every pass.
THEOREM BookkeepingCorrect == Spec => []Bookkeeping
<1>1. Init => Bookkeeping  BY InitBookkeeping
<1>2. Bookkeeping /\ [Next]_vars => Bookkeeping'
  BY NextType, UniqueIdentifiersStep, DrainedStep, FreeSlotsStep, OwnFramesStep,
     WaitsNamedStep, AnnouncementsStep, RostersStep DEF Bookkeeping
<1> QED BY <1>1, <1>2, PTL DEF Spec

\* No two clients the broker has on its list share an identifier, whatever
\* creates and closes meet in a pass: server_find_client_by_identifier has at
\* most one client to find.
THEOREM IdentifiersUnique == Spec => []UniqueIdentifiers
<1>1. Bookkeeping => UniqueIdentifiers  BY DEF Bookkeeping
<1> QED BY <1>1, BookkeepingCorrect, PTL

\* When a pass ends no method is left, no closed client is on the list, and no
\* method ever points to the struct of a client that was freed.
THEOREM NothingLeftOver == Spec => []Drained
<1>1. Bookkeeping => Drained  BY DEF Bookkeeping
<1> QED BY <1>1, BookkeepingCorrect, PTL

\* Between two passes every call that waits, waits for a connected client: the
\* clean-up leaves nobody waiting for a client that went away.
THEOREM NobodyWaitsForTheDead == Spec => []NoOrphanWait
<1>1. Bookkeeping => NoOrphanWait
  <2> SUFFICES ASSUME Bookkeeping, phase = "top", NEW c \in Live, NEW w \in waits[c]
               PROVE  \E d \in Open : ident[d] = w.who
    BY DEF NoOrphanWait
  <2>1. c \in Slot  BY DEF Live
  <2>2. \E d \in Live : ident[d] = w.who  BY <2>1 DEF Bookkeeping, WaitsNamed
  <2>3. Live \subseteq Open  BY DEF Bookkeeping, Drained, Dead
  <2> QED BY <2>2, <2>3
<1> QED BY <1>1, BookkeepingCorrect, PTL

\* The connected and disconnected events tell whoever follows them exactly who
\* is connected, pass for pass: each one is sent once and in pairs.
THEOREM PresenceIsTold == Spec => []PresenceAgrees
<1>1. Bookkeeping => PresenceAgrees
  <2> SUFFICES ASSUME Bookkeeping, phase = "top", NEW c \in Live, Follows(subs[c])
               PROVE  roster[c] = {ident[d] : d \in Live} \ {None}
    BY DEF PresenceAgrees
  <2>1. roster[c] = {ident[d] : d \in announced}  BY DEF Bookkeeping, Rosters
  <2>2. Live \subseteq Open /\ announced \subseteq Live
    BY DEF Bookkeeping, Drained, Dead, FreeSlots, TypeOK
  <2>3. \A d \in announced : ident[d] # None
    BY DEF Bookkeeping, Announcements
  <2>4. \A d \in Live : ident[d] # None => d \in announced
    BY <2>2 DEF Bookkeeping, Announcements
  <2> QED BY <2>1, <2>2, <2>3, <2>4
<1> QED BY <1>1, BookkeepingCorrect, PTL

=============================================================================
