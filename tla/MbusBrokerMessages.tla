------------------------- MODULE MbusBrokerMessages -------------------------
(***************************************************************************)
(* What passes through the broker, for any number of slots and frames.     *)
(*                                                                         *)
(* Commands, calls and their answers: OneAnswer, CallInHand and            *)
(* NoCrossedAnswer.  Calls is the inductive invariant of the first, which  *)
(* follows each command from place to place; Replies adds what a request   *)
(* and the reply to it know of the call they belong to.                    *)
(*                                                                         *)
(* What a client reads: the numbers of its events, and the compression of  *)
(* its frames.  Chained is the inductive invariant behind EventChain, for  *)
(* any behaviour of the peers; Stages is the one behind Decodable, for     *)
(* peers that keep the rules of the client library.                        *)
(***************************************************************************)
EXTENDS MbusBrokerProofs

-----------------------------------------------------------------------------
(* Sequences without repetition, and what is in them. *)

Distinct(s) == \A i, j \in DOMAIN s : s[i] = s[j] => i = j

LEMMA TailContents ==
  ASSUME NEW S, NEW s \in Seq(S), s # << >>
  PROVE  /\ Contents(s) = Contents(Tail(s)) \cup {Head(s)}
         /\ Distinct(s) => Distinct(Tail(s)) /\ Head(s) \notin Contents(Tail(s))
<1>1. /\ Tail(s) \in Seq(S) /\ Len(Tail(s)) = Len(s) - 1 /\ Len(s) \in Nat \ {0}
      /\ \A i \in 1 .. Len(Tail(s)) : Tail(s)[i] = s[i + 1]
      /\ Head(s) = s[1]
  BY HeadTailProperties, EmptySeq
<1>2. DOMAIN s = 1 .. Len(s) /\ DOMAIN Tail(s) = 1 .. Len(s) - 1  BY <1>1
<1> DEFINE t == Tail(s)
<1> HIDE DEF t
<1>3. DOMAIN t = 1 .. Len(s) - 1 /\ \A i \in 1 .. Len(s) - 1 : t[i] = s[i + 1]
  BY <1>1, <1>2 DEF t
<1>4. Contents(s) = Contents(t) \cup {s[1]}
  <2>1. ASSUME NEW i \in DOMAIN s PROVE s[i] \in Contents(t) \cup {s[1]}
    <3>1. CASE i # 1
      <4>1. i - 1 \in DOMAIN t /\ t[i - 1] = s[i]  BY <1>1, <1>2, <1>3, <3>1
      <4> QED BY <4>1 DEF Contents
    <3> QED BY <3>1
  <2>2. ASSUME NEW i \in DOMAIN t PROVE t[i] \in Contents(s)
    BY <1>1, <1>2, <1>3 DEF Contents
  <2> QED BY <1>1, <1>2, <2>1, <2>2 DEF Contents
<1>5. ASSUME Distinct(s) PROVE Distinct(t) /\ s[1] \notin Contents(t)
  <2>1. \A i, j \in DOMAIN t : t[i] = t[j] => i + 1 = j + 1
    BY <1>1, <1>2, <1>3, <1>5 DEF Distinct
  <2>2. \A i \in DOMAIN t : t[i] # s[1]
    BY <1>1, <1>2, <1>3, <1>5 DEF Distinct
  <2>3. \A i, j \in DOMAIN t : i + 1 = j + 1 => i = j
    BY <1>1, <1>3
  <2> QED BY <2>1, <2>2, <2>3 DEF Distinct, Contents
<1> QED BY <1>1, <1>4, <1>5 DEF t

LEMMA ConcatContents ==
  ASSUME NEW S, NEW s \in Seq(S), NEW t \in Seq(S)
  PROVE  /\ Contents(s \o t) = Contents(s) \cup Contents(t)
         /\ Distinct(s) /\ Distinct(t) /\ Contents(s) \cap Contents(t) = {}
              => Distinct(s \o t)
<1> DEFINE u == s \o t
<1>1. /\ u \in Seq(S) /\ Len(u) = Len(s) + Len(t)
      /\ \A i \in 1 .. Len(s) + Len(t) :
           u[i] = IF i <= Len(s) THEN s[i] ELSE t[i - Len(s)]
  BY ConcatProperties
<1> HIDE DEF u
<1>2. /\ DOMAIN s = 1 .. Len(s) /\ DOMAIN t = 1 .. Len(t) /\ Len(s) \in Nat /\ Len(t) \in Nat
      /\ DOMAIN u = 1 .. Len(s) + Len(t)
  BY <1>1
<1>3. \A i \in DOMAIN s : i \in DOMAIN u /\ u[i] = s[i]
  BY <1>1, <1>2
<1>4. \A i \in DOMAIN t : Len(s) + i \in DOMAIN u /\ u[Len(s) + i] = t[i]
  BY <1>1, <1>2
<1>5. \A i \in DOMAIN u : \/ i \in DOMAIN s /\ u[i] = s[i]
                          \/ i - Len(s) \in DOMAIN t /\ u[i] = t[i - Len(s)]
  BY <1>1, <1>2
<1>6. Contents(u) = Contents(s) \cup Contents(t)
  BY <1>3, <1>4, <1>5 DEF Contents
<1>7. ASSUME Distinct(s), Distinct(t), Contents(s) \cap Contents(t) = {}
      PROVE  Distinct(u)
  <2> SUFFICES ASSUME NEW i \in DOMAIN u, NEW j \in DOMAIN u, u[i] = u[j]
               PROVE  i = j
    BY DEF Distinct
  <2>1. \A k \in DOMAIN s : s[k] \in Contents(s)  BY DEF Contents
  <2>2. \A k \in DOMAIN t : t[k] \in Contents(t)  BY DEF Contents
  <2>3. CASE i \in DOMAIN s /\ j \in DOMAIN s
    BY <1>3, <1>7, <2>3 DEF Distinct
  <2>4. CASE i - Len(s) \in DOMAIN t /\ j - Len(s) \in DOMAIN t
    <3>1. t[i - Len(s)] = t[j - Len(s)]
      BY <1>4, <2>4, <1>2
    <3> QED BY <1>7, <1>2, <2>4, <3>1 DEF Distinct
  <2> QED BY <1>5, <1>7, <2>1, <2>2, <2>3, <2>4, <1>2
<1> QED BY <1>6, <1>7 DEF u

LEMMA AppendContents ==
  ASSUME NEW S, NEW s \in Seq(S), NEW x \in S
  PROVE  /\ Contents(Append(s, x)) = Contents(s) \cup {x}
         /\ Distinct(s) /\ x \notin Contents(s) => Distinct(Append(s, x))
<1>1. <<x>> \in Seq(S) /\ Append(s, x) = s \o <<x>>  BY AppendIsConcat
<1>2. Contents(<<x>>) = {x} /\ Distinct(<<x>>)  BY DEF Contents, Distinct
<1>3. x \notin Contents(s) => Contents(s) \cap Contents(<<x>>) = {}  BY <1>2
<1> DEFINE t == <<x>>
<1> HIDE DEF t
<1>4. t \in Seq(S) /\ Append(s, x) = s \o t /\ Contents(t) = {x} /\ Distinct(t)
  BY <1>1, <1>2 DEF t
<1> QED BY <1>4, ConcatContents

LEMMA PrefixContents ==
  ASSUME NEW S, NEW s \in Seq(S), NEW n \in 0 .. Len(s)
  PROVE  /\ SubSeq(s, 1, n) \in Seq(S)
         /\ Contents(SubSeq(s, 1, n)) \subseteq Contents(s)
         /\ Distinct(s) => Distinct(SubSeq(s, 1, n))
<1> DEFINE t == SubSeq(s, 1, n)
<1>1. \A i \in 1 .. n : s[i] \in S  BY ElementOfSeq
<1>2. t \in Seq(S) /\ Len(t) = n /\ \A i \in 1 .. n : t[i] = s[i]
  BY <1>1, SubSeqProperties
<1> HIDE DEF t
<1>3. DOMAIN t = 1 .. n /\ DOMAIN t \subseteq DOMAIN s  BY <1>2
<1>4. Contents(t) \subseteq Contents(s)  BY <1>2, <1>3 DEF Contents
<1>5. Distinct(s) => Distinct(t)  BY <1>2, <1>3 DEF Distinct
<1> QED BY <1>2, <1>4, <1>5 DEF t

-----------------------------------------------------------------------------
(* The commands that queued answers, and those in an output buffer, belong to. *)

Answers(s) == {s[i].to : i \in DOMAIN s}
AnswersOnce(s) == \A i, j \in DOMAIN s : s[i].to = s[j].to => i = j

Sent(s) == {s[i].body.to : i \in {j \in DOMAIN s : s[j].kind = "result"}}
SentOnce(s) ==
  \A i, j \in DOMAIN s :
    /\ s[i].kind = "result" /\ s[j].kind = "result"
    /\ s[i].body.to = s[j].body.to
    => i = j

LEMMA TailAnswers ==
  ASSUME NEW S, NEW s \in Seq(S), s # << >>
  PROVE  /\ Answers(s) = Answers(Tail(s)) \cup {Head(s).to}
         /\ AnswersOnce(s) => /\ AnswersOnce(Tail(s))
                              /\ Head(s).to \notin Answers(Tail(s))
<1> DEFINE t == Tail(s)
<1>1. /\ t \in Seq(S) /\ Len(t) = Len(s) - 1 /\ Len(s) \in Nat \ {0}
      /\ \A i \in 1 .. Len(t) : t[i] = s[i + 1]
      /\ Head(s) = s[1]
  BY HeadTailProperties, EmptySeq
<1> HIDE DEF t
<1>2. /\ DOMAIN s = 1 .. Len(s) /\ DOMAIN t = 1 .. Len(s) - 1
      /\ \A i \in DOMAIN t : t[i] = s[i + 1] /\ i + 1 \in DOMAIN s
  BY <1>1
<1>3. \A i \in DOMAIN s : i # 1 => i - 1 \in DOMAIN t /\ t[i - 1] = s[i]
  BY <1>1, <1>2
<1>4. Answers(s) = Answers(t) \cup {s[1].to}
  <2>1. 1 \in DOMAIN s  BY <1>1, <1>2
  <2> QED BY <1>2, <1>3, <2>1 DEF Answers
<1>5. ASSUME AnswersOnce(s) PROVE AnswersOnce(t) /\ s[1].to \notin Answers(t)
  <2>1. \A i, j \in DOMAIN t : t[i].to = t[j].to => i + 1 = j + 1
    BY <1>2, <1>5 DEF AnswersOnce
  <2>2. \A i \in DOMAIN t : t[i].to # s[1].to
    BY <1>1, <1>2, <1>5 DEF AnswersOnce
  <2>3. \A i, j \in DOMAIN t : i + 1 = j + 1 => i = j
    BY <1>1, <1>2
  <2> QED BY <2>1, <2>2, <2>3 DEF AnswersOnce, Answers
<1> QED BY <1>1, <1>4, <1>5 DEF t

LEMMA AppendAnswers ==
  ASSUME NEW S, NEW s \in Seq(S), NEW x \in S
  PROVE  /\ Answers(Append(s, x)) = Answers(s) \cup {x.to}
         /\ AnswersOnce(s) /\ x.to \notin Answers(s) => AnswersOnce(Append(s, x))
<1> DEFINE t == Append(s, x)
<1>1. /\ t \in Seq(S) /\ Len(t) = Len(s) + 1 /\ Len(s) \in Nat
      /\ \A i \in 1 .. Len(s) : t[i] = s[i]
      /\ t[Len(s) + 1] = x
  BY AppendProperties
<1> HIDE DEF t
<1>2. DOMAIN s = 1 .. Len(s) /\ DOMAIN t = 1 .. Len(s) + 1  BY <1>1
<1>3. \A i \in DOMAIN t : (i \in DOMAIN s /\ t[i] = s[i]) \/ (i = Len(s) + 1 /\ t[i] = x)
  <2> SUFFICES ASSUME NEW i \in DOMAIN t
               PROVE  (i \in DOMAIN s /\ t[i] = s[i]) \/ (i = Len(s) + 1 /\ t[i] = x)
    OBVIOUS
  <2>1. i \in 1 .. Len(s) \/ i = Len(s) + 1  BY <1>1, <1>2
  <2> QED BY <1>1, <1>2, <2>1
<1>4. \A i \in DOMAIN s : i \in DOMAIN t /\ t[i] = s[i]  BY <1>1, <1>2
<1>5. Len(s) + 1 \in DOMAIN t  BY <1>1, <1>2
<1>6. Answers(t) = Answers(s) \cup {x.to}
  BY <1>1, <1>3, <1>4, <1>5 DEF Answers
<1>7. AnswersOnce(s) /\ x.to \notin Answers(s) => AnswersOnce(t)
  BY <1>3 DEF AnswersOnce, Answers
<1> QED BY <1>6, <1>7 DEF t

LEMMA TailSent ==
  ASSUME NEW S, NEW s \in Seq(S), s # << >>
  PROVE  /\ Sent(s) = Sent(Tail(s)) \cup {h.body.to : h \in {k \in {Head(s)} : k.kind = "result"}}
         /\ SentOnce(s) => /\ SentOnce(Tail(s))
                           /\ Head(s).kind = "result" => Head(s).body.to \notin Sent(Tail(s))
<1> DEFINE t == Tail(s)
<1>1. /\ t \in Seq(S) /\ Len(t) = Len(s) - 1 /\ Len(s) \in Nat \ {0}
      /\ \A i \in 1 .. Len(t) : t[i] = s[i + 1]
      /\ Head(s) = s[1]
  BY HeadTailProperties, EmptySeq
<1> HIDE DEF t
<1>2. /\ DOMAIN s = 1 .. Len(s) /\ DOMAIN t = 1 .. Len(s) - 1
      /\ \A i \in DOMAIN t : t[i] = s[i + 1] /\ i + 1 \in DOMAIN s
  BY <1>1
<1>3. \A i \in DOMAIN s : i # 1 => i - 1 \in DOMAIN t /\ t[i - 1] = s[i]
  BY <1>1, <1>2
<1>4. Sent(s) = Sent(t) \cup {h.body.to : h \in {k \in {s[1]} : k.kind = "result"}}
  <2>1. 1 \in DOMAIN s  BY <1>1, <1>2
  <2> QED BY <1>2, <1>3, <2>1 DEF Sent
<1>5. ASSUME SentOnce(s)
      PROVE  SentOnce(t) /\ (s[1].kind = "result" => s[1].body.to \notin Sent(t))
  <2>1. \A i, j \in DOMAIN t :
          t[i].kind = "result" /\ t[j].kind = "result" /\ t[i].body.to = t[j].body.to
            => i + 1 = j + 1
    BY <1>2, <1>5 DEF SentOnce
  <2>2. \A i \in DOMAIN t : s[1].kind = "result" /\ t[i].kind = "result"
                              => t[i].body.to # s[1].body.to
    <3>1. 1 \in DOMAIN s /\ \A i \in DOMAIN t : i + 1 # 1  BY <1>1, <1>2
    <3> QED BY <1>2, <1>5, <3>1 DEF SentOnce
  <2>3. \A i, j \in DOMAIN t : i + 1 = j + 1 => i = j
    BY <1>1, <1>2
  <2> QED BY <2>1, <2>2, <2>3 DEF SentOnce, Sent
<1> QED BY <1>1, <1>4, <1>5 DEF t

LEMMA AppendSent ==
  ASSUME NEW S, NEW s \in Seq(S), NEW x \in S
  PROVE  /\ Sent(Append(s, x)) = Sent(s) \cup {h.body.to : h \in {k \in {x} : k.kind = "result"}}
         /\ SentOnce(s) /\ (x.kind = "result" => x.body.to \notin Sent(s))
              => SentOnce(Append(s, x))
<1> DEFINE t == Append(s, x)
<1>1. /\ t \in Seq(S) /\ Len(t) = Len(s) + 1 /\ Len(s) \in Nat
      /\ \A i \in 1 .. Len(s) : t[i] = s[i]
      /\ t[Len(s) + 1] = x
  BY AppendProperties
<1> HIDE DEF t
<1>2. DOMAIN s = 1 .. Len(s) /\ DOMAIN t = 1 .. Len(s) + 1  BY <1>1
<1>3. \A i \in DOMAIN t : (i \in DOMAIN s /\ t[i] = s[i]) \/ (i = Len(s) + 1 /\ t[i] = x)
  <2> SUFFICES ASSUME NEW i \in DOMAIN t
               PROVE  (i \in DOMAIN s /\ t[i] = s[i]) \/ (i = Len(s) + 1 /\ t[i] = x)
    OBVIOUS
  <2>1. i \in 1 .. Len(s) \/ i = Len(s) + 1  BY <1>1, <1>2
  <2> QED BY <1>1, <1>2, <2>1
<1>4. \A i \in DOMAIN s : i \in DOMAIN t /\ t[i] = s[i]  BY <1>1, <1>2
<1>5. Len(s) + 1 \in DOMAIN t  BY <1>1, <1>2
<1>6. Sent(t) = Sent(s) \cup {h.body.to : h \in {k \in {x} : k.kind = "result"}}
  BY <1>1, <1>3, <1>4, <1>5 DEF Sent
<1>7. SentOnce(s) /\ (x.kind = "result" => x.body.to \notin Sent(s)) => SentOnce(t)
  BY <1>3 DEF SentOnce, Sent
<1> QED BY <1>6, <1>7 DEF t

-----------------------------------------------------------------------------
(* Where the frames of a client are, and the inductive invariant. *)

MethodsOf(c) == {m \in Contents(methods) : m.src = c}
Commands(S) == {m \in S : m.op \notin Unanswered}

\* What owed should be.
Placed(c) ==
  Commands(Contents(inbox[c]) \cup MethodsOf(c)) \cup waits[c]
    \cup Answers(results[c]) \cup Sent(outbuf[c])

Apart(A, B, C, D, E) ==
  /\ A \cap (B \cup C \cup D \cup E) = {}
  /\ B \cap (C \cup D \cup E) = {}
  /\ C \cap (D \cup E) = {}
  /\ D \cap E = {}

\* No frame is in two places, or in one place twice.
Once(c) ==
  /\ Distinct(inbox[c]) /\ AnswersOnce(results[c]) /\ SentOnce(outbuf[c])
  /\ Apart(Contents(inbox[c]), MethodsOf(c), waits[c], Answers(results[c]),
           Sent(outbuf[c]))

\* Tags grow, and what is owed was sent by the client itself.
Tagged(c) ==
  /\ \A m \in Contents(inbox[c]) \cup MethodsOf(c) \cup owed[c] : m.tag \in 1 .. frames
  /\ \A m \in owed[c] : m.src = c /\ m.op \notin Unanswered
  /\ \A m \in waits[c] : m.op = "call"

\* A place for all that is owed as long as there is a connection; before and
\* after it nothing is owed.
Owing(c) ==
  /\ Placed(c) \subseteq owed[c]
  /\ c \in Open => owed[c] \subseteq Placed(c)
  /\ c \notin Live => owed[c] = {}

ClientCalls(c) == Once(c) /\ Tagged(c) /\ Owing(c)

\* One tag, one command.
OneTag == \A c, d \in Slot : \A m \in owed[c], n \in owed[d] : m.tag = n.tag => m = n

Calls == Distinct(methods) /\ (\A c \in Slot : ClientCalls(c)) /\ OneTag

-----------------------------------------------------------------------------
(* What the steps do to the places. *)

\* The result m completes the call w of client c.
Completes(m, c, w) ==
  /\ c \in Named(m.who) /\ ident[m.src] # None /\ ValidSequence(m.seq)
  /\ w \in WaitFor(c, m.src, m)
  /\ waits' = [waits EXCEPT ![c] = @ \ {w}]
  /\ results' = [[results EXCEPT ![c] = Append(@, Answered(w, 0, m.re))]
                   EXCEPT ![m.src] = Append(@, Answered(m, 0, 0))]

\* The four ways to deal with a method m: it is not answered, answered at once,
\* waits for its callee, or is a result that completes a call.
Dealt(m) ==
  \/ m.op \in Unanswered /\ UNCHANGED <<waits, results>>
  \/ /\ m.op \notin Unanswered /\ UNCHANGED waits
     /\ \E rc \in {0, -1} : Respond(m, rc)
  \/ /\ m.op = "call" /\ UNCHANGED results
     /\ waits' = [waits EXCEPT ![m.src] = @ \cup {m}]
  \/ /\ m.op = "result"
     /\ \E c \in Slot : \E w \in waits[c] : Completes(m, c, w)

LEMMA HandlerPlaces ==
  ASSUME Bookkeeping, HandleMethod
  PROVE  /\ UNCHANGED <<inbox, outbuf, frames, stage, owed, held, routines, heard>>
         /\ methods # << >>
         /\ \/ UNCHANGED <<methods, waits, results, requests, ident, cmds, zlib, link>>
            \/ methods' = Tail(methods) /\ Dealt(Head(methods))
<1> DEFINE m == Head(methods)
<1> USE DEF Unanswered, Take, peer, Dealt
<1>1. CASE CrashInUnregister
  BY <1>1 DEF CrashInUnregister, registry, queues
<1>2. CASE HandleCreate
  BY <1>2 DEF HandleCreate
<1>3. CASE HandleSubscribe \/ HandleUnsubscribe \/ HandleRegister \/ HandleUnregister
  BY <1>3 DEF HandleSubscribe, HandleUnsubscribe, HandleRegister, HandleUnregister,
     Announcement
<1>4. CASE HandlePublish \/ HandleEvent \/ HandleQuery \/ HandleClose
  BY <1>4 DEF HandlePublish, HandleEvent, HandleQuery, HandleClose
<1>5. CASE HandleCall
  BY <1>5 DEF HandleCall
<1>6. CASE HandleResult
  <2>1. ASSUME NEW c \in Named(m.who), ident[m.src] # None /\ ValidSequence(m.seq),
               WaitFor(c, m.src, m) # {},
               LET w == Oldest(WaitFor(c, m.src, m))
                   told == [results EXCEPT ![c] = Append(@, Answered(w, 0, m.re))] IN
               /\ waits' = [waits EXCEPT ![c] = @ \ {w}]
               /\ results' = [told EXCEPT ![m.src] = Append(@, Answered(m, 0, 0))]
        PROVE  \E k \in Slot : \E w \in waits[k] : Completes(m, k, w)
    <3>1. c \in Slot  BY DEF Named, Live
    <3>2. WaitFor(c, m.src, m) \in SUBSET Method /\ WaitFor(c, m.src, m) \subseteq waits[c]
      BY <3>1 DEF WaitFor, Bookkeeping, TypeOK
    <3>3. Oldest(WaitFor(c, m.src, m)) \in WaitFor(c, m.src, m)
      BY <2>1, <3>2, OldestExists
    <3> QED BY <2>1, <3>1, <3>2, <3>3 DEF Completes
  <2> QED BY <1>6, <2>1 DEF HandleResult
<1> QED BY <1>1, <1>2, <1>3, <1>4, <1>5, <1>6 DEF HandleMethod

\* A client that has no part in a step.
LEMMA Bystander ==
  ASSUME NEW c \in Slot, ClientCalls(c),
         inbox'[c] = inbox[c], MethodsOf(c)' = MethodsOf(c), waits'[c] = waits[c],
         results'[c] = results[c], outbuf'[c] = outbuf[c], owed'[c] = owed[c],
         frames \in Nat, frames' \in Nat, frames <= frames',
         c \in Open' => c \in Open \/ c \notin Live, c \in Live => c \in Live'
  PROVE  ClientCalls(c)'
<1>1. Once(c)'  BY DEF ClientCalls, Once
<1>2. Tagged(c)'  BY DEF ClientCalls, Tagged
<1>3. Owing(c)'  BY DEF ClientCalls, Owing, Placed
<1> QED BY <1>1, <1>2, <1>3 DEF ClientCalls

\* The command of an answer that is queued for its sender leaves the methods or
\* the waits.
LEMMA AnswerQueued ==
  ASSUME Bookkeeping, NEW k \in Slot, ClientCalls(k), NEW a \in Answer,
         results'[k] = Append(results[k], a),
         \/ /\ a.to \in MethodsOf(k) /\ a.to.op \notin Unanswered
            /\ MethodsOf(k)' = MethodsOf(k) \ {a.to} /\ waits'[k] = waits[k]
         \/ /\ a.to \in waits[k]
            /\ MethodsOf(k)' = MethodsOf(k) /\ waits'[k] = waits[k] \ {a.to},
         inbox'[k] = inbox[k], outbuf'[k] = outbuf[k], owed'[k] = owed[k],
         frames' = frames, k \in Open' => k \in Open, k \in Live => k \in Live'
  PROVE  ClientCalls(k)'
<1>1. results[k] \in Seq(Answer)  BY DEF Bookkeeping, TypeOK
<1>2. /\ Answers(results'[k]) = Answers(results[k]) \cup {a.to}
      /\ AnswersOnce(results[k]) /\ a.to \notin Answers(results[k])
           => AnswersOnce(results'[k])
  BY <1>1, AppendAnswers
<1>3. a.to \notin Answers(results[k])  BY DEF ClientCalls, Once, Apart
<1>4. Once(k)'  BY <1>2, <1>3 DEF ClientCalls, Once, Apart
<1>5. Tagged(k)'  BY DEF ClientCalls, Tagged
<1>6. Owing(k)'
  <2>1. Placed(k)' = Placed(k)
    BY <1>2 DEF Placed, Commands, ClientCalls, Once, Apart
  <2> QED BY <2>1 DEF ClientCalls, Owing
<1> QED BY <1>4, <1>5, <1>6 DEF ClientCalls

LEMMA HandlerMethods ==
  ASSUME Bookkeeping, Distinct(methods), methods # << >>, methods' = Tail(methods)
  PROVE  LET m == Head(methods) IN
         /\ m \in Method /\ m.src \in Live /\ m \in MethodsOf(m.src)
         /\ Distinct(methods)'
         /\ \A k \in Slot : MethodsOf(k)' = MethodsOf(k) \ {m}
<1>1. Head(methods).src \in Live /\ Head(methods) \in Method
  BY HandlerSender, HeadType DEF Bookkeeping
<1>2. methods \in Seq(Method)  BY DEF Bookkeeping, TypeOK
<1>3. /\ Contents(methods) = Contents(methods') \cup {Head(methods)}
      /\ Distinct(methods') /\ Head(methods) \notin Contents(methods')
  BY <1>2, TailContents
<1> QED BY <1>1, <1>3 DEF MethodsOf

LEMMA HandlerCalls ==
  ASSUME Bookkeeping, Calls, HandleMethod
  PROVE  Calls'
<1>0. PICK m : m = Head(methods)
  OBVIOUS
<1>1. /\ UNCHANGED <<inbox, outbuf, frames, owed>> /\ methods # << >>
      /\ \/ UNCHANGED <<methods, waits, results>>
         \/ methods' = Tail(methods) /\ Dealt(m)
  BY <1>0, HandlerPlaces
<1>2. Live' = Live /\ Open' \subseteq Open /\ frames \in Nat
  BY HandlerFrame, HandlerOpen DEF Bookkeeping, TypeOK
<1>3. OneTag'  BY <1>1 DEF Calls, OneTag
<1>4. ASSUME NEW k \in Slot, MethodsOf(k)' = MethodsOf(k), waits'[k] = waits[k],
             results'[k] = results[k]
      PROVE  ClientCalls(k)'
  BY <1>1, <1>2, <1>4, Bystander DEF Calls
<1>5. CASE UNCHANGED <<methods, waits, results>>
  BY <1>1, <1>3, <1>4, <1>5 DEF Calls, MethodsOf
<1>6. CASE methods' = Tail(methods) /\ Dealt(m)
  <2>1. /\ m \in Method /\ m.src \in Live /\ m \in MethodsOf(m.src)
        /\ Distinct(methods)' /\ \A k \in Slot : MethodsOf(k)' = MethodsOf(k) \ {m}
    BY <1>0, <1>1, <1>6, HandlerMethods DEF Calls
  <2>2. m.src \in Slot /\ \A k \in Slot \ {m.src} : MethodsOf(k)' = MethodsOf(k)
    BY <2>1 DEF Live, MethodsOf
  <2>3. /\ waits \in [Slot -> SUBSET Method] /\ results \in [Slot -> Seq(Answer)]
        /\ \A k \in Slot : ClientCalls(k)
    BY DEF Bookkeeping, TypeOK, Calls
  <2>4. ASSUME m.op \in Unanswered, UNCHANGED <<waits, results>>
        PROVE  ClientCalls(m.src)'
    <3>1. Once(m.src)'
      BY <1>1, <2>1, <2>2, <2>3, <2>4 DEF ClientCalls, Once, Apart
    <3>2. Tagged(m.src)'
      BY <1>1, <2>1, <2>2, <2>3, <2>4 DEF ClientCalls, Tagged
    <3>3. Placed(m.src)' = Placed(m.src)
      BY <1>1, <2>1, <2>2, <2>3, <2>4 DEF Placed, Commands
    <3>4. Owing(m.src)'
      BY <1>1, <1>2, <2>2, <2>3, <3>3 DEF ClientCalls, Owing
    <3> QED BY <3>1, <3>2, <3>4 DEF ClientCalls
  <2>5. ASSUME m.op \notin Unanswered, UNCHANGED waits, NEW rc \in {0, -1}, Respond(m, rc)
        PROVE  /\ ClientCalls(m.src)'
               /\ \A k \in Slot \ {m.src} : results'[k] = results[k]
    <3>1. /\ results'[m.src] = Append(results[m.src], Answered(m, rc, 0))
          /\ \A k \in Slot \ {m.src} : results'[k] = results[k]
      BY <2>2, <2>3, <2>5 DEF Respond
    <3>2. Answered(m, rc, 0) \in Answer /\ Answered(m, rc, 0).to = m
      BY <2>1 DEF Answered, Answer
    <3> QED BY <1>1, <1>2, <2>1, <2>2, <2>3, <2>5, <3>1, <3>2, AnswerQueued
  <2>6. ASSUME m.op = "call", UNCHANGED results,
               waits' = [waits EXCEPT ![m.src] = @ \cup {m}]
        PROVE  ClientCalls(m.src)' /\ \A k \in Slot \ {m.src} : waits'[k] = waits[k]
    <3>1. waits'[m.src] = waits[m.src] \cup {m}  BY <2>2, <2>3, <2>6
    <3>2. Once(m.src)'
      BY <1>1, <2>1, <2>2, <2>3, <2>6, <3>1 DEF ClientCalls, Once, Apart
    <3>3. Tagged(m.src)'
      BY <1>1, <2>1, <2>2, <2>3, <2>6, <3>1 DEF ClientCalls, Tagged
    <3>4. Placed(m.src)' = Placed(m.src)
      BY <1>1, <2>1, <2>2, <2>3, <2>6, <3>1 DEF Placed, Commands, Unanswered
    <3>5. Owing(m.src)'
      BY <1>1, <1>2, <2>2, <2>3, <3>4 DEF ClientCalls, Owing
    <3> QED BY <2>2, <2>3, <2>6, <3>2, <3>3, <3>5 DEF ClientCalls
  <2>7. ASSUME m.op = "result", NEW c \in Slot, NEW w \in waits[c], Completes(m, c, w)
        PROVE  \A k \in Slot : ClientCalls(k)'
    <3> DEFINE a == Answered(w, 0, m.re)
               b == Answered(m, 0, 0)
               told == [results EXCEPT ![c] = Append(@, a)]
    <3>1. /\ w \in Method /\ m.op \notin Unanswered
          /\ w.op = "call" /\ w # m
      BY <2>3, <2>7 DEF ClientCalls, Tagged, Unanswered
    <3>2. a \in Answer /\ a.to = w /\ b \in Answer /\ b.to = m
      BY <2>1, <3>1 DEF Answered, Answer, Method
    <3>3. /\ waits' = [waits EXCEPT ![c] = @ \ {w}]
          /\ results' = [told EXCEPT ![m.src] = Append(@, b)]
      BY <2>7 DEF Completes
    <3> HIDE DEF a, b
    <3>4. waits'[c] = waits[c] \ {w} /\ \A k \in Slot \ {c} : waits'[k] = waits[k]
      BY <2>3, <3>3
    <3>5. /\ told \in [Slot -> Seq(Answer)] /\ told[c] = Append(results[c], a)
          /\ \A k \in Slot \ {c} : told[k] = results[k]
      BY <2>3, <3>2
    <3> HIDE DEF told
    <3>6. /\ results'[m.src] = Append(told[m.src], b)
          /\ \A k \in Slot \ {m.src} : results'[k] = told[k]
      BY <2>2, <3>3, <3>5
    <3>7. ASSUME NEW k \in Slot \ {c, m.src} PROVE ClientCalls(k)'
      BY <1>4, <2>2, <3>4, <3>5, <3>6
    <3>8. CASE c # m.src
      <4>1. ClientCalls(c)'
        BY <1>1, <1>2, <2>2, <2>3, <2>7, <3>2, <3>4, <3>5, <3>6, <3>8, AnswerQueued
      <4>2. ClientCalls(m.src)'
        BY <1>1, <1>2, <2>1, <2>2, <2>3, <3>1, <3>2, <3>4, <3>5, <3>6, <3>8, AnswerQueued
      <4> QED BY <3>7, <4>1, <4>2
    <3>9. CASE c = m.src
      <4>1. results'[c] = Append(told[c], b) /\ told[c] = Append(results[c], a)
        BY <3>5, <3>6, <3>9
      <4>2. /\ w \in waits[c] /\ m \in MethodsOf(c) /\ MethodsOf(c)' = MethodsOf(c) \ {m}
        BY <2>1, <2>7, <3>9
      <4>3. ClientCalls(c)  BY <2>3
      <4>4. w \notin Answers(results[c]) /\ m \notin Answers(results[c])
        BY <4>2, <4>3 DEF ClientCalls, Once, Apart
      <4>5. Answers(told[c]) = Answers(results[c]) \cup {w} /\ AnswersOnce(told[c])
        BY <2>3, <3>2, <4>1, <4>3, <4>4, AppendAnswers DEF ClientCalls, Once
      <4>6. /\ Answers(results'[c]) = Answers(results[c]) \cup {w, m}
            /\ AnswersOnce(results'[c])
        <5>1. PICK t \in Seq(Answer) : t = told[c]  BY <3>5
        <5>2. b.to \notin Answers(t) /\ AnswersOnce(t)
          BY <3>1, <3>2, <4>4, <4>5, <5>1
        <5>3. Answers(Append(t, b)) = Answers(t) \cup {b.to} /\ AnswersOnce(Append(t, b))
          BY <3>2, <5>2, AppendAnswers
        <5> QED BY <3>2, <4>1, <4>5, <5>1, <5>3
      <4>7. Once(c)'
        BY <1>1, <3>1, <3>4, <4>2, <4>3, <4>6 DEF ClientCalls, Once, Apart
      <4>8. Tagged(c)'
        BY <1>1, <3>4, <4>2, <4>3 DEF ClientCalls, Tagged
      <4>9. Placed(c)' = Placed(c)
        BY <1>1, <3>1, <3>4, <4>2, <4>3, <4>6 DEF Placed, Commands
      <4>10. Owing(c)'
        BY <1>1, <1>2, <4>3, <4>9 DEF ClientCalls, Owing
      <4> QED BY <3>7, <3>9, <4>7, <4>8, <4>10 DEF ClientCalls
    <3> QED BY <3>8, <3>9
  <2>8. \A k \in Slot : ClientCalls(k)'
    <3>1. CASE m.op \in Unanswered /\ UNCHANGED <<waits, results>>
      BY <1>4, <2>2, <2>4, <3>1
    <3>2. CASE /\ m.op \notin Unanswered /\ UNCHANGED waits
               /\ \E rc \in {0, -1} : Respond(m, rc)
      BY <1>4, <2>2, <2>5, <3>2
    <3>3. CASE /\ m.op = "call" /\ UNCHANGED results
               /\ waits' = [waits EXCEPT ![m.src] = @ \cup {m}]
      BY <1>4, <2>2, <2>6, <3>3
    <3> QED BY <1>6, <2>7, <3>1, <3>2, <3>3 DEF Dealt
  <2> QED BY <1>3, <2>1, <2>8 DEF Calls
<1> QED BY <1>1, <1>5, <1>6

-----------------------------------------------------------------------------
(* The steps outside the handlers, as far as the places are concerned. *)

LEMMA QuietQueues ==
  ASSUME Bookkeeping, Quiet
  PROVE  \/ PrepareOut \/ (\E c \in Slot : Write(c))
         \/ UNCHANGED <<inbox, outbuf, methods, requests, results, waits, events,
                        eseq, frames, stage, owed, held, routines, heard, ident,
                        subs, cmds, zlib>>
<1>1. CASE CheckPing \/ ReadDone \/ WriteDone \/ ParseDone \/ HandleDone \/ StatusDone
           \/ CleanupDone \/ Halted
  BY <1>1 DEF CheckPing, ReadDone, WriteDone, ParseDone, HandleDone, StatusDone,
     CleanupDone, Halted, vars, registry, queues, peer
<1>2. CASE \E c \in Slot : HangUp(c)
  BY <1>2 DEF HangUp, queues, peer
<1> QED BY <1>1, <1>2 DEF Quiet

\* What a client sends: a frame of its own or the reply to a request it holds.
LEMMA Received ==
  ASSUME Bookkeeping, NEW c \in Slot,
         \/ \E f \in Frames : Read(c, f)
         \/ \E r \in held[c] : Reply(c, r)
  PROVE  \E m \in Method :
         /\ m.src = c /\ m.tag = frames + 1 /\ frames' = frames + 1
         /\ inbox' = [inbox EXCEPT ![c] = Append(@, m)]
         /\ owed' = IF m.op \in Unanswered THEN owed
                    ELSE [owed EXCEPT ![c] = @ \cup {m}]
         /\ \/ /\ m.re = 0 /\ (Conforming => Allowed(c, m)) /\ UNCHANGED held
               /\ stage' = IF m.op = "create" /\ stage[c] = "new"
                           THEN [stage EXCEPT ![c] = "asked"] ELSE stage
            \/ \E r \in held[c] :
                 /\ m.re = r.tag /\ m.op = "result" /\ m.who = r.from
                 /\ m.what = r.what /\ m.seq = r.seq
                 /\ held' = [held EXCEPT ![c] = @ \ {r}] /\ UNCHANGED stage
         /\ UNCHANGED <<outbuf, methods, requests, results, waits, events, eseq,
                        routines, heard, link, ident, subs, cmds, zlib>>
<1> DEFINE mm(f, re) == [src |-> c, tag |-> frames + 1, re |-> re, op |-> f.op,
                  who |-> f.who, what |-> f.what, seq |-> f.seq, opt |-> f.opt]
<1>1. ASSUME NEW f \in Frames, Read(c, f) PROVE mm(f, 0) \in Method
  BY <1>1, BrokerAssumption DEF Bookkeeping, TypeOK, Frame, Method
<1>2. CASE \E f \in Frames : Read(c, f)
  <2>1. PICK f \in Frames : Read(c, f)  BY <1>2
  <2>2. PICK m \in Method : m = mm(f, 0)  BY <1>1, <2>1
  <2>3. /\ m.src = c /\ m.tag = frames + 1 /\ m.re = 0 /\ m.op = f.op /\ m.who = f.who
        /\ m.what = f.what /\ m.seq = f.seq
    BY <2>2
  <2>4. /\ frames' = frames + 1 /\ inbox' = [inbox EXCEPT ![c] = Append(@, m)]
        /\ owed' = IF m.op \in Unanswered THEN owed
                   ELSE [owed EXCEPT ![c] = @ \cup {m}]
        /\ UNCHANGED <<outbuf, methods, requests, results, waits, events, eseq,
                       routines, heard, link, ident, subs, cmds, zlib>>
    BY <2>1, <2>2 DEF Read, Receive, Unanswered, registry, queues
  <2>5. Conforming => Allowed(c, m)
    BY <2>1, <2>3 DEF Read, Allowed
  <2>6. /\ UNCHANGED held
        /\ stage' = IF m.op = "create" /\ stage[c] = "new"
                    THEN [stage EXCEPT ![c] = "asked"] ELSE stage
    BY <2>1, <2>3 DEF Read
  <2> QED BY <2>3, <2>4, <2>5, <2>6
<1>3. CASE \E r \in held[c] : Reply(c, r)
  <2>1. PICK r \in held[c] : Reply(c, r)  BY <1>3
  <2> DEFINE f == [op |-> "result", who |-> r.from, what |-> r.what,
                   seq |-> r.seq, opt |-> {}]
  <2>2. r \in Request  BY DEF Bookkeeping, TypeOK
  <2>3. mm(f, r.tag) \in Method
    BY <2>2 DEF Request, Method, Bookkeeping, TypeOK, Op, Party
  <2>4. PICK m \in Method : m = mm(f, r.tag)  BY <2>3
  <2>5. /\ m.src = c /\ m.tag = frames + 1 /\ m.re = r.tag /\ m.op = "result"
        /\ m.who = r.from /\ m.what = r.what /\ m.seq = r.seq
    BY <2>4
  <2>6. Receive(c, f, r.tag) /\ held' = [held EXCEPT ![c] = @ \ {r}] /\ UNCHANGED stage
    BY <2>1 DEF Reply
  <2>7. /\ frames' = frames + 1 /\ inbox' = [inbox EXCEPT ![c] = Append(@, m)]
        /\ owed' = [owed EXCEPT ![c] = @ \cup {m}]
        /\ UNCHANGED <<outbuf, methods, requests, results, waits, events, eseq,
                       routines, heard, link, ident, subs, cmds, zlib>>
    BY <2>4, <2>6 DEF Receive, registry, queues
  <2> QED BY <2>5, <2>6, <2>7 DEF Unanswered
<1> QED BY <1>2, <1>3

\* What goes into the output buffer of client c.
Parcel(c, kind, body) ==
  [kind |-> kind, body |-> body, zlib |-> Compressed(c, kind, body)]

LEMMA Prepared ==
  ASSUME Bookkeeping, PrepareOut, NEW c \in Slot
  PROVE  \/ /\ outbuf'[c] = outbuf[c] /\ results'[c] = results[c]
            /\ requests'[c] = requests[c] /\ events'[c] = events[c]
         \/ /\ c \in Open /\ results[c] # << >>
            /\ outbuf'[c] = Append(outbuf[c], Parcel(c, "result", Head(results[c])))
            /\ results'[c] = Tail(results[c])
            /\ requests'[c] = requests[c] /\ events'[c] = events[c]
         \/ /\ c \in Open /\ results[c] = << >> /\ requests[c] # << >>
            /\ outbuf'[c] = Append(outbuf[c], Parcel(c, "request", Head(requests[c])))
            /\ requests'[c] = Tail(requests[c])
            /\ results'[c] = results[c] /\ events'[c] = events[c]
         \/ /\ c \in Open /\ results[c] = << >> /\ requests[c] = << >> /\ events[c] # << >>
            /\ outbuf'[c] = Append(outbuf[c], Parcel(c, "event", Head(events[c])))
            /\ events'[c] = Tail(events[c])
            /\ results'[c] = results[c] /\ requests'[c] = requests[c]
<1>1. /\ outbuf'[c] = IF c \in Open THEN outbuf[c] \o Front(c) ELSE outbuf[c]
      /\ results'[c] = IF c \in Open /\ Front(c) # << >> /\ Head(Front(c)).kind = "result"
                       THEN Tail(results[c]) ELSE results[c]
      /\ requests'[c] = IF c \in Open /\ Front(c) # << >> /\ Head(Front(c)).kind = "request"
                        THEN Tail(requests[c]) ELSE requests[c]
      /\ events'[c] = IF c \in Open /\ Front(c) # << >> /\ Head(Front(c)).kind = "event"
                      THEN Tail(events[c]) ELSE events[c]
  BY DEF PrepareOut, Popped
<1>2. outbuf[c] \in Seq(Out)  BY DEF Bookkeeping, TypeOK
<1>3. ASSUME NEW kind, NEW body, Front(c) = Packed(c, kind, body)
      PROVE  /\ Front(c) # << >> /\ Head(Front(c)).kind = kind
             /\ outbuf[c] \o Front(c) = Append(outbuf[c], Parcel(c, kind, body))
  <2> DEFINE p == Parcel(c, kind, body)
  <2>1. Front(c) = <<p>> /\ p.kind = kind  BY <1>3 DEF Packed, Parcel
  <2> HIDE DEF p
  <2>2. Front(c) # << >> /\ Head(Front(c)) = p  BY <2>1
  <2>3. outbuf[c] \o <<p>> = Append(outbuf[c], p)  BY <1>2
  <2> QED BY <2>1, <2>2, <2>3 DEF p
<1>4. CASE c \notin Open  BY <1>1, <1>4
<1>5. CASE c \in Open /\ results[c] # << >>
  <2>1. Front(c) = Packed(c, "result", Head(results[c]))  BY <1>5 DEF Front
  <2> QED BY <1>1, <1>3, <1>5, <2>1
<1>6. CASE c \in Open /\ results[c] = << >> /\ requests[c] # << >>
  <2>1. Front(c) = Packed(c, "request", Head(requests[c]))  BY <1>6 DEF Front
  <2> QED BY <1>1, <1>3, <1>6, <2>1
<1>7. CASE c \in Open /\ results[c] = << >> /\ requests[c] = << >> /\ events[c] # << >>
  <2>1. Front(c) = Packed(c, "event", Head(events[c]))  BY <1>7 DEF Front
  <2> QED BY <1>1, <1>3, <1>7, <2>1
<1>8. CASE c \in Open /\ results[c] = << >> /\ requests[c] = << >> /\ events[c] = << >>
  <2>1. Front(c) = << >>  BY <1>8 DEF Front
  <2>2. outbuf[c] \o << >> = outbuf[c]  BY <1>2
  <2> QED BY <1>1, <2>1, <2>2
<1> QED BY <1>4, <1>5, <1>6, <1>7, <1>8

\* The frames of client c join the methods, all of them if it stays connected.
LEMMA Parsed ==
  ASSUME Bookkeeping, NEW c \in Slot, Parse(c), Distinct(methods), Distinct(inbox[c]),
         Contents(inbox[c]) \cap MethodsOf(c) = {}
  PROVE  /\ inbox'[c] = << >> /\ \A k \in Slot \ {c} : inbox'[k] = inbox[k]
         /\ Distinct(methods)'
         /\ \A k \in Slot \ {c} : MethodsOf(k)' = MethodsOf(k)
         /\ MethodsOf(c) \subseteq MethodsOf(c)'
         /\ MethodsOf(c)' \subseteq MethodsOf(c) \cup Contents(inbox[c])
         /\ c \in Open' => MethodsOf(c)' = MethodsOf(c) \cup Contents(inbox[c])
         /\ Live' = Live /\ Open' \subseteq Open
         /\ \A k \in Slot : k \in Dead => k \in Dead'
         /\ c \in Open' \/ c \in Dead'
         /\ UNCHANGED <<outbuf, requests, results, waits, events, eseq, frames, stage,
                        owed, held, routines, heard, ident, subs, cmds, zlib>>
<1> DEFINE s == inbox[c]
<1>1. s \in Seq(Method) /\ methods \in Seq(Method)  BY DEF Bookkeeping, TypeOK
<1>2. \A m \in Contents(s) : m.src = c  BY DEF Contents, Bookkeeping, OwnFrames
<1>3. \E n \in 0 .. Len(s) : /\ methods' = methods \o SubSeq(s, 1, n)
                             /\ (n = Len(s) /\ UNCHANGED link)
                                  \/ link' = [link EXCEPT ![c] = "internal_error"]
  <2>1. CASE methods' = methods \o s /\ UNCHANGED link
    <3>1. s = SubSeq(s, 1, Len(s)) /\ Len(s) \in 0 .. Len(s)  BY <1>1
    <3> HIDE DEF s
    <3> QED BY <2>1, <3>1
  <2>2. CASE /\ link' = [link EXCEPT ![c] = "internal_error"]
             /\ \E i \in DOMAIN s : methods' = methods \o SubSeq(s, 1, i - 1)
    <3>1. PICK i \in DOMAIN s : methods' = methods \o SubSeq(s, 1, i - 1)  BY <2>2
    <3>2. i - 1 \in 0 .. Len(s)  BY <1>1
    <3> HIDE DEF s
    <3> QED BY <2>2, <3>1, <3>2
  <2> QED BY <2>1, <2>2 DEF Parse
<1>4. PICK n \in 0 .. Len(s) : /\ methods' = methods \o SubSeq(s, 1, n)
                               /\ (n = Len(s) /\ UNCHANGED link)
                                    \/ link' = [link EXCEPT ![c] = "internal_error"]
  BY <1>3
<1>5. /\ inbox'[c] = << >> /\ \A k \in Slot \ {c} : inbox'[k] = inbox[k]
      /\ UNCHANGED <<outbuf, requests, results, waits, events, eseq, frames, stage,
                     owed, held, routines, heard, ident, subs, cmds, zlib>>
  BY DEF Parse, queues, peer, Bookkeeping, TypeOK
<1>6. c \in Live /\ Live' = Live  BY ParseFrame
<1>7. /\ Open' \subseteq Open /\ (c \in Open' => n = Len(s))
      /\ (\A k \in Slot : k \in Dead => k \in Dead') /\ (c \in Open' \/ c \in Dead')
  BY <1>4, <1>6 DEF Open, Dead, Bookkeeping, TypeOK
<1>8. Distinct(s) /\ Contents(s) \cap Contents(methods) = {}
  BY <1>2 DEF MethodsOf
<1> HIDE DEF s
<1> DEFINE t == SubSeq(s, 1, n)
<1>9. /\ t \in Seq(Method) /\ Contents(t) \subseteq Contents(s) /\ Distinct(t)
      /\ n = Len(s) => t = s
  BY <1>1, <1>4, <1>8, PrefixContents
<1> HIDE DEF t
<1>10. /\ Contents(methods') = Contents(methods) \cup Contents(t)
       /\ Distinct(methods')
  <2>1. methods' = methods \o t  BY <1>4 DEF t
  <2>2. Contents(methods) \cap Contents(t) = {}  BY <1>8, <1>9
  <2>3. Distinct(methods) /\ Distinct(t)  BY <1>9
  <2> QED BY <1>1, <1>9, <2>1, <2>2, <2>3, ConcatContents
<1>11. /\ \A k \in Slot \ {c} : MethodsOf(k)' = MethodsOf(k)
       /\ MethodsOf(c)' = MethodsOf(c) \cup Contents(t)
  BY <1>2, <1>9, <1>10 DEF MethodsOf
<1> QED BY <1>5, <1>6, <1>7, <1>9, <1>10, <1>11 DEF s

-----------------------------------------------------------------------------
(* Calls is inductive. *)

\* Steps that move no frame.
LEMMA StillCalls ==
  ASSUME Bookkeeping, Calls, Live \subseteq Live', Open' \cap Live \subseteq Open,
         UNCHANGED <<inbox, outbuf, methods, results, waits, frames, owed>>
  PROVE  Calls'
<1>1. frames \in Nat  BY DEF Bookkeeping, TypeOK
<1>2. ASSUME NEW c \in Slot PROVE ClientCalls(c)'
  BY <1>1, Bystander DEF Calls, MethodsOf
<1> QED BY <1>2 DEF Calls, OneTag

LEMMA ReceiveCalls ==
  ASSUME Bookkeeping, Calls, NEW c \in Slot,
         \/ \E f \in Frames : Read(c, f)
         \/ \E r \in held[c] : Reply(c, r)
  PROVE  Calls'
<1>1. PICK m \in Method :
        /\ m.src = c /\ m.tag = frames + 1 /\ frames' = frames + 1
        /\ inbox' = [inbox EXCEPT ![c] = Append(@, m)]
        /\ owed' = IF m.op \in Unanswered THEN owed
                   ELSE [owed EXCEPT ![c] = @ \cup {m}]
        /\ UNCHANGED <<outbuf, methods, results, waits, link>>
  BY Received
<1>2. frames \in Nat /\ frames' \in Nat /\ m.tag \in 1 .. frames' /\ m.tag > frames
      /\ \A i \in 1 .. frames : i \in 1 .. frames'
  BY <1>1 DEF Bookkeeping, TypeOK
<1>3. /\ inbox \in [Slot -> Seq(Method)] /\ owed \in [Slot -> SUBSET Method]
      /\ inbox'[c] = Append(inbox[c], m)
      /\ owed'[c] = owed[c] \cup (IF m.op \in Unanswered THEN {} ELSE {m})
      /\ \A k \in Slot \ {c} : inbox'[k] = inbox[k] /\ owed'[k] = owed[k]
  BY <1>1 DEF Bookkeeping, TypeOK
<1>4. Live' = Live /\ Open' = Open /\ c \in Live /\ \A k \in Slot : MethodsOf(k)' = MethodsOf(k)
  BY <1>1, ReceiveFrame DEF MethodsOf, Open, Live
<1>5. ASSUME NEW k \in Slot \ {c} PROVE ClientCalls(k)'
  BY <1>1, <1>2, <1>3, <1>4, Bystander DEF Calls
<1>6. ClientCalls(c)  BY DEF Calls
<1>7. /\ m \notin Contents(inbox[c]) /\ m \notin MethodsOf(c) /\ m \notin owed[c]
      /\ m \notin waits[c] /\ m \notin Answers(results[c]) /\ m \notin Sent(outbuf[c])
  <2>1. \A x \in Contents(inbox[c]) \cup MethodsOf(c) \cup owed[c] : x.tag # m.tag
    BY <1>2, <1>6 DEF ClientCalls, Tagged
  <2>2. waits[c] \cup Answers(results[c]) \cup Sent(outbuf[c]) \subseteq owed[c]
    BY <1>6 DEF ClientCalls, Owing, Placed
  <2> QED BY <2>1, <2>2
<1>8. /\ Contents(inbox'[c]) = Contents(inbox[c]) \cup {m}
      /\ Distinct(inbox[c]) => Distinct(inbox'[c])
  BY <1>3, <1>7, AppendContents
<1>9. Once(c)'
  BY <1>1, <1>4, <1>6, <1>7, <1>8 DEF ClientCalls, Once, Apart
<1>10. Tagged(c)'
  BY <1>1, <1>2, <1>3, <1>4, <1>6, <1>8 DEF ClientCalls, Tagged
<1>11. Owing(c)'
  <2>1. Placed(c)' = Placed(c) \cup (IF m.op \in Unanswered THEN {} ELSE {m})
    BY <1>1, <1>4, <1>8 DEF Placed, Commands
  <2> QED BY <1>3, <1>4, <1>6, <2>1 DEF ClientCalls, Owing
<1>12. OneTag'
  <2> SUFFICES ASSUME NEW d \in Slot, NEW e \in Slot, NEW x \in owed'[d], NEW y \in owed'[e],
                      x.tag = y.tag
               PROVE  x = y
    BY DEF OneTag
  <2>1. x = m \/ x \in owed[d]  BY <1>3
  <2>2. y = m \/ y \in owed[e]  BY <1>3
  <2>3. /\ x \in owed[d] => x.tag # m.tag
        /\ y \in owed[e] => y.tag # m.tag
    BY <1>2 DEF Calls, ClientCalls, Tagged
  <2> QED BY <2>1, <2>2, <2>3 DEF Calls, OneTag
<1>13. Distinct(methods)'  BY <1>1 DEF Calls
<1> QED BY <1>5, <1>9, <1>10, <1>11, <1>12, <1>13 DEF Calls, ClientCalls

LEMMA ParseCalls ==
  ASSUME Bookkeeping, Calls, NEW c \in Slot, Parse(c)
  PROVE  Calls'
<1>1. ClientCalls(c) /\ Distinct(methods)  BY DEF Calls
<1>2. /\ inbox'[c] = << >> /\ \A k \in Slot \ {c} : inbox'[k] = inbox[k]
      /\ Distinct(methods)'
      /\ \A k \in Slot \ {c} : MethodsOf(k)' = MethodsOf(k)
      /\ MethodsOf(c) \subseteq MethodsOf(c)'
      /\ MethodsOf(c)' \subseteq MethodsOf(c) \cup Contents(inbox[c])
      /\ c \in Open' => MethodsOf(c)' = MethodsOf(c) \cup Contents(inbox[c])
      /\ Live' = Live /\ Open' \subseteq Open
      /\ UNCHANGED <<outbuf, results, waits, frames, owed>>
  BY <1>1, Parsed DEF ClientCalls, Once, Apart
<1>3. frames \in Nat  BY DEF Bookkeeping, TypeOK
<1>4. ASSUME NEW k \in Slot \ {c} PROVE ClientCalls(k)'
  BY <1>2, <1>3, Bystander DEF Calls
<1>5. Contents(inbox'[c]) = {} /\ Distinct(inbox'[c])
  BY <1>2 DEF Contents, Distinct
<1>6. Once(c)'
  BY <1>1, <1>2, <1>5 DEF ClientCalls, Once, Apart
<1>7. Tagged(c)'
  BY <1>1, <1>2, <1>5 DEF ClientCalls, Tagged
<1>8. Owing(c)'
  <2>1. Placed(c)' \subseteq Placed(c) /\ (c \in Open' => Placed(c)' = Placed(c))
    BY <1>2, <1>5 DEF Placed, Commands
  <2> QED BY <1>1, <1>2, <2>1 DEF ClientCalls, Owing
<1>9. OneTag'  BY <1>2 DEF Calls, OneTag
<1> QED BY <1>2, <1>4, <1>6, <1>7, <1>8, <1>9 DEF Calls, ClientCalls

LEMMA FailWaitCalls ==
  ASSUME Bookkeeping, Calls, NEW d \in Slot, NEW c \in Slot, FailWait(d, c)
  PROVE  Calls'
<1>1. PICK w : w = Oldest(Orphans(d, c))  OBVIOUS
<1>2. w \in waits[c] /\ w \in Method
  <2>1. Orphans(d, c) \in SUBSET Method /\ Orphans(d, c) # {}
    BY DEF FailWait, Orphans, Bookkeeping, TypeOK
  <2> QED BY <1>1, <2>1, OldestExists DEF Orphans
<1>3. /\ waits' = [waits EXCEPT ![c] = @ \ {w}]
      /\ results' = [results EXCEPT ![c] = Append(@, Answered(w, -1, 0))]
      /\ UNCHANGED <<inbox, outbuf, methods, frames, owed, link>>
  BY <1>1 DEF FailWait, registry, peer
<1>4. Live' = Live /\ Open' = Open /\ frames \in Nat
      /\ \A k \in Slot : MethodsOf(k)' = MethodsOf(k)
  BY <1>3 DEF Live, Open, Bookkeeping, TypeOK, MethodsOf
<1>5. /\ waits \in [Slot -> SUBSET Method] /\ results \in [Slot -> Seq(Answer)]
  BY DEF Bookkeeping, TypeOK
<1> DEFINE a == Answered(w, -1, 0)
<1>6. a \in Answer /\ a.to = w  BY <1>2 DEF Answered, Answer
<1>7. results' = [results EXCEPT ![c] = Append(@, a)]  BY <1>3
<1> HIDE DEF a
<1>8. ASSUME NEW k \in Slot \ {c} PROVE ClientCalls(k)'
  <2>1. results'[k] = results[k] /\ waits'[k] = waits[k]  BY <1>3, <1>5, <1>7
  <2> QED BY <1>3, <1>4, <2>1, Bystander DEF Calls
<1>9. ClientCalls(c)'
  <2>1. results'[c] = Append(results[c], a) /\ waits'[c] = waits[c] \ {w}
    BY <1>3, <1>5, <1>7
  <2> QED BY <1>2, <1>3, <1>4, <1>6, <2>1, AnswerQueued DEF Calls
<1>10. OneTag' /\ Distinct(methods)'  BY <1>3 DEF Calls, OneTag
<1> QED BY <1>8, <1>9, <1>10 DEF Calls

LEMMA PrepareCalls ==
  ASSUME Bookkeeping, Calls, PrepareOut
  PROVE  Calls'
<1>1. UNCHANGED <<inbox, methods, waits, frames, owed, link>>
  BY DEF PrepareOut, registry, peer
<1>2. Live' = Live /\ Open' = Open /\ frames \in Nat
      /\ \A k \in Slot : MethodsOf(k)' = MethodsOf(k)
  BY <1>1 DEF Live, Open, Bookkeeping, TypeOK, MethodsOf
<1>3. ASSUME NEW c \in Slot PROVE ClientCalls(c)'
  <2>1. ClientCalls(c)  BY DEF Calls
  <2>2. outbuf[c] \in Seq(Out) /\ results[c] \in Seq(Answer) /\ outbuf'[c] \in Seq(Out)
    BY PrepareType DEF Bookkeeping, TypeOK
  <2>3. CASE results'[c] = results[c] /\ outbuf'[c] = outbuf[c]
    BY <1>1, <1>2, <2>1, <2>3, Bystander
  <2>4. ASSUME NEW kind \in {"request", "event"}, NEW body,
               results'[c] = results[c], outbuf'[c] = Append(outbuf[c], Parcel(c, kind, body))
        PROVE  ClientCalls(c)'
    <3> DEFINE p == Parcel(c, kind, body)
    <3>1. p.kind # "result"  BY DEF Parcel
    <3> HIDE DEF p
    <3>2. PICK S : outbuf[c] \in Seq(S) /\ p \in S
      <4>1. outbuf[c] \in Seq(Out \cup {p})  BY <2>2
      <4> QED BY <4>1
    <3>3. Sent(outbuf'[c]) = Sent(outbuf[c]) /\ (SentOnce(outbuf[c]) => SentOnce(outbuf'[c]))
      <4>1. outbuf'[c] = Append(outbuf[c], p)  BY <2>4 DEF p
      <4>2. {h.body.to : h \in {k \in {p} : k.kind = "result"}} = {}  BY <3>1
      <4>3. /\ Sent(outbuf'[c]) = Sent(outbuf[c]) \cup {h.body.to : h \in {k \in {p} : k.kind = "result"}}
            /\ SentOnce(outbuf[c]) => SentOnce(outbuf'[c])
        BY <3>1, <3>2, <4>1, AppendSent
      <4> QED BY <4>2, <4>3
    <3>4. Once(c)'  BY <1>1, <1>2, <2>1, <2>4, <3>3 DEF ClientCalls, Once
    <3>5. Tagged(c)'  BY <1>1, <1>2, <2>1 DEF ClientCalls, Tagged
    <3>6. Owing(c)'  BY <1>1, <1>2, <2>1, <2>4, <3>3 DEF ClientCalls, Owing, Placed
    <3> QED BY <3>4, <3>5, <3>6 DEF ClientCalls
  <2>5. ASSUME results[c] # << >>, results'[c] = Tail(results[c]),
               outbuf'[c] = Append(outbuf[c], Parcel(c, "result", Head(results[c])))
        PROVE  ClientCalls(c)'
    <3> DEFINE p == Parcel(c, "result", Head(results[c]))
    <3>1. PICK h : h = Head(results[c])  OBVIOUS
    <3>2. p.kind = "result" /\ p.body = h  BY <3>1 DEF Parcel
    <3> HIDE DEF p
    <3>3. outbuf'[c] = Append(outbuf[c], p)  BY <2>5 DEF p
    <3>4. PICK S : outbuf[c] \in Seq(S) /\ p \in S
      <4>1. outbuf[c] \in Seq(Out \cup {p})  BY <2>2
      <4> QED BY <4>1
    <3>5. /\ Answers(results[c]) = Answers(results'[c]) \cup {h.to}
          /\ AnswersOnce(results[c]) => /\ AnswersOnce(results'[c])
                                        /\ h.to \notin Answers(results'[c])
      BY <2>2, <2>5, <3>1, TailAnswers
    <3>6. /\ Sent(outbuf'[c]) = Sent(outbuf[c]) \cup {h.to}
          /\ SentOnce(outbuf[c]) /\ h.to \notin Sent(outbuf[c]) => SentOnce(outbuf'[c])
      BY <3>2, <3>3, <3>4, AppendSent
    <3>7. Once(c)'
      BY <1>1, <1>2, <2>1, <3>5, <3>6 DEF ClientCalls, Once, Apart
    <3>8. Tagged(c)'  BY <1>1, <1>2, <2>1 DEF ClientCalls, Tagged
    <3>9. Owing(c)'
      <4>1. Placed(c)' = Placed(c)  BY <1>1, <1>2, <3>5, <3>6 DEF Placed
      <4> QED BY <1>1, <1>2, <2>1, <4>1 DEF ClientCalls, Owing
    <3> QED BY <3>7, <3>8, <3>9 DEF ClientCalls
  <2> QED BY <2>3, <2>4, <2>5, Prepared
<1>4. OneTag' /\ Distinct(methods)'  BY <1>1 DEF Calls, OneTag
<1> QED BY <1>3, <1>4 DEF Calls

LEMMA WriteCalls ==
  ASSUME Bookkeeping, Calls, NEW c \in Slot, Write(c)
  PROVE  Calls'
<1>1. PICK f : f = Head(outbuf[c])  OBVIOUS
<1>2. /\ c \in Open /\ outbuf[c] # << >>
      /\ outbuf' = [outbuf EXCEPT ![c] = Tail(@)]
      /\ owed' = IF f.kind = "result" THEN [owed EXCEPT ![c] = @ \ {f.body.to}] ELSE owed
      /\ UNCHANGED <<inbox, methods, waits, results, frames, link>>
  BY <1>1 DEF Write, Learn, registry, queues
<1>3. Live' = Live /\ Open' = Open /\ frames \in Nat
      /\ \A k \in Slot : MethodsOf(k)' = MethodsOf(k)
  BY <1>2 DEF Live, Open, Bookkeeping, TypeOK, MethodsOf
<1>4. /\ outbuf[c] \in Seq(Out)
      /\ outbuf'[c] = Tail(outbuf[c]) /\ \A k \in Slot \ {c} : outbuf'[k] = outbuf[k]
      /\ owed'[c] = owed[c] \ {h.body.to : h \in {k \in {f} : k.kind = "result"}}
      /\ \A k \in Slot \ {c} : owed'[k] = owed[k]
  BY <1>2 DEF Bookkeeping, TypeOK
<1>5. ASSUME NEW k \in Slot \ {c} PROVE ClientCalls(k)'
  BY <1>2, <1>3, <1>4, Bystander DEF Calls
<1>6. ClientCalls(c)  BY DEF Calls
<1> DEFINE gone == {h.body.to : h \in {k \in {f} : k.kind = "result"}}
<1>7. /\ Sent(outbuf[c]) = Sent(outbuf'[c]) \cup gone
      /\ SentOnce(outbuf[c]) => SentOnce(outbuf'[c])
      /\ SentOnce(outbuf[c]) => gone \cap Sent(outbuf'[c]) = {}
  BY <1>1, <1>2, <1>4, TailSent
<1>8. owed'[c] = owed[c] \ gone  BY <1>4
<1> HIDE DEF gone
<1>9. Once(c)'
  BY <1>2, <1>3, <1>6, <1>7 DEF ClientCalls, Once, Apart
<1>10. Tagged(c)'  BY <1>2, <1>3, <1>6, <1>8 DEF ClientCalls, Tagged
<1>11. Owing(c)'
  <2>1. Placed(c) = Placed(c)' \cup gone  BY <1>2, <1>3, <1>7 DEF Placed
  <2>2. Placed(c)' \cap gone = {}
    BY <1>2, <1>3, <1>6, <1>7 DEF Placed, Commands, ClientCalls, Once, Apart
  <2> QED BY <1>2, <1>3, <1>6, <1>8, <2>1, <2>2 DEF ClientCalls, Owing, Open, Live
<1>12. OneTag'
  <2>1. \A k \in Slot : owed'[k] \subseteq owed[k]  BY <1>4
  <2> QED BY <2>1 DEF Calls, OneTag
<1>13. Distinct(methods)'  BY <1>2 DEF Calls
<1> QED BY <1>5, <1>9, <1>10, <1>11, <1>12, <1>13 DEF Calls, ClientCalls

LEMMA CleanupCalls ==
  ASSUME Bookkeeping, Calls, NEW d \in Slot, Cleanup(d)
  PROVE  Calls'
<1>1. /\ Live' = Live \ {d} /\ Open' = Open /\ d \in Dead
      /\ d \in Live /\ methods = << >> /\ methods' = << >>
  BY CleanupFrame DEF Bookkeeping, Drained, Dead
<1>2. /\ inbox'[d] = << >> /\ outbuf'[d] = << >> /\ results'[d] = << >>
      /\ waits'[d] = {} /\ owed'[d] = {} /\ frames' = frames
      /\ \A k \in Slot \ {d} :
           /\ inbox'[k] = inbox[k] /\ outbuf'[k] = outbuf[k] /\ results'[k] = results[k]
           /\ waits'[k] = waits[k] /\ owed'[k] = owed[k]
  BY DEF Cleanup, Destroy, Bookkeeping, TypeOK
<1>3. frames \in Nat /\ \A k \in Slot : MethodsOf(k) = {} /\ MethodsOf(k)' = {}
  BY <1>1 DEF MethodsOf, Contents, Bookkeeping, TypeOK
<1>4. ASSUME NEW k \in Slot \ {d} PROVE ClientCalls(k)'
  <2>1. k \in Slot /\ ClientCalls(k) /\ (k \in Live => k \in Live') /\ (k \in Open' => k \in Open)
    BY <1>1 DEF Calls
  <2>2. /\ inbox'[k] = inbox[k] /\ outbuf'[k] = outbuf[k] /\ results'[k] = results[k]
        /\ waits'[k] = waits[k] /\ owed'[k] = owed[k]
    BY <1>2
  <2>3. MethodsOf(k)' = MethodsOf(k)  BY <1>3
  <2>4. frames \in Nat /\ frames' \in Nat /\ frames <= frames'  BY <1>2, <1>3
  <2> QED BY <2>1, <2>2, <2>3, <2>4, Bystander
<1>5. ClientCalls(d)'
  <2>1. /\ Contents(inbox'[d]) = {} /\ Answers(results'[d]) = {} /\ Sent(outbuf'[d]) = {}
        /\ Distinct(inbox'[d]) /\ AnswersOnce(results'[d]) /\ SentOnce(outbuf'[d])
    BY <1>2 DEF Contents, Answers, Sent, Distinct, AnswersOnce, SentOnce
  <2>2. Once(d)'  BY <1>2, <1>3, <2>1 DEF Once, Apart
  <2>3. Tagged(d)'  BY <1>2, <1>3, <2>1 DEF Tagged
  <2>4. Owing(d)'  BY <1>1, <1>2, <1>3, <2>1 DEF Owing, Placed, Commands
  <2> QED BY <2>2, <2>3, <2>4 DEF ClientCalls
<1>6. OneTag'
  <2>1. \A k \in Slot : owed'[k] \subseteq owed[k]  BY <1>2
  <2> QED BY <2>1 DEF Calls, OneTag
<1>7. Distinct(methods)'  BY <1>1 DEF Distinct
<1> QED BY <1>4, <1>5, <1>6, <1>7 DEF Calls

LEMMA InitCalls == Init => Calls
<1> SUFFICES ASSUME Init PROVE Calls
  OBVIOUS
<1>1. \A c \in Slot : /\ inbox[c] = << >> /\ outbuf[c] = << >> /\ results[c] = << >>
                      /\ waits[c] = {} /\ owed[c] = {}
  BY DEF Init
<1>2. methods = << >> /\ Live = {} /\ Open = {}  BY DEF Init, Live, Open
<1>3. ASSUME NEW c \in Slot PROVE ClientCalls(c)
  <2>1. /\ Contents(inbox[c]) = {} /\ Answers(results[c]) = {} /\ Sent(outbuf[c]) = {}
        /\ Distinct(inbox[c]) /\ AnswersOnce(results[c]) /\ SentOnce(outbuf[c])
        /\ MethodsOf(c) = {}
    BY <1>1, <1>2 DEF Contents, Answers, Sent, Distinct, AnswersOnce, SentOnce, MethodsOf
  <2>2. Once(c)  BY <1>1, <2>1 DEF Once, Apart
  <2>3. Tagged(c)  BY <1>1, <2>1 DEF Tagged
  <2>4. Owing(c)  BY <1>1, <1>2, <2>1 DEF Owing, Placed, Commands
  <2> QED BY <2>2, <2>3, <2>4 DEF ClientCalls
<1>4. OneTag /\ Distinct(methods)  BY <1>1, <1>2 DEF OneTag, Distinct
<1> QED BY <1>3, <1>4 DEF Calls

LEMMA NextCalls == Bookkeeping /\ Calls /\ [Next]_vars => Calls'
<1> SUFFICES ASSUME Bookkeeping, Calls, [Next]_vars PROVE Calls'
  OBVIOUS
<1>1. CASE Quiet
  <2>1. Live' = Live /\ Open' \subseteq Open  BY <1>1, QuietFrame
  <2> QED BY <1>1, <2>1, QuietQueues, PrepareCalls, WriteCalls, StillCalls
<1>2. ASSUME NEW c \in Slot, Accept(c) PROVE Calls'
  <2>1. Live' = Live \cup {c} /\ Open' = Open \cup {c} /\ c \notin Live
    BY <1>2, AcceptFrame
  <2>2. UNCHANGED <<inbox, outbuf, methods, results, waits, frames, owed>>
    BY <1>2 DEF Accept, queues, peer
  <2> QED BY <2>1, <2>2, StillCalls
<1>3. ASSUME NEW c \in Slot, Announce(c) PROVE Calls'
  <2>1. Live' = Live /\ Open' = Open  BY <1>3, AnnounceFrame
  <2>2. UNCHANGED <<inbox, outbuf, methods, results, waits, frames, owed>>
    BY <1>3 DEF Announce, peer
  <2> QED BY <2>1, <2>2, StillCalls
<1>4. CASE UNCHANGED vars
  BY <1>4, StillCalls DEF vars, registry, queues, peer, Live, Open
<1> QED
  BY <1>1, <1>2, <1>3, <1>4, HandlerCalls, ReceiveCalls, ParseCalls, FailWaitCalls,
     CleanupCalls, NextCases

\* Where every command is, at every step of every pass.
THEOREM CallsCorrect == Spec => [](Bookkeeping /\ Calls)
<1>1. Init => Bookkeeping /\ Calls  BY InitBookkeeping, InitCalls
<1>2. Bookkeeping /\ [Next]_vars => Bookkeeping'
  BY NextType, UniqueIdentifiersStep, DrainedStep, FreeSlotsStep, OwnFramesStep,
     WaitsNamedStep, AnnouncementsStep, RostersStep DEF Bookkeeping
<1>3. Bookkeeping /\ Calls /\ [Next]_vars => Calls'  BY NextCalls
<1> QED BY <1>1, <1>2, <1>3, PTL DEF Spec

\* Calls says of the places of a client what OneAnswer asks for.
LEMMA PlacesAreOwed ==
  ASSUME Bookkeeping, Calls, NEW c \in Open
  PROVE  /\ {p[3] : p \in Places(c)} = owed[c]
         /\ \A p, q \in Places(c) : p[3] = q[3] => p = q
<1> DEFINE
      In(p) == \E i \in DOMAIN inbox[c] :
                 p = <<"inbox", i, inbox[c][i]>> /\ inbox[c][i].op \notin Unanswered
      Me(p) == \E i \in DOMAIN methods :
                 /\ p = <<"methods", i, methods[i]>>
                 /\ methods[i].src = c /\ methods[i].op \notin Unanswered
      Wa(p) == \E w \in waits[c] : p = <<"waits", 0, w>>
      Re(p) == \E i \in DOMAIN results[c] : p = <<"results", i, results[c][i].to>>
      Ou(p) == \E i \in DOMAIN outbuf[c] :
                 p = <<"outbuf", i, outbuf[c][i].body.to>> /\ outbuf[c][i].kind = "result"
<1>1. c \in Slot /\ ClientCalls(c) /\ Distinct(methods)  BY DEF Open, Live, Calls
<1>2. \A p : p \in Places(c) <=> In(p) \/ Me(p) \/ Wa(p) \/ Re(p) \/ Ou(p)
  BY DEF Places
<1>3. \A p : In(p) => p[3] \in Contents(inbox[c]) /\ p[3].op \notin Unanswered
  BY DEF Contents
<1>4. \A p : Me(p) => p[3] \in MethodsOf(c) /\ p[3].op \notin Unanswered
  BY DEF Contents, MethodsOf
<1>5. \A p : Wa(p) => p[3] \in waits[c]
  OBVIOUS
<1>6. \A p : Re(p) => p[3] \in Answers(results[c])
  BY DEF Answers
<1>7. \A p : Ou(p) => p[3] \in Sent(outbuf[c])
  BY DEF Sent
<1>8. \A x \in Contents(inbox[c]) : x.op \notin Unanswered => \E p : In(p) /\ p[3] = x
  <2> TAKE x \in Contents(inbox[c])
  <2>1. PICK i \in DOMAIN inbox[c] : x = inbox[c][i]  BY DEF Contents
  <2>2. <<"inbox", i, x>>[3] = x  OBVIOUS
  <2> QED BY <2>1, <2>2
<1>9. \A x \in MethodsOf(c) : x.op \notin Unanswered => \E p : Me(p) /\ p[3] = x
  <2> TAKE x \in MethodsOf(c)
  <2>1. x.src = c /\ \E i \in DOMAIN methods : x = methods[i]  BY DEF Contents, MethodsOf
  <2>2. PICK i \in DOMAIN methods : x = methods[i]  BY <2>1
  <2>3. <<"methods", i, x>>[3] = x  OBVIOUS
  <2> QED BY <2>1, <2>2, <2>3
<1>10. \A x \in waits[c] : \E p : Wa(p) /\ p[3] = x
  <2> TAKE x \in waits[c]
  <2>1. <<"waits", 0, x>>[3] = x  OBVIOUS
  <2> QED BY <2>1
<1>11. \A x \in Answers(results[c]) : \E p : Re(p) /\ p[3] = x
  <2> TAKE x \in Answers(results[c])
  <2>1. PICK i \in DOMAIN results[c] : x = results[c][i].to  BY DEF Answers
  <2>2. <<"results", i, x>>[3] = x  OBVIOUS
  <2> QED BY <2>1, <2>2
<1>12. \A x \in Sent(outbuf[c]) : \E p : Ou(p) /\ p[3] = x
  <2> TAKE x \in Sent(outbuf[c])
  <2>1. PICK i \in DOMAIN outbuf[c] : x = outbuf[c][i].body.to /\ outbuf[c][i].kind = "result"
    BY DEF Sent
  <2>2. <<"outbuf", i, x>>[3] = x  OBVIOUS
  <2> QED BY <2>1, <2>2
<1>13. \A p, q : In(p) /\ In(q) /\ p[3] = q[3] => p = q
  <2> SUFFICES ASSUME NEW i \in DOMAIN inbox[c], NEW j \in DOMAIN inbox[c],
                      <<"inbox", i, inbox[c][i]>>[3] = <<"inbox", j, inbox[c][j]>>[3]
               PROVE  <<"inbox", i, inbox[c][i]>> = <<"inbox", j, inbox[c][j]>>
    OBVIOUS
  <2> QED BY <1>1 DEF ClientCalls, Once, Distinct
<1>14. \A p, q : Me(p) /\ Me(q) /\ p[3] = q[3] => p = q
  <2> SUFFICES ASSUME NEW i \in DOMAIN methods, NEW j \in DOMAIN methods,
                      <<"methods", i, methods[i]>>[3] = <<"methods", j, methods[j]>>[3]
               PROVE  <<"methods", i, methods[i]>> = <<"methods", j, methods[j]>>
    OBVIOUS
  <2> QED BY <1>1 DEF Distinct
<1>15. \A p, q : Wa(p) /\ Wa(q) /\ p[3] = q[3] => p = q
  OBVIOUS
<1>16. \A p, q : Re(p) /\ Re(q) /\ p[3] = q[3] => p = q
  <2> SUFFICES ASSUME NEW i \in DOMAIN results[c], NEW j \in DOMAIN results[c],
                      <<"results", i, results[c][i].to>>[3] = <<"results", j, results[c][j].to>>[3]
               PROVE  <<"results", i, results[c][i].to>> = <<"results", j, results[c][j].to>>
    OBVIOUS
  <2> QED BY <1>1 DEF ClientCalls, Once, AnswersOnce
<1>17. \A p, q : Ou(p) /\ Ou(q) /\ p[3] = q[3] => p = q
  <2> SUFFICES ASSUME NEW i \in DOMAIN outbuf[c], NEW j \in DOMAIN outbuf[c],
                      outbuf[c][i].kind = "result", outbuf[c][j].kind = "result",
                      <<"outbuf", i, outbuf[c][i].body.to>>[3]
                        = <<"outbuf", j, outbuf[c][j].body.to>>[3]
               PROVE  <<"outbuf", i, outbuf[c][i].body.to>> = <<"outbuf", j, outbuf[c][j].body.to>>
    OBVIOUS
  <2> QED BY <1>1 DEF ClientCalls, Once, SentOnce
<1> HIDE DEF In, Me, Wa, Re, Ou
<1>18. \A x : x \in Placed(c) <=> \E p \in Places(c) : p[3] = x
  BY <1>2, <1>3, <1>4, <1>5, <1>6, <1>7, <1>8, <1>9, <1>10, <1>11, <1>12
     DEF Placed, Commands
<1>19. Placed(c) = owed[c]  BY <1>1 DEF ClientCalls, Owing
<1>20. \A p, q \in Places(c) : p[3] = q[3] => p = q
  BY <1>1, <1>2, <1>3, <1>4, <1>5, <1>6, <1>7, <1>13, <1>14, <1>15, <1>16, <1>17
     DEF ClientCalls, Once, Apart
<1> QED BY <1>18, <1>19, <1>20

\* Every command a connected client sent and got no answer to is in exactly one
\* place, once, through parsing, handling, waiting, the clean-up of its callee
\* and the output buffer: none is dropped and none is answered twice.
THEOREM EveryCommandInOnePlace == Spec => []OneAnswer
<1>1. Bookkeeping /\ Calls => OneAnswer
  <2> SUFFICES ASSUME Bookkeeping, Calls, NEW c \in Open
               PROVE  /\ {p[3] : p \in Places(c)} = owed[c]
                      /\ \A p, q \in Places(c) : p[3] = q[3] => p = q
    BY DEF OneAnswer
  <2> QED BY PlacesAreOwed
<1> QED BY <1>1, CallsCorrect, PTL

-----------------------------------------------------------------------------
(* Requests and the replies to them. *)

BodiesIn(s, kind) == {s[i].body : i \in {j \in DOMAIN s : s[j].kind = kind}}
BodyOf(x, kind) == {h.body : h \in {k \in {x} : k.kind = kind}}

LEMMA TailBodies ==
  ASSUME NEW S, NEW s \in Seq(S), s # << >>, NEW kind
  PROVE  BodiesIn(s, kind) = BodiesIn(Tail(s), kind) \cup BodyOf(Head(s), kind)
<1> DEFINE t == Tail(s)
<1>1. /\ t \in Seq(S) /\ Len(t) = Len(s) - 1 /\ Len(s) \in Nat \ {0}
      /\ \A i \in 1 .. Len(t) : t[i] = s[i + 1]
      /\ Head(s) = s[1]
  BY HeadTailProperties, EmptySeq
<1> HIDE DEF t
<1>2. /\ DOMAIN s = 1 .. Len(s) /\ DOMAIN t = 1 .. Len(s) - 1 /\ 1 \in DOMAIN s
      /\ \A i \in DOMAIN t : t[i] = s[i + 1] /\ i + 1 \in DOMAIN s
  BY <1>1
<1>3. \A i \in DOMAIN s : i # 1 => i - 1 \in DOMAIN t /\ t[i - 1] = s[i]
  BY <1>1, <1>2
<1>4. BodiesIn(s, kind) = BodiesIn(t, kind) \cup BodyOf(s[1], kind)
  BY <1>2, <1>3 DEF BodiesIn, BodyOf
<1> QED BY <1>1, <1>4 DEF t

LEMMA AppendBodies ==
  ASSUME NEW S, NEW s \in Seq(S), NEW x, NEW kind
  PROVE  BodiesIn(Append(s, x), kind) = BodiesIn(s, kind) \cup BodyOf(x, kind)
<1> DEFINE t == Append(s, x)
<1>1. s \in Seq(S \cup {x})  OBVIOUS
<1>2. /\ Len(t) = Len(s) + 1 /\ Len(s) \in Nat
      /\ \A i \in 1 .. Len(s) : t[i] = s[i]
      /\ t[Len(s) + 1] = x /\ t \in Seq(S \cup {x})
  BY <1>1, AppendProperties
<1> HIDE DEF t
<1>3. DOMAIN s = 1 .. Len(s) /\ DOMAIN t = 1 .. Len(s) + 1  BY <1>2
<1>4. \A i \in DOMAIN t : (i \in DOMAIN s /\ t[i] = s[i]) \/ (i = Len(s) + 1 /\ t[i] = x)
  <2> TAKE i \in DOMAIN t
  <2>1. i \in 1 .. Len(s) \/ i = Len(s) + 1  BY <1>2, <1>3
  <2> QED BY <1>2, <1>3, <2>1
<1>5. /\ Len(s) + 1 \in DOMAIN t
      /\ \A i \in DOMAIN s : i \in DOMAIN t /\ t[i] = s[i]
  BY <1>2, <1>3
<1>6. BodiesIn(t, kind) = BodiesIn(s, kind) \cup BodyOf(x, kind)
  BY <1>2, <1>4, <1>5 DEF BodiesIn, BodyOf
<1> QED BY <1>6 DEF t

\* Frames of client c still to be handled, and requests it has or had coming.
Arrived(c) == Contents(inbox[c]) \cup MethodsOf(c)
RequestsOf(c) ==
  Contents(requests[c]) \cup held[c] \cup BodiesIn(outbuf[c], "request")

\* What is said of the call with this tag, as long as it is owed, is so.
AboutCall(tag, from, what, seq) ==
  /\ tag \in 1 .. frames /\ from \in Id
  /\ \A e \in Slot : \A m \in owed[e] : m.tag = tag =>
       m.op = "call" /\ ident[e] = from /\ m.what = what /\ m.seq = seq

\* A request says what its call says, and so does the reply to it.
Traced(c) ==
  /\ \A r \in RequestsOf(c) : AboutCall(r.tag, r.from, r.what, r.seq)
  /\ \A m \in Arrived(c) :
       m.re # 0 => m.op = "result" /\ AboutCall(m.re, m.who, m.what, m.seq)

\* A client of the library has one call to a sequence.
Ruled(c) ==
  \A m, n \in owed[c] : m.op = "call" /\ n.op = "call" =>
    ValidSequence(m.seq) /\ (m.seq = n.seq => m = n)

\* The reply with tag re goes to command m, or to one that is owed no more.
Straight(m, re) ==
  re \in {0, m.tag} \/ \A d \in Slot : \A n \in owed[d] : n.tag # re

Handed(c) ==
  \A a \in AnswersFor(c) : a.re <= frames /\ (Conforming => Straight(a.to, a.re))

Replies ==
  \A c \in Slot : Traced(c) /\ (Conforming => Ruled(c)) /\ Handed(c)

\* Steps that bring no new command.
LEMMA KeptReplies ==
  ASSUME Bookkeeping, Replies, frames' = frames,
         \A e \in Slot : /\ owed'[e] \subseteq owed[e]
                         /\ owed'[e] # {} /\ ident[e] # None => ident'[e] = ident[e],
         \A c \in Slot :
           /\ Arrived(c)' \subseteq Arrived(c)
           /\ \A r \in RequestsOf(c)' :
                r \in RequestsOf(c) \/ AboutCall(r.tag, r.from, r.what, r.seq)
           /\ \A a \in AnswersFor(c)' :
                a \in AnswersFor(c) \/ (a.re <= frames /\ (Conforming => Straight(a.to, a.re)))
  PROVE  Replies'
<1>1. None \notin Id  BY BrokerAssumption
<1>2. ASSUME NEW tag, NEW from, NEW what, NEW seq, AboutCall(tag, from, what, seq)
      PROVE  AboutCall(tag, from, what, seq)'
  BY <1>1, <1>2 DEF AboutCall
<1>3. ASSUME NEW m, NEW re, Straight(m, re) PROVE Straight(m, re)'
  BY <1>3 DEF Straight
<1> SUFFICES ASSUME NEW c \in Slot
             PROVE  Traced(c)' /\ (Conforming => Ruled(c)') /\ Handed(c)'
  BY DEF Replies
<1>4. Traced(c)'
  <2>1. ASSUME NEW r \in RequestsOf(c)' PROVE AboutCall(r.tag, r.from, r.what, r.seq)'
    <3>1. AboutCall(r.tag, r.from, r.what, r.seq)
      BY <2>1 DEF Replies, Traced
    <3> QED BY <1>2, <3>1
  <2>2. ASSUME NEW m \in Arrived(c)', m.re # 0
        PROVE  m.op = "result" /\ AboutCall(m.re, m.who, m.what, m.seq)'
    <3>1. m.op = "result" /\ AboutCall(m.re, m.who, m.what, m.seq)
      BY <2>2 DEF Replies, Traced
    <3> QED BY <1>2, <3>1
  <2> QED BY <2>1, <2>2 DEF Traced
<1>5. Conforming => Ruled(c)'
  BY DEF Replies, Ruled
<1>6. Handed(c)'
  <2> SUFFICES ASSUME NEW a \in AnswersFor(c)'
               PROVE  a.re <= frames /\ (Conforming => Straight(a.to, a.re)')
    BY DEF Handed
  <2>1. a.re <= frames /\ (Conforming => Straight(a.to, a.re))
    BY DEF Replies, Handed
  <2> QED BY <1>3, <2>1
<1> QED BY <1>4, <1>5, <1>6

\* Filling the output buffers loses no request and no answer.
LEMMA PreparedBodies ==
  ASSUME Bookkeeping, PrepareOut, NEW c \in Slot
  PROVE  /\ RequestsOf(c)' = RequestsOf(c)
         /\ AnswersFor(c)' = AnswersFor(c)
<1>1. /\ outbuf[c] \in Seq(Out) /\ results[c] \in Seq(Answer)
      /\ requests[c] \in Seq(Request)
  BY DEF Bookkeeping, TypeOK
<1>2. held' = held  BY DEF PrepareOut, peer
<1>3. ASSUME NEW kind, NEW other, NEW body, kind # other,
             outbuf'[c] = Append(outbuf[c], Parcel(c, kind, body))
      PROVE  /\ BodiesIn(outbuf'[c], kind) = BodiesIn(outbuf[c], kind) \cup {body}
             /\ BodiesIn(outbuf'[c], other) = BodiesIn(outbuf[c], other)
  <2> DEFINE p == Parcel(c, kind, body)
  <2>1. p.kind = kind /\ p.body = body  BY DEF Parcel
  <2>2. outbuf'[c] = Append(outbuf[c], p)  BY <1>3
  <2> HIDE DEF p
  <2>3. BodyOf(p, kind) = {body} /\ BodyOf(p, other) = {}
    BY <1>3, <2>1 DEF BodyOf
  <2>4. \A k : BodiesIn(outbuf'[c], k) = BodiesIn(outbuf[c], k) \cup BodyOf(p, k)
    BY <1>1, <2>2, AppendBodies
  <2> QED BY <2>3, <2>4
<1>4. CASE /\ outbuf'[c] = outbuf[c] /\ results'[c] = results[c]
           /\ requests'[c] = requests[c]
  BY <1>2, <1>4 DEF RequestsOf, AnswersFor
<1>5. CASE /\ results[c] # << >> /\ results'[c] = Tail(results[c])
           /\ outbuf'[c] = Append(outbuf[c], Parcel(c, "result", Head(results[c])))
           /\ requests'[c] = requests[c]
  <2>1. Contents(results[c]) = Contents(results'[c]) \cup {Head(results[c])}
    BY <1>1, <1>5, TailContents
  <2>2. /\ BodiesIn(outbuf'[c], "result") = BodiesIn(outbuf[c], "result") \cup {Head(results[c])}
        /\ BodiesIn(outbuf'[c], "request") = BodiesIn(outbuf[c], "request")
    <3>1. PICK h : h = Head(results[c])  OBVIOUS
    <3>2. outbuf'[c] = Append(outbuf[c], Parcel(c, "result", h)) /\ "result" # "request"
      BY <1>5, <3>1
    <3>3. /\ BodiesIn(outbuf'[c], "result") = BodiesIn(outbuf[c], "result") \cup {h}
          /\ BodiesIn(outbuf'[c], "request") = BodiesIn(outbuf[c], "request")
      BY <1>3, <3>2, ZenonT(30)
    <3> QED BY <3>1, <3>3
  <2> QED BY <1>2, <1>5, <2>1, <2>2 DEF RequestsOf, AnswersFor, AnswersIn, BodiesIn
<1>6. CASE /\ requests[c] # << >> /\ requests'[c] = Tail(requests[c])
           /\ outbuf'[c] = Append(outbuf[c], Parcel(c, "request", Head(requests[c])))
           /\ results'[c] = results[c]
  <2>1. Contents(requests[c]) = Contents(requests'[c]) \cup {Head(requests[c])}
    BY <1>1, <1>6, TailContents
  <2>2. /\ BodiesIn(outbuf'[c], "request") = BodiesIn(outbuf[c], "request") \cup {Head(requests[c])}
        /\ BodiesIn(outbuf'[c], "result") = BodiesIn(outbuf[c], "result")
    <3>1. PICK h : h = Head(requests[c])  OBVIOUS
    <3>2. outbuf'[c] = Append(outbuf[c], Parcel(c, "request", h)) /\ "request" # "result"
      BY <1>6, <3>1
    <3>3. /\ BodiesIn(outbuf'[c], "request") = BodiesIn(outbuf[c], "request") \cup {h}
          /\ BodiesIn(outbuf'[c], "result") = BodiesIn(outbuf[c], "result")
      BY <1>3, <3>2, ZenonT(30)
    <3> QED BY <3>1, <3>3
  <2>3. AnswersIn(outbuf[c])' = AnswersIn(outbuf[c])  BY <2>2 DEF AnswersIn, BodiesIn
  <2> QED BY <1>2, <1>6, <2>1, <2>2, <2>3 DEF RequestsOf, AnswersFor
<1>7. CASE /\ outbuf'[c] = Append(outbuf[c], Parcel(c, "event", Head(events[c])))
           /\ results'[c] = results[c] /\ requests'[c] = requests[c]
  <2>1. /\ BodiesIn(outbuf'[c], "request") = BodiesIn(outbuf[c], "request")
        /\ BodiesIn(outbuf'[c], "result") = BodiesIn(outbuf[c], "result")
    BY <1>3, <1>7
  <2>2. AnswersIn(outbuf[c])' = AnswersIn(outbuf[c])  BY <2>1 DEF AnswersIn, BodiesIn
  <2> QED BY <1>2, <1>7, <2>1, <2>2 DEF RequestsOf, AnswersFor
<1> QED BY <1>4, <1>5, <1>6, <1>7, Prepared

\* A frame that is written takes its answer along, and leaves its request held.
LEMMA WrittenBodies ==
  ASSUME Bookkeeping, NEW c \in Slot, Write(c)
  PROVE  /\ RequestsOf(c)' = RequestsOf(c)
         /\ AnswersFor(c)' \subseteq AnswersFor(c)
         /\ \A k \in Slot \ {c} : /\ RequestsOf(k)' = RequestsOf(k)
                                  /\ AnswersFor(k)' = AnswersFor(k)
<1>1. PICK f : f = Head(outbuf[c])  OBVIOUS
<1>2. /\ outbuf[c] # << >> /\ outbuf' = [outbuf EXCEPT ![c] = Tail(@)]
      /\ held' = IF f.kind = "request" THEN [held EXCEPT ![c] = @ \cup {f.body}] ELSE held
      /\ UNCHANGED <<requests, results>>
  BY <1>1 DEF Write, Learn, queues
<1>3. /\ outbuf[c] \in Seq(Out)
      /\ outbuf'[c] = Tail(outbuf[c]) /\ \A k \in Slot \ {c} : outbuf'[k] = outbuf[k]
      /\ held'[c] = held[c] \cup BodyOf(f, "request")
      /\ \A k \in Slot \ {c} : held'[k] = held[k]
  BY <1>2 DEF Bookkeeping, TypeOK, BodyOf
<1>4. \A k : BodiesIn(outbuf[c], k) = BodiesIn(outbuf'[c], k) \cup BodyOf(f, k)
  BY <1>1, <1>2, <1>3, TailBodies
<1>5. RequestsOf(c)' = RequestsOf(c)
  BY <1>2, <1>3, <1>4 DEF RequestsOf
<1>6. AnswersFor(c)' \subseteq AnswersFor(c)
  <2>1. BodiesIn(outbuf'[c], "result") \subseteq BodiesIn(outbuf[c], "result")
    BY <1>4
  <2>2. AnswersIn(outbuf'[c]) \subseteq AnswersIn(outbuf[c])
    BY <2>1 DEF AnswersIn, BodiesIn
  <2> QED BY <1>2, <2>2 DEF AnswersFor
<1>7. \A k \in Slot \ {c} : RequestsOf(k)' = RequestsOf(k) /\ AnswersFor(k)' = AnswersFor(k)
  BY <1>2, <1>3 DEF RequestsOf, AnswersFor
<1> QED BY <1>5, <1>6, <1>7

\* What the handlers do to requests and waits: only a call adds to them.
LEMMA HandlerRequests ==
  ASSUME Bookkeeping, HandleMethod
  PROVE  \/ UNCHANGED requests /\ \A k \in Slot : waits'[k] \subseteq waits[k]
         \/ \E m \in Method, d \in Live :
              /\ m = Head(methods) /\ m.op = "call" /\ ident[m.src] # None
              /\ ident[d] # None /\ ident[d] = m.who /\ m.what \in cmds[d]
              /\ UNCHANGED <<ident, link, results>>
              /\ requests' = [requests EXCEPT ![d] = Append(@,
                   [from |-> ident[m.src], what |-> m.what, seq |-> m.seq, tag |-> m.tag])]
              /\ waits' = [waits EXCEPT ![m.src] = @ \cup {m}]
<1>1. CASE HandleCall
  <2>1. Head(methods) \in Method
    BY <1>1, HeadType DEF HandleCall, Take, Bookkeeping
  <2>2. Head(methods).op = "call"  BY <1>1 DEF HandleCall, Take
  <2>3. CASE UNCHANGED <<requests, waits>>  BY <2>3
  <2>4. CASE ~UNCHANGED <<requests, waits>>
    BY <1>1, <2>1, <2>2, <2>4 DEF HandleCall, Named
  <2> QED BY <2>3, <2>4
<1>2. CASE HandleResult
  <2>1. \/ UNCHANGED waits
        \/ \E c \in Slot : \E w : waits' = [waits EXCEPT ![c] = @ \ {w}]
    BY <1>2 DEF HandleResult, Named, Live
  <2>2. waits \in [Slot -> SUBSET Method] /\ UNCHANGED requests
    BY <1>2 DEF Bookkeeping, TypeOK, HandleResult
  <2> QED BY <2>1, <2>2
<1>3. CASE ~(HandleCall \/ HandleResult)
  BY <1>3 DEF HandleMethod, HandleCreate, HandleSubscribe, HandleUnsubscribe,
     HandleRegister, HandleUnregister, CrashInUnregister, HandlePublish,
     HandleEvent, HandleQuery, HandleClose, queues, SetIdentifier,
     AddSubscription, DelSubscription, AddCommand, DelCommand
<1> QED BY <1>1, <1>2, <1>3

-----------------------------------------------------------------------------
(* Replies is inductive. *)

LEMMA StillReplies ==
  ASSUME Bookkeeping, Replies,
         UNCHANGED <<inbox, outbuf, methods, requests, results, frames, owed, held, ident>>
  PROVE  Replies'
<1>1. ASSUME NEW c \in Slot
      PROVE  /\ Arrived(c)' = Arrived(c) /\ RequestsOf(c)' = RequestsOf(c)
             /\ AnswersFor(c)' = AnswersFor(c)
  BY DEF Arrived, MethodsOf, RequestsOf, AnswersFor
<1> QED BY <1>1, KeptReplies

LEMMA PrepareReplies ==
  ASSUME Bookkeeping, Replies, PrepareOut
  PROVE  Replies'
<1>1. UNCHANGED <<inbox, methods, frames, owed, ident>>
  BY DEF PrepareOut, registry, peer
<1>2. \A c \in Slot : Arrived(c)' = Arrived(c)  BY <1>1 DEF Arrived, MethodsOf
<1>3. \A c \in Slot : RequestsOf(c)' = RequestsOf(c) /\ AnswersFor(c)' = AnswersFor(c)
  BY PreparedBodies
<1> QED BY <1>1, <1>2, <1>3, KeptReplies

LEMMA WriteReplies ==
  ASSUME Bookkeeping, Replies, NEW c \in Slot, Write(c)
  PROVE  Replies'
<1>1. UNCHANGED <<inbox, methods, frames, ident>> /\ \A e \in Slot : owed'[e] \subseteq owed[e]
  <2>1. owed' = owed \/ \E x : owed' = [owed EXCEPT ![c] = @ \ {x}]
    BY DEF Write, Learn
  <2>2. owed \in [Slot -> SUBSET Method]  BY DEF Bookkeeping, TypeOK
  <2>3. \A e \in Slot : owed'[e] \subseteq owed[e]  BY <2>1, <2>2
  <2> QED BY <2>3 DEF Write, registry
<1>2. \A k \in Slot : Arrived(k)' = Arrived(k)  BY <1>1 DEF Arrived, MethodsOf
<1>3. \A k \in Slot : RequestsOf(k)' = RequestsOf(k) /\ AnswersFor(k)' \subseteq AnswersFor(k)
  BY WrittenBodies
<1> QED BY <1>1, <1>2, <1>3, KeptReplies

LEMMA ParseReplies ==
  ASSUME Bookkeeping, Calls, Replies, NEW c \in Slot, Parse(c)
  PROVE  Replies'
<1>1. /\ inbox'[c] = << >> /\ \A k \in Slot \ {c} : inbox'[k] = inbox[k]
      /\ \A k \in Slot \ {c} : MethodsOf(k)' = MethodsOf(k)
      /\ MethodsOf(c)' \subseteq MethodsOf(c) \cup Contents(inbox[c])
      /\ UNCHANGED <<outbuf, requests, results, frames, owed, held, ident>>
  BY Parsed DEF Calls, ClientCalls, Once, Apart
<1>2. \A k \in Slot : Arrived(k)' \subseteq Arrived(k)
  <2>1. Contents(inbox'[c]) = {}  BY <1>1 DEF Contents
  <2> QED BY <1>1, <2>1 DEF Arrived
<1>3. \A k \in Slot : RequestsOf(k)' = RequestsOf(k) /\ AnswersFor(k)' = AnswersFor(k)
  BY <1>1 DEF RequestsOf, AnswersFor
<1> QED BY <1>1, <1>2, <1>3, KeptReplies

LEMMA FailWaitReplies ==
  ASSUME Bookkeeping, Replies, NEW d \in Slot, NEW c \in Slot, FailWait(d, c)
  PROVE  Replies'
<1>1. PICK w : w = Oldest(Orphans(d, c))  OBVIOUS
<1>2. w \in Method
  <2>1. Orphans(d, c) \in SUBSET Method /\ Orphans(d, c) # {}
    BY DEF FailWait, Orphans, Bookkeeping, TypeOK
  <2> QED BY <1>1, <2>1, OldestExists
<1> DEFINE a == Answered(w, -1, 0)
<1>3. a \in Answer /\ a.re = 0  BY <1>2 DEF Answered, Answer
<1>4. /\ results' = [results EXCEPT ![c] = Append(@, a)]
      /\ UNCHANGED <<inbox, outbuf, methods, requests, frames, owed, held, ident>>
  BY <1>1 DEF FailWait, registry, peer
<1> HIDE DEF a
<1>5. ASSUME NEW k \in Slot
      PROVE  /\ Arrived(k)' = Arrived(k) /\ RequestsOf(k)' = RequestsOf(k)
             /\ AnswersFor(k)' \subseteq AnswersFor(k) \cup {a}
  <2>1. results[k] \in Seq(Answer) /\ results'[k] \in {results[k], Append(results[k], a)}
    BY <1>4 DEF Bookkeeping, TypeOK
  <2>2. Contents(Append(results[k], a)) = Contents(results[k]) \cup {a}
    BY <1>3, <2>1, AppendContents
  <2> QED BY <1>4, <2>1, <2>2 DEF Arrived, MethodsOf, RequestsOf, AnswersFor
<1>6. a.re <= frames /\ Straight(a.to, a.re)
  BY <1>3 DEF Straight, Bookkeeping, TypeOK
<1> QED BY <1>4, <1>5, <1>6, KeptReplies

LEMMA CleanupReplies ==
  ASSUME Bookkeeping, Replies, NEW d \in Slot, Cleanup(d)
  PROVE  Replies'
<1>1. /\ inbox'[d] = << >> /\ outbuf'[d] = << >> /\ results'[d] = << >> /\ requests'[d] = << >>
      /\ owed'[d] = {} /\ held'[d] = {} /\ UNCHANGED <<frames, methods>>
      /\ \A k \in Slot \ {d} :
           /\ inbox'[k] = inbox[k] /\ outbuf'[k] = outbuf[k] /\ results'[k] = results[k]
           /\ requests'[k] = requests[k] /\ owed'[k] = owed[k] /\ held'[k] = held[k]
           /\ ident'[k] = ident[k]
  BY DEF Cleanup, Destroy, Bookkeeping, TypeOK
<1>2. ASSUME NEW k \in Slot
      PROVE  /\ Arrived(k)' \subseteq Arrived(k) /\ RequestsOf(k)' \subseteq RequestsOf(k)
             /\ AnswersFor(k)' \subseteq AnswersFor(k)
  <2>1. CASE k # d
    BY <1>1, <2>1 DEF Arrived, MethodsOf, RequestsOf, AnswersFor
  <2>2. CASE k = d
    <3>1. /\ Contents(inbox'[d]) = {} /\ Contents(results'[d]) = {} /\ Contents(requests'[d]) = {}
          /\ BodiesIn(outbuf'[d], "request") = {} /\ AnswersIn(outbuf'[d]) = {}
      BY <1>1 DEF Contents, BodiesIn, AnswersIn
    <3> QED BY <1>1, <2>2, <3>1 DEF Arrived, MethodsOf, RequestsOf, AnswersFor
  <2> QED BY <2>1, <2>2
<1>3. \A e \in Slot : /\ owed'[e] \subseteq owed[e]
                      /\ owed'[e] # {} /\ ident[e] # None => ident'[e] = ident[e]
  BY <1>1
<1> QED BY <1>1, <1>2, <1>3, KeptReplies

\* The wait a reply completes is its own call, if the caller still has it: a
\* client has one call to a sequence, and the identifier names one client.
LEMMA OwnCall ==
  ASSUME Bookkeeping, Calls, Replies, Conforming,
         NEW c \in Slot, NEW w \in waits[c], NEW e \in Slot, NEW n \in owed[e],
         NEW d \in Slot, NEW m \in Arrived(d), m.re = n.tag, ident[c] = m.who, c \in Live,
         w.seq = m.seq
  PROVE  n = w /\ e = c
<1>1. n.tag \in 1 .. frames /\ n.src = e
  BY DEF Calls, ClientCalls, Tagged
<1>2. m.re # 0  BY <1>1
<1>3. AboutCall(m.re, m.who, m.what, m.seq)  BY <1>2 DEF Replies, Traced
<1>4. n.op = "call" /\ ident[e] = m.who /\ n.seq = m.seq /\ m.who \in Id
  BY <1>3 DEF AboutCall
<1>5. e \in Live  BY DEF Calls, ClientCalls, Owing
<1>6. m.who # None  BY <1>4, BrokerAssumption
<1>7. e = c  BY <1>4, <1>5, <1>6 DEF Bookkeeping, UniqueIdentifiers
<1>8. w \in owed[c] /\ w.op = "call"
  <2>1. Tagged(c) /\ Owing(c)  BY DEF Calls, ClientCalls
  <2> QED BY <2>1 DEF Owing, Placed, Tagged
<1> QED BY <1>4, <1>7, <1>8 DEF Replies, Ruled

LEMMA HandlerReplies ==
  ASSUME Bookkeeping, Calls, Replies, HandleMethod
  PROVE  Replies'
<1>1. PICK m : m = Head(methods)  OBVIOUS
<1>2. /\ UNCHANGED <<inbox, outbuf, frames, owed, held>> /\ methods # << >>
      /\ \/ UNCHANGED <<methods, waits, results>>
         \/ methods' = Tail(methods) /\ Dealt(m)
  BY <1>1, HandlerPlaces
<1>3. m \in Method /\ m.src \in Live /\ m.src \in Slot /\ m \in MethodsOf(m.src)
  <2>1. m \in Method /\ m.src \in Live  BY <1>1, <1>2, HandlerSender, HeadType DEF Bookkeeping
  <2>2. methods \in Seq(Method) /\ 1 \in DOMAIN methods /\ m = methods[1]
    BY <1>1, <1>2, HeadTailProperties DEF Bookkeeping, TypeOK
  <2> QED BY <2>1, <2>2 DEF MethodsOf, Contents, Live
<1>4. \A k \in Slot : Arrived(k)' \subseteq Arrived(k)
  <2>1. CASE methods' = methods  BY <1>2, <2>1 DEF Arrived, MethodsOf
  <2>2. CASE methods' = Tail(methods)
    <3>1. \A k \in Slot : MethodsOf(k)' \subseteq MethodsOf(k)
      BY <1>2, <2>2, HandlerMethods DEF Calls
    <3> QED BY <1>2, <3>1 DEF Arrived
  <2> QED BY <1>2, <2>1, <2>2
<1>5. \A e \in Slot : ident[e] # None => ident'[e] = ident[e]
  BY HandlerIdent DEF Bookkeeping, TypeOK, Live
<1>6. ASSUME NEW k \in Slot, NEW r \in RequestsOf(k)'
      PROVE  r \in RequestsOf(k) \/ AboutCall(r.tag, r.from, r.what, r.seq)
  <2>1. CASE UNCHANGED requests  BY <1>2, <1>6, <2>1 DEF RequestsOf
  <2>2. CASE ~UNCHANGED requests
    <3> DEFINE q == [from |-> ident[m.src], what |-> m.what, seq |-> m.seq, tag |-> m.tag]
    <3>1. PICK d \in Live :
            /\ m.op = "call" /\ ident[m.src] # None
            /\ requests' = [requests EXCEPT ![d] = Append(@, q)]
      BY <1>1, <2>2, HandlerRequests
    <3>2. q \in Request /\ q.tag = m.tag /\ q.from = ident[m.src] /\ q.what = m.what
            /\ q.seq = m.seq
      BY <1>3, <3>1 DEF Request, Method, Bookkeeping, TypeOK
    <3> HIDE DEF q
    <3>3. requests[k] \in Seq(Request) /\ requests'[k] \in {requests[k], Append(requests[k], q)}
      BY <3>1 DEF Bookkeeping, TypeOK
    <3>4. Contents(Append(requests[k], q)) = Contents(requests[k]) \cup {q}
      BY <3>2, <3>3, AppendContents
    <3>5. r \in RequestsOf(k) \/ r = q
      BY <1>2, <1>6, <3>3, <3>4 DEF RequestsOf
    <3>6. m \in owed[m.src]
      BY <1>3, <3>1 DEF Calls, ClientCalls, Owing, Placed, Commands, Unanswered
    <3>7. AboutCall(m.tag, ident[m.src], m.what, m.seq)
      <4>1. m.tag \in 1 .. frames
        BY <1>3, <3>6 DEF Calls, ClientCalls, Tagged
      <4>2. ident[m.src] \in Id  BY <1>3, <3>1 DEF Bookkeeping, TypeOK
      <4>3. ASSUME NEW e \in Slot, NEW n \in owed[e], n.tag = m.tag PROVE n = m /\ e = m.src
        <5>1. n = m  BY <1>3, <3>6, <4>3 DEF Calls, OneTag
        <5>2. n.src = e  BY DEF Calls, ClientCalls, Tagged
        <5> QED BY <5>1, <5>2
      <4> QED BY <3>1, <4>1, <4>2, <4>3 DEF AboutCall
    <3> QED BY <3>2, <3>5, <3>7
  <2> QED BY <2>1, <2>2
<1>7. ASSUME NEW k \in Slot, NEW a \in AnswersFor(k)'
      PROVE  a \in AnswersFor(k) \/ (a.re <= frames /\ (Conforming => Straight(a.to, a.re)))
  <2>1. CASE results'[k] = results[k]  BY <1>2, <1>7, <2>1 DEF AnswersFor
  <2>2. results \in [Slot -> Seq(Answer)] /\ frames \in Nat
        /\ waits \in [Slot -> SUBSET Method]
    BY DEF Bookkeeping, TypeOK
  <2>3. CASE \E rc \in {0, -1} : Respond(m, rc)
    <3>1. PICK rc \in {0, -1} : Respond(m, rc)  BY <2>3
    <3> DEFINE b == Answered(m, rc, 0)
    <3>2. b \in Answer /\ b.re = 0  BY <1>3 DEF Answered, Answer
    <3>3. results' = [results EXCEPT ![m.src] = Append(@, b)]  BY <3>1 DEF Respond
    <3> HIDE DEF b
    <3>4. results'[k] \in {results[k], Append(results[k], b)}  BY <2>2, <3>3
    <3>5. Contents(Append(results[k], b)) = Contents(results[k]) \cup {b}
      BY <2>2, <3>2, AppendContents
    <3>6. a \in AnswersFor(k) \/ a = b  BY <1>2, <1>7, <3>4, <3>5 DEF AnswersFor
    <3> QED BY <2>2, <3>2, <3>6 DEF Straight
  <2>4. ASSUME NEW c \in Slot, NEW w \in waits[c], Completes(m, c, w)
        PROVE  a \in AnswersFor(k) \/ (a.re <= frames /\ (Conforming => Straight(a.to, a.re)))
    <3> DEFINE b == Answered(m, 0, 0)
               r == Answered(w, 0, m.re)
               told == [results EXCEPT ![c] = Append(@, r)]
    <3>1. b \in Answer /\ b.re = 0 /\ r \in Answer /\ r.re = m.re /\ r.to = w
      BY <1>3, <2>2 DEF Answered, Answer, Method
    <3>2. results' = [told EXCEPT ![m.src] = Append(@, b)]
      BY <2>4 DEF Completes
    <3> HIDE DEF b, r
    <3>3. told \in [Slot -> Seq(Answer)] /\ told[k] \in {results[k], Append(results[k], r)}
      BY <2>2, <3>1
    <3> HIDE DEF told
    <3>4. results'[k] \in {told[k], Append(told[k], b)}
      BY <1>3, <3>2, <3>3
    <3>5. Contents(told[k]) \subseteq Contents(results[k]) \cup {r}
      <4>1. Contents(Append(results[k], r)) = Contents(results[k]) \cup {r}
        BY <2>2, <3>1, AppendContents
      <4> QED BY <3>3, <4>1
    <3>6. Contents(Append(told[k], b)) = Contents(told[k]) \cup {b}
      <4>1. PICK t \in Seq(Answer) : t = told[k]  BY <3>3
      <4>2. Contents(Append(t, b)) = Contents(t) \cup {b}  BY <3>1, AppendContents
      <4> QED BY <4>1, <4>2
    <3>7. a \in AnswersFor(k) \/ a = b \/ a = r
      BY <1>2, <1>7, <3>4, <3>5, <3>6 DEF AnswersFor
    <3>8. m.re <= frames
      <4>1. m.re # 0 => m.re \in 1 .. frames
        BY <1>3 DEF Replies, Traced, Arrived, AboutCall
      <4> QED BY <2>2, <4>1
    <3>9. ASSUME Conforming PROVE Straight(w, m.re)
      <4>1. c \in Live /\ ident[c] = m.who /\ w.seq = m.seq
        BY <2>4 DEF Completes, Named, WaitFor
      <4>2. ASSUME NEW e \in Slot, NEW n \in owed[e], n.tag = m.re PROVE n = w
        BY <1>3, <3>9, <4>1, <4>2, OwnCall DEF Arrived
      <4> QED BY <4>2 DEF Straight
    <3> QED BY <2>2, <3>1, <3>7, <3>8, <3>9 DEF Straight
  <2> QED BY <1>2, <2>1, <2>3, <2>4 DEF Dealt
<1> QED BY <1>2, <1>4, <1>5, <1>6, <1>7, KeptReplies

LEMMA ReceiveReplies ==
  ASSUME Bookkeeping, Calls, Replies, NEW c \in Slot,
         \/ \E f \in Frames : Read(c, f)
         \/ \E r \in held[c] : Reply(c, r)
  PROVE  Replies'
<1>1. PICK m \in Method :
        /\ m.src = c /\ m.tag = frames + 1 /\ frames' = frames + 1
        /\ inbox' = [inbox EXCEPT ![c] = Append(@, m)]
        /\ owed' = IF m.op \in Unanswered THEN owed
                   ELSE [owed EXCEPT ![c] = @ \cup {m}]
        /\ \/ m.re = 0 /\ (Conforming => Allowed(c, m)) /\ UNCHANGED held
           \/ \E r \in held[c] :
                /\ m.re = r.tag /\ m.op = "result" /\ m.who = r.from
                /\ m.what = r.what /\ m.seq = r.seq
                /\ held' = [held EXCEPT ![c] = @ \ {r}]
        /\ UNCHANGED <<outbuf, methods, requests, results, ident>>
  BY Received
<1>2. /\ inbox[c] \in Seq(Method) /\ inbox'[c] = Append(inbox[c], m)
      /\ owed'[c] \subseteq owed[c] \cup {m}
      /\ \A k \in Slot \ {c} : inbox'[k] = inbox[k] /\ owed'[k] = owed[k]
      /\ \A k \in Slot : held'[k] \subseteq held[k]
      /\ frames \in Nat /\ m.tag > frames
      /\ \A i \in 1 .. frames : i \in 1 .. frames'
  <2>1. /\ inbox \in [Slot -> Seq(Method)] /\ owed \in [Slot -> SUBSET Method]
        /\ held \in [Slot -> SUBSET Request] /\ frames \in Nat
    BY DEF Bookkeeping, TypeOK
  <2>2. \A k \in Slot : held'[k] \subseteq held[k]  BY SMTT(30), <1>1, <2>1
  <2>3. m.tag > frames /\ \A i \in 1 .. frames : i \in 1 .. frames'  BY <1>1, <2>1
  <2>4. owed'[c] \subseteq owed[c] \cup {m}  BY <1>1, <2>1
  <2> QED BY <1>1, <2>1, <2>2, <2>3, <2>4
<1>3. ASSUME NEW k \in Slot
      PROVE  /\ RequestsOf(k)' \subseteq RequestsOf(k) /\ AnswersFor(k)' = AnswersFor(k)
             /\ Arrived(k)' \subseteq Arrived(k) \cup (IF k = c THEN {m} ELSE {})
  <2>1. Contents(Append(inbox[c], m)) = Contents(inbox[c]) \cup {m}
    BY <1>2, AppendContents
  <2> QED BY <1>1, <1>2, <2>1 DEF RequestsOf, AnswersFor, Arrived, MethodsOf
<1>4. ASSUME NEW tag, NEW from, NEW what, NEW seq, AboutCall(tag, from, what, seq)
      PROVE  AboutCall(tag, from, what, seq)'
  <2>1. tag # m.tag /\ tag \in 1 .. frames'  BY <1>2, <1>4 DEF AboutCall
  <2>2. ASSUME NEW e \in Slot, NEW n \in owed'[e], n.tag = tag PROVE n \in owed[e]
    BY <1>2, <2>1, <2>2
  <2> QED BY <1>1, <1>4, <2>1, <2>2 DEF AboutCall
<1>5. ASSUME NEW k \in Slot PROVE Traced(k)'
  <2>1. ASSUME NEW r \in RequestsOf(k)' PROVE AboutCall(r.tag, r.from, r.what, r.seq)'
    <3>1. AboutCall(r.tag, r.from, r.what, r.seq)  BY <1>3, <2>1 DEF Replies, Traced
    <3> QED BY <1>4, <3>1
  <2>2. ASSUME NEW n \in Arrived(k)', n.re # 0
        PROVE  n.op = "result" /\ AboutCall(n.re, n.who, n.what, n.seq)'
    <3>1. CASE n \in Arrived(k)
      <4>1. n.op = "result" /\ AboutCall(n.re, n.who, n.what, n.seq)
        BY <2>2, <3>1 DEF Replies, Traced
      <4> QED BY <1>4, <4>1
    <3>2. CASE n = m /\ k = c
      <4>1. PICK r \in held[c] : /\ m.re = r.tag /\ m.op = "result" /\ m.who = r.from
                                 /\ m.what = r.what /\ m.seq = r.seq
        BY <1>1, <2>2, <3>2
      <4>2. AboutCall(r.tag, r.from, r.what, r.seq)
        BY DEF Replies, Traced, RequestsOf
      <4>3. AboutCall(r.tag, r.from, r.what, r.seq)'  BY <1>4, <4>2
      <4> QED BY <3>2, <4>1, <4>3
    <3> QED BY <1>3, <2>2, <3>1, <3>2
  <2> QED BY <2>1, <2>2 DEF Traced
<1>6. ASSUME NEW k \in Slot, Conforming PROVE Ruled(k)'
  <2> SUFFICES ASSUME NEW x \in owed'[k], NEW y \in owed'[k],
                      x.op = "call", y.op = "call"
               PROVE  ValidSequence(x.seq) /\ (x.seq = y.seq => x = y)
    BY DEF Ruled
  <2>1. Ruled(k)  BY <1>6 DEF Replies
  <2>2. /\ x \in owed[k] \/ (k = c /\ x = m)
        /\ y \in owed[k] \/ (k = c /\ y = m)
    BY <1>2
  <2>3. m.op = "call" => /\ ValidSequence(m.seq)
                         /\ \A n \in owed[c] : n.op = "call" => n.seq # m.seq
    BY <1>1, <1>6, BrokerAssumption DEF Allowed, Sequences, ValidSequence
  <2> QED BY <2>1, <2>2, <2>3 DEF Ruled
<1>7. ASSUME NEW k \in Slot PROVE Handed(k)'
  <2> SUFFICES ASSUME NEW a \in AnswersFor(k)'
               PROVE  a.re <= frames' /\ (Conforming => Straight(a.to, a.re)')
    BY DEF Handed
  <2>1. a.re <= frames /\ (Conforming => Straight(a.to, a.re))
    BY <1>3 DEF Replies, Handed
  <2>2. a.re \in Nat
    <3>1. a \in Answer
      <4>1. results[k] \in Seq(Answer) /\ outbuf[k] \in Seq(Out)
        BY DEF Bookkeeping, TypeOK
      <4>2. \A x \in Contents(results[k]) : x \in Answer  BY <4>1 DEF Contents
      <4>3. \A x \in AnswersIn(outbuf[k]) : x \in Answer  BY <4>1 DEF AnswersIn, Out
      <4> QED BY <1>3, <4>2, <4>3 DEF AnswersFor
    <3> QED BY <3>1 DEF Answer
  <2>3. ASSUME Straight(a.to, a.re) PROVE Straight(a.to, a.re)'
    <3>1. \A d \in Slot : \A n \in owed'[d] : n \in owed[d] \/ n.tag # a.re
      BY <1>2, <2>1, <2>2
    <3> QED BY <2>3, <3>1 DEF Straight
  <2> QED BY <1>1, <1>2, <2>1, <2>2, <2>3
<1> QED BY <1>5, <1>6, <1>7 DEF Replies

LEMMA InitReplies == Init => Replies
<1> SUFFICES ASSUME Init, NEW c \in Slot
             PROVE  Traced(c) /\ Ruled(c) /\ Handed(c)
  BY DEF Replies
<1>1. /\ inbox[c] = << >> /\ outbuf[c] = << >> /\ results[c] = << >> /\ requests[c] = << >>
      /\ owed[c] = {} /\ held[c] = {} /\ methods = << >>
  BY DEF Init
<1>2. Arrived(c) = {} /\ RequestsOf(c) = {} /\ AnswersFor(c) = {}
  BY <1>1 DEF Arrived, MethodsOf, RequestsOf, AnswersFor, Contents, BodiesIn, AnswersIn
<1> QED BY <1>1, <1>2 DEF Traced, Ruled, Handed

LEMMA NextReplies == Bookkeeping /\ Calls /\ Replies /\ [Next]_vars => Replies'
<1> SUFFICES ASSUME Bookkeeping, Calls, Replies, [Next]_vars PROVE Replies'
  OBVIOUS
<1>1. CASE Quiet
  BY <1>1, QuietQueues, PrepareReplies, WriteReplies, StillReplies
<1>2. ASSUME NEW c \in Slot, Accept(c) \/ Announce(c) PROVE Replies'
  BY <1>2, StillReplies DEF Accept, Announce, queues, peer
<1>3. CASE UNCHANGED vars
  BY <1>3, StillReplies DEF vars, registry, queues, peer
<1> QED
  BY <1>1, <1>2, <1>3, HandlerReplies, ReceiveReplies, ParseReplies, FailWaitReplies,
     CleanupReplies, NextCases

\* What requests and replies know of their calls, at every step of every pass.
THEOREM RepliesCorrect == Spec => [](Bookkeeping /\ Calls /\ Replies)
<1>1. Init => Replies  BY InitReplies
<1>2. Bookkeeping /\ Calls /\ Replies /\ [Next]_vars => Replies'  BY NextReplies
<1> QED BY <1>1, <1>2, CallsCorrect, PTL DEF Spec

\* As long as the peers keep the rules of the client library, the answer to a
\* call that is still owed is never handed to another call, although waits are
\* matched by sequence, callee and command only.
THEOREM AnswersNeverCross == Spec => []NoCrossedAnswer
<1>1. Replies => NoCrossedAnswer
  <2> SUFFICES ASSUME Replies, Conforming, NEW c \in Live, NEW a \in AnswersFor(c)
               PROVE  a.re \in {0, a.to.tag} \/ \A d \in Live : \A m \in owed[d] : m.tag # a.re
    BY DEF NoCrossedAnswer
  <2>1. Straight(a.to, a.re)  BY DEF Replies, Handed, Live
  <2> QED BY <2>1 DEF Straight, Live
<1> QED BY <1>1, RepliesCorrect, PTL

-----------------------------------------------------------------------------
(* Someone is responsible for every call that waits. *)

HandFor(d, w) ==
  \/ d \in Dead
  \/ \E r \in RequestsOf(d) : r.tag = w.tag
  \/ \E m \in Arrived(d) : m.re = w.tag

InHand ==
  Conforming => \A c \in Slot : \A w \in waits[c] :
    \E d \in Live : ident[d] = w.who /\ HandFor(d, w)

LEMMA KeptInHand ==
  ASSUME InHand, \A c \in Slot : waits'[c] \subseteq waits[c],
         \A c \in Slot : \A w \in waits'[c] : \A d \in Live :
           ident[d] = w.who /\ HandFor(d, w)
             => d \in Live' /\ ident'[d] = ident[d] /\ HandFor(d, w)'
  PROVE  InHand'
<1> SUFFICES ASSUME Conforming, NEW c \in Slot, NEW w \in waits'[c]
             PROVE  \E d \in Live' : ident'[d] = w.who /\ HandFor(d, w)'
  BY DEF InHand
<1>1. PICK d \in Live : ident[d] = w.who /\ HandFor(d, w)  BY DEF InHand
<1> QED BY <1>1

LEMMA StillInHand ==
  ASSUME Bookkeeping, InHand, Live \subseteq Live', Dead \subseteq Dead',
         UNCHANGED <<waits, ident>>,
         \A d \in Slot : RequestsOf(d)' = RequestsOf(d) /\ Arrived(d)' = Arrived(d)
  PROVE  InHand'
<1>1. \A d \in Live : d \in Slot  BY DEF Live
<1>2. \A d \in Live : \A w : HandFor(d, w) => HandFor(d, w)'
  BY <1>1 DEF HandFor
<1> QED BY <1>2, KeptInHand

LEMMA QuietInHand ==
  ASSUME Bookkeeping, InHand, Quiet
  PROVE  InHand'
<1>1. /\ Live' = Live /\ Open' \subseteq Open
      /\ UNCHANGED <<ident, inbox, methods, waits>>
  BY QuietFrame
<1>2. Dead \subseteq Dead'  BY <1>1 DEF Dead
<1>3. \A d \in Slot : Arrived(d)' = Arrived(d)  BY <1>1 DEF Arrived, MethodsOf
<1>4. \A d \in Slot : RequestsOf(d)' = RequestsOf(d)
  <2>1. CASE PrepareOut  BY <2>1, PreparedBodies
  <2>2. CASE \E c \in Slot : Write(c)  BY <2>2, WrittenBodies
  <2>3. CASE UNCHANGED <<outbuf, requests, held>>  BY <2>3 DEF RequestsOf
  <2> QED BY <2>1, <2>2, <2>3, QuietQueues
<1> QED BY <1>1, <1>2, <1>3, <1>4, StillInHand

LEMMA ReceiveInHand ==
  ASSUME Bookkeeping, InHand, NEW c \in Slot,
         \/ \E f \in Frames : Read(c, f)
         \/ \E r \in held[c] : Reply(c, r)
  PROVE  InHand'
<1>1. PICK m \in Method :
        /\ inbox' = [inbox EXCEPT ![c] = Append(@, m)]
        /\ \/ UNCHANGED held
           \/ \E r \in held[c] : m.re = r.tag /\ held' = [held EXCEPT ![c] = @ \ {r}]
        /\ UNCHANGED <<outbuf, methods, requests, waits, link, ident>>
  BY Received
<1>2. inbox \in [Slot -> Seq(Method)] /\ held \in [Slot -> SUBSET Request]
  BY DEF Bookkeeping, TypeOK
<1>3. Live' = Live /\ Dead' = Dead  BY <1>1 DEF Live, Open, Dead
<1>4. ASSUME NEW d \in Live, NEW w, HandFor(d, w) PROVE HandFor(d, w)'
  <2>1. d \in Slot  BY DEF Live
  <2>2. CASE d # c
    <3>1. inbox'[d] = inbox[d] /\ held'[d] = held[d]  BY <1>1, <1>2, <2>1, <2>2
    <3>2. RequestsOf(d)' = RequestsOf(d) /\ Arrived(d)' = Arrived(d)
      BY <1>1, <3>1 DEF RequestsOf, Arrived, MethodsOf
    <3> QED BY <1>3, <1>4, <3>2 DEF HandFor
  <2>3. CASE d = c
    <3>1. /\ inbox[c] \in Seq(Method) /\ inbox'[c] = Append(inbox[c], m)
          /\ held[c] \subseteq held'[c] \cup {r \in held[c] : m.re = r.tag}
      BY <1>1, <1>2
    <3>2. Contents(inbox'[c]) = Contents(inbox[c]) \cup {m}
      BY <3>1, AppendContents
    <3>3. Arrived(c)' = Arrived(c) \cup {m}  BY <1>1, <3>2 DEF Arrived, MethodsOf
    <3>4. RequestsOf(c) \subseteq RequestsOf(c)' \cup {r \in held[c] : m.re = r.tag}
      BY <1>1, <3>1 DEF RequestsOf
    <3> QED BY <1>3, <1>4, <2>3, <3>3, <3>4 DEF HandFor
  <2> QED BY <2>2, <2>3
<1> QED BY <1>1, <1>3, <1>4, KeptInHand

LEMMA ParseInHand ==
  ASSUME Bookkeeping, Calls, InHand, NEW c \in Slot, Parse(c)
  PROVE  InHand'
<1>1. /\ inbox'[c] = << >> /\ \A k \in Slot \ {c} : inbox'[k] = inbox[k]
      /\ \A k \in Slot \ {c} : MethodsOf(k)' = MethodsOf(k)
      /\ c \in Open' => MethodsOf(c)' = MethodsOf(c) \cup Contents(inbox[c])
      /\ Live' = Live /\ \A k \in Slot : k \in Dead => k \in Dead'
      /\ c \in Open' \/ c \in Dead'
      /\ UNCHANGED <<outbuf, requests, waits, held, ident>>
  BY Parsed DEF Calls, ClientCalls, Once, Apart
<1>2. ASSUME NEW d \in Live, NEW w, HandFor(d, w) PROVE HandFor(d, w)'
  <2>1. d \in Slot  BY DEF Live
  <2>2. RequestsOf(d)' = RequestsOf(d)  BY <1>1 DEF RequestsOf
  <2>3. CASE d # c
    <3>1. Arrived(d)' = Arrived(d)  BY <1>1, <2>1, <2>3 DEF Arrived
    <3> QED BY <1>1, <1>2, <2>1, <2>2, <3>1 DEF HandFor
  <2>4. CASE d = c /\ c \in Open'
    <3>1. Contents(inbox'[c]) = {}  BY <1>1 DEF Contents
    <3>2. Arrived(d)' = Arrived(d)  BY <1>1, <2>4, <3>1 DEF Arrived
    <3> QED BY <1>1, <1>2, <2>1, <2>2, <3>2 DEF HandFor
  <2>5. CASE d = c /\ c \in Dead'  BY <2>5 DEF HandFor
  <2> QED BY <1>1, <2>3, <2>4, <2>5
<1> QED BY <1>1, <1>2, KeptInHand

LEMMA FailWaitInHand ==
  ASSUME Bookkeeping, InHand, NEW d \in Slot, NEW c \in Slot, FailWait(d, c)
  PROVE  InHand'
<1>1. /\ \A k \in Slot : waits'[k] \subseteq waits[k]
      /\ Live' = Live /\ Dead' = Dead
  BY FailWaitFrame
<1>2. UNCHANGED <<ident, inbox, methods, outbuf, requests, held>>
  BY DEF FailWait, registry, peer
<1>3. \A k \in Slot : RequestsOf(k)' = RequestsOf(k) /\ Arrived(k)' = Arrived(k)
  BY <1>2 DEF RequestsOf, Arrived, MethodsOf
<1>4. \A k \in Live : \A w : HandFor(k, w) => HandFor(k, w)'
  BY <1>1, <1>3 DEF HandFor, Live
<1> QED BY <1>1, <1>2, <1>4, KeptInHand

LEMMA CleanupInHand ==
  ASSUME Bookkeeping, InHand, NEW d \in Slot, Cleanup(d)
  PROVE  InHand'
<1>1. /\ Live' = Live \ {d} /\ Dead' = Dead \ {d} /\ ident' = [ident EXCEPT ![d] = None]
      /\ waits' = [waits EXCEPT ![d] = {}]
      /\ \A c \in Live \ {d} : Orphans(d, c) = {}
  BY CleanupFrame
<1>2. /\ \A c \in Slot : waits'[c] \subseteq waits[c]
      /\ \A c \in Slot \ {d} : ident'[c] = ident[c]
      /\ waits'[d] = {}
  BY <1>1 DEF Bookkeeping, TypeOK
<1>3. \A k \in Slot \ {d} : RequestsOf(k)' = RequestsOf(k) /\ Arrived(k)' = Arrived(k)
  BY DEF Cleanup, Destroy, Bookkeeping, TypeOK, RequestsOf, Arrived, MethodsOf
<1>4. ASSUME NEW c \in Slot, NEW w \in waits'[c], NEW k \in Live, ident[k] = w.who, HandFor(k, w)
      PROVE  k \in Live' /\ ident'[k] = ident[k] /\ HandFor(k, w)'
  <2>1. c # d /\ w \in waits[c]  BY <1>2, <1>4
  <2>2. c \in Live /\ w.who # None
    BY <2>1 DEF Bookkeeping, FreeSlots, WaitsNamed
  <2>3. k # d
    BY <1>1, <1>4, <2>1, <2>2 DEF Orphans
  <2>4. k \in Slot  BY DEF Live
  <2> QED BY <1>1, <1>2, <1>3, <1>4, <2>3, <2>4 DEF HandFor
<1> QED BY <1>2, <1>4, KeptInHand

\* A reply that is handled completes the call it is for.
LEMMA ReplyCompletes ==
  ASSUME Bookkeeping, Calls, Replies, Conforming, HandleMethod,
         NEW c \in Slot, NEW w \in waits[c], NEW m, m = Head(methods),
         m \in Method, m \in MethodsOf(m.src), m.src \in Slot,
         m.re = w.tag, ident[m.src] = w.who
  PROVE  w \notin waits'[c]
<1>1. w \in owed[c] /\ w.op = "call" /\ w.tag \in 1 .. frames
  <2>1. Tagged(c) /\ Owing(c)  BY DEF Calls, ClientCalls
  <2> QED BY <2>1 DEF Owing, Placed, Tagged
<1>2. m.op = "result" /\ AboutCall(m.re, m.who, m.what, m.seq)
  <2>1. m.re # 0  BY <1>1
  <2> QED BY <2>1 DEF Replies, Traced, Arrived
<1>3. ident[c] = m.who /\ w.what = m.what /\ w.seq = m.seq /\ m.who \in Id
  BY <1>1, <1>2 DEF AboutCall
<1>4. m.who # None /\ c \in Live /\ c \in Named(m.who)
  <2>1. c \in Live  BY <1>1 DEF Calls, ClientCalls, Owing
  <2> QED BY <1>3, <2>1, BrokerAssumption DEF Named
<1>5. w \in WaitFor(c, m.src, m)  BY <1>3 DEF WaitFor
<1>6. ident[m.src] # None /\ ValidSequence(m.seq)
  <2>1. ident[m.src] # None  BY DEF Bookkeeping, WaitsNamed
  <2>2. ValidSequence(w.seq)  BY <1>1 DEF Replies, Ruled
  <2> QED BY <1>3, <2>1, <2>2
<1>7. HandleResult
  BY <1>2 DEF HandleMethod, HandleCreate, HandleSubscribe, HandleUnsubscribe,
     HandleRegister, HandleUnregister, CrashInUnregister, HandlePublish,
     HandleEvent, HandleQuery, HandleClose, HandleCall, Take
<1>8. PICK k \in Named(m.who) :
        /\ WaitFor(k, m.src, m) # {}
        /\ waits' = [waits EXCEPT ![k] = @ \ {Oldest(WaitFor(k, m.src, m))}]
  BY <1>4, <1>5, <1>6, <1>7 DEF HandleResult
<1>9. k = c
  BY <1>4, <1>8 DEF Named, Bookkeeping, UniqueIdentifiers
<1>10. PICK v : v = Oldest(WaitFor(c, m.src, m))  OBVIOUS
<1>11. v = w
  <2>1. WaitFor(c, m.src, m) \in SUBSET Method
    BY DEF WaitFor, Bookkeeping, TypeOK
  <2>2. v \in WaitFor(c, m.src, m)  BY <1>5, <1>10, <2>1, OldestExists
  <2>3. v \in waits[c] /\ v.seq = w.seq  BY <1>3, <2>2 DEF WaitFor
  <2>4. v \in owed[c] /\ v.op = "call"
    <3>1. Tagged(c) /\ Owing(c)  BY DEF Calls, ClientCalls
    <3> QED BY <2>3, <3>1 DEF Owing, Placed, Tagged
  <2> QED BY <1>1, <2>3, <2>4 DEF Replies, Ruled
<1> QED BY <1>8, <1>9, <1>10, <1>11 DEF Bookkeeping, TypeOK

LEMMA HandlerInHand ==
  ASSUME Bookkeeping, Calls, Replies, InHand, HandleMethod
  PROVE  InHand'
<1> SUFFICES ASSUME Conforming, NEW c \in Slot, NEW w \in waits'[c]
             PROVE  \E d \in Live' : ident'[d] = w.who /\ HandFor(d, w)'
  BY DEF InHand
<1>1. PICK m : m = Head(methods)  OBVIOUS
<1>2. /\ UNCHANGED <<inbox, outbuf, held>> /\ methods # << >>
      /\ methods' = methods \/ methods' = Tail(methods)
  BY HandlerPlaces
<1>3. m \in Method /\ m.src \in Live /\ m.src \in Slot /\ m \in MethodsOf(m.src)
  <2>1. m \in Method /\ m.src \in Live  BY <1>1, <1>2, HandlerSender, HeadType DEF Bookkeeping
  <2>2. methods \in Seq(Method) /\ 1 \in DOMAIN methods /\ m = methods[1]
    BY <1>1, <1>2, HeadTailProperties DEF Bookkeeping, TypeOK
  <2> QED BY <2>1, <2>2 DEF MethodsOf, Contents, Live
<1>4. \A k \in Slot : Arrived(k) \subseteq Arrived(k)' \cup {m}
  <2>1. CASE methods' = methods  BY <1>2, <2>1 DEF Arrived, MethodsOf
  <2>2. CASE methods' = Tail(methods)
    <3>1. \A k \in Slot : MethodsOf(k)' = MethodsOf(k) \ {m}
      BY <1>1, <1>2, <2>2, HandlerMethods DEF Calls
    <3> QED BY <1>2, <3>1 DEF Arrived
  <2> QED BY <1>2, <2>1, <2>2
<1>5. Live' = Live /\ Dead \subseteq Dead' /\ \A d \in Live : d \in Slot
  BY HandlerFrame, HandlerOpen DEF Dead, Live
<1>6. \A e \in Slot : ident[e] # None => ident'[e] = ident[e]
  BY HandlerIdent DEF Bookkeeping, TypeOK, Live
<1>7. \A k \in Slot : RequestsOf(k) \subseteq RequestsOf(k)'
  <2>1. CASE UNCHANGED requests  BY <1>2, <2>1 DEF RequestsOf
  <2>2. CASE ~UNCHANGED requests
    <3>1. PICK d \in Live, q \in Request : requests' = [requests EXCEPT ![d] = Append(@, q)]
      <4> DEFINE q == [from |-> ident[m.src], what |-> m.what, seq |-> m.seq, tag |-> m.tag]
      <4>1. PICK d \in Live :
              ident[m.src] # None /\ requests' = [requests EXCEPT ![d] = Append(@, q)]
        BY <1>1, <2>2, HandlerRequests
      <4>2. q \in Request
        BY <1>3, <4>1 DEF Request, Method, Bookkeeping, TypeOK
      <4> HIDE DEF q
      <4> QED BY <4>1, <4>2
    <3>2. ASSUME NEW k \in Slot PROVE Contents(requests[k]) \subseteq Contents(requests'[k])
      <4>1. requests[k] \in Seq(Request) /\ requests'[k] \in {requests[k], Append(requests[k], q)}
        BY <3>1 DEF Bookkeeping, TypeOK
      <4>2. Contents(Append(requests[k], q)) = Contents(requests[k]) \cup {q}
        BY <3>1, <4>1, AppendContents
      <4> QED BY <4>1, <4>2
    <3> QED BY <1>2, <3>2 DEF RequestsOf
  <2> QED BY <2>1, <2>2
<1>8. CASE w \in waits[c]
  <2>1. PICK d \in Live : ident[d] = w.who /\ HandFor(d, w)  BY <1>8 DEF InHand
  <2>2. w.who # None  BY <1>8 DEF Bookkeeping, WaitsNamed
  <2>3. ident'[d] = w.who /\ d \in Live' /\ d \in Slot  BY <1>5, <1>6, <2>1, <2>2
  <2>4. ~(m.re = w.tag /\ m \in Arrived(d))
    <3> SUFFICES ASSUME m.re = w.tag, m \in Arrived(d) PROVE FALSE
      OBVIOUS
    <3>1. m.src = d
      BY <2>3 DEF Arrived, MethodsOf, Contents, Bookkeeping, OwnFrames
    <3> QED BY <1>1, <1>3, <1>8, <2>1, <3>1, ReplyCompletes
  <2>5. HandFor(d, w)'
    BY <1>4, <1>5, <1>7, <2>1, <2>3, <2>4 DEF HandFor
  <2> QED BY <2>3, <2>5
<1>9. CASE w \notin waits[c]
  <2> DEFINE q == [from |-> ident[m.src], what |-> m.what, seq |-> m.seq, tag |-> m.tag]
  <2>1. PICK d \in Live :
          /\ ident[m.src] # None /\ ident[d] = m.who /\ UNCHANGED ident
          /\ requests' = [requests EXCEPT ![d] = Append(@, q)]
          /\ waits' = [waits EXCEPT ![m.src] = @ \cup {m}]
    BY <1>1, <1>9, HandlerRequests
  <2>2. w = m  BY <1>3, <1>9, <2>1 DEF Bookkeeping, TypeOK
  <2>3. q \in Request /\ q.tag = m.tag
    BY <1>3, <2>1 DEF Request, Method, Bookkeeping, TypeOK
  <2> HIDE DEF q
  <2>4. requests[d] \in Seq(Request) /\ requests'[d] = Append(requests[d], q)
    BY <1>5, <2>1 DEF Bookkeeping, TypeOK
  <2>5. Contents(Append(requests[d], q)) = Contents(requests[d]) \cup {q}
    BY <2>3, <2>4, AppendContents
  <2>6. q \in RequestsOf(d)'  BY <2>4, <2>5 DEF RequestsOf
  <2>7. HandFor(d, w)'  BY <2>2, <2>3, <2>6 DEF HandFor
  <2> QED BY <1>5, <2>1, <2>2, <2>7
<1> QED BY <1>8, <1>9

LEMMA NextInHand == Bookkeeping /\ Calls /\ Replies /\ InHand /\ [Next]_vars => InHand'
<1> SUFFICES ASSUME Bookkeeping, Calls, Replies, InHand, [Next]_vars PROVE InHand'
  OBVIOUS
<1>1. ASSUME NEW c \in Slot, Accept(c) \/ Announce(c) PROVE InHand'
  <2>1. Live \subseteq Live' /\ Dead' = Dead /\ UNCHANGED <<waits, ident>>
    BY <1>1, AcceptFrame, AnnounceFrame
  <2>2. UNCHANGED <<inbox, outbuf, methods, requests, held>>
    BY <1>1 DEF Accept, Announce, queues, peer
  <2>3. \A d \in Slot : RequestsOf(d)' = RequestsOf(d) /\ Arrived(d)' = Arrived(d)
    BY <2>2 DEF RequestsOf, Arrived, MethodsOf
  <2> QED BY <2>1, <2>3, StillInHand
<1>2. CASE UNCHANGED vars
  <2>1. UNCHANGED <<link, waits, ident, inbox, outbuf, methods, requests, held>>
    BY <1>2 DEF vars, registry, queues, peer
  <2>2. Live' = Live /\ Dead' = Dead  BY <2>1 DEF Live, Open, Dead
  <2>3. \A d \in Slot : RequestsOf(d)' = RequestsOf(d) /\ Arrived(d)' = Arrived(d)
    BY <2>1 DEF RequestsOf, Arrived, MethodsOf
  <2> QED BY <2>1, <2>2, <2>3, StillInHand
<1> QED
  BY <1>1, <1>2, QuietInHand, HandlerInHand, ReceiveInHand, ParseInHand, FailWaitInHand,
     CleanupInHand, NextCases

\* As long as the peers keep the rules of the client library, someone is
\* responsible for every call that waits: a callee that is closed, or has the
\* request coming, holds it, or has answered.  No call waits for nothing.
THEOREM CallsAreInHand == Spec => []CallInHand
<1>1. Init => InHand  BY DEF Init, InHand
<1>2. Bookkeeping /\ Calls /\ Replies /\ InHand /\ [Next]_vars => InHand'  BY NextInHand
<1>3. Bookkeeping /\ InHand => CallInHand
  <2> SUFFICES ASSUME Bookkeeping, InHand, Conforming, NEW c \in Live, NEW w \in waits[c]
               PROVE  \E d \in Live :
                 /\ ident[d] = w.who
                 /\ \/ d \in Dead
                    \/ \E r \in Contents(requests[d]) \cup held[d] : r.tag = w.tag
                    \/ \E i \in DOMAIN outbuf[d] :
                         outbuf[d][i].kind = "request" /\ outbuf[d][i].body.tag = w.tag
                    \/ \E m \in Contents(inbox[d] \o methods) : m.src = d /\ m.re = w.tag
    BY DEF CallInHand
  <2>1. PICK d \in Live : ident[d] = w.who /\ HandFor(d, w)  BY DEF InHand, Live
  <2>2. d \in Slot  BY DEF Live
  <2>3. Contents(inbox[d] \o methods) = Contents(inbox[d]) \cup Contents(methods)
    BY <2>2, ConcatContents DEF Bookkeeping, TypeOK
  <2>4. \A m \in Arrived(d) : m \in Contents(inbox[d] \o methods) /\ m.src = d
    BY <2>2, <2>3 DEF Arrived, MethodsOf, Contents, Bookkeeping, OwnFrames
  <2> QED BY <2>1, <2>4 DEF HandFor, RequestsOf, BodiesIn
<1> QED BY <1>1, <1>2, <1>3, RepliesCorrect, PTL DEF Spec

-----------------------------------------------------------------------------
(* Numbered frames in an output buffer, with x the number that comes next. *)

EventAt(out, i) == out[i].kind = "event"
NumberAt(out, x, i) == IF i <= Len(out) THEN out[i].body.seq ELSE x

\* i directly follows j among the events of out.
Adjacent(out, j, i) ==
  EventAt(out, j) /\ \A k \in j + 1 .. i - 1 : ~EventAt(out, k)

Chain(out, x, first) ==
  \A i \in 1 .. Len(out) + 1 : i > Len(out) \/ EventAt(out, i) =>
    /\ (\A j \in 1 .. i - 1 : ~EventAt(out, j)) => NumberAt(out, x, i) = first
    /\ \A j \in 1 .. i - 1 :
         Adjacent(out, j, i) => NumberAt(out, x, i) = NextSeq(NumberAt(out, x, j))

LEMMA ChainAppend ==
  ASSUME NEW S, NEW out \in Seq(S), NEW p \in S, NEW x, NEW y, NEW first,
         Chain(out, x, first),
         p.kind = "event" => p.body.seq = x /\ y = NextSeq(x),
         p.kind # "event" => y = x
  PROVE  Chain(Append(out, p), y, first)
<1> DEFINE t == Append(out, p)
           n == Len(out)
<1>1. /\ n \in Nat /\ Len(t) = n + 1 /\ t[n + 1] = p
      /\ \A i \in 1 .. n : t[i] = out[i]
  BY AppendProperties
<1> HIDE DEF t, n
<1>2. /\ \A i \in 1 .. n : EventAt(t, i) <=> EventAt(out, i)
      /\ EventAt(t, n + 1) <=> p.kind = "event"
  BY <1>1 DEF EventAt
<1>3. /\ \A i \in 1 .. n : NumberAt(t, y, i) = NumberAt(out, x, i)
      /\ NumberAt(t, y, n + 1) = p.body.seq /\ NumberAt(t, y, n + 2) = y
      /\ NumberAt(out, x, n + 1) = x
  BY <1>1 DEF NumberAt, n
<1> SUFFICES ASSUME NEW i \in 1 .. n + 2, i > n + 1 \/ EventAt(t, i)
             PROVE  /\ (\A j \in 1 .. i - 1 : ~EventAt(t, j)) => NumberAt(t, y, i) = first
                    /\ \A j \in 1 .. i - 1 :
                         Adjacent(t, j, i) => NumberAt(t, y, i) = NextSeq(NumberAt(t, y, j))
  BY <1>1 DEF Chain, t
<1>4. CASE i \in 1 .. n
  <2>1. EventAt(out, i)  BY <1>1, <1>2, <1>4
  <2>2. i \in 1 .. Len(out) + 1  BY <1>1, <1>4 DEF n
  <2>3. \A j \in 1 .. i - 1 : j \in 1 .. n  BY <1>1, <1>4
  <2>4. \A j \in 1 .. i - 1 : Adjacent(t, j, i) <=> Adjacent(out, j, i)
    BY <1>1, <1>2, <1>4 DEF Adjacent
  <2>5. /\ (\A j \in 1 .. i - 1 : ~EventAt(out, j)) => NumberAt(out, x, i) = first
        /\ \A j \in 1 .. i - 1 :
             Adjacent(out, j, i) => NumberAt(out, x, i) = NextSeq(NumberAt(out, x, j))
    BY <2>1, <2>2 DEF Chain
  <2> QED BY <1>2, <1>3, <1>4, <2>3, <2>4, <2>5
<1>5. n + 1 \in 1 .. Len(out) + 1 /\ n + 1 > Len(out) /\ n + 1 - 1 = n  BY <1>1 DEF n
<1>6. /\ (\A j \in 1 .. n : ~EventAt(out, j)) => x = first
      /\ \A j \in 1 .. n : Adjacent(out, j, n + 1) => x = NextSeq(NumberAt(out, x, j))
  <2>1. PICK k : k = n + 1  OBVIOUS
  <2>2. /\ (\A j \in 1 .. k - 1 : ~EventAt(out, j)) => NumberAt(out, x, k) = first
        /\ \A j \in 1 .. k - 1 :
             Adjacent(out, j, k) => NumberAt(out, x, k) = NextSeq(NumberAt(out, x, j))
    BY <1>5, <2>1 DEF Chain
  <2>3. k - 1 = n  BY <1>1, <2>1
  <2>4. NumberAt(out, x, k) = x  BY <1>3, <2>1
  <2> QED BY <2>1, <2>2, <2>3, <2>4
<1>7. CASE i = n + 1
  <2>1. p.kind = "event" /\ p.body.seq = x  BY <1>1, <1>2, <1>7
  <2>2. \A j \in 1 .. n : Adjacent(t, j, n + 1) <=> Adjacent(out, j, n + 1)
    BY <1>1, <1>2 DEF Adjacent
  <2>3. i - 1 = n  BY <1>1, <1>7
  <2>4. NumberAt(t, y, i) = x  BY <1>3, <1>7, <2>1
  <2>5. \A j \in 1 .. n : NumberAt(t, y, j) = NumberAt(out, x, j)  BY <1>3
  <2>6. \A j \in 1 .. n : EventAt(t, j) <=> EventAt(out, j)  BY <1>2
  <2> QED BY <1>6, <1>7, <2>2, <2>3, <2>4, <2>5, <2>6
<1>8. CASE i = n + 2 /\ p.kind = "event"
  <2>1. n + 1 \in 1 .. i - 1 /\ EventAt(t, n + 1)  BY <1>1, <1>2, <1>8
  <2>2. \A j \in 1 .. i - 1 : Adjacent(t, j, i) => j = n + 1
    <3> SUFFICES ASSUME NEW j \in 1 .. i - 1, j # n + 1 PROVE ~Adjacent(t, j, i)
      OBVIOUS
    <3>1. n + 1 \in j + 1 .. i - 1  BY <1>1, <1>8
    <3> QED BY <2>1, <3>1 DEF Adjacent
  <2> QED BY <1>3, <1>8, <2>1, <2>2
<1>9. CASE i = n + 2 /\ p.kind # "event"
  <2>1. ~EventAt(t, n + 1) /\ i - 1 = n + 1  BY <1>1, <1>2, <1>9
  <2>2. \A j \in 1 .. n : j \in 1 .. i - 1  BY <1>1, <1>9
  <2>3. \A j \in 1 .. i - 1 : j \in 1 .. n \/ j = n + 1  BY <1>1, <1>9
  <2>4. \A j \in 1 .. n : Adjacent(t, j, i) => Adjacent(out, j, n + 1)
    <3> SUFFICES ASSUME NEW j \in 1 .. n, Adjacent(t, j, i) PROVE Adjacent(out, j, n + 1)
      OBVIOUS
    <3>1. \A k \in j + 1 .. n + 1 - 1 : k \in j + 1 .. i - 1 /\ k \in 1 .. n  BY <1>1, <1>9
    <3>2. EventAt(t, j) /\ \A k \in j + 1 .. i - 1 : ~EventAt(t, k)  BY DEF Adjacent
    <3>3. EventAt(out, j)  BY <1>2, <3>2
    <3>4. \A k \in j + 1 .. n + 1 - 1 : ~EventAt(out, k)
      <4> TAKE k \in j + 1 .. n + 1 - 1
      <4>1. k \in j + 1 .. i - 1 /\ k \in 1 .. n  BY <3>1
      <4> QED BY <1>2, <3>2, <4>1
    <3> QED BY <1>1, <3>3, <3>4 DEF Adjacent
  <2>5. ~Adjacent(t, n + 1, i)  BY <2>1 DEF Adjacent
  <2> QED BY <1>2, <1>3, <1>6, <1>9, <2>1, <2>2, <2>3, <2>4, <2>5
<1>10. i \in 1 .. n \/ i = n + 1 \/ (i = n + 2 /\ (p.kind = "event" \/ p.kind # "event"))
  BY <1>1
<1> QED BY <1>4, <1>7, <1>8, <1>9, <1>10

LEMMA ChainTail ==
  ASSUME NEW S, NEW out \in Seq(S), out # << >>, NEW x, NEW first, NEW then,
         Chain(out, x, first),
         Head(out).kind = "event" => then = NextSeq(Head(out).body.seq),
         Head(out).kind # "event" => then = first
  PROVE  /\ Chain(Tail(out), x, then)
         /\ Head(out).kind = "event" => Head(out).body.seq = first
<1> DEFINE t == Tail(out)
           n == Len(out)
<1>1. /\ n \in Nat \ {0} /\ Len(t) = n - 1 /\ Head(out) = out[1]
      /\ \A i \in 1 .. n - 1 : t[i] = out[i + 1]
  BY HeadTailProperties, EmptySeq
<1> HIDE DEF t, n
<1>2. \A i \in 1 .. n - 1 : EventAt(t, i) = EventAt(out, i + 1)
  BY <1>1 DEF EventAt
<1>3. /\ \A i \in 1 .. n : NumberAt(t, x, i) = NumberAt(out, x, i + 1)
      /\ NumberAt(out, x, 1) = out[1].body.seq
  BY <1>1 DEF NumberAt, n
<1>4. Head(out).kind = "event" => Head(out).body.seq = first
  <2> SUFFICES ASSUME Head(out).kind = "event" PROVE Head(out).body.seq = first
    OBVIOUS
  <2>1. EventAt(out, 1) /\ 1 \in 1 .. Len(out) + 1 /\ 1 .. 1 - 1 = {}
    BY <1>1 DEF EventAt, n
  <2>2. NumberAt(out, x, 1) = first  BY <2>1 DEF Chain
  <2> QED BY <1>1, <1>3, <2>2
<1>5. Chain(t, x, then)
  <2> SUFFICES ASSUME NEW i \in 1 .. n, i > n - 1 \/ EventAt(t, i)
               PROVE  /\ (\A j \in 1 .. i - 1 : ~EventAt(t, j)) => NumberAt(t, x, i) = then
                      /\ \A j \in 1 .. i - 1 :
                           Adjacent(t, j, i) => NumberAt(t, x, i) = NextSeq(NumberAt(t, x, j))
    BY <1>1 DEF Chain
  <2>1. /\ i + 1 \in 1 .. Len(out) + 1 /\ i + 1 - 1 = i
        /\ i + 1 > Len(out) \/ EventAt(out, i + 1)
    BY <1>1, <1>2 DEF n
  <2>2. /\ (\A j \in 1 .. i : ~EventAt(out, j)) => NumberAt(out, x, i + 1) = first
        /\ \A j \in 1 .. i :
             Adjacent(out, j, i + 1) => NumberAt(out, x, i + 1) = NextSeq(NumberAt(out, x, j))
    BY <2>1 DEF Chain
  <2>3. ASSUME \A j \in 1 .. i - 1 : ~EventAt(t, j) PROVE NumberAt(t, x, i) = then
    <3>1. \A k \in 2 .. i : ~EventAt(out, k)
      <4> TAKE k \in 2 .. i
      <4>1. k - 1 \in 1 .. i - 1 /\ k - 1 \in 1 .. n - 1 /\ k - 1 + 1 = k  BY <1>1
      <4> QED BY <1>2, <2>3, <4>1
    <3>2. CASE Head(out).kind = "event"
      <4>1. Adjacent(out, 1, i + 1) /\ 1 \in 1 .. i
        BY SMTT(30), <1>1, <3>1, <3>2 DEF Adjacent, EventAt
      <4> QED BY <1>1, <1>3, <2>2, <3>2, <4>1
    <3>3. CASE Head(out).kind # "event"
      <4>1. \A k \in 1 .. i : ~EventAt(out, k)
        BY <1>1, <3>1, <3>3 DEF EventAt
      <4> QED BY <1>3, <2>2, <3>3, <4>1
    <3> QED BY <3>2, <3>3
  <2>4. ASSUME NEW j \in 1 .. i - 1, Adjacent(t, j, i)
        PROVE  NumberAt(t, x, i) = NextSeq(NumberAt(t, x, j))
    <3>1. j + 1 \in 1 .. i /\ j \in 1 .. n /\ j \in 1 .. n - 1  BY <1>1
    <3>2. Adjacent(out, j + 1, i + 1)
      <4>1. ASSUME NEW k \in j + 1 + 1 .. i + 1 - 1 PROVE ~EventAt(out, k)
        <5>1. k - 1 \in j + 1 .. i - 1 /\ k - 1 \in 1 .. n - 1 /\ k - 1 + 1 = k  BY <1>1
        <5> QED BY <1>2, <2>4, <5>1 DEF Adjacent
      <4>2. EventAt(out, j + 1)  BY <1>2, <2>4, <3>1 DEF Adjacent
      <4> QED BY <4>1, <4>2 DEF Adjacent
    <3> QED BY <1>3, <2>2, <3>1, <3>2
  <2> QED BY <2>3, <2>4
<1> QED BY <1>4, <1>5 DEF t

-----------------------------------------------------------------------------
(* Numbered notices in a queue, with next the number of the one to come. *)

First(evs, next) == IF evs # << >> THEN evs[1].seq ELSE next

Queued(evs, next) ==
  \A i \in 1 .. Len(evs) :
    NextSeq(evs[i].seq) = IF i < Len(evs) THEN evs[i + 1].seq ELSE next

LEMMA QueuedAppend ==
  ASSUME NEW S, NEW evs \in Seq(S), NEW v \in S, NEW next,
         v.seq = next, Queued(evs, next)
  PROVE  /\ Queued(Append(evs, v), NextSeq(next))
         /\ First(Append(evs, v), NextSeq(next)) = First(evs, next)
<1> DEFINE t == Append(evs, v)
           n == Len(evs)
<1>1. /\ n \in Nat /\ Len(t) = n + 1 /\ t[n + 1] = v
      /\ \A i \in 1 .. n : t[i] = evs[i]
      /\ t # << >> /\ (evs = << >> <=> n = 0)
  BY AppendProperties, EmptySeq
<1> HIDE DEF t
<1>2. First(t, NextSeq(next)) = First(evs, next)
  BY <1>1 DEF First
<1>3. ASSUME NEW i \in 1 .. n + 1
      PROVE  NextSeq(t[i].seq) = IF i < n + 1 THEN t[i + 1].seq ELSE NextSeq(next)
  <2>1. CASE i = n + 1  BY <1>1, <2>1
  <2>2. CASE i \in 1 .. n
    <3>1. NextSeq(evs[i].seq) = IF i < n THEN evs[i + 1].seq ELSE next
      BY <2>2 DEF Queued
    <3>2. i < n + 1 /\ t[i] = evs[i]  BY <1>1, <2>2
    <3>3. t[i + 1].seq = IF i < n THEN evs[i + 1].seq ELSE next
      <4>1. CASE i = n  BY <1>1, <4>1
      <4>2. CASE i < n
        <5>1. i + 1 \in 1 .. n  BY <1>1, <4>2
        <5> QED BY <1>1, <4>2, <5>1
      <4> QED BY <1>1, <2>2, <4>1, <4>2
    <3> QED BY <3>1, <3>2, <3>3
  <2> QED BY <1>1, <2>1, <2>2
<1> QED BY <1>1, <1>2, <1>3 DEF Queued, t

LEMMA QueuedTail ==
  ASSUME NEW S, NEW evs \in Seq(S), evs # << >>, NEW next, Queued(evs, next)
  PROVE  /\ Queued(Tail(evs), next)
         /\ NextSeq(Head(evs).seq) = First(Tail(evs), next)
         /\ Head(evs).seq = First(evs, next)
<1> DEFINE t == Tail(evs)
           n == Len(evs)
<1>1. /\ n \in Nat \ {0} /\ Len(t) = n - 1 /\ Head(evs) = evs[1]
      /\ \A i \in 1 .. n - 1 : t[i] = evs[i + 1]
      /\ t \in Seq(S)
  BY HeadTailProperties, EmptySeq
<1> HIDE DEF t
<1>5. t = << >> <=> n = 1  BY <1>1, EmptySeq
<1>2. NextSeq(evs[1].seq) = IF 1 < n THEN evs[1 + 1].seq ELSE next
  BY <1>1 DEF Queued
<1>3. First(t, next) = IF 1 < n THEN evs[1 + 1].seq ELSE next
  <2>1. CASE n = 1  BY <1>1, <1>5, <2>1 DEF First
  <2>2. CASE 1 < n
    <3>1. t # << >> /\ 1 \in 1 .. n - 1  BY <1>1, <1>5, <2>2
    <3> QED BY <1>1, <2>2, <3>1 DEF First
  <2> QED BY <1>1, <2>1, <2>2
<1>4. ASSUME NEW i \in 1 .. n - 1
      PROVE  NextSeq(t[i].seq) = IF i < n - 1 THEN t[i + 1].seq ELSE next
  <2>1. PICK k : k = i + 1  OBVIOUS
  <2>2. k \in 1 .. n /\ t[i] = evs[k]  BY <1>1, <2>1
  <2>3. NextSeq(evs[k].seq) = IF k < n THEN evs[k + 1].seq ELSE next
    BY <2>2 DEF Queued
  <2>4. i < n - 1 => t[i + 1] = evs[k + 1]
    <3> SUFFICES ASSUME i < n - 1 PROVE t[i + 1] = evs[k + 1]
      OBVIOUS
    <3>1. i + 1 \in 1 .. n - 1  BY <1>1
    <3> QED BY <1>1, <2>1, <3>1
  <2>5. i < n - 1 <=> k < n  BY <1>1, <2>1
  <2> QED BY <2>2, <2>3, <2>4, <2>5
<1> QED BY <1>1, <1>2, <1>3, <1>4 DEF Queued, First, t

-----------------------------------------------------------------------------
(* The inductive invariant: from the number the client expects, through its *)
(* output buffer and its queue, to esequence.                              *)

ClientChain(c) ==
  /\ Chain(outbuf[c], First(events[c], eseq[c]), heard[c])
  /\ Queued(events[c], eseq[c])

Chained == \A c \in Slot : ClientChain(c)

\* One event more for client c.
Posted(c) ==
  \E v \in Notice : /\ v.seq = eseq[c] /\ events'[c] = Append(events[c], v)
                    /\ eseq'[c] = NextSeq(eseq[c])

Unposted(c) == events'[c] = events[c] /\ eseq'[c] = eseq[c]

LEMMA QueuePosts ==
  ASSUME Bookkeeping, NEW T, NEW source \in Id \cup {Server}, NEW what \in Name,
         NEW about \in Id \cup {None}, Queue(T, source, what, about)
  PROVE  \A c \in Slot : IF c \in T THEN Posted(c) ELSE Unposted(c)
<1> SUFFICES ASSUME NEW c \in Slot, c \in T PROVE Posted(c)
  BY DEF Queue, Unposted
<1> DEFINE v == [source |-> source, what |-> what, about |-> about, seq |-> eseq[c]]
<1>1. v \in Notice  BY DEF Notice, Bookkeeping, TypeOK
<1>2. events'[c] = Append(events[c], v) /\ eseq'[c] = NextSeq(eseq[c])
  BY DEF Queue
<1>3. v.seq = eseq[c]  OBVIOUS
<1> HIDE DEF v
<1> QED BY <1>1, <1>2, <1>3 DEF Posted

\* Nothing is queued for a client without identifier and subscriptions.
LEMMA TargetsKnown ==
  ASSUME NEW L, NEW source, NEW dest, NEW what, NEW c \in Targets(L, source, dest, what)
  PROVE  ident[c] # None \/ subs[c] # {}
BY DEF Targets, Matches, Server, All, Subscribers

LEMMA HandlerEvents ==
  ASSUME Bookkeeping, HandleMethod, NEW c \in Slot
  PROVE  \/ Unposted(c)
         \/ Posted(c) /\ (ident[c] # None \/ subs'[c] # {})
<1> DEFINE m == Head(methods)
<1>1. methods # << >> => m \in Method /\ m.src \in Slot
  BY HeadType DEF Bookkeeping, Method
<1>2. /\ Server \in Id \cup {Server} /\ None \in Id \cup {None}
      /\ {"subscribed", "unsubscribed", "registered", "unregistered", "pong"} \subseteq Name
  BY DEF Name, ServerEvent
<1>3. ident \in [Slot -> Id \cup {None}]  BY DEF Bookkeeping, TypeOK
<1>4. CASE NoEvent \/ UNCHANGED <<events, eseq>>
  BY <1>4 DEF NoEvent, Unposted
<1>5. ASSUME NEW what \in Name, methods # << >>, m \in Method, m.src \in Slot,
             ident[m.src] # None,
             Queue({k \in Live : Matches(subs'[k], Server, what)}, Server, what, ident[m.src])
      PROVE  Unposted(c) \/ (Posted(c) /\ (ident[c] # None \/ subs'[c] # {}))
  <2>1. ident[m.src] \in Id \cup {None}  BY <1>3, <1>5
  <2>2. c \in {k \in Live : Matches(subs'[k], Server, what)} => subs'[c] # {}
    BY DEF Matches
  <2> QED BY <1>2, <1>5, <2>1, <2>2, QueuePosts
<1>6. CASE HandleSubscribe \/ HandleUnsubscribe \/ HandleRegister \/ HandleUnregister
  <2>1. \/ NoEvent
        \/ /\ methods # << >> /\ ident[m.src] # None
           /\ \E what \in {"subscribed", "unsubscribed", "registered", "unregistered"} :
                Queue({k \in Live : Matches(subs'[k], Server, what)}, Server, what,
                      ident[m.src])
    BY <1>6 DEF HandleSubscribe, HandleUnsubscribe, HandleRegister, HandleUnregister,
       Announcement, Take
  <2> QED BY <1>1, <1>2, <1>4, <1>5, <2>1
<1>7. CASE HandlePublish \/ HandleEvent
  <2>1. /\ methods # << >> /\ subs' = subs
        /\ NoEvent \/ Route(ident[m.src], m.who, m.what)
    BY <1>7 DEF HandlePublish, HandleEvent, Take
  <2>2. m.what \in Name /\ ident[m.src] \in Id \cup {None}
    BY <1>1, <1>3, <2>1 DEF Method
  <2>3. CASE NoEvent  BY <1>4, <2>3
  <2>4. CASE /\ ident[m.src] # None
             /\ Queue(Named(ident[m.src]), Server, "pong", None)
    <3>1. c \in Named(ident[m.src]) => ident[c] # None  BY DEF Named
    <3> QED BY <1>2, <2>4, <3>1, QueuePosts
  <2>5. CASE /\ ident[m.src] # None
             /\ Queue(Targets(Live, ident[m.src], m.who, m.what), ident[m.src], m.what, None)
    <3>1. ident[m.src] \in Id \cup {Server}  BY <2>2, <2>5
    <3>2. c \in Targets(Live, ident[m.src], m.who, m.what) => ident[c] # None \/ subs'[c] # {}
      BY <2>1, TargetsKnown
    <3> QED BY <1>2, <2>2, <2>5, <3>1, <3>2, QueuePosts
  <2> QED BY <2>1, <2>3, <2>4, <2>5 DEF Route
<1>8. CASE \/ HandleCreate \/ CrashInUnregister \/ HandleQuery \/ HandleClose
           \/ HandleCall \/ HandleResult
  <2>1. NoEvent \/ UNCHANGED <<events, eseq>>
    BY <1>8 DEF HandleCreate, CrashInUnregister, HandleQuery, HandleClose, HandleCall,
       HandleResult, queues
  <2> QED BY <1>4, <2>1
<1> QED BY <1>6, <1>7, <1>8 DEF HandleMethod

LEMMA AnnounceEvents ==
  ASSUME Bookkeeping, NEW d \in Slot, Announce(d), NEW c \in Slot
  PROVE  Unposted(c) \/ (Posted(c) /\ (ident[c] # None \/ subs[c] # {}))
<1>1. ident[d] \in Id \cup {None} /\ "connected" \in Name
  BY DEF Bookkeeping, TypeOK, Name, ServerEvent, Presence
<1>2. Queue(Targets(Live, Server, Subscribers, "connected"), Server, "connected", ident[d])
  BY DEF Announce, SendConnected
<1> QED BY <1>1, <1>2, QueuePosts, TargetsKnown

LEMMA CleanupEvents ==
  ASSUME Bookkeeping, NEW d \in Slot, Cleanup(d), NEW c \in Slot \ {d}
  PROVE  Unposted(c) \/ (Posted(c) /\ (ident[c] # None \/ subs[c] # {}))
<1>1. ident[d] \in Id \cup {None} /\ "disconnected" \in Name
  BY DEF Bookkeeping, TypeOK, Name, ServerEvent, Presence
<1> DEFINE told == {k \in Targets(Live \ {d}, Server, Subscribers, "disconnected") :
                      d \in announced}
           v == [source |-> Server, what |-> "disconnected", about |-> ident[d],
                 seq |-> eseq[c]]
<1>2. SendDisconnected(d, told)  BY DEF Cleanup
<1>3. v \in Notice /\ v.seq = eseq[c]
  BY <1>1 DEF Notice, Bookkeeping, TypeOK
<1>4. CASE c \in told
  <2>1. events'[c] = Append(events[c], v) /\ eseq'[c] = NextSeq(eseq[c])
    BY <1>2, <1>4 DEF SendDisconnected
  <2> HIDE DEF v
  <2>2. Posted(c)  BY <1>3, <2>1 DEF Posted
  <2> QED BY <1>4, <2>2, TargetsKnown
<1>5. CASE c \notin told
  BY <1>2, <1>5 DEF SendDisconnected, Unposted
<1> QED BY <1>4, <1>5

LEMMA KeptChain ==
  ASSUME Bookkeeping, NEW c \in Slot, ClientChain(c),
         outbuf'[c] = outbuf[c], heard'[c] = heard[c], Unposted(c) \/ Posted(c)
  PROVE  ClientChain(c)'
<1>1. CASE Unposted(c)  BY <1>1 DEF Unposted, ClientChain
<1>2. CASE Posted(c)
  <2>1. PICK v \in Notice : /\ v.seq = eseq[c] /\ events'[c] = Append(events[c], v)
                            /\ eseq'[c] = NextSeq(eseq[c])
    BY <1>2 DEF Posted
  <2>2. PICK evs, next : evs \in Seq(Notice) /\ evs = events[c] /\ next = eseq[c]
    BY DEF Bookkeeping, TypeOK
  <2>3. /\ Queued(Append(evs, v), NextSeq(next))
        /\ First(Append(evs, v), NextSeq(next)) = First(evs, next)
    BY <2>1, <2>2, QueuedAppend DEF ClientChain
  <2> QED BY <2>1, <2>2, <2>3 DEF ClientChain
<1> QED BY <1>1, <1>2

LEMMA PrepareChain ==
  ASSUME Bookkeeping, PrepareOut, NEW c \in Slot, ClientChain(c)
  PROVE  ClientChain(c)'
<1>1. PICK out, evs, next, expected :
        /\ out \in Seq(Out) /\ evs \in Seq(Notice)
        /\ out = outbuf[c] /\ evs = events[c] /\ next = eseq[c] /\ expected = heard[c]
  BY DEF Bookkeeping, TypeOK
<1>2. Chain(out, First(evs, next), expected) /\ Queued(evs, next)
  BY <1>1 DEF ClientChain
<1>3. eseq'[c] = next /\ heard'[c] = expected  BY <1>1 DEF PrepareOut, peer
<1>4. CASE outbuf'[c] = outbuf[c] /\ events'[c] = events[c]
  BY <1>1, <1>2, <1>3, <1>4 DEF ClientChain
<1>5. ASSUME NEW kind \in {"result", "request"}, NEW body,
             outbuf'[c] = Append(outbuf[c], Parcel(c, kind, body)), events'[c] = events[c]
      PROVE  ClientChain(c)'
  <2>1. PICK p : p = Parcel(c, kind, body)  OBVIOUS
  <2>2. p.kind # "event"  BY <2>1 DEF Parcel
  <2>3. Append(out, p) \in Seq(Out \cup {p}) /\ out \in Seq(Out \cup {p})
    BY <1>1
  <2>4. Chain(Append(out, p), First(evs, next), expected)
    BY <1>2, <2>2, <2>3, ChainAppend
  <2> QED BY <1>1, <1>2, <1>3, <1>5, <2>1, <2>4 DEF ClientChain
<1>6. CASE /\ events[c] # << >>
           /\ outbuf'[c] = Append(outbuf[c], Parcel(c, "event", Head(events[c])))
           /\ events'[c] = Tail(events[c])
  <2>1. PICK p : p = Parcel(c, "event", Head(evs))  OBVIOUS
  <2>2. p.kind = "event" /\ p.body = Head(evs)  BY <2>1 DEF Parcel
  <2>3. out \in Seq(Out \cup {p})  BY <1>1
  <2>4. /\ Queued(Tail(evs), next)
        /\ NextSeq(Head(evs).seq) = First(Tail(evs), next)
        /\ Head(evs).seq = First(evs, next)
    BY <1>1, <1>2, <1>6, QueuedTail
  <2>5. Chain(Append(out, p), First(Tail(evs), next), expected)
    <3>1. PICK x, y : x = First(evs, next) /\ y = First(Tail(evs), next)  OBVIOUS
    <3>2. Chain(out, x, expected) /\ p.body.seq = x /\ y = NextSeq(x)
      BY <1>2, <2>2, <2>4, <3>1
    <3>3. Chain(Append(out, p), y, expected)
      BY <2>2, <2>3, <3>2, ChainAppend
    <3> QED BY <3>1, <3>3
  <2> QED BY <1>1, <1>3, <1>6, <2>1, <2>4, <2>5 DEF ClientChain
<1> QED BY <1>4, <1>5, <1>6, Prepared

LEMMA WriteChain ==
  ASSUME Bookkeeping, NEW d \in Slot, Write(d), NEW c \in Slot, ClientChain(c)
  PROVE  ClientChain(c)'
<1>1. events' = events /\ eseq' = eseq  BY DEF Write, queues
<1>2. CASE c # d
  <2>1. outbuf'[c] = outbuf[c] /\ heard'[c] = heard[c]
    BY <1>2 DEF Write, Learn, Bookkeeping, TypeOK
  <2> QED BY <1>1, <2>1 DEF ClientChain
<1>3. CASE c = d
  <2>1. PICK out, x, expected, then :
          /\ out \in Seq(Out)
          /\ out = outbuf[c] /\ x = First(events[c], eseq[c]) /\ expected = heard[c]
          /\ then = heard'[c]
    BY DEF Bookkeeping, TypeOK
  <2>2. out # << >> /\ outbuf'[c] = Tail(out)
    BY <1>3, <2>1 DEF Write, Bookkeeping, TypeOK
  <2>3. /\ Head(out).kind = "event" => then = NextSeq(Head(out).body.seq)
        /\ Head(out).kind # "event" => then = expected
    BY <1>3, <2>1 DEF Write, Learn, Bookkeeping, TypeOK
  <2>4. Chain(out, x, expected) /\ Queued(events[c], eseq[c])
    BY <2>1 DEF ClientChain
  <2>5. out \in Seq(Out) /\ Chain(out, x, expected)  BY <2>1, <2>4
  <2>6. Chain(Tail(out), x, then)  BY <2>2, <2>3, <2>5, ChainTail
  <2> QED BY <1>1, <2>1, <2>2, <2>4, <2>6 DEF ClientChain
<1> QED BY <1>2, <1>3

LEMMA EmptyChain ==
  ASSUME NEW n
  PROVE  Chain(<< >>, First(<< >>, n), n) /\ Queued(<< >>, n)
<1>1. First(<< >>, n) = n  BY DEF First
<1>2. Chain(<< >>, n, n)
  BY DEF Chain, NumberAt
<1>3. Queued(<< >>, n)  BY DEF Queued
<1> QED BY <1>1, <1>2, <1>3

LEMMA NextChained == Bookkeeping /\ Chained /\ [Next]_vars => Chained'
<1> SUFFICES ASSUME Bookkeeping, Chained, [Next]_vars, NEW c \in Slot
             PROVE  ClientChain(c)'
  BY DEF Chained
<1>1. ClientChain(c)  BY DEF Chained
<1>2. CASE HandleMethod
  BY <1>1, <1>2, HandlerPlaces, HandlerEvents, KeptChain
<1>3. CASE UNCHANGED <<outbuf, events, eseq, heard>>
  BY <1>1, <1>3 DEF ClientChain
<1>4. CASE Quiet
  BY <1>1, <1>3, <1>4, QuietQueues, PrepareChain, WriteChain
<1>5. ASSUME NEW d \in Slot, Announce(d) PROVE ClientChain(c)'
  <2>1. outbuf' = outbuf /\ heard' = heard  BY <1>5 DEF Announce, peer
  <2> QED BY <1>1, <1>5, <2>1, AnnounceEvents, KeptChain
<1>6. ASSUME NEW d \in Slot, Cleanup(d) PROVE ClientChain(c)'
  <2>1. CASE c # d
    <3>1. outbuf'[c] = outbuf[c] /\ heard'[c] = heard[c]
      BY <1>6, <2>1 DEF Cleanup, Destroy, Bookkeeping, TypeOK
    <3> QED BY <1>1, <1>6, <2>1, <3>1, CleanupEvents, KeptChain
  <2>2. CASE c = d
    <3>1. outbuf'[c] = << >> /\ heard'[c] = SeqStart
      BY <1>6, <2>2 DEF Cleanup, Destroy, Bookkeeping, TypeOK
    <3>2. events'[c] = << >> /\ eseq'[c] = SeqStart
      BY <1>6, <2>2 DEF Cleanup, SendDisconnected
    <3> QED BY <3>1, <3>2, EmptyChain DEF ClientChain
  <2> QED BY <2>1, <2>2
<1>7. ASSUME NEW d \in Slot,
             \/ Accept(d) \/ Parse(d) \/ (\E e \in Slot : FailWait(e, d))
             \/ (\E f \in Frames : Read(d, f)) \/ (\E r \in held[d] : Reply(d, r))
      PROVE  ClientChain(c)'
  <2>1. UNCHANGED <<outbuf, events, eseq, heard>>
    BY <1>7 DEF Accept, Parse, FailWait, Read, Reply, Receive, queues, peer
  <2> QED BY <1>3, <2>1
<1>8. CASE UNCHANGED vars  BY <1>3, <1>8 DEF vars, queues, peer
<1> QED BY <1>2, <1>4, <1>5, <1>6, <1>7, <1>8, NextCases

LEMMA ChainedNumbers ==
  ASSUME Bookkeeping, Chained
  PROVE  EventChain
<1> SUFFICES ASSUME NEW c \in Live
             PROVE
    /\ \A i \in 1 .. Len(outbuf[c]) + 1 : i > Len(outbuf[c]) \/ IsEvent(c, i) =>
         /\ (\A j \in 1 .. i - 1 : ~IsEvent(c, j)) => Numbered(c, i) = heard[c]
         /\ \A j \in Preceding(c, i) : Numbered(c, i) = NextSeq(Numbered(c, j))
    /\ \A i \in DOMAIN events[c] :
         NextSeq(events[c][i].seq) =
           IF i < Len(events[c]) THEN events[c][i + 1].seq ELSE eseq[c]
  BY DEF EventChain
<1>1. c \in Slot  BY DEF Live
<1>2. PICK out, evs, x :
        /\ out \in Seq(Out) /\ evs \in Seq(Notice)
        /\ out = outbuf[c] /\ evs = events[c] /\ x = First(events[c], eseq[c])
  BY <1>1 DEF Bookkeeping, TypeOK
<1>3. Chain(out, x, heard[c]) /\ Queued(evs, eseq[c])
  BY <1>1, <1>2 DEF Chained, ClientChain
<1>4. \A i : IsEvent(c, i) <=> EventAt(out, i)  BY <1>2 DEF IsEvent, EventAt
<1>5. \A i \in 1 .. Len(out) + 1 : Numbered(c, i) = NumberAt(out, x, i)
  <2> TAKE i \in 1 .. Len(out) + 1
  <2>1. i \in DOMAIN out <=> i <= Len(out)  BY <1>2
  <2> QED BY <1>2, <2>1 DEF Numbered, NumberAt, First
<1>6. ASSUME NEW i \in 1 .. Len(out) + 1, i > Len(out) \/ IsEvent(c, i)
      PROVE  /\ (\A j \in 1 .. i - 1 : ~IsEvent(c, j)) => Numbered(c, i) = heard[c]
             /\ \A j \in Preceding(c, i) : Numbered(c, i) = NextSeq(Numbered(c, j))
  <2>1. /\ (\A j \in 1 .. i - 1 : ~EventAt(out, j)) => NumberAt(out, x, i) = heard[c]
        /\ \A j \in 1 .. i - 1 :
             Adjacent(out, j, i) => NumberAt(out, x, i) = NextSeq(NumberAt(out, x, j))
    BY <1>3, <1>4, <1>6 DEF Chain
  <2>2. \A j \in Preceding(c, i) : /\ j \in 1 .. i - 1 /\ Adjacent(out, j, i)
                                   /\ j \in 1 .. Len(out) + 1
    BY <1>2, <1>4 DEF Preceding, Adjacent
  <2> QED BY <1>4, <1>5, <2>1, <2>2
<1>7. \A i \in DOMAIN evs :
        NextSeq(evs[i].seq) = IF i < Len(evs) THEN evs[i + 1].seq ELSE eseq[c]
  BY <1>2, <1>3 DEF Queued
<1> QED BY <1>2, <1>6, <1>7

\* The events queued for a client and those in its output buffer carry the
\* consecutive numbers between the one the client expects and its esequence,
\* over every wrap of the counter and however its queue is interleaved with
\* answers and requests: none is lost, repeated or overtaken.
THEOREM EventsAreConsecutive == Spec => []EventChain
<1>1. Init => Chained
  <2> SUFFICES ASSUME Init, NEW c \in Slot PROVE ClientChain(c)
    BY DEF Chained
  <2>1. /\ outbuf[c] = << >> /\ events[c] = << >> /\ eseq[c] = SeqStart
        /\ heard[c] = SeqStart
    BY DEF Init
  <2> QED BY <2>1, EmptyChain DEF ClientChain
<1>2. Bookkeeping /\ Chained /\ [Next]_vars => Chained'  BY NextChained
<1>3. Bookkeeping /\ Chained => EventChain  BY ChainedNumbers
<1> QED BY <1>1, <1>2, <1>3, BookkeepingCorrect, PTL DEF Spec

-----------------------------------------------------------------------------
(* A slot without a client has nothing queued. *)

Vacant(c) ==
  /\ results[c] = << >> /\ requests[c] = << >> /\ events[c] = << >>
  /\ outbuf[c] = << >> /\ held[c] = {} /\ cmds[c] = {}
  /\ stage[c] = "new" /\ c \notin zlib

FreeQueues == \A c \in Slot \ Live : Vacant(c)

\* What the handler of m may do to the commands and the compression of a client.
LEMMA HandlerOwn ==
  ASSUME Bookkeeping, HandleMethod, NEW m, m = Head(methods)
  PROVE  /\ \A c \in Slot \ {m.src} : /\ cmds'[c] = cmds[c] /\ ident'[c] = ident[c]
                                      /\ subs'[c] = subs[c] /\ (c \in zlib') = (c \in zlib)
         /\ m.op # "create" => zlib' = zlib
         /\ m.op = "create" => HandleCreate
<1> USE DEF Take
<1>1. m.op = "create" => HandleCreate
  BY DEF HandleMethod, HandleSubscribe, HandleUnsubscribe, HandleRegister,
     HandleUnregister, CrashInUnregister, HandlePublish, HandleEvent, HandleQuery,
     HandleClose, HandleCall, HandleResult
<1>2. /\ subs \in [Slot -> SUBSET (Party \X Name)] /\ cmds \in [Slot -> SUBSET Name]
      /\ ident \in [Slot -> Id \cup {None}]
  BY DEF Bookkeeping, TypeOK
<1>3. CASE HandleCreate
  <2>1. cmds' = cmds /\ subs' = subs /\ m.op = "create"  BY <1>3 DEF HandleCreate
  <2>2. ident' = ident \/ \E id : ident' = [ident EXCEPT ![m.src] = id]
    BY <1>3 DEF HandleCreate, SetIdentifier
  <2>3. zlib' = zlib \/ zlib' = zlib \cup {c \in {m.src} : "zlib" \in m.opt}
    BY <1>3 DEF HandleCreate
  <2>4. \A c \in Slot \ {m.src} : c \in zlib' <=> c \in zlib  BY <2>3
  <2>5. \A c \in Slot \ {m.src} : (c \in zlib') = (c \in zlib)  BY <2>4
  <2> QED BY <1>2, <1>3, <2>1, <2>2, <2>5
<1>4. CASE HandleSubscribe \/ HandleUnsubscribe
  BY <1>2, <1>4 DEF HandleSubscribe, HandleUnsubscribe, AddSubscription, DelSubscription
<1>5. CASE HandleRegister \/ HandleUnregister
  BY <1>2, <1>5 DEF HandleRegister, HandleUnregister, AddCommand, DelCommand
<1>6. CASE CrashInUnregister
  BY <1>6 DEF CrashInUnregister, registry
<1>7. CASE HandlePublish \/ HandleEvent \/ HandleQuery \/ HandleClose \/ HandleCall
            \/ HandleResult
  BY <1>7 DEF HandlePublish, HandleEvent, HandleQuery, HandleClose, HandleCall, HandleResult
<1> QED BY <1>1, <1>3, <1>4, <1>5, <1>6, <1>7 DEF HandleMethod

\* A client that waits for nothing and sent nothing gets no answer, and one
\* without commands no request.
LEMMA HandlerQueues ==
  ASSUME Bookkeeping, Calls, HandleMethod, NEW c \in Slot, Head(methods).src # c
  PROVE  /\ waits[c] = {} => results'[c] = results[c]
         /\ cmds[c] = {} => requests'[c] = requests[c]
         /\ MethodsOf(c)' = MethodsOf(c)
<1>1. PICK m : m = Head(methods)  OBVIOUS
<1>2. m.src # c  BY <1>1
<1>3. waits[c] = {} => results'[c] = results[c]
  <2>1. CASE UNCHANGED results  BY <2>1
  <2>2. CASE Dealt(m)
    <3>1. ASSUME NEW rc, Respond(m, rc) PROVE results'[c] = results[c]
      BY <1>2, <3>1 DEF Respond, Bookkeeping, TypeOK
    <3>2. ASSUME NEW k \in Slot, NEW w \in waits[k], Completes(m, k, w), waits[c] = {}
          PROVE  results'[c] = results[c]
      <4>1. k # c  BY <3>2
      <4> QED BY <1>2, <3>2, <4>1 DEF Completes, Bookkeeping, TypeOK
    <3> QED BY <2>2, <3>1, <3>2 DEF Dealt
  <2> QED BY <1>1, <2>1, <2>2, HandlerPlaces
<1>4. cmds[c] = {} => requests'[c] = requests[c]
  BY HandlerRequests DEF Bookkeeping, TypeOK
<1>5. MethodsOf(c)' = MethodsOf(c)
  <2>1. CASE UNCHANGED methods  BY <2>1 DEF MethodsOf
  <2>2. CASE methods' = Tail(methods)
    <3>1. MethodsOf(c)' = MethodsOf(c) \ {m}
      BY <1>1, <2>2, HandlerPlaces, HandlerMethods DEF Calls
    <3> QED BY <1>2, <3>1 DEF MethodsOf
  <2> QED BY <2>1, <2>2, HandlerPlaces
<1> QED BY <1>3, <1>4, <1>5

LEMMA NextFreeQueues ==
  ASSUME Bookkeeping, Bookkeeping', Calls, FreeQueues, [Next]_vars
  PROVE  FreeQueues'
<1> SUFFICES ASSUME NEW c \in Slot, c \notin Live' PROVE Vacant(c)'
  BY DEF FreeQueues
<1>1. ident'[c] = None /\ subs'[c] = {}
  BY DEF Bookkeeping, FreeSlots
<1>2. c \notin Live => Vacant(c) /\ ident[c] = None /\ subs[c] = {} /\ waits[c] = {}
  BY DEF FreeQueues, Bookkeeping, FreeSlots
<1>3. CASE HandleMethod
  <2>1. c \notin Live /\ Head(methods).src \in Live
    BY <1>3, HandlerFrame, HandlerSender
  <2>2. Head(methods).src # c  BY <2>1
  <2>3. results'[c] = results[c] /\ requests'[c] = requests[c]
    BY <1>2, <1>3, <2>1, <2>2, HandlerQueues DEF Vacant
  <2>4. Unposted(c)  BY <1>1, <1>2, <1>3, <2>1, HandlerEvents
  <2>5. cmds'[c] = cmds[c] /\ (c \in zlib') = (c \in zlib)
    BY <1>3, <2>2, HandlerOwn
  <2>6. UNCHANGED <<outbuf, held, stage>>  BY <1>3, HandlerPlaces
  <2> QED BY <1>2, <2>1, <2>3, <2>4, <2>5, <2>6 DEF Vacant, Unposted
<1>4. CASE Quiet
  <2>1. c \notin Live  BY <1>4, QuietFrame
  <2>2. c \notin Open  BY <2>1 DEF Live, Open
  <2>3. CASE PrepareOut
    <3>1. /\ outbuf'[c] = outbuf[c] /\ results'[c] = results[c]
          /\ requests'[c] = requests[c] /\ events'[c] = events[c]
      BY <2>2, <2>3, Prepared
    <3> QED BY <1>2, <2>1, <2>3, <3>1 DEF PrepareOut, registry, peer, Vacant
  <2>4. ASSUME NEW d \in Slot, Write(d) PROVE Vacant(c)'
    <3>1. c # d  BY <2>2, <2>4 DEF Write
    <3>2. /\ results'[c] = results[c] /\ requests'[c] = requests[c] /\ events'[c] = events[c]
          /\ cmds'[c] = cmds[c] /\ zlib' = zlib
      BY <2>4 DEF Write, registry, queues
    <3>3. outbuf'[c] = outbuf[c] /\ held'[c] = held[c] /\ stage'[c] = stage[c]
      <4>1. held \in [Slot -> SUBSET Request] /\ DOMAIN stage = Slot /\ DOMAIN outbuf = Slot
        BY DEF Bookkeeping, TypeOK
      <4>2. outbuf'[c] = outbuf[c]  BY <2>4, <3>1, <4>1 DEF Write
      <4> QED BY <2>4, <3>1, <4>1, <4>2 DEF Write, Learn
    <3> QED BY <1>2, <2>1, <3>2, <3>3 DEF Vacant
  <2> QED BY <1>2, <1>4, <2>1, <2>3, <2>4, QuietQueues DEF Vacant
<1>5. ASSUME NEW d \in Slot, Accept(d) PROVE Vacant(c)'
  <2>1. c \notin Live  BY <1>5, AcceptFrame
  <2> QED BY <1>2, <1>5, <2>1 DEF Accept, Vacant, queues, peer
<1>6. ASSUME NEW d \in Slot, Announce(d) PROVE Vacant(c)'
  <2>1. c \notin Live  BY <1>6, AnnounceFrame
  <2>2. Unposted(c)  BY <1>2, <1>6, <2>1, AnnounceEvents
  <2> QED BY <1>2, <1>6, <2>1, <2>2 DEF Announce, Vacant, Unposted, peer
<1>7. ASSUME NEW d \in Slot, Cleanup(d) PROVE Vacant(c)'
  <2>1. CASE c = d
    BY SMTT(30), <1>7, <2>1 DEF Cleanup, Destroy, SendDisconnected, Vacant, Bookkeeping, TypeOK
  <2>2. CASE c # d
    <3>1. c \notin Live  BY <1>7, <2>2, CleanupFrame
    <3>2. Unposted(c)  BY <1>2, <1>7, <2>2, <3>1, CleanupEvents
    <3> QED BY <1>2, <1>7, <2>2, <3>1, <3>2
            DEF Cleanup, Destroy, Vacant, Unposted, Bookkeeping, TypeOK
  <2> QED BY <2>1, <2>2
<1>8. ASSUME NEW d \in Slot, Parse(d) PROVE Vacant(c)'
  <2>1. c \notin Live  BY <1>8, ParseFrame
  <2> QED BY <1>2, <1>8, <2>1 DEF Parse, Vacant, queues, peer
<1>9. ASSUME NEW d \in Slot, NEW e \in Slot, FailWait(e, d) PROVE Vacant(c)'
  <2>1. c \notin Live /\ d \in Live  BY <1>9, FailWaitFrame DEF FailWait
  <2>2. c # d  BY <2>1
  <2> QED BY <1>2, <1>9, <2>1, <2>2 DEF FailWait, Vacant, registry, peer, Bookkeeping, TypeOK
<1>10. ASSUME NEW d \in Slot,
              (\E f \in Frames : Read(d, f)) \/ (\E r \in held[d] : Reply(d, r))
       PROVE  Vacant(c)'
  <2>1. c \notin Live /\ d \in Open  BY <1>10, ReceiveFrame
  <2>2. c # d  BY <2>1 DEF Live, Open
  <2>3. stage'[c] = stage[c] /\ held'[c] = held[c]
    <3>1. CASE \E f \in Frames : Read(d, f)
      BY <2>2, <3>1 DEF Read, Bookkeeping, TypeOK
    <3>2. CASE \E r \in held[d] : Reply(d, r)
      BY <2>2, <3>2 DEF Reply, Bookkeeping, TypeOK
    <3> QED BY <1>10, <3>1, <3>2
  <2>4. UNCHANGED <<outbuf, requests, results, events, cmds, zlib>>
    BY <1>10 DEF Read, Reply, Receive, queues, registry
  <2> QED BY <1>2, <2>1, <2>3, <2>4 DEF Vacant
<1>11. CASE UNCHANGED vars
  BY <1>2, <1>11 DEF vars, registry, queues, peer, Vacant, Live
<1> QED BY <1>3, <1>4, <1>5, <1>6, <1>7, <1>8, <1>9, <1>10, <1>11, NextCases

-----------------------------------------------------------------------------
(* Compression: where a conforming client is with its create.              *)

\* From position lo on, the frames of out are compressed exactly if z.
Flagged(out, z, lo) == \A i \in 1 .. Len(out) : i >= lo => out[i].zlib = z

LEMMA FlaggedAppend ==
  ASSUME NEW S, NEW out \in Seq(S), NEW p \in S, NEW z, NEW lo, Flagged(out, z, lo),
         Len(out) + 1 >= lo => p.zlib = z
  PROVE  Flagged(Append(out, p), z, lo)
<1> DEFINE t == Append(out, p)
<1>1. /\ Len(t) = Len(out) + 1 /\ Len(out) \in Nat /\ t[Len(out) + 1] = p
      /\ \A i \in 1 .. Len(out) : t[i] = out[i]
  BY AppendProperties
<1> HIDE DEF t
<1>2. ASSUME NEW i \in 1 .. Len(out) + 1, i >= lo PROVE t[i].zlib = z
  <2>1. CASE i = Len(out) + 1  BY <1>1, <1>2, <2>1
  <2>2. CASE i \in 1 .. Len(out)  BY <1>1, <1>2, <2>2 DEF Flagged
  <2> QED BY <1>1, <2>1, <2>2
<1> QED BY <1>1, <1>2 DEF Flagged, t

LEMMA FlaggedTail ==
  ASSUME NEW S, NEW out \in Seq(S), out # << >>, NEW z, NEW lo \in {1, 2},
         Flagged(out, z, lo)
  PROVE  Flagged(Tail(out), z, 1)
<1> DEFINE t == Tail(out)
<1>1. /\ Len(t) = Len(out) - 1 /\ Len(out) \in Nat \ {0}
      /\ \A i \in 1 .. Len(out) - 1 : t[i] = out[i + 1]
  BY HeadTailProperties, EmptySeq
<1> HIDE DEF t
<1>2. ASSUME NEW i \in 1 .. Len(out) - 1 PROVE t[i].zlib = z
  <2>1. i + 1 \in 1 .. Len(out) /\ i + 1 >= lo  BY <1>1
  <2> QED BY <1>1, <2>1 DEF Flagged
<1> QED BY <1>1, <1>2 DEF Flagged, t

Compressing(c) == c \in zlib

\* A client the broker knows nothing of, and has nothing for.
Unknown(c) ==
  /\ ident[c] = None /\ ~Compressing(c) /\ subs[c] = {}
  /\ events[c] = << >> /\ outbuf[c] = << >>

\* The answer a to its create is queued, or first in its output buffer.
Admitted(c, a) ==
  /\ a.to.op = "create" /\ (a.rc = -1 => ~Compressing(c))
  /\ \/ results[c] = <<a>> /\ outbuf[c] = << >>
     \/ /\ results[c] = << >> /\ outbuf[c] # << >>
        /\ outbuf[c][1].kind = "result" /\ outbuf[c][1].body = a
        /\ outbuf[c][1].zlib = FALSE
        /\ Flagged(outbuf[c], Compressing(c), 2)

\* Its create is the only thing on its way, and nobody calls it yet.
Creating(c, m) ==
  /\ m.op = "create" /\ owed[c] = {m}
  /\ \/ Arrived(c) = {m} /\ Unknown(c)
     \/ Arrived(c) = {} /\ \E a \in AnswersFor(c) : Admitted(c, a)

Uncalled(c) == cmds[c] = {} /\ requests[c] = << >> /\ held[c] = {}

Staged(c) ==
  /\ stage[c] = "new" =>
       Uncalled(c) /\ owed[c] = {} /\ Arrived(c) = {} /\ Unknown(c)
  /\ stage[c] = "asked" => Uncalled(c) /\ \E m \in owed[c] : Creating(c, m)
  /\ stage[c] \in {"created", "refused"} =>
       (\A m \in owed[c] : m.op # "create") /\ Flagged(outbuf[c], Compressing(c), 1)
  /\ stage[c] = "refused" => ~Compressing(c)

Stages == Conforming => \A c \in Open : Staged(c)

LEMMA FromCalls ==
  ASSUME Bookkeeping, Calls, NEW c \in Slot
  PROVE  /\ Answers(results[c]) \cup Sent(outbuf[c]) \cup waits[c] \subseteq owed[c]
         /\ Commands(Arrived(c)) \subseteq owed[c]
         /\ \A w \in waits[c] : w.op = "call"
         /\ Answers(results[c]) \cap Arrived(c) = {}
         /\ Contents(inbox[c]) \cap MethodsOf(c) = {}
         /\ results[c] # << >> => results[c][1].to \in Answers(results[c])
         /\ outbuf[c] # << >> /\ outbuf[c][1].kind = "result" =>
              outbuf[c][1].body.to \in Sent(outbuf[c])
<1>1. Once(c) /\ Tagged(c) /\ Owing(c)  BY DEF Calls, ClientCalls
<1>2. results[c] \in Seq(Answer) /\ outbuf[c] \in Seq(Out)
  BY DEF Bookkeeping, TypeOK
<1>3. results[c] # << >> => 1 \in DOMAIN results[c]
  BY <1>2, EmptySeq
<1>4. outbuf[c] # << >> => 1 \in DOMAIN outbuf[c]
  BY <1>2, EmptySeq
<1>5. results[c] # << >> => results[c][1].to \in Answers(results[c])
  BY <1>3 DEF Answers
<1>6. outbuf[c] # << >> /\ outbuf[c][1].kind = "result" =>
        outbuf[c][1].body.to \in Sent(outbuf[c])
  BY <1>4 DEF Sent
<1>7. /\ Answers(results[c]) \cap Arrived(c) = {}
      /\ Contents(inbox[c]) \cap MethodsOf(c) = {}
  BY <1>1 DEF Once, Apart, Arrived
<1>8. /\ Answers(results[c]) \cup Sent(outbuf[c]) \cup waits[c] \subseteq owed[c]
      /\ Commands(Arrived(c)) \subseteq owed[c]
  BY <1>1 DEF Owing, Placed, Commands, Arrived
<1> QED BY <1>1, <1>5, <1>6, <1>7, <1>8 DEF Tagged

\* Until its create is handled, nothing is queued for a client.
LEMMA NothingQueued ==
  ASSUME Bookkeeping, Calls, NEW c \in Slot,
         \/ owed[c] = {}
         \/ \E m : owed[c] = {m} /\ m \in Arrived(c)
  PROVE  results[c] = << >>
<1> SUFFICES ASSUME results[c] # << >> PROVE FALSE
  OBVIOUS
<1>1. results[c][1].to \in Answers(results[c]) /\ results[c][1].to \in owed[c]
  BY FromCalls
<1>2. results[c][1].to \notin Arrived(c)  BY <1>1, FromCalls
<1> QED BY <1>1, <1>2

\* A step that leaves alone what Staged is about.
LEMMA KeptStaged ==
  ASSUME NEW c \in Slot, Staged(c),
         stage'[c] = stage[c], owed'[c] = owed[c], held'[c] = held[c], cmds'[c] = cmds[c],
         ident'[c] = ident[c], subs'[c] = subs[c], Compressing(c)' = Compressing(c),
         outbuf'[c] = outbuf[c], Arrived(c)' = Arrived(c),
         stage[c] \in {"new", "asked"} => results'[c] = results[c] /\ requests'[c] = requests[c],
         Unposted(c) \/ ident[c] # None \/ subs[c] # {}
  PROVE  Staged(c)'

<1>1. Unknown(c) => Unknown(c)'  BY DEF Unknown, Unposted
<1>2. Uncalled(c) /\ stage[c] \in {"new", "asked"} => Uncalled(c)'  BY DEF Uncalled
<1>3. \A a : Admitted(c, a) /\ stage[c] = "asked" => Admitted(c, a)'  BY DEF Admitted
<1>4. stage[c] = "asked" => AnswersFor(c)' = AnswersFor(c)  BY DEF AnswersFor, AnswersIn, Contents
<1>5. \A m : stage[c] = "asked" /\ Creating(c, m) => Creating(c, m)'
  BY <1>1, <1>3, <1>4 DEF Creating
<1> QED BY <1>1, <1>2, <1>5 DEF Staged

\* No call of a client that did not create itself waits.
LEMMA NoWaits ==
  ASSUME Bookkeeping, Calls, NEW c \in Slot, Staged(c), stage[c] \in {"new", "asked"}
  PROVE  waits[c] = {}
<1>1. \A m \in owed[c] : m.op = "create"
  BY DEF Staged, Creating
<1> QED BY <1>1, FromCalls

LEMMA HandlerStaged ==
  ASSUME Bookkeeping, Calls, HandleMethod, NEW c \in Open, Staged(c)
  PROVE  Staged(c)'
<1>1. PICK m : m = Head(methods)  OBVIOUS
<1>2. /\ UNCHANGED <<inbox, outbuf, stage, owed, held>> /\ methods # << >>
      /\ c \in Slot
  BY HandlerPlaces DEF Open
<1>3. m \in Method /\ m.src \in Live /\ m \in MethodsOf(m.src)
  <2>1. m \in Method /\ m.src \in Live  BY <1>1, <1>2, HandlerSender, HeadType DEF Bookkeeping
  <2>2. methods \in Seq(Method) /\ 1 \in DOMAIN methods /\ m = methods[1]
    BY <1>1, <1>2, HeadTailProperties DEF Bookkeeping, TypeOK
  <2> QED BY <2>1, <2>2 DEF MethodsOf, Contents
<1>4. CASE m.src # c
  <2>1. cmds'[c] = cmds[c] /\ ident'[c] = ident[c] /\ subs'[c] = subs[c]
    BY <1>1, <1>2, <1>4, HandlerOwn
  <2>2. Compressing(c)' = Compressing(c)
    BY <1>1, <1>2, <1>4, HandlerOwn DEF Compressing
  <2>3. /\ MethodsOf(c)' = MethodsOf(c)
        /\ waits[c] = {} => results'[c] = results[c]
        /\ cmds[c] = {} => requests'[c] = requests[c]
    BY <1>1, <1>2, <1>4, HandlerQueues
  <2>4. Arrived(c)' = Arrived(c)  BY <1>2, <2>3 DEF Arrived
  <2>5. stage[c] \in {"new", "asked"} => results'[c] = results[c] /\ requests'[c] = requests[c]
    BY <1>2, <2>3, NoWaits DEF Staged, Uncalled
  <2>6. Unposted(c) \/ ident[c] # None \/ subs[c] # {}
    BY <1>2, <2>1, HandlerEvents
  <2> QED BY <1>2, <2>1, <2>2, <2>4, <2>5, <2>6, KeptStaged
<1>5. CASE m.src = c /\ stage[c] \in {"created", "refused"}
  <2>1. m.op # "create"
    <3> SUFFICES ASSUME m.op = "create" PROVE FALSE
      OBVIOUS
    <3>1. m \in Commands(Arrived(c))
      BY <1>3, <1>5 DEF Commands, Arrived, Unanswered
    <3>2. m \in owed[c]  BY <1>2, <3>1, FromCalls
    <3> QED BY <1>5, <3>2 DEF Staged
  <2>2. zlib' = zlib  BY <1>1, <1>2, <2>1, HandlerOwn
  <2> QED BY <1>2, <1>5, <2>2 DEF Staged, Compressing
<1>6. CASE m.src = c /\ stage[c] \in {"new", "asked"}
  <2>1. m \in Arrived(c)  BY <1>3, <1>6 DEF Arrived
  <2>2. stage[c] = "asked" /\ owed[c] = {m} /\ Arrived(c) = {m}
    BY <1>6, <2>1 DEF Staged, Creating
  <2>3. m.op = "create" /\ Unknown(c) /\ Uncalled(c)
    BY <2>1, <2>2 DEF Staged, Creating
  <2>4. results[c] = << >>  BY <1>2, <2>2, NothingQueued
  <2>5. HandleCreate  BY <1>1, <1>2, <2>3, HandlerOwn
  <2>6. /\ UNCHANGED <<cmds, requests>> /\ methods' = Tail(methods)
        /\ \E rc \in {0, -1} : Respond(m, rc) /\ (rc = -1 => zlib' = zlib)
    BY <1>1, <2>5 DEF HandleCreate, Take
  <2>7. PICK rc \in {0, -1} : Respond(m, rc) /\ (rc = -1 => zlib' = zlib)
    BY <2>6
  <2>8. PICK a : a = Answered(m, rc, 0)  OBVIOUS
  <2>9. results'[c] = <<a>> /\ a.to = m /\ a.rc = rc
    <3>1. results'[c] = Append(results[c], a)
      BY <1>2, <1>6, <2>7, <2>8 DEF Respond, Bookkeeping, TypeOK
    <3>2. a.to = m /\ a.rc = rc  BY <2>8 DEF Answered
    <3> QED BY <2>4, <3>1, <3>2
  <2>10. MethodsOf(c)' = MethodsOf(c) \ {m}
    BY <1>1, <1>2, <2>6, HandlerMethods DEF Calls
  <2>11. Arrived(c)' = {}
    <3>1. m \notin Contents(inbox[c])
      BY <1>2, <1>3, <1>6, FromCalls
    <3> QED BY <1>2, <2>2, <2>10, <3>1 DEF Arrived
  <2>12. a \in AnswersFor(c)'  BY <2>9 DEF AnswersFor, Contents
  <2>13. Admitted(c, a)'
    BY <1>2, <2>7, <2>3, <2>9 DEF Admitted, Unknown, Compressing
  <2>14. Creating(c, m)' /\ m \in owed'[c] /\ stage'[c] = "asked" /\ Uncalled(c)'
    BY <1>2, <2>2, <2>3, <2>6, <2>11, <2>12, <2>13 DEF Creating, Uncalled
  <2> QED BY <2>14 DEF Staged
<1> QED BY <1>2, <1>4, <1>5, <1>6 DEF Bookkeeping, TypeOK

LEMMA PrepareStaged ==
  ASSUME Bookkeeping, Calls, PrepareOut, NEW c \in Open, Staged(c)
  PROVE  Staged(c)'
<1>1. c \in Slot  BY DEF Open
<1>2. UNCHANGED <<stage, owed, held, cmds, ident, subs, zlib, inbox, methods, eseq>>
  BY DEF PrepareOut, registry, peer
<1>3. Arrived(c)' = Arrived(c) /\ Compressing(c)' = Compressing(c)
  BY <1>2 DEF Arrived, MethodsOf, Compressing
<1>4. PICK out, z : out \in Seq(Out) /\ out = outbuf[c] /\ z = Compressing(c)
  BY <1>1 DEF Bookkeeping, TypeOK
<1>5. CASE /\ outbuf'[c] = outbuf[c] /\ results'[c] = results[c]
           /\ requests'[c] = requests[c] /\ events'[c] = events[c]
  BY <1>1, <1>2, <1>3, <1>5, KeptStaged DEF Unposted
<1>6. ASSUME NEW kind, NEW body, outbuf'[c] = Append(outbuf[c], Parcel(c, kind, body)),
             ~(kind = "result" /\ body.to.op = "create"), NEW lo \in {1, 2},
             Flagged(outbuf[c], Compressing(c), lo)
      PROVE  Flagged(outbuf'[c], Compressing(c)', lo)
  <2>1. PICK p : p = Parcel(c, kind, body)  OBVIOUS
  <2>2. p.zlib = z
    <3>1. p.zlib = Compressed(c, kind, body)  BY <2>1 DEF Parcel
    <3>2. Compressed(c, kind, body) = Compressing(c)  BY <1>6 DEF Compressed, Compressing
    <3> QED BY <1>4, <3>1, <3>2
  <2>3. out \in Seq(Out \cup {p})  BY <1>4
  <2>4. Flagged(Append(out, p), z, lo)
    BY <1>4, <1>6, <2>2, <2>3, FlaggedAppend
  <2> QED BY <1>3, <1>4, <1>6, <2>1, <2>4
<1>7. CASE /\ results[c] # << >>
           /\ outbuf'[c] = Append(outbuf[c], Parcel(c, "result", Head(results[c])))
           /\ results'[c] = Tail(results[c])
           /\ requests'[c] = requests[c] /\ events'[c] = events[c]
  <2>1. results[c] \in Seq(Answer) /\ Head(results[c]) = results[c][1]
    BY <1>1, <1>7, HeadTailProperties DEF Bookkeeping, TypeOK
  <2>2. results[c][1].to \in owed[c]  BY <1>1, <1>7, FromCalls
  <2>3. stage[c] # "new"  BY <2>2 DEF Staged
  <2>4. CASE stage[c] = "asked"
    <3>1. PICK m \in owed[c] : Creating(c, m)  BY <2>4 DEF Staged
    <3>2. m \notin Arrived(c)
      BY <1>1, <1>7, <3>1, NothingQueued DEF Creating
    <3>3. PICK a \in AnswersFor(c) : Admitted(c, a)  BY <3>1, <3>2 DEF Creating
    <3>4. results[c] = <<a>> /\ outbuf[c] = << >>  BY <1>7, <3>3 DEF Admitted
    <3>5. PICK p : p = Parcel(c, "result", a)  OBVIOUS
    <3>6. outbuf'[c] = <<p>> /\ results'[c] = << >>
      BY <1>7, <3>4, <3>5
    <3>7. p.kind = "result" /\ p.body = a /\ p.zlib = FALSE
      <4>1. p.zlib = Compressed(c, "result", a)  BY <3>5 DEF Parcel
      <4>2. Compressed(c, "result", a) = FALSE  BY <3>3 DEF Compressed, Admitted
      <4> QED BY <3>5, <4>1, <4>2 DEF Parcel
    <3>8. Flagged(<<p>>, z, 2)  BY DEF Flagged
    <3>9. Admitted(c, a)'
      BY <1>3, <1>4, <3>3, <3>6, <3>7, <3>8 DEF Admitted
    <3>10. a \in AnswersFor(c)'  BY <1>1, <3>3, PreparedBodies
    <3>11. Creating(c, m)' /\ Uncalled(c)'
      BY <1>2, <1>3, <1>7, <2>4, <3>1, <3>2, <3>9, <3>10 DEF Creating, Uncalled, Staged
    <3> QED BY <1>2, <2>4, <3>1, <3>11 DEF Staged
  <2>5. CASE stage[c] \in {"created", "refused"}
    <3>1. Head(results[c]).to.op # "create"  BY <2>1, <2>2, <2>5 DEF Staged
    <3>2. Flagged(outbuf'[c], Compressing(c)', 1)
      BY <1>6, <1>7, <2>5, <3>1 DEF Staged
    <3> QED BY <1>2, <1>3, <2>5, <3>2 DEF Staged
  <2> QED BY <1>1, <2>3, <2>4, <2>5 DEF Bookkeeping, TypeOK
<1>8. ASSUME NEW kind \in {"request", "event"}, NEW body, results[c] = << >>,
             outbuf'[c] = Append(outbuf[c], Parcel(c, kind, body)),
             results'[c] = results[c], kind = "request" => requests[c] # << >>,
             kind = "event" => events[c] # << >> /\ requests'[c] = requests[c]
      PROVE  Staged(c)'
  <2>1. stage[c] # "new"  BY <1>8 DEF Staged, Uncalled, Unknown
  <2>2. CASE stage[c] = "asked"
    <3>1. PICK m \in owed[c] : Creating(c, m)  BY <2>2 DEF Staged
    <3>2. kind = "event" /\ Uncalled(c)  BY <1>8, <2>2 DEF Staged, Uncalled
    <3>3. ~Unknown(c)  BY <1>8, <3>2 DEF Unknown
    <3>4. Arrived(c) = {}  BY <3>1, <3>3 DEF Creating
    <3>5. PICK a \in AnswersFor(c) : Admitted(c, a)  BY <3>1, <3>3 DEF Creating
    <3>6. /\ out # << >> /\ out[1].kind = "result" /\ out[1].body = a /\ out[1].zlib = FALSE
          /\ Flagged(outbuf[c], Compressing(c), 2)
      BY <1>4, <1>8, <3>5 DEF Admitted
    <3>7. Flagged(outbuf'[c], Compressing(c)', 2)
      BY <1>6, <1>8, <3>2, <3>6
    <3>8. outbuf'[c] # << >> /\ outbuf'[c][1] = out[1]
      <4>1. PICK p : p = Parcel(c, kind, body)  OBVIOUS
      <4>2. out \in Seq(Out \cup {p})  BY <1>4
      <4>3. outbuf'[c] = Append(out, p)  BY <1>4, <1>8, <4>1
      <4>4. 1 \in 1 .. Len(out)  BY <1>4, <3>6, EmptySeq
      <4> QED BY <4>2, <4>3, <4>4, AppendProperties
    <3>9. Admitted(c, a)'
      BY <1>3, <1>8, <3>5, <3>6, <3>7, <3>8 DEF Admitted
    <3>10. a \in AnswersFor(c)'  BY <1>1, <3>5, PreparedBodies
    <3>11. Creating(c, m)' /\ Uncalled(c)'
      BY <1>2, <1>3, <1>8, <3>1, <3>2, <3>4, <3>9, <3>10 DEF Creating, Uncalled
    <3> QED BY <1>2, <2>2, <3>1, <3>11 DEF Staged
  <2>3. CASE stage[c] \in {"created", "refused"}
    <3>1. Flagged(outbuf'[c], Compressing(c)', 1)
      BY <1>6, <1>8, <2>3 DEF Staged
    <3> QED BY <1>2, <1>3, <2>3, <3>1 DEF Staged
  <2> QED BY <1>1, <2>1, <2>2, <2>3 DEF Bookkeeping, TypeOK
<1> QED BY <1>1, <1>5, <1>7, <1>8, Prepared

LEMMA WriteStaged ==
  ASSUME Bookkeeping, Calls, NEW d \in Slot, Write(d), NEW c \in Open, Staged(c)
  PROVE  Staged(c)'
<1>1. c \in Slot  BY DEF Open
<1>2. UNCHANGED <<cmds, ident, subs, zlib, inbox, methods, requests, results, events, eseq>>
  BY DEF Write, registry, queues
<1>3. Arrived(c)' = Arrived(c) /\ Compressing(c)' = Compressing(c)
  BY <1>2 DEF Arrived, MethodsOf, Compressing
<1>4. CASE c # d
  <2>1. /\ outbuf'[c] = outbuf[c] /\ stage'[c] = stage[c] /\ owed'[c] = owed[c]
        /\ held'[c] = held[c]
    BY <1>1, <1>4 DEF Write, Learn, Bookkeeping, TypeOK
  <2> QED BY <1>1, <1>2, <1>3, <2>1, KeptStaged DEF Unposted
<1>5. CASE c = d
  <2>1. PICK out, z : out \in Seq(Out) /\ out = outbuf[c] /\ z = Compressing(c)
    BY <1>1 DEF Bookkeeping, TypeOK
  <2>2. out # << >> /\ outbuf'[c] = Tail(out) /\ Head(out) = out[1] /\ Learn(c, Head(out))
    <3>1. out # << >> /\ outbuf'[c] = Tail(out) /\ Learn(c, Head(out))
      BY <1>1, <1>5, <2>1 DEF Write, Bookkeeping, TypeOK
    <3> QED BY <2>1, <3>1, HeadTailProperties
  <2>3. PICK f \in Out : f = Head(out)  BY <2>1, <2>2, HeadTailProperties
  <2>4. stage[c] # "new"  BY <2>1, <2>2 DEF Staged, Unknown
  <2>5. owed'[c] = IF f.kind = "result" THEN owed[c] \ {f.body.to} ELSE owed[c]
    BY <1>1, <2>2, <2>3 DEF Learn, Bookkeeping, TypeOK
  <2>6. CASE stage[c] = "asked"
    <3>1. PICK m \in owed[c] : Creating(c, m)  BY <2>6 DEF Staged
    <3>2. PICK a \in AnswersFor(c) : Admitted(c, a)
      BY <2>1, <2>2, <3>1 DEF Creating, Unknown
    <3>3. /\ f.kind = "result" /\ f.body = a /\ a.to.op = "create"
          /\ (a.rc = -1 => ~Compressing(c))
          /\ Flagged(out, z, 2)
      BY <2>1, <2>2, <2>3, <3>2 DEF Admitted
    <3>4. a.to \in owed[c]
      BY <1>1, <2>1, <2>2, <2>3, <3>3, FromCalls
    <3>5. owed'[c] = {}  BY <2>5, <3>1, <3>3, <3>4 DEF Creating
    <3>6. Flagged(outbuf'[c], Compressing(c)', 1)
      BY <1>3, <2>1, <2>2, <3>3, FlaggedTail
    <3>7. a.rc \in {0, -1}
      BY <2>3, <3>3 DEF Out, Answer
    <3>8. stage'[c] = IF a.rc = 0 THEN "created" ELSE "refused"
      BY <1>1, <2>2, <2>3, <2>6, <3>3, <3>7 DEF Learn, Bookkeeping, TypeOK
    <3> QED BY <1>3, <3>3, <3>5, <3>6, <3>7, <3>8 DEF Staged
  <2>7. CASE stage[c] \in {"created", "refused"}
    <3>1. Flagged(outbuf'[c], Compressing(c)', 1)
      BY <1>3, <2>1, <2>2, <2>7, FlaggedTail DEF Staged
    <3>2. f.kind = "result" => f.body.to.op # "create"
      <4>1. f.kind = "result" => f.body.to \in owed[c]
        BY <1>1, <2>1, <2>2, <2>3, FromCalls
      <4> QED BY <2>7, <4>1 DEF Staged
    <3>3. stage'[c] = stage[c]
      BY <2>2, <2>3, <3>2 DEF Learn
    <3>4. owed'[c] \subseteq owed[c]  BY <2>5
    <3> QED BY <1>3, <2>7, <3>1, <3>3, <3>4 DEF Staged
  <2> QED BY <1>1, <2>4, <2>6, <2>7 DEF Bookkeeping, TypeOK
<1> QED BY <1>4, <1>5

LEMMA ReceiveStaged ==
  ASSUME Bookkeeping, Calls, Conforming, NEW d \in Slot,
         \/ \E f \in Frames : Read(d, f)
         \/ \E r \in held[d] : Reply(d, r),
         NEW c \in Open, Staged(c)
  PROVE  Staged(c)'
<1>1. PICK m \in Method :
        /\ inbox' = [inbox EXCEPT ![d] = Append(@, m)]
        /\ owed' = IF m.op \in Unanswered THEN owed
                   ELSE [owed EXCEPT ![d] = @ \cup {m}]
        /\ \/ /\ Allowed(d, m) /\ UNCHANGED held
              /\ stage' = IF m.op = "create" /\ stage[d] = "new"
                          THEN [stage EXCEPT ![d] = "asked"] ELSE stage
           \/ \E r \in held[d] : /\ m.op = "result" /\ UNCHANGED stage
                                 /\ held' = [held EXCEPT ![d] = @ \ {r}]
        /\ UNCHANGED <<outbuf, methods, requests, results, events, eseq, ident, subs,
                       cmds, zlib>>
  BY Received
<1>2. c \in Slot  BY DEF Open
<1>3. Compressing(c)' = Compressing(c)  BY <1>1 DEF Compressing
<1>4. CASE c # d
  <2>1. inbox'[c] = inbox[c] /\ owed'[c] = owed[c] /\ held'[c] = held[c] /\ stage'[c] = stage[c]
    BY <1>1, <1>2, <1>4 DEF Bookkeeping, TypeOK
  <2>2. Arrived(c)' = Arrived(c)  BY <1>1, <2>1 DEF Arrived, MethodsOf
  <2> QED BY <1>1, <1>2, <1>3, <2>1, <2>2, KeptStaged DEF Unposted
<1>5. CASE c = d
  <2>1. owed'[c] \subseteq owed[c] \cup {m}
    BY <1>1, <1>2, <1>5 DEF Bookkeeping, TypeOK
  <2>2. CASE stage[c] = "new"
    <3>1. held[c] = {}  BY <2>2 DEF Staged, Uncalled
    <3>2. Allowed(c, m) /\ m.op = "create" /\ UNCHANGED held
      BY <1>1, <1>5, <2>2, <3>1 DEF Allowed
    <3>3. stage'[c] = "asked" /\ owed'[c] = {m}
      BY <1>1, <1>2, <1>5, <2>2, <3>2 DEF Unanswered, Staged, Bookkeeping, TypeOK
    <3>4. inbox[c] \in Seq(Method) /\ inbox'[c] = Append(inbox[c], m)
      BY <1>1, <1>2, <1>5 DEF Bookkeeping, TypeOK
    <3>5. Contents(inbox'[c]) = Contents(inbox[c]) \cup {m}  BY <3>4, AppendContents
    <3>6. Arrived(c)' = {m}
      BY <1>1, <2>2, <3>5 DEF Arrived, MethodsOf, Staged
    <3>7. Unknown(c)' /\ Uncalled(c)'
      BY <1>1, <1>3, <2>2, <3>2 DEF Staged, Unknown, Uncalled
    <3> QED BY <3>2, <3>3, <3>6, <3>7 DEF Staged, Creating
  <2>3. stage[c] # "asked"
    BY <1>1, <1>5 DEF Allowed, Staged, Uncalled
  <2>4. CASE stage[c] \in {"created", "refused"}
    <3>1. m.op # "create"  BY <1>1, <1>5, <2>4 DEF Allowed
    <3>2. stage'[c] = stage[c]  BY <1>1, <3>1
    <3> QED BY <1>1, <1>3, <2>1, <2>4, <3>1, <3>2 DEF Staged
  <2> QED BY <1>2, <2>2, <2>3, <2>4 DEF Bookkeeping, TypeOK
<1> QED BY <1>4, <1>5

LEMMA NextStages ==
  ASSUME Bookkeeping, Calls, FreeQueues, Stages, [Next]_vars
  PROVE  Stages'
<1> SUFFICES ASSUME Conforming, NEW c \in Slot, c \in Open' PROVE Staged(c)'
  BY DEF Stages, Open
<1>1. c \in Open => Staged(c)  BY DEF Stages
<1>2. ASSUME c \in Open,
             UNCHANGED <<stage, owed, held, cmds, ident, subs, zlib, outbuf, inbox, methods,
                         results, requests>>,
             Unposted(c) \/ ident[c] # None \/ subs[c] # {}
      PROVE  Staged(c)'
  <2>1. Arrived(c)' = Arrived(c) /\ Compressing(c)' = Compressing(c)
    BY <1>2 DEF Arrived, MethodsOf, Compressing
  <2> QED BY <1>1, <1>2, <2>1, KeptStaged
<1>3. CASE HandleMethod  BY <1>1, <1>3, HandlerOpen, HandlerStaged
<1>4. CASE Quiet
  <2>1. c \in Open  BY <1>4, QuietFrame
  <2>2. CASE UNCHANGED <<stage, owed, held, cmds, ident, subs, zlib, outbuf, inbox, methods,
                         results, requests, events, eseq>>
    BY <1>2, <2>1, <2>2 DEF Unposted
  <2> QED BY <1>1, <1>4, <2>1, <2>2, PrepareStaged, WriteStaged, QuietQueues
<1>5. ASSUME NEW d \in Slot, Accept(d) PROVE Staged(c)'
  <2>1. UNCHANGED <<stage, owed, held, cmds, ident, subs, zlib, outbuf, inbox, methods,
                    results, requests, events, eseq>>
    BY <1>5 DEF Accept, queues, peer
  <2>2. CASE c # d
    <3>1. c \in Open  BY <1>5, <2>2, AcceptFrame
    <3> QED BY <1>2, <2>1, <3>1 DEF Unposted
  <2>3. CASE c = d
    <3>1. c \notin Live  BY <1>5, <2>3, AcceptFrame
    <3>2. Vacant(c) /\ ident[c] = None /\ subs[c] = {} /\ inbox[c] = << >> /\ owed[c] = {}
      BY <3>1 DEF FreeQueues, Bookkeeping, FreeSlots, Calls, ClientCalls, Owing
    <3>3. MethodsOf(c) = {}
      BY <3>1 DEF MethodsOf, Contents, Bookkeeping, Drained
    <3>4. Arrived(c)' = {}  BY <2>1, <3>2, <3>3 DEF Arrived, Contents, MethodsOf
    <3>5. stage'[c] = "new" /\ Uncalled(c)' /\ Unknown(c)' /\ owed'[c] = {}
      BY <2>1, <3>2 DEF Vacant, Uncalled, Unknown, Compressing
    <3> QED BY <3>4, <3>5 DEF Staged
  <2> QED BY <2>2, <2>3
<1>6. ASSUME NEW d \in Slot, Parse(d) PROVE Staged(c)'
  <2>1. /\ inbox'[d] = << >> /\ \A k \in Slot \ {d} : inbox'[k] = inbox[k]
        /\ \A k \in Slot \ {d} : MethodsOf(k)' = MethodsOf(k)
        /\ d \in Open' => MethodsOf(d)' = MethodsOf(d) \cup Contents(inbox[d])
        /\ Open' \subseteq Open
        /\ UNCHANGED <<outbuf, requests, results, events, eseq, stage, owed, held, ident,
                       subs, cmds, zlib>>
    BY <1>6, Parsed DEF Calls, ClientCalls, Once, Apart
  <2>2. Arrived(c)' = Arrived(c)
    BY <2>1 DEF Arrived, Contents
  <2>3. c \in Open /\ Compressing(c)' = Compressing(c)  BY <2>1 DEF Compressing
  <2> QED BY <1>1, <2>1, <2>2, <2>3, KeptStaged DEF Unposted
<1>7. ASSUME NEW d \in Slot, Announce(d) PROVE Staged(c)'
  <2>1. c \in Open  BY <1>7, AnnounceFrame
  <2> QED BY <1>2, <1>7, <2>1, AnnounceEvents DEF Announce, peer
<1>8. ASSUME NEW d \in Slot, Cleanup(d) PROVE Staged(c)'
  <2>1. c \in Open /\ d \notin Open /\ c # d
    BY <1>8, CleanupFrame DEF Dead
  <2>2. /\ stage'[c] = stage[c] /\ owed'[c] = owed[c] /\ held'[c] = held[c]
        /\ cmds'[c] = cmds[c] /\ ident'[c] = ident[c] /\ subs'[c] = subs[c]
        /\ outbuf'[c] = outbuf[c] /\ inbox'[c] = inbox[c] /\ results'[c] = results[c]
        /\ requests'[c] = requests[c] /\ methods' = methods
    BY <1>8, <2>1 DEF Cleanup, Destroy, Bookkeeping, TypeOK
  <2>3. Compressing(c)' = Compressing(c)
    BY <1>8, <2>1 DEF Compressing, Cleanup, Destroy
  <2>4. Arrived(c)' = Arrived(c)  BY <2>2 DEF Arrived, MethodsOf
  <2>5. Unposted(c) \/ ident[c] # None \/ subs[c] # {}
    BY <1>8, <2>1, CleanupEvents
  <2> QED BY <1>1, <2>1, <2>2, <2>3, <2>4, <2>5, KeptStaged
<1>9. ASSUME NEW d \in Slot, NEW e \in Slot, FailWait(e, d) PROVE Staged(c)'
  <2>1. c \in Open  BY <1>9, FailWaitFrame
  <2>2. UNCHANGED <<stage, owed, held, cmds, ident, subs, zlib, outbuf, inbox, methods,
                    requests, events, eseq>>
    BY <1>9 DEF FailWait, registry, peer
  <2>3. Arrived(c)' = Arrived(c) /\ Compressing(c)' = Compressing(c)
    BY <2>2 DEF Arrived, MethodsOf, Compressing
  <2>4. waits[c] = {} => results'[c] = results[c]
    <3> SUFFICES ASSUME waits[c] = {} PROVE results'[c] = results[c]
      OBVIOUS
    <3>1. c # d  BY <1>9 DEF FailWait, Orphans
    <3> QED BY <1>9, <3>1 DEF FailWait, Bookkeeping, TypeOK
  <2>5. stage[c] \in {"new", "asked"} => results'[c] = results[c] /\ requests'[c] = requests[c]
    BY <1>1, <2>1, <2>2, <2>4, NoWaits
  <2> QED BY <1>1, <2>1, <2>2, <2>3, <2>5, KeptStaged DEF Unposted
<1>10. ASSUME NEW d \in Slot,
              (\E f \in Frames : Read(d, f)) \/ (\E r \in held[d] : Reply(d, r))
       PROVE  Staged(c)'
  <2>1. c \in Open  BY <1>10, ReceiveFrame
  <2> QED BY <1>1, <1>10, <2>1, ReceiveStaged
<1>11. CASE UNCHANGED vars
  BY <1>2, <1>11 DEF vars, registry, queues, peer, Open, Unposted
<1> QED BY <1>3, <1>4, <1>5, <1>6, <1>7, <1>8, <1>9, <1>10, <1>11, NextCases

LEMMA StagesDecodable ==
  ASSUME Bookkeeping, Calls, Stages
  PROVE  Decodable
<1> SUFFICES ASSUME Conforming, NEW c \in Open, NEW i \in DOMAIN outbuf[c]
             PROVE  outbuf[c][i].zlib =
               (c \in zlib /\ (stage[c] = "created" \/ \E j \in 1 .. i - 1 :
                  outbuf[c][j].kind = "result" /\ outbuf[c][j].body.to.op = "create"))
  BY DEF Decodable
<1>1. c \in Slot /\ Staged(c)  BY DEF Stages, Open
<1>2. outbuf[c] \in Seq(Out) /\ i \in 1 .. Len(outbuf[c])
  BY <1>1 DEF Bookkeeping, TypeOK
<1>3. stage[c] # "new"  BY <1>1, <1>2 DEF Staged, Unknown
<1>4. CASE stage[c] = "asked"
  <2>1. PICK m \in owed[c] : Creating(c, m)  BY <1>1, <1>4 DEF Staged
  <2>2. outbuf[c] # << >>  BY <1>2
  <2>3. PICK a \in AnswersFor(c) : Admitted(c, a)  BY <2>1, <2>2 DEF Creating, Unknown
  <2>4. /\ outbuf[c][1].kind = "result" /\ outbuf[c][1].body.to.op = "create"
        /\ outbuf[c][1].zlib = FALSE /\ Flagged(outbuf[c], Compressing(c), 2)
    BY <2>2, <2>3 DEF Admitted
  <2>5. CASE i = 1
    <3>1. ~\E j \in 1 .. i - 1 : TRUE  BY <2>5
    <3> QED BY <1>4, <2>4, <2>5, <3>1
  <2>6. CASE i # 1
    <3>1. 1 \in 1 .. i - 1 /\ i >= 2  BY <1>2, <2>6
    <3>2. outbuf[c][i].zlib = Compressing(c)  BY <1>2, <2>4, <3>1 DEF Flagged
    <3> QED BY <2>4, <3>1, <3>2 DEF Compressing
  <2> QED BY <2>5, <2>6
<1>5. CASE stage[c] \in {"created", "refused"}
  <2>1. outbuf[c][i].zlib = Compressing(c)  BY <1>1, <1>2, <1>5 DEF Staged, Flagged
  <2>2. stage[c] = "refused" => ~Compressing(c)  BY <1>1 DEF Staged
  <2> QED BY <1>5, <2>1, <2>2 DEF Compressing
<1> QED BY <1>1, <1>3, <1>4, <1>5 DEF Bookkeeping, TypeOK

\* A peer that keeps the rules of the client library can read every frame: it
\* is compressed exactly if the peer was told, or will have been told by the
\* frames ahead of it, and nothing overtakes the answer to its create.
THEOREM FramesAreDecodable == Spec => []Decodable
<1> DEFINE IInv == Bookkeeping /\ Calls /\ FreeQueues /\ Stages
<1>1. Init => FreeQueues /\ Stages
  BY DEF Init, FreeQueues, Vacant, Stages, Open
<1>2. IInv /\ [Next]_vars => Bookkeeping' /\ Calls'
  BY NextCalls, NextType, UniqueIdentifiersStep, DrainedStep, FreeSlotsStep, OwnFramesStep,
     WaitsNamedStep, AnnouncementsStep, RostersStep DEF Bookkeeping
<1>3. IInv /\ [Next]_vars => IInv'
  BY <1>2, NextFreeQueues, NextStages
<1>4. IInv => Decodable  BY StagesDecodable
<1> QED BY <1>1, <1>3, <1>4, InitBookkeeping, InitCalls, PTL DEF Spec

=============================================================================
