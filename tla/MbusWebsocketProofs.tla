------------------------- MODULE MbusWebsocketProofs -------------------------
(***************************************************************************)
(* Websocket sessions of the broker, for any number of them: no client     *)
(* points to a connection that lws freed, the poll table has the sessions  *)
(* that are on, and a session the broker closed has been asked to write.   *)
(***************************************************************************)
EXTENDS MbusWebsocket, SequenceTheorems, WellFoundedInduction, TLAPS

-----------------------------------------------------------------------------
(* The poll table. *)

Entry == [fd : Fds, out : BOOLEAN]
Descriptors(table) == {table[i].fd : i \in DOMAIN table}
Single(table) == \A i, j \in DOMAIN table : table[i].fd = table[j].fd => i = j
Asked(table, f) == \E i \in DOMAIN table : table[i].fd = f /\ table[i].out

LEMMA LeastExists ==
  ASSUME NEW S \in SUBSET Nat, S # {}
  PROVE  Min(S) \in S /\ \A n \in S : Min(S) <= n
<1> DEFINE less == {ss \in Nat \X Nat : ss[1] < ss[2]}
<1>1. IsWellFoundedOn(less, Nat)
  BY NatLessThanWellFounded DEF OpToRel
<1> HIDE DEF less
<1>2. PICK m \in S : \A n \in S : ~ (<<n, m>> \in less)
  BY <1>1, WFMin
<1>3. \A n \in S : m <= n
  <2>1. ASSUME NEW n \in S PROVE m <= n
    <3>1. m \in Nat /\ n \in Nat  OBVIOUS
    <3>2. n < m => <<n, m>> \in less  BY <3>1 DEF less
    <3> QED BY <1>2, <2>1, <3>1, <3>2
  <2> QED BY <2>1
<1> QED BY <1>3 DEF Min

\* The first entry of f, or 0.
LEMMA IndexOf ==
  ASSUME NEW table \in Seq(Entry), NEW f
  PROVE  \/ /\ Index(table, f) \in DOMAIN table
            /\ table[Index(table, f)].fd = f
         \/ Index(table, f) = 0 /\ f \notin Descriptors(table)
<1> DEFINE I == {i \in 1 .. Len(table) : table[i].fd = f}
<1>1. Index(table, f) = IF I # {} THEN Min(I) ELSE 0
  BY DEF Index, SelectInSeq
<1>2. CASE I = {}
  BY <1>1, <1>2 DEF Descriptors
<1>3. CASE I # {}
  <2>1. Min(I) \in I
    <3>1. I \in SUBSET Nat  OBVIOUS
    <3> HIDE DEF I
    <3> QED BY <1>3, <3>1, LeastExists
  <2> QED BY <1>1, <1>3, <2>1
<1> QED BY <1>2, <1>3

\* Setting the events of f changes no descriptor, and the events of f only.
LEMMA ModTable ==
  ASSUME NEW table \in Seq(Entry), NEW f, NEW v \in BOOLEAN
  PROVE  LET t == PollMod(table, f, v) IN
         /\ t \in Seq(Entry) /\ DOMAIN t = DOMAIN table
         /\ \A i \in DOMAIN table : t[i].fd = table[i].fd
         /\ \A g : g # f => (Asked(t, g) <=> Asked(table, g))
         /\ v /\ f \in Descriptors(table) => Asked(t, f)
<1> DEFINE i == Index(table, f)
           t == PollMod(table, f, v)
<1>1. CASE i = 0 /\ f \notin Descriptors(table)
  BY <1>1 DEF PollMod
<1>2. CASE i \in DOMAIN table /\ table[i].fd = f
  <2>1. i # 0  BY <1>2
  <2>2. t = [table EXCEPT ![i].out = v]  BY <2>1 DEF PollMod
  <2> HIDE DEF i, t
  <2>3. table[i] \in Entry /\ \A k \in DOMAIN table : table[k] \in Entry  BY <1>2
  <2>4. /\ t \in Seq(Entry) /\ DOMAIN t = DOMAIN table
        /\ t[i] = [table[i] EXCEPT !.out = v]
        /\ \A k \in DOMAIN table \ {i} : t[k] = table[k]
    <3>1. [table[i] EXCEPT !.out = v] \in Entry  BY <2>3 DEF Entry
    <3> QED BY <1>2, <2>2, <3>1
  <2>5. t[i].fd = f /\ t[i].out = v  BY <1>2, <2>3, <2>4 DEF Entry
  <2>6. \A k \in DOMAIN table : t[k].fd = table[k].fd  BY <1>2, <2>4, <2>5
  <2>7. ASSUME NEW g, g # f PROVE Asked(t, g) <=> Asked(table, g)
    BY <1>2, <2>4, <2>5, <2>7 DEF Asked
  <2>8. v => Asked(t, f)  BY <1>2, <2>4, <2>5 DEF Asked
  <2> QED BY <2>4, <2>6, <2>7, <2>8 DEF t
<1> QED BY <1>1, <1>2, IndexOf

LEMMA SameDescriptors ==
  ASSUME NEW table, NEW t, DOMAIN t = DOMAIN table,
         \A i \in DOMAIN table : t[i].fd = table[i].fd
  PROVE  Descriptors(t) = Descriptors(table) /\ (Single(table) => Single(t))
BY DEF Descriptors, Single

\* A new descriptor gets an entry of its own.
LEMMA AddTable ==
  ASSUME NEW table \in Seq(Entry), NEW f \in Fds, f \notin Descriptors(table),
         Single(table)
  PROVE  LET t == PollAdd(table, f) IN
         /\ t \in Seq(Entry) /\ Descriptors(t) = Descriptors(table) \cup {f}
         /\ Single(t)
         /\ \A g : g # f => (Asked(t, g) <=> Asked(table, g))
<1> DEFINE e == [fd |-> f, out |-> FALSE]
           t == Append(table, e)
           n == Len(table)
<1>1. Index(table, f) = 0
  BY IndexOf DEF Descriptors
<1>2. PollAdd(table, f) = t  BY <1>1 DEF PollAdd
<1>3. e \in Entry /\ e.fd = f /\ e.out = FALSE  BY DEF Entry
<1> HIDE DEF e
<1>4. /\ t \in Seq(Entry) /\ Len(t) = n + 1 /\ n \in Nat /\ t[n + 1] = e
      /\ \A i \in 1 .. n : t[i] = table[i]
      /\ DOMAIN table = 1 .. n
  BY <1>3, AppendProperties
<1>5. DOMAIN t = 1 .. n + 1  BY <1>4
<1> HIDE DEF t, n
<1>6. \A i \in DOMAIN t : (i \in DOMAIN table /\ t[i] = table[i]) \/ (i = n + 1 /\ t[i] = e)
  <2> TAKE i \in DOMAIN t
  <2>1. i \in 1 .. n \/ i = n + 1  BY <1>4, <1>5
  <2> QED BY <1>4, <2>1
<1>7. n + 1 \in DOMAIN t /\ \A i \in DOMAIN table : i \in DOMAIN t /\ t[i] = table[i]
  BY <1>4, <1>5
<1>8. Descriptors(t) = Descriptors(table) \cup {f}
  BY <1>3, <1>4, <1>6, <1>7 DEF Descriptors
<1>9. Single(t)
  BY <1>3, <1>6 DEF Single, Descriptors
<1>10. ASSUME NEW g, g # f PROVE Asked(t, g) <=> Asked(table, g)
  BY <1>3, <1>6, <1>7, <1>10 DEF Asked
<1> QED BY <1>2, <1>4, <1>8, <1>9, <1>10

\* The entry of f goes, and those after it move up.
LEMMA DelTable ==
  ASSUME NEW table \in Seq(Entry), NEW f, Single(table)
  PROVE  LET t == PollDel(table, f) IN
         /\ t \in Seq(Entry) /\ Descriptors(t) = Descriptors(table) \ {f}
         /\ Single(t)
         /\ \A g : g # f => (Asked(t, g) <=> Asked(table, g))
<1> DEFINE k == Index(table, f)
           t == RemoveAt(table, k)
           n == Len(table)
<1>1. CASE k = 0 /\ f \notin Descriptors(table)
  BY <1>1 DEF PollDel
<1>2. CASE k \in DOMAIN table /\ table[k].fd = f
  <2>1. PollDel(table, f) = t
    BY <1>2 DEF PollDel
  <2>2. n \in Nat /\ k \in 1 .. n /\ DOMAIN table = 1 .. n  BY <1>2
  <2> DEFINE a == SubSeq(table, 1, k - 1)
             b == SubSeq(table, k + 1, n)
  <2>3. t = a \o b  BY DEF RemoveAt
  <2> HIDE DEF k, n, t
  <2>4. /\ a \in Seq(Entry) /\ Len(a) = k - 1 /\ \A i \in 1 .. k - 1 : a[i] = table[i]
    <3>1. \A i \in 1 .. k - 1 : table[i] \in Entry  BY <2>2
    <3> QED BY <2>2, <3>1, SubSeqProperties
  <2>5. b \in Seq(Entry) /\ Len(b) = n - k /\ \A i \in 1 .. n - k : b[i] = table[k + i]
    <3>1. \A i \in k + 1 .. n : table[i] \in Entry  BY <2>2
    <3> QED BY <2>2, <3>1, SubSeqProperties
  <2> HIDE DEF a, b
  <2>6. /\ t \in Seq(Entry) /\ Len(t) = n - 1
        /\ \A i \in 1 .. n - 1 : t[i] = IF i < k THEN table[i] ELSE table[i + 1]
    <3>1. /\ t \in Seq(Entry) /\ Len(t) = Len(a) + Len(b)
          /\ \A i \in 1 .. Len(a) + Len(b) : t[i] = IF i <= Len(a) THEN a[i] ELSE b[i - Len(a)]
      BY <2>3, <2>4, <2>5, ConcatProperties
    <3>2. ASSUME NEW i \in 1 .. n - 1
          PROVE  t[i] = IF i < k THEN table[i] ELSE table[i + 1]
      <4>1. CASE i < k  BY SMTT(30), <2>2, <2>4, <2>5, <3>1, <4>1
      <4>2. CASE i >= k
        <5>1. i - (k - 1) \in 1 .. n - k /\ k + (i - (k - 1)) = i + 1  BY <2>2, <4>2
        <5>2. b[i - (k - 1)] = table[i + 1]  BY <2>5, <5>1
        <5>3. t[i] = b[i - (k - 1)]  BY <2>2, <2>4, <2>5, <3>1, <4>2
        <5> QED BY <2>2, <4>2, <5>2, <5>3
      <4> QED BY <2>2, <4>1, <4>2
    <3> QED BY <2>2, <2>4, <2>5, <3>1, <3>2
  <2>7. \A i \in DOMAIN t : \E j \in DOMAIN table \ {k} :
          t[i] = table[j] /\ j = (IF i < k THEN i ELSE i + 1)
    BY <2>2, <2>6
  <2>8. \A j \in DOMAIN table \ {k} : \E i \in DOMAIN t : t[i] = table[j]
    <3> TAKE j \in DOMAIN table \ {k}
    <3>1. CASE j < k
      <4>1. j \in DOMAIN t /\ t[j] = table[j]  BY <2>2, <2>6, <3>1
      <4> QED BY <4>1
    <3>2. CASE j > k
      <4>1. j - 1 \in DOMAIN t /\ t[j - 1] = table[j]  BY <2>2, <2>6, <3>2
      <4> QED BY <4>1
    <3> QED BY <2>2, <3>1, <3>2
  <2>9. \A j \in DOMAIN table : table[j].fd = f <=> j = k
    BY <1>2, <2>2 DEF Single
  <2>10. Descriptors(t) = Descriptors(table) \ {f}
    BY <2>7, <2>8, <2>9 DEF Descriptors
  <2>11. Single(t)
    <3> SUFFICES ASSUME NEW i \in DOMAIN t, NEW j \in DOMAIN t, t[i].fd = t[j].fd
                 PROVE  i = j
      BY DEF Single
    <3>1. (IF i < k THEN i ELSE i + 1) = (IF j < k THEN j ELSE j + 1)
      BY <2>7 DEF Single
    <3> QED BY <2>2, <2>6, <3>1
  <2>12. ASSUME NEW g, g # f PROVE Asked(t, g) <=> Asked(table, g)
    BY <2>7, <2>8, <2>9, <2>12 DEF Asked
  <2> QED BY <2>1, <2>6, <2>10, <2>11, <2>12
<1> QED BY <1>1, <1>2, IndexOf
-----------------------------------------------------------------------------
(* Sessions and their connections.                                         *)

Running == {s \in Sessions : wsi[s] \in {"open", "closing"}}

\* The variables of the sessions: TypeOK but for the frames.
SessionType ==
  /\ wsi \in [Sessions -> {"none", "open", "closing", "gone"}]
  /\ handle \in [Sessions -> BOOLEAN] /\ fd \in [Sessions -> Fds \cup {0}]
  /\ pollfds \in Seq(Entry)
  /\ conn \in [Sessions -> {"none", "linked", "null", "removed"}]
  /\ peer \in [Sessions -> {"away", "open", "left"}]
  /\ phase \in {"out", "service", "parse", "handle", "destroy", "ended"}

\* The sessions that are on have a descriptor, each its own, and no other has any.
Sockets ==
  /\ \A s \in Sessions : fd[s] # 0 <=> s \in Running
  /\ \A s, t \in Sessions : fd[s] = fd[t] /\ fd[s] # 0 => s = t

\* The poll table is that of the sessions that are on.
Table == Single(pollfds) /\ Descriptors(pollfds) = {fd[s] : s \in Running}

\* The inductive invariant of the sessions.
Control == SessionType /\ NoDanglingConnection /\ EvictedIsAsked /\ Sockets /\ Table

LEMMA RequestedIsAsked == \A s : Requested(s) <=> Asked(pollfds, fd[s])
BY DEF Requested, Asked

\* A step in which no session starts or ends, and that leaves the requests of the
\* sessions but s alone.
LEMMA StepControl ==
  ASSUME Control, SessionType', NEW s \in Sessions, fd' = fd, Running' = Running,
         NoDanglingConnection',
         \A t \in Sessions \ {s} : wsi'[t] = wsi[t] /\ handle'[t] = handle[t],
         Single(pollfds'), Descriptors(pollfds') = Descriptors(pollfds),
         \A t \in Running \ {s} : Asked(pollfds, fd[t]) => Asked(pollfds', fd[t]),
         wsi'[s] = "open" /\ ~handle'[s] => Asked(pollfds', fd[s])
  PROVE  Control'
<1>1. Sockets' /\ Table'
  BY DEF Control, Sockets, Table
<1>2. EvictedIsAsked'
  <2> SUFFICES ASSUME NEW t \in Sessions, wsi'[t] = "open", ~handle'[t]
               PROVE  Asked(pollfds', fd[t])
    BY DEF EvictedIsAsked, Requested, Asked
  <2>1. CASE t = s  BY <2>1
  <2>2. CASE t # s
    <3>1. wsi[t] = "open" /\ ~handle[t] /\ t \in Running  BY <2>2 DEF Running
    <3>2. Asked(pollfds, fd[t])  BY <3>1, RequestedIsAsked DEF Control, EvictedIsAsked
    <3> QED BY <2>2, <3>1, <3>2
  <2> QED BY <2>1, <2>2
<1> QED BY <1>1, <1>2 DEF Control

LEMMA IdleControl ==
  ASSUME Control, UNCHANGED sessionVars,
         peer' \in [Sessions -> {"away", "open", "left"}],
         phase' \in {"out", "service", "parse", "handle", "destroy", "ended"}
  PROVE  Control'
BY DEF Control, SessionType, NoDanglingConnection, EvictedIsAsked, Requested,
       Sockets, Table, Running, sessionVars

\* The events of a session that is on are set.
LEMMA ModControl ==
  ASSUME Control, SessionType', NEW s \in Running, NEW v \in BOOLEAN, fd' = fd,
         pollfds' = PollMod(pollfds, fd[s], v),
         \A t \in Sessions \ {s} : /\ wsi'[t] = wsi[t] /\ handle'[t] = handle[t]
                                   /\ conn'[t] = conn[t],
         s \in Running', conn'[s] = "linked" <=> handle'[s],
         wsi'[s] = "open" /\ ~handle'[s] => v
  PROVE  Control'
<1>1. s \in Sessions /\ fd[s] # 0  BY DEF Running, Control, Sockets
<1>2. pollfds \in Seq(Entry) /\ Single(pollfds)  BY DEF Control, SessionType, Table
<1>3. /\ DOMAIN pollfds' = DOMAIN pollfds
      /\ \A i \in DOMAIN pollfds : pollfds'[i].fd = pollfds[i].fd
      /\ \A g : g # fd[s] => (Asked(pollfds', g) <=> Asked(pollfds, g))
      /\ v /\ fd[s] \in Descriptors(pollfds) => Asked(pollfds', fd[s])
  BY <1>2, ModTable
<1>4. Single(pollfds') /\ Descriptors(pollfds') = Descriptors(pollfds)
  BY <1>2, <1>3, SameDescriptors
<1>5. fd[s] \in Descriptors(pollfds)  BY DEF Control, Table
<1>6. Running' = Running  BY <1>1 DEF Running
<1>7. NoDanglingConnection'
  BY <1>1 DEF Control, NoDanglingConnection, Running
<1>8. \A t \in Running \ {s} : fd[t] # fd[s]
  BY <1>1 DEF Control, Sockets, Running
<1>9. \A t \in Running \ {s} : Asked(pollfds, fd[t]) => Asked(pollfds', fd[t])
  BY <1>3, <1>8
<1>10. wsi'[s] = "open" /\ ~handle'[s] => Asked(pollfds', fd[s])
  BY <1>3, <1>5
<1> QED BY <1>1, <1>4, <1>6, <1>7, <1>9, <1>10, StepControl

-----------------------------------------------------------------------------
(* The actions.                                                            *)

LEMMA InitControl == Init => Control
<1> SUFFICES ASSUME Init PROVE Control
  OBVIOUS
<1> USE DEF Init
<1>1. SessionType
  <2>1. pollfds \in Seq(Entry)  OBVIOUS
  <2> QED BY <2>1 DEF SessionType
<1>2. NoDanglingConnection /\ EvictedIsAsked
  BY DEF NoDanglingConnection, EvictedIsAsked
<1>3. Sockets /\ Running = {}
  BY DEF Sockets, Running
<1>4. Table
  BY <1>3 DEF Table, Single, Descriptors
<1> QED BY <1>1, <1>2, <1>3, <1>4 DEF Control

LEMMA EstablishedControl ==
  ASSUME Control, NEW s \in Sessions, Established(s)
  PROVE  Control'
<1>1. PICK f \in Fds : /\ f \notin Range(fd)
                       /\ fd' = [fd EXCEPT ![s] = f]
                       /\ pollfds' = PollMod(PollAdd(pollfds, f), f, TRUE)
  BY DEF Established
<1>2. /\ wsi[s] = "none" /\ wsi' = [wsi EXCEPT ![s] = "open"]
      /\ handle' = [handle EXCEPT ![s] = TRUE] /\ conn' = [conn EXCEPT ![s] = "linked"]
      /\ peer' = peer /\ phase' = phase
  BY DEF Established
<1>3. \A t \in Sessions : fd[t] # f
  BY <1>1 DEF Control, SessionType, Range
<1>4. f # 0
  BY WebsocketAssumption DEF WebsocketAssumption
<1>5. pollfds \in Seq(Entry) /\ f \notin Descriptors(pollfds) /\ Single(pollfds)
  BY <1>3 DEF Control, Table, Running, SessionType
<1> DEFINE added == PollAdd(pollfds, f)
<1>6. /\ added \in Seq(Entry) /\ Descriptors(added) = Descriptors(pollfds) \cup {f}
      /\ Single(added) /\ \A g : g # f => (Asked(added, g) <=> Asked(pollfds, g))
  BY <1>5, AddTable
<1>7. pollfds' = PollMod(added, f, TRUE)  BY <1>1
<1> HIDE DEF added
<1>8. /\ pollfds' \in Seq(Entry) /\ DOMAIN pollfds' = DOMAIN added
      /\ \A i \in DOMAIN added : pollfds'[i].fd = added[i].fd
      /\ \A g : g # f => (Asked(pollfds', g) <=> Asked(added, g))
  BY <1>6, <1>7, ModTable
<1>9. Single(pollfds') /\ Descriptors(pollfds') = Descriptors(pollfds) \cup {f}
  BY <1>6, <1>8, SameDescriptors
<1>10. \A t \in Sessions : /\ wsi'[t] = IF t = s THEN "open" ELSE wsi[t]
                           /\ handle'[t] = IF t = s THEN TRUE ELSE handle[t]
                           /\ conn'[t] = IF t = s THEN "linked" ELSE conn[t]
                           /\ fd'[t] = IF t = s THEN f ELSE fd[t]
  BY <1>1, <1>2 DEF Control, SessionType
<1>11. SessionType'
  BY <1>1, <1>2, <1>8 DEF Control, SessionType
<1>12. Running' = Running \cup {s} /\ s \notin Running
  BY <1>2, <1>10 DEF Running
<1>13. NoDanglingConnection'
  BY <1>10 DEF Control, NoDanglingConnection
<1>14. EvictedIsAsked'
  <2> SUFFICES ASSUME NEW t \in Sessions, wsi'[t] = "open", ~handle'[t]
               PROVE  Asked(pollfds', fd'[t])
    BY DEF EvictedIsAsked, Requested, Asked
  <2>1. t # s /\ wsi[t] = "open" /\ ~handle[t] /\ fd'[t] = fd[t]  BY <1>10
  <2>2. Asked(pollfds, fd[t])  BY <2>1, RequestedIsAsked DEF Control, EvictedIsAsked
  <2> QED BY <1>3, <1>6, <1>8, <2>1, <2>2
<1>15. Sockets'
  BY ZenonT(30), <1>3, <1>4, <1>10, <1>12 DEF Control, Sockets
<1>16. Table'
  <2>1. fd'[s] = f /\ \A t \in Running : fd'[t] = fd[t]
    BY <1>10, <1>12 DEF Running
  <2> HIDE DEF Running
  <2>2. {fd'[t] : t \in Running'} = {fd[t] : t \in Running} \cup {f}
    BY <1>12, <2>1
  <2> QED BY <1>9, <2>2 DEF Control, Table
<1> QED BY <1>11, <1>13, <1>14, <1>15, <1>16 DEF Control

\* A message, and the end of the other side, leave the poll table alone.
LEMMA RefuseControl ==
  ASSUME Control, NEW s \in Sessions, wsi[s] = "open", Refuse(s) \/ UNCHANGED wsi,
         UNCHANGED <<handle, fd, pollfds, conn, peer, phase>>
  PROVE  Control'
<1>1. \A t \in Sessions : wsi'[t] = wsi[t] \/ (t = s /\ wsi'[t] = "closing")
  BY DEF Refuse, Control, SessionType
<1>2. SessionType'
  BY DEF Refuse, Control, SessionType
<1>3. Running' = Running  BY <1>1 DEF Running
<1>4. NoDanglingConnection'
  BY <1>1 DEF Control, NoDanglingConnection
<1>5. \A t \in Sessions : Asked(pollfds', fd[t]) <=> Asked(pollfds, fd[t])
  BY DEF Asked
<1>6. Single(pollfds') /\ Descriptors(pollfds') = Descriptors(pollfds)
  BY DEF Control, Table, Single, Descriptors
<1>7. wsi'[s] = "open" /\ ~handle'[s] => Asked(pollfds', fd[s])
  BY <1>5, RequestedIsAsked DEF Control, EvictedIsAsked
<1>8. \A t \in Sessions \ {s} : wsi'[t] = wsi[t] /\ handle'[t] = handle[t]  BY <1>1
<1>9. \A t \in Running \ {s} : Asked(pollfds, fd[t]) => Asked(pollfds', fd[t])
  BY <1>5 DEF Running
<1> QED BY <1>2, <1>3, <1>4, <1>6, <1>7, <1>8, <1>9, StepControl

LEMMA WriteableControl ==
  ASSUME Control, NEW s \in Sessions, Writeable(s)
  PROVE  Control'
<1> DEFINE v == out'[s] # <<>> /\ handle[s]
<1>1. /\ wsi[s] = "open" /\ pollfds' = PollMod(pollfds, fd[s], v)
      /\ UNCHANGED <<handle, fd, conn, peer, phase>>
  BY DEF Writeable, Serving
<1>2. v \in BOOLEAN  OBVIOUS
<1> HIDE DEF v
<1>3. (wsi' = wsi /\ handle[s]) \/ wsi' = [wsi EXCEPT ![s] = "closing"]
  BY DEF Writeable, SendPart, Refuse
<1>4. \A t \in Sessions : wsi'[t] = wsi[t] \/ (t = s /\ wsi'[t] = "closing")
  BY <1>3 DEF Control, SessionType
<1>5. s \in Running /\ s \in Running'  BY <1>1, <1>4 DEF Running
<1>6. wsi'[s] = "open" /\ ~handle'[s] => v
  BY <1>1, <1>3 DEF Control, SessionType
<1>7. SessionType'
  <2>1. pollfds' \in Seq(Entry)  BY <1>1, <1>2, ModTable DEF Control, SessionType
  <2> QED BY <1>1, <1>3, <2>1 DEF Control, SessionType
<1>8. conn'[s] = "linked" <=> handle'[s]
  BY <1>1 DEF Control, NoDanglingConnection
<1> QED BY <1>1, <1>2, <1>4, <1>5, <1>6, <1>7, <1>8, ModControl

LEMMA DismissControl ==
  ASSUME Control, NEW s \in Sessions, Dismiss(s)
  PROVE  Control'
<1>1. /\ conn[s] = "linked" /\ conn' = [conn EXCEPT ![s] = "null"]
      /\ handle' = [handle EXCEPT ![s] = FALSE]
      /\ pollfds' = PollMod(pollfds, fd[s], TRUE)
      /\ UNCHANGED <<wsi, fd, peer, phase>>
  BY DEF Dismiss, Close, OnWritable
<1>2. s \in Running /\ s \in Running'
  BY <1>1 DEF Control, NoDanglingConnection, Running
<1>3. SessionType'
  <2>1. pollfds' \in Seq(Entry)  BY <1>1, ModTable DEF Control, SessionType
  <2> QED BY <1>1, <2>1 DEF Control, SessionType
<1>4. /\ conn'[s] = "null" /\ ~handle'[s]
      /\ \A t \in Sessions \ {s} : /\ wsi'[t] = wsi[t] /\ handle'[t] = handle[t]
                                   /\ conn'[t] = conn[t]
  BY <1>1 DEF Control, SessionType
<1> QED BY <1>1, <1>2, <1>3, <1>4, ModControl

LEMMA ClosedControl ==
  ASSUME Control, NEW s \in Sessions, Closed(s)
  PROVE  Control'
<1>1. /\ conn' = [conn EXCEPT ![s] = IF handle[s] THEN "null" ELSE @]
      /\ wsi' = [wsi EXCEPT ![s] = "gone"] /\ handle' = [handle EXCEPT ![s] = FALSE]
      /\ fd' = [fd EXCEPT ![s] = 0] /\ pollfds' = PollDel(pollfds, fd[s])
      /\ UNCHANGED <<peer, phase>>
  BY DEF Closed
<1>2. s \in Running  BY DEF Closed, Running
<1>3. \A t \in Sessions : /\ wsi'[t] = IF t = s THEN "gone" ELSE wsi[t]
                          /\ handle'[t] = IF t = s THEN FALSE ELSE handle[t]
                          /\ fd'[t] = IF t = s THEN 0 ELSE fd[t]
                          /\ t # s => conn'[t] = conn[t]
  BY <1>1 DEF Control, SessionType
<1>4. conn'[s] # "linked"
  BY <1>1, <1>2 DEF Control, SessionType, NoDanglingConnection, Running
<1>5. /\ pollfds' \in Seq(Entry) /\ Descriptors(pollfds') = Descriptors(pollfds) \ {fd[s]}
      /\ Single(pollfds')
      /\ \A g : g # fd[s] => (Asked(pollfds', g) <=> Asked(pollfds, g))
  BY <1>1, DelTable DEF Control, SessionType, Table
<1>6. SessionType'
  BY <1>1, <1>5 DEF Control, SessionType
<1>7. Running' = Running \ {s}  BY <1>3 DEF Running
<1>8. \A t \in Running \ {s} : fd[t] # fd[s]
  BY DEF Control, Sockets, Running
<1>9. NoDanglingConnection'
  BY <1>3, <1>4 DEF Control, NoDanglingConnection
<1>10. EvictedIsAsked'
  <2> SUFFICES ASSUME NEW t \in Sessions, wsi'[t] = "open", ~handle'[t]
               PROVE  Asked(pollfds', fd'[t])
    BY DEF EvictedIsAsked, Requested, Asked
  <2>1. t # s /\ wsi[t] = "open" /\ ~handle[t] /\ fd'[t] = fd[t]  BY <1>3
  <2>2. Asked(pollfds, fd[t])  BY <2>1, RequestedIsAsked DEF Control, EvictedIsAsked
  <2> QED BY <1>5, <1>8, <2>1, <2>2 DEF Running
<1>11. Sockets'
  <2>1. \A t \in Sessions : fd'[t] # 0 <=> t \in Running'
    BY <1>3, <1>7 DEF Control, Sockets
  <2>2. \A t, u \in Sessions : fd'[t] = fd'[u] /\ fd'[t] # 0 => t = u
    BY <1>3 DEF Control, Sockets
  <2> QED BY <2>1, <2>2 DEF Sockets
<1>12. Table'
  <2>1. \A t \in Running' : t \in Running \ {s} /\ fd'[t] = fd[t]
    BY <1>3, <1>7 DEF Running
  <2>2. {fd'[t] : t \in Running'} = {fd[t] : t \in Running} \ {fd[s]}
    BY <1>7, <1>8, <2>1
  <2> QED BY <1>5, <2>2 DEF Control, Table
<1> QED BY <1>6, <1>9, <1>10, <1>11, <1>12 DEF Control

\* The pass asks for more, and takes no request back.
LEMMA PrepareControl ==
  ASSUME Control, PrepareOut
  PROVE  Control'
<1> DEFINE more(i) == \E s \in Linked : fd[s] = pollfds[i].fd /\ out'[s] # <<>>
<1>1. /\ pollfds' = [i \in DOMAIN pollfds |-> [pollfds[i] EXCEPT !.out = @ \/ more(i)]]
      /\ phase' = "service" /\ UNCHANGED <<wsi, handle, fd, conn, peer>>
  BY DEF PrepareOut
<1>2. PICK m \in [DOMAIN pollfds -> BOOLEAN] : \A i \in DOMAIN pollfds : m[i] <=> more(i)
  <2>1. [i \in DOMAIN pollfds |-> IF more(i) THEN TRUE ELSE FALSE]
          \in [DOMAIN pollfds -> BOOLEAN]
    OBVIOUS
  <2> QED BY <2>1
<1> HIDE DEF more
<1>3. pollfds \in Seq(Entry) /\ Single(pollfds)  BY DEF Control, SessionType, Table
<1>4. DOMAIN pollfds' = DOMAIN pollfds  BY <1>1
<1>5. \A i \in DOMAIN pollfds : /\ pollfds'[i] \in Entry
                                /\ pollfds'[i].fd = pollfds[i].fd
                                /\ pollfds[i].out => pollfds'[i].out
  <2> TAKE i \in DOMAIN pollfds
  <2>1. pollfds[i] \in Entry  BY <1>3
  <2>2. PICK b \in BOOLEAN : b <=> pollfds[i].out \/ more(i)
    BY <1>2, <2>1 DEF Entry
  <2>3. pollfds'[i] = [pollfds[i] EXCEPT !.out = pollfds[i].out \/ more(i)]
    BY <1>1
  <2>4. (pollfds[i].out \/ more(i)) = b  BY <2>2, <2>1, Zenon DEF Entry
  <2> QED BY <2>1, <2>2, <2>3, <2>4 DEF Entry
<1>6. pollfds' \in Seq(Entry)
  <2>1. DOMAIN pollfds' = 1 .. Len(pollfds) /\ Len(pollfds) \in Nat  BY <1>3, <1>4
  <2>2. pollfds' \in [1 .. Len(pollfds) -> Entry]  BY <1>1, <1>5, <2>1
  <2> QED BY <2>1, <2>2, SeqDef
<1>7. Single(pollfds') /\ Descriptors(pollfds') = Descriptors(pollfds)
  BY <1>3, <1>4, <1>5, SameDescriptors
<1>8. \A g : Asked(pollfds, g) => Asked(pollfds', g)
  BY <1>4, <1>5 DEF Asked
<1>9. Running' = Running /\ Sockets' /\ NoDanglingConnection'
  BY <1>1 DEF Running, Control, Sockets, NoDanglingConnection
<1>10. EvictedIsAsked'
  <2> SUFFICES ASSUME NEW t \in Sessions, wsi'[t] = "open", ~handle'[t]
               PROVE  Asked(pollfds', fd'[t])
    BY DEF EvictedIsAsked, Requested, Asked
  <2>1. Asked(pollfds, fd[t])
    BY <1>1, RequestedIsAsked DEF Control, EvictedIsAsked
  <2> QED BY <1>1, <1>8, <2>1
<1>11. Table'  BY <1>1, <1>7, <1>9 DEF Control, Table
<1>12. SessionType'  BY <1>1, <1>6 DEF Control, SessionType
<1> QED BY <1>9, <1>10, <1>11, <1>12 DEF Control

\* Clients without a connection go, and all of them at the end.
LEMMA RemovedControl ==
  ASSUME Control, Cleanup \/ Destroyed
  PROVE  Control'
<1>1. /\ UNCHANGED <<wsi, handle, fd, pollfds, peer>>
      /\ phase' \in {"out", "ended"}
  BY DEF Cleanup, Destroyed
<1>2. /\ conn' \in [Sessions -> {"none", "linked", "null", "removed"}]
      /\ \A s \in Sessions : conn'[s] = "linked" <=> conn[s] = "linked"
  <2>1. CASE Cleanup  BY <2>1 DEF Cleanup, Control, SessionType
  <2>2. CASE Destroyed
    BY <2>2 DEF Destroyed, Control, SessionType, NoDanglingConnection
  <2> QED BY <2>1, <2>2
<1>3. SessionType'  BY <1>1, <1>2 DEF Control, SessionType
<1>4. NoDanglingConnection'  BY <1>1, <1>2 DEF Control, NoDanglingConnection
<1>5. EvictedIsAsked' /\ Sockets' /\ Table'
  BY <1>1 DEF Control, EvictedIsAsked, Requested, Sockets, Table, Running
<1> QED BY <1>3, <1>4, <1>5 DEF Control

LEMMA PeerControl ==
  ASSUME Control, NEW s \in Sessions, Peer(s)
  PROVE  Control'
<1>1. UNCHANGED sessionVars
  BY DEF Peer, Open, Leave, Send, OnMessage, HandleIncoming
<1>2. peer' \in [Sessions -> {"away", "open", "left"}]
  BY DEF Peer, Open, Leave, Send, OnMessage, HandleIncoming, Control, SessionType
<1>3. phase' = phase /\ phase \in {"out", "service", "parse", "handle", "destroy", "ended"}
  BY DEF Peer, Open, Leave, Send, OnMessage, HandleIncoming, Control, SessionType
<1> QED BY <1>1, <1>2, <1>3, IdleControl

LEMMA NextControl == Control /\ [Next]_vars => Control'
<1> SUFFICES ASSUME Control, [Next]_vars PROVE Control'
  OBVIOUS
<1>1. /\ peer \in [Sessions -> {"away", "open", "left"}]
      /\ phase \in {"out", "service", "parse", "handle", "destroy", "ended"}
  BY DEF Control, SessionType
<1>2. CASE PrepareOut  BY <1>2, PrepareControl
<1>3. CASE Cleanup \/ Destroyed  BY <1>3, RemovedControl
<1>4. CASE Serviced \/ Parsed \/ Destroy \/ \E s \in Sessions : Parse(s)
  <2>1. UNCHANGED sessionVars /\ peer' = peer
        /\ phase' \in {"out", "service", "parse", "handle", "destroy", "ended"}
    BY <1>1, <1>4 DEF Serviced, Parsed, Destroy, Parse
  <2> QED BY <1>1, <2>1, IdleControl
<1>5. CASE UNCHANGED vars \/ Ended
  BY <1>1, <1>5, IdleControl DEF vars, Ended
<1>6. ASSUME NEW s \in Sessions, Established(s) PROVE Control'
  BY <1>6, EstablishedControl
<1>7. ASSUME NEW s \in Sessions, Callback(s) PROVE Control'
  <2>1. CASE Receive(s)  BY <2>1, RefuseControl DEF Receive, Serving
  <2>2. CASE Writeable(s)  BY <2>2, WriteableControl
  <2>3. CASE PeerGone(s)  BY <2>3, RefuseControl DEF PeerGone, Serving
  <2>4. CASE Closed(s)  BY <2>4, ClosedControl
  <2> QED BY <1>7, <2>1, <2>2, <2>3, <2>4 DEF Callback
<1>8. ASSUME NEW s \in Sessions, Dismiss(s) PROVE Control'
  BY <1>8, DismissControl
<1>9. ASSUME NEW s \in Sessions, Peer(s) PROVE Control'
  BY <1>9, PeerControl
<1> QED BY <1>2, <1>3, <1>4, <1>5, <1>6, <1>7, <1>8, <1>9 DEF Next, Pass

\* The inductive invariant of the sessions, for any number of them and of descriptors.
THEOREM SessionsControlled == Safe => []Control
<1>1. Init => Control  BY InitControl
<1>2. Control /\ [Next]_vars => Control'  BY NextControl
<1> QED BY <1>1, <1>2, PTL DEF Safe

\* No client of the broker has a connection that lws has freed, whichever of the two
\* ends first: listener.c clears connection->wsi and the client's connection together.
THEOREM ConnectionsDoNotDangle == Safe => []NoDanglingConnection
<1>1. Control => NoDanglingConnection  BY DEF Control
<1> QED BY <1>1, SessionsControlled, PTL

\* A session that the broker gave up has a request in the poll table until it is closed:
\* no later callback takes it back, nor one for another session.
THEOREM EvictedAreAsked == Safe => []EvictedIsAsked
<1>1. Control => EvictedIsAsked  BY DEF Control
<1> QED BY <1>1, SessionsControlled, PTL

\* The poll table has one entry for each session that is on, and no other.
THEOREM PollTableIsTheSessions == Safe => []PollTable
<1>1. Control => PollTable
  <2> SUFFICES ASSUME Control PROVE PollTable
    OBVIOUS
  <2>1. IsInjective([i \in DOMAIN pollfds |-> pollfds[i].fd])
    BY DEF Control, Table, Single, IsInjective
  <2>2. Descriptors(pollfds) = {fd[s] : s \in Running}  BY DEF Control, Table
  <2> QED BY <2>1, <2>2 DEF PollTable, Descriptors, Running
<1> QED BY <1>1, SessionsControlled, PTL

-----------------------------------------------------------------------------
(* The units of a stream.                                                  *)

Unit == Nat \X Nat

\* The frames after the first k, one after the other, up to some unit.
Runs(units, k) ==
  \A i \in 1 .. Len(units), q \in Nat, r \in 1 .. Pieces :
    i = q * Pieces + r => units[i] = <<k + 1 + q, r>>

\* Some of the frames after k and up to n, and all of them.
Orderly(units, k, n) == Runs(units, k) /\ Len(units) <= (n - k) * Pieces
Full(units, k, n) == Runs(units, k) /\ Len(units) = (n - k) * Pieces

LEMMA PiecesPositive == Pieces \in Nat /\ Pieces >= 1 /\ Chunk \in Nat
BY WebsocketAssumption DEF WebsocketAssumption

\* A frame follows another.
LEMMA NextMultiple == \A q \in Nat : (q + 1) * Pieces = q * Pieces + Pieces
BY PiecesPositive

LEMMA Multiples ==
  ASSUME NEW p \in Nat, NEW q \in Nat, p <= q
  PROVE  p * Pieces <= q * Pieces /\ p * Pieces \in Nat
BY PiecesPositive

\* The frame and the unit in it of a place are one each.
LEMMA PlaceIsOne ==
  ASSUME NEW m \in Nat, NEW q \in Nat, NEW r \in 1 .. Pieces, NEW j \in 1 .. Pieces,
         m * Pieces + j = q * Pieces + r
  PROVE  q = m /\ r = j
<1>1. m * Pieces \in Nat /\ q * Pieces \in Nat  BY Multiples
<1>2. CASE q < m
  <2>1. (q + 1) * Pieces <= m * Pieces  BY <1>2, Multiples
  <2>2. q * Pieces + Pieces <= m * Pieces  BY <2>1, NextMultiple
  <2> QED BY <1>1, <2>2, PiecesPositive
<1>3. CASE q > m
  <2>1. (m + 1) * Pieces <= q * Pieces  BY <1>3, Multiples
  <2>2. m * Pieces + Pieces <= q * Pieces  BY <2>1, NextMultiple
  <2> QED BY <1>1, <2>2, PiecesPositive
<1>4. CASE q = m  BY <1>1, <1>4, PiecesPositive
<1> QED BY <1>2, <1>3, <1>4

LEMMA UnitsType ==
  ASSUME NEW n \in Nat
  PROVE  /\ Units(n) \in Seq(Unit) /\ Len(Units(n)) = Pieces
         /\ \A i \in 1 .. Pieces : Units(n)[i] = <<n, i>>
BY PiecesPositive DEF Units, Unit

LEMMA DropType ==
  ASSUME NEW a \in Seq(Unit), NEW n \in 0 .. Len(a)
  PROVE  /\ Drop(a, n) \in Seq(Unit) /\ Len(Drop(a, n)) = Len(a) - n
         /\ \A i \in 1 .. Len(a) - n : Drop(a, n)[i] = a[n + i]
         /\ SubSeq(a, 1, n) \in Seq(Unit) /\ Len(SubSeq(a, 1, n)) = n
         /\ \A i \in 1 .. n : SubSeq(a, 1, n)[i] = a[i]
<1>1. Len(a) \in Nat /\ \A i \in 1 .. Len(a) : a[i] \in Unit  OBVIOUS
<1>2. \A i \in n + 1 .. Len(a) : a[i] \in Unit  BY <1>1
<1>3. \A i \in 1 .. n : a[i] \in Unit  BY <1>1
<1>4. /\ SubSeq(a, n + 1, Len(a)) \in Seq(Unit)
      /\ Len(SubSeq(a, n + 1, Len(a))) = Len(a) - n
      /\ \A i \in 1 .. Len(a) - n : SubSeq(a, n + 1, Len(a))[i] = a[n + i]
  BY <1>1, <1>2, SubSeqProperties
<1>5. /\ SubSeq(a, 1, n) \in Seq(Unit) /\ Len(SubSeq(a, 1, n)) = n
      /\ \A i \in 1 .. n : SubSeq(a, 1, n)[i] = a[i]
  BY <1>1, <1>3, SubSeqProperties
<1> QED BY <1>4, <1>5 DEF Drop

\* Units that move from the head of one buffer to the end of the one before.
LEMMA MoveUnits ==
  ASSUME NEW a \in Seq(Unit), NEW b \in Seq(Unit), NEW n \in 0 .. Len(b)
  PROVE  (a \o SubSeq(b, 1, n)) \o Drop(b, n) = a \o b
<1> DEFINE x == SubSeq(b, 1, n)
           y == Drop(b, n)
<1>1. x \in Seq(Unit) /\ y \in Seq(Unit)
  BY DropType
<1>2. x \o y = b
  <2>1. n \in 1 - 1 .. Len(b) /\ Len(b) \in n .. Len(b) /\ 1 \in 1 .. Len(b) + 1
    OBVIOUS
  <2>2. SubSeq(b, 1, n) \o SubSeq(b, n + 1, Len(b)) = SubSeq(b, 1, Len(b))
    BY <2>1, ConcatAdjacentSubSeq
  <2>3. SubSeq(b, 1, Len(b)) = b  BY SubSeqFull
  <2> QED BY <2>2, <2>3 DEF Drop
<1> HIDE DEF x, y
<1>3. (a \o x) \o y = a \o (x \o y)
  BY <1>1, ConcatAssociative
<1>4. (a \o x) \o y = a \o b  BY <1>2, <1>3
<1> QED BY <1>4 DEF x, y

LEMMA DropOfConcat ==
  ASSUME NEW a \in Seq(Unit), NEW b \in Seq(Unit), NEW n \in 0 .. Len(a)
  PROVE  Drop(a, n) \o b = Drop(a \o b, n)
<1> DEFINE c == a \o b
           x == Drop(a, n)
           y == Drop(c, n)
<1>1. /\ c \in Seq(Unit) /\ Len(c) = Len(a) + Len(b)
      /\ \A i \in 1 .. Len(a) + Len(b) : c[i] = IF i <= Len(a) THEN a[i] ELSE b[i - Len(a)]
  BY ConcatProperties
<1>2. n \in 0 .. Len(c)  BY <1>1
<1>3. /\ x \in Seq(Unit) /\ Len(x) = Len(a) - n
      /\ \A i \in 1 .. Len(a) - n : x[i] = a[n + i]
  BY DropType
<1> HIDE DEF c
<1>4. /\ y \in Seq(Unit) /\ Len(y) = Len(c) - n
      /\ \A i \in 1 .. Len(c) - n : y[i] = c[n + i]
  BY <1>1, <1>2, DropType
<1> HIDE DEF x, y
<1>5. /\ x \o b \in Seq(Unit) /\ Len(x \o b) = Len(x) + Len(b)
      /\ \A i \in 1 .. Len(x) + Len(b) :
           (x \o b)[i] = IF i <= Len(x) THEN x[i] ELSE b[i - Len(x)]
  BY <1>3, ConcatProperties
<1>6. Len(a) \in Nat /\ Len(b) \in Nat  OBVIOUS
<1>7. Len(x \o b) = Len(y) /\ Len(y) = Len(a) - n + Len(b)
  BY <1>1, <1>3, <1>4, <1>5, <1>6
<1>8. ASSUME NEW i \in 1 .. Len(y) PROVE (x \o b)[i] = y[i]
  <2>1. y[i] = c[n + i]  BY <1>1, <1>4, <1>6, <1>7
  <2>2. n + i \in 1 .. Len(a) + Len(b)  BY <1>6, <1>7
  <2>3. CASE n + i <= Len(a)
    BY <1>1, <1>3, <1>5, <1>6, <1>7, <2>1, <2>2, <2>3
  <2>4. CASE n + i > Len(a)
    <3>1. c[n + i] = b[n + i - Len(a)]  BY <1>1, <1>6, <2>2, <2>4
    <3>2. (x \o b)[i] = b[i - Len(x)]  BY <1>3, <1>5, <1>6, <1>7, <2>4
    <3>3. i - Len(x) = n + i - Len(a)  BY <1>3, <1>6
    <3> QED BY <2>1, <3>1, <3>2, <3>3
  <2> QED BY <1>6, <1>7, <2>3, <2>4
<1>9. x \o b = y
  <2>1. \A i \in 1 .. Len(x \o b) : (x \o b)[i] = y[i]  BY <1>7, <1>8
  <2>2. x \o b \in Seq(Unit) /\ y \in Seq(Unit)  BY <1>4, <1>5
  <2> QED BY <1>7, <2>1, <2>2, SeqEqual
<1> QED BY <1>9 DEF x, y, c

LEMMA PrefixOrderly ==
  ASSUME NEW a \in Seq(Unit), NEW b \in Seq(Unit), NEW k \in Nat, NEW n \in Nat,
         Orderly(a \o b, k, n)
  PROVE  Orderly(a, k, n)
<1> DEFINE c == a \o b
<1>1. /\ Len(c) = Len(a) + Len(b) /\ Len(a) \in Nat /\ Len(b) \in Nat
      /\ \A i \in 1 .. Len(a) : c[i] = a[i]
  BY ConcatProperties
<1> HIDE DEF c
<1>2. Runs(c, k) /\ Len(c) <= (n - k) * Pieces  BY DEF Orderly, c
<1>3. (n - k) * Pieces \in Int  BY PiecesPositive
<1>4. \A i \in 1 .. Len(a) : i \in 1 .. Len(c) /\ c[i] = a[i]  BY <1>1
<1>5. Runs(a, k)  BY <1>2, <1>4 DEF Runs
<1>6. Len(a) <= (n - k) * Pieces  BY <1>1, <1>2, <1>3
<1> QED BY <1>5, <1>6 DEF Orderly

LEMMA FullOrderly ==
  ASSUME NEW a \in Seq(Unit), NEW k \in Nat, NEW n \in Nat, Full(a, k, n)
  PROVE  Orderly(a, k, n)
BY PiecesPositive DEF Full, Orderly

\* A frame more is known of, and is not on its way yet.
LEMMA LaterOrderly ==
  ASSUME NEW a \in Seq(Unit), NEW k \in Nat, NEW n \in Nat, Orderly(a, k, n)
  PROVE  Orderly(a, k, n + 1)
<1>1. (n + 1 - k) * Pieces = (n - k) * Pieces + Pieces /\ (n - k) * Pieces \in Int
  BY PiecesPositive
<1>2. Len(a) \in Nat  OBVIOUS
<1> QED BY <1>1, <1>2, PiecesPositive DEF Orderly

\* A frame is pushed behind those that are on their way.
LEMMA PushFull ==
  ASSUME NEW a \in Seq(Unit), NEW k \in Nat, NEW n \in Nat, k <= n, Full(a, k, n)
  PROVE  Full(a \o Units(n + 1), k, n + 1)
<1> DEFINE u == Units(n + 1)
           c == a \o u
           m == n - k
<1>1. u \in Seq(Unit) /\ Len(u) = Pieces /\ \A i \in 1 .. Pieces : u[i] = <<n + 1, i>>
  BY UnitsType
<1>2. m \in Nat /\ k + 1 + m = n + 1 /\ Len(a) = m * Pieces /\ Len(a) \in Nat /\ Runs(a, k)
  BY DEF Full
<1> HIDE DEF u, m
<1>3. /\ Len(c) = Len(a) + Len(u)
      /\ \A i \in 1 .. Len(a) + Len(u) : c[i] = IF i <= Len(a) THEN a[i] ELSE u[i - Len(a)]
  BY <1>1, ConcatProperties
<1> HIDE DEF c
<1>4. Len(c) = (m + 1) * Pieces
  BY <1>1, <1>2, <1>3, NextMultiple
<1>5. ASSUME NEW i \in 1 .. Len(c), NEW q \in Nat, NEW r \in 1 .. Pieces, i = q * Pieces + r
      PROVE  c[i] = <<k + 1 + q, r>>
  <2>1. i \in 1 .. Len(a) + Pieces  BY <1>1, <1>3
  <2>2. CASE i <= Len(a)
    <3>1. i \in 1 .. Len(a) /\ c[i] = a[i]  BY <1>1, <1>2, <1>3, <2>1, <2>2
    <3> QED BY <1>2, <1>5, <3>1 DEF Runs
  <2>3. CASE i > Len(a)
    <3>1. PICK j : j = i - Len(a)  OBVIOUS
    <3>2. j \in 1 .. Pieces /\ i = m * Pieces + j
      BY <1>2, <2>1, <2>3, <3>1, PiecesPositive
    <3>3. q = m /\ r = j
      BY <1>2, <1>5, <3>2, PlaceIsOne
    <3>4. c[i] = u[j]  BY SMTT(30), <1>1, <1>2, <1>3, <2>1, <2>3, <3>1
    <3> QED BY <1>1, <1>2, <3>2, <3>3, <3>4
  <2> QED BY <1>2, <2>1, <2>2, <2>3, PiecesPositive
<1>6. Runs(c, k)  BY <1>5 DEF Runs
<1>7. n + 1 - k = m + 1  BY DEF m
<1> QED BY <1>4, <1>6, <1>7 DEF Full, c, u

\* The first frame is handled.
LEMMA HeadFrame ==
  ASSUME NEW a \in Seq(Unit), NEW k \in Nat, NEW n \in Nat, Orderly(a, k, n),
         Len(a) >= Pieces
  PROVE  Leading(a) = k + 1 /\ k + 1 <= n
<1>1. Len(a) \in Nat /\ \A i \in 1 .. Pieces : i \in 1 .. Len(a) /\ a[i] \in Unit
  BY PiecesPositive
<1>2. \A i \in 1 .. Pieces : a[i] = <<k + 1, i>>
  <2> TAKE i \in 1 .. Pieces
  <2>1. i = 0 * Pieces + i  BY PiecesPositive
  <2>2. a[i] = <<k + 1 + 0, i>>  BY <1>1, <2>1 DEF Orderly, Runs
  <2> QED BY <2>2
<1> DEFINE h == SubSeq(a, 1, Pieces)
<1>3. h \in Seq(Unit) /\ Len(h) = Pieces /\ \A i \in 1 .. Pieces : h[i] = a[i]
  BY <1>1, PiecesPositive, DropType
<1> HIDE DEF h
<1>4. a[1][1] = k + 1  BY <1>2, PiecesPositive
<1>5. h = Units(k + 1)
  <2>1. Units(k + 1) \in Seq(Unit) /\ Len(Units(k + 1)) = Pieces
        /\ \A i \in 1 .. Pieces : Units(k + 1)[i] = <<k + 1, i>>
    BY UnitsType
  <2> QED BY <1>2, <1>3, <2>1, SeqEqual
<1>6. Leading(a) = k + 1  BY <1>4, <1>5 DEF Leading, h
<1>7. k + 1 <= n
  <2>1. SUFFICES ASSUME n - k <= 0 PROVE FALSE  OBVIOUS
  <2>2. (k - n) * Pieces \in Nat  BY <2>1, Multiples
  <2>3. (n - k) * Pieces <= 0  BY <2>1, <2>2, PiecesPositive
  <2> QED BY <1>1, <2>3, PiecesPositive DEF Orderly
<1> QED BY <1>6, <1>7

LEMMA DropRuns ==
  ASSUME NEW a \in Seq(Unit), NEW k \in Nat, Runs(a, k), Len(a) >= Pieces
  PROVE  Runs(Drop(a, Pieces), k + 1) /\ Len(Drop(a, Pieces)) = Len(a) - Pieces
<1> DEFINE d == Drop(a, Pieces)
<1>1. /\ d \in Seq(Unit) /\ Len(d) = Len(a) - Pieces
      /\ \A i \in 1 .. Len(a) - Pieces : d[i] = a[Pieces + i]
  <2>1. Pieces \in 0 .. Len(a)  BY PiecesPositive
  <2> QED BY <2>1, DropType
<1> HIDE DEF d
<1>2. ASSUME NEW i \in 1 .. Len(d), NEW q \in Nat, NEW r \in 1 .. Pieces, i = q * Pieces + r
      PROVE  d[i] = <<k + 1 + 1 + q, r>>
  <2>1. PICK j : j = Pieces + i  OBVIOUS
  <2>2. j \in 1 .. Len(a) /\ d[i] = a[j]  BY <1>1, <2>1, PiecesPositive
  <2>3. (q + 1) * Pieces = q * Pieces + Pieces /\ q * Pieces \in Nat
    <3>1. q <= q  OBVIOUS
    <3> QED BY <3>1, NextMultiple, Multiples
  <2>4. j = (q + 1) * Pieces + r  BY <1>2, <2>1, <2>3, PiecesPositive
  <2>5. a[j] = <<k + 1 + (q + 1), r>>  BY <2>2, <2>4 DEF Runs
  <2>6. k + 1 + (q + 1) = k + 1 + 1 + q  OBVIOUS
  <2> QED BY <2>2, <2>5, <2>6
<1> QED BY <1>1, <1>2 DEF Runs, d

LEMMA HandleOrderly ==
  ASSUME NEW a \in Seq(Unit), NEW k \in Nat, NEW n \in Nat, Orderly(a, k, n),
         Len(a) >= Pieces
  PROVE  Orderly(Drop(a, Pieces), k + 1, n)
<1>1. Runs(Drop(a, Pieces), k + 1) /\ Len(Drop(a, Pieces)) = Len(a) - Pieces
  BY DropRuns DEF Orderly
<1>2. (n - (k + 1)) * Pieces = (n - k) * Pieces - Pieces /\ (n - k) * Pieces \in Int
  BY PiecesPositive
<1>3. Len(a) - Pieces <= (n - k) * Pieces - Pieces
  BY <1>2, PiecesPositive DEF Orderly
<1> QED BY <1>1, <1>2, <1>3 DEF Orderly

LEMMA HandleFull ==
  ASSUME NEW a \in Seq(Unit), NEW k \in Nat, NEW n \in Nat, Full(a, k, n),
         Len(a) >= Pieces
  PROVE  Full(Drop(a, Pieces), k + 1, n)
<1>1. Runs(Drop(a, Pieces), k + 1) /\ Len(Drop(a, Pieces)) = Len(a) - Pieces
  BY DropRuns DEF Full
<1>2. (n - (k + 1)) * Pieces = (n - k) * Pieces - Pieces /\ (n - k) * Pieces \in Int
  BY PiecesPositive
<1> QED BY <1>1, <1>2 DEF Full

-----------------------------------------------------------------------------
(* The streams of the sessions.                                            *)

StreamType ==
  /\ out \in [Sessions -> Seq(Unit)] /\ in \in [Sessions -> Seq(Unit)]
  /\ incoming \in [Sessions -> Seq(Unit)]
  /\ pipe \in [Sessions -> [Directions -> Seq(Unit)]]
  /\ pushed \in [Sessions -> [Directions -> 0 .. MaxFrames]]
  /\ got \in [Sessions -> [Directions -> Seq(1 .. MaxFrames)]]

\* The frames that came out are the first of those pushed.
Counted(s) ==
  \A d \in Directions : /\ Len(got[s][d]) <= pushed[s][d]
                        /\ \A i \in 1 .. Len(got[s][d]) : got[s][d][i] = i

UpUnits(s) == in[s] \o pipe[s][Up]
DownUnits(s) == incoming[s] \o (pipe[s][Down] \o out[s])

\* The connection of s has not been lost.
Connected(s) == conn[s] \in {"none", "linked"}

\* What was pushed and did not come out is on its way, in order; once the connection is
\* lost, what still is in reach of the receiver.
Upward(s) ==
  LET k == Len(got[s][Up])
      n == pushed[s][Up]
  IN /\ Connected(s) => Full(UpUnits(s), k, n)
     /\ Orderly(in[s], k, n)

Downward(s) ==
  LET k == Len(got[s][Down])
      n == pushed[s][Down]
  IN /\ Connected(s) => Full(DownUnits(s), k, n)
     /\ Orderly(DownUnits(s), k, n)

Begun == \A s \in Sessions : conn[s] = "none" <=> wsi[s] = "none"

\* The inductive invariant of the streams, beside Control.
Streams == StreamType /\ Begun /\ \A s \in Sessions : Counted(s) /\ Upward(s) /\ Downward(s)

LEMMA UnitsOfType ==
  ASSUME StreamType, NEW s \in Sessions
  PROVE  /\ out[s] \in Seq(Unit) /\ in[s] \in Seq(Unit) /\ incoming[s] \in Seq(Unit)
         /\ pipe[s][Up] \in Seq(Unit) /\ pipe[s][Down] \in Seq(Unit)
         /\ UpUnits(s) \in Seq(Unit) /\ DownUnits(s) \in Seq(Unit)
         /\ \A d \in Directions : Len(got[s][d]) \in Nat /\ pushed[s][d] \in Nat
<1>1. /\ out[s] \in Seq(Unit) /\ in[s] \in Seq(Unit) /\ incoming[s] \in Seq(Unit)
      /\ pipe[s][Up] \in Seq(Unit) /\ pipe[s][Down] \in Seq(Unit)
  BY DEF StreamType, Directions
<1>2. pipe[s][Down] \o out[s] \in Seq(Unit)
  BY <1>1, ConcatProperties
<1>3. UpUnits(s) \in Seq(Unit) /\ DownUnits(s) \in Seq(Unit)
  BY <1>1, <1>2, ConcatProperties DEF UpUnits, DownUnits
<1>4. ASSUME NEW d \in Directions PROVE Len(got[s][d]) \in Nat /\ pushed[s][d] \in Nat
  BY WebsocketAssumption DEF StreamType, WebsocketAssumption
<1> QED BY <1>1, <1>3, <1>4

LEMMA MoreRoom ==
  ASSUME StreamType, NEW s \in Sessions, More(s)
  PROVE  \A d \in Directions : pushed[s][d] < MaxFrames
<1>1. \A d \in Directions : pushed[s][d] \in 0 .. MaxFrames  BY DEF StreamType
<1> QED BY <1>1, WebsocketAssumption DEF More, Directions, WebsocketAssumption

\* A session that a step leaves alone, but for the loss of its connection.
LEMMA StillFlows ==
  ASSUME NEW s \in Sessions, Counted(s), Upward(s), Downward(s),
         in'[s] = in[s], pipe'[s] = pipe[s], out'[s] = out[s], incoming'[s] = incoming[s],
         pushed'[s] = pushed[s], got'[s] = got[s], Connected(s)' => Connected(s)
  PROVE  Counted(s)' /\ Upward(s)' /\ Downward(s)'
<1>1. UpUnits(s)' = UpUnits(s) /\ DownUnits(s)' = DownUnits(s)
  BY DEF UpUnits, DownUnits
<1>2. Counted(s)'  BY DEF Counted
<1>3. Upward(s)'  BY <1>1 DEF Upward
<1>4. Downward(s)'  BY <1>1 DEF Downward
<1> QED BY <1>2, <1>3, <1>4

LEMMA IdleStreams ==
  ASSUME Streams, UNCHANGED dataVars, Begun',
         \A s \in Sessions : Connected(s)' => Connected(s)
  PROVE  Streams'
<1>1. StreamType'  BY DEF Streams, StreamType, dataVars
<1>2. ASSUME NEW s \in Sessions PROVE Counted(s)' /\ Upward(s)' /\ Downward(s)'
  <2>1. /\ in'[s] = in[s] /\ pipe'[s] = pipe[s] /\ out'[s] = out[s]
        /\ incoming'[s] = incoming[s] /\ pushed'[s] = pushed[s] /\ got'[s] = got[s]
    BY DEF dataVars
  <2>2. Counted(s) /\ Upward(s) /\ Downward(s)  BY DEF Streams
  <2> QED BY <2>1, <2>2, StillFlows
<1> QED BY <1>1, <1>2 DEF Streams

LEMMA InitStreams == Init => Streams
<1> SUFFICES ASSUME Init PROVE Streams
  OBVIOUS
<1>1. <<>> \in Seq(Unit) /\ <<>> \in Seq(1 .. MaxFrames) /\ Len(<<>>) = 0
      /\ 0 \in 0 .. MaxFrames
  BY WebsocketAssumption DEF WebsocketAssumption
<1>2. StreamType
  BY <1>1 DEF Init, StreamType
<1>3. Begun  BY DEF Init, Begun
<1>4. ASSUME NEW s \in Sessions PROVE Counted(s) /\ Upward(s) /\ Downward(s)
  <2>1. /\ in[s] = <<>> /\ out[s] = <<>> /\ incoming[s] = <<>>
        /\ \A d \in Directions : pipe[s][d] = <<>> /\ got[s][d] = <<>> /\ pushed[s][d] = 0
    BY DEF Init
  <2>2. UpUnits(s) = <<>> /\ DownUnits(s) = <<>>
    <3>1. (<<>> \o <<>>) = <<>>  OBVIOUS
    <3> QED BY <2>1, <3>1 DEF UpUnits, DownUnits, Directions
  <2>3. Counted(s)  BY <2>1 DEF Counted
  <2>4. Full(<<>>, 0, 0) /\ Orderly(<<>>, 0, 0)
    <3>1. (0 - 0) * Pieces = 0  BY PiecesPositive
    <3>2. Runs(<<>>, 0)  BY DEF Runs
    <3> QED BY <3>1, <3>2 DEF Full, Orderly
  <2> QED BY <2>1, <2>2, <2>3, <2>4 DEF Upward, Downward, Directions
<1> QED BY <1>2, <1>3, <1>4 DEF Streams

\* A step on the buffers of s alone.
LEMMA OneFlows ==
  ASSUME Streams, StreamType', Begun', NEW s \in Sessions,
         \A t \in Sessions \ {s} :
           /\ in'[t] = in[t] /\ pipe'[t] = pipe[t] /\ out'[t] = out[t]
           /\ incoming'[t] = incoming[t] /\ pushed'[t] = pushed[t] /\ got'[t] = got[t]
           /\ conn'[t] = conn[t],
         Counted(s)', Upward(s)', Downward(s)'
  PROVE  Streams'
<1>1. ASSUME NEW t \in Sessions \ {s} PROVE Counted(t)' /\ Upward(t)' /\ Downward(t)'
  <2>1. Counted(t) /\ Upward(t) /\ Downward(t)  BY DEF Streams
  <2>2. Connected(t)' => Connected(t)  BY DEF Connected
  <2> QED BY <2>1, <2>2, StillFlows
<1> QED BY <1>1 DEF Streams

\* The buffers of s of one direction, the others as they are.
LEMMA DirectionsApart ==
  ASSUME NEW s \in Sessions, NEW d \in Directions, NEW S, NEW x, NEW f, NEW g,
         f \in [Sessions -> [Directions -> S]], x \in S, g = [f EXCEPT ![s][d] = x]
  PROVE  /\ g \in [Sessions -> [Directions -> S]] /\ g[s][d] = x
         /\ \A e \in Directions \ {d} : g[s][e] = f[s][e]
         /\ \A t \in Sessions \ {s} : g[t] = f[t]
OBVIOUS

LEMMA UpIsNotDown == Up \in Directions /\ Down \in Directions /\ Up # Down
BY DEF Up, Down, Directions

LEMMA ReceiveStreams ==
  ASSUME Control, Streams, NEW s \in Sessions, Receive(s)
  PROVE  Streams'
<1> DEFINE p == pipe[s][Up]
<1>1. PICK n \in 1 .. Len(pipe[s][Up]) :
        /\ pipe' = [pipe EXCEPT ![s][Up] = Drop(@, n)]
        /\ \/ /\ handle[s] /\ conn[s] = "linked"
              /\ in' = [in EXCEPT ![s] = @ \o SubSeq(pipe[s][Up], 1, n)]
           \/ ~handle[s] /\ UNCHANGED in
  BY DEF Receive
<1>2. /\ UNCHANGED <<conn, out, incoming, pushed, got>>
      /\ wsi[s] = "open" /\ (wsi' = wsi \/ wsi' = [wsi EXCEPT ![s] = "closing"])
  BY DEF Receive, Serving, Refuse
<1>3. StreamType /\ Counted(s) /\ Upward(s) /\ Downward(s) /\ Begun  BY DEF Streams
<1>4. in[s] \in Seq(Unit) /\ p \in Seq(Unit) /\ n \in 0 .. Len(p)
  BY <1>3, UnitsOfType
<1>5. /\ Drop(p, n) \in Seq(Unit) /\ SubSeq(p, 1, n) \in Seq(Unit)
      /\ in[s] \o SubSeq(p, 1, n) \in Seq(Unit)
  BY <1>4, DropType, ConcatProperties
<1>6. /\ pipe' \in [Sessions -> [Directions -> Seq(Unit)]]
      /\ pipe'[s][Up] = Drop(p, n) /\ pipe'[s][Down] = pipe[s][Down]
      /\ \A t \in Sessions \ {s} : pipe'[t] = pipe[t]
  <2>1. pipe \in [Sessions -> [Directions -> Seq(Unit)]]  BY <1>3 DEF StreamType
  <2>2. pipe' = [pipe EXCEPT ![s][Up] = Drop(p, n)]  BY <1>1
  <2> QED BY <1>5, <2>1, <2>2, UpIsNotDown, DirectionsApart
<1>7. in' \in [Sessions -> Seq(Unit)] /\ \A t \in Sessions \ {s} : in'[t] = in[t]
  BY <1>1, <1>3, <1>5 DEF StreamType
<1>8. StreamType'  BY <1>2, <1>3, <1>6, <1>7 DEF StreamType
<1>9. Begun'  BY <1>2, <1>3 DEF Begun, Control, SessionType
<1>10. Counted(s)' /\ Downward(s)'
  <2>1. DownUnits(s)' = DownUnits(s)  BY <1>2, <1>6 DEF DownUnits
  <2> QED BY <1>2, <1>3, <2>1 DEF Counted, Downward, Connected
<1>11. Upward(s)'
  <2>1. CASE handle[s] /\ conn[s] = "linked" /\ in' = [in EXCEPT ![s] = @ \o SubSeq(p, 1, n)]
    <3>1. in'[s] = in[s] \o SubSeq(p, 1, n)  BY <1>3, <2>1 DEF StreamType
    <3>2. UpUnits(s)' = UpUnits(s)
      BY ZenonT(30), <1>4, <1>6, <3>1, MoveUnits DEF UpUnits
    <3>3. Full(UpUnits(s)', Len(got[s][Up]), pushed[s][Up])
      BY <1>3, <2>1, <3>2 DEF Upward, Connected
    <3>4. Orderly(in'[s], Len(got[s][Up]), pushed[s][Up])
      <4>1. /\ in'[s] \in Seq(Unit) /\ pipe'[s][Up] \in Seq(Unit)
            /\ UpUnits(s)' = in'[s] \o pipe'[s][Up]
        BY <1>5, <1>6, <3>1 DEF UpUnits
      <4>2. Len(got[s][Up]) \in Nat /\ pushed[s][Up] \in Nat
        BY <1>3, UnitsOfType, UpIsNotDown
      <4>3. in'[s] \o pipe'[s][Up] \in Seq(Unit)  BY <4>1, ConcatProperties
      <4>4. Orderly(in'[s] \o pipe'[s][Up], Len(got[s][Up]), pushed[s][Up])
        BY <3>3, <4>1, <4>2, <4>3, FullOrderly
      <4> QED BY <4>1, <4>2, <4>4, PrefixOrderly
    <3> QED BY <1>2, <3>3, <3>4 DEF Upward
  <2>2. CASE ~handle[s] /\ UNCHANGED in
    <3>1. ~Connected(s)
      BY <1>2, <1>3, <2>2 DEF Control, NoDanglingConnection, Connected, Begun
    <3> QED BY <1>2, <1>3, <2>2, <3>1 DEF Upward, Connected
  <2> QED BY <1>1, <2>1, <2>2
<1> QED BY <1>2, <1>6, <1>7, <1>8, <1>9, <1>10, <1>11, OneFlows

LEMMA WriteableStreams ==
  ASSUME Control, Streams, NEW s \in Sessions, Writeable(s)
  PROVE  Streams'
<1>1. /\ UNCHANGED <<conn, in, incoming, pushed, misread, got>>
      /\ wsi[s] = "open" /\ (wsi' = wsi \/ wsi' = [wsi EXCEPT ![s] = "closing"])
  BY DEF Writeable, SendPart, Serving, Refuse
<1>2. StreamType /\ Counted(s) /\ Upward(s) /\ Downward(s) /\ Begun  BY DEF Streams
<1>3. Begun'  BY <1>1, <1>2 DEF Begun, Control, SessionType
<1>4. CASE UNCHANGED <<out, pipe>>
  <2>1. \A t \in Sessions : Connected(t)' => Connected(t)  BY <1>1 DEF Connected
  <2> QED BY <1>1, <1>3, <1>4, <2>1, IdleStreams DEF dataVars
<1>5. CASE SendPart(s)
  <2> DEFINE p == pipe[s][Down]
             o == out[s]
             n == Min({Chunk, Len(o)})
  <2>1. /\ pipe' = [pipe EXCEPT ![s][Down] = p \o SubSeq(o, 1, n)]
        /\ out' = [out EXCEPT ![s] = Drop(o, n)]
    BY <1>5 DEF SendPart
  <2>2. p \in Seq(Unit) /\ o \in Seq(Unit) /\ incoming[s] \in Seq(Unit)
    BY <1>2, UnitsOfType
  <2>3. n \in 0 .. Len(o)
    <3>1. {Chunk, Len(o)} \in SUBSET Nat /\ {Chunk, Len(o)} # {}
      BY <2>2, PiecesPositive
    <3>2. n \in {Chunk, Len(o)} /\ \A m \in {Chunk, Len(o)} : n <= m
      BY <3>1, LeastExists
    <3> HIDE DEF n
    <3> QED BY <2>2, <3>1, <3>2
  <2> HIDE DEF n
  <2>4. /\ Drop(o, n) \in Seq(Unit) /\ SubSeq(o, 1, n) \in Seq(Unit)
        /\ p \o SubSeq(o, 1, n) \in Seq(Unit)
        /\ (p \o SubSeq(o, 1, n)) \o Drop(o, n) = p \o o
    BY <2>2, <2>3, DropType, ConcatProperties, MoveUnits
  <2>5. /\ pipe' \in [Sessions -> [Directions -> Seq(Unit)]]
        /\ pipe'[s][Down] = p \o SubSeq(o, 1, n) /\ pipe'[s][Up] = pipe[s][Up]
        /\ \A t \in Sessions \ {s} : pipe'[t] = pipe[t]
    <3>1. pipe \in [Sessions -> [Directions -> Seq(Unit)]]  BY <1>2 DEF StreamType
    <3> QED BY <2>1, <2>4, <3>1, UpIsNotDown, DirectionsApart
  <2>6. /\ out' \in [Sessions -> Seq(Unit)] /\ out'[s] = Drop(o, n)
        /\ \A t \in Sessions \ {s} : out'[t] = out[t]
    BY <1>2, <2>1, <2>4 DEF StreamType
  <2>7. StreamType'  BY <1>1, <1>2, <2>5, <2>6 DEF StreamType
  <2>8. UpUnits(s)' = UpUnits(s) /\ DownUnits(s)' = DownUnits(s)
    BY <1>1, <2>4, <2>5, <2>6 DEF UpUnits, DownUnits
  <2>9. Counted(s)' /\ Upward(s)' /\ Downward(s)'
    BY <1>1, <1>2, <2>8 DEF Counted, Upward, Downward, Connected
  <2> QED BY <1>1, <1>3, <2>5, <2>6, <2>7, <2>9, OneFlows
<1> QED BY <1>4, <1>5 DEF Writeable

LEMMA ClosedStreams ==
  ASSUME Control, Streams, NEW s \in Sessions, Closed(s)
  PROVE  Streams'
<1>1. /\ conn' = [conn EXCEPT ![s] = IF handle[s] THEN "null" ELSE @]
      /\ wsi' = [wsi EXCEPT ![s] = "gone"]
      /\ pipe' = [pipe EXCEPT ![s][Up] = <<>>]
      /\ UNCHANGED <<out, in, incoming, pushed, got>>
  BY DEF Closed
<1>2. StreamType /\ Counted(s) /\ Upward(s) /\ Downward(s) /\ Begun  BY DEF Streams
<1>3. wsi[s] \in {"open", "closing"}  BY DEF Closed
<1>4. ~Connected(s)' /\ \A t \in Sessions \ {s} : conn'[t] = conn[t]
  BY <1>1, <1>2, <1>3
     DEF Connected, Begun, Control, SessionType, NoDanglingConnection
<1>5. Begun'
  <2>1. \A t \in Sessions : wsi'[t] = IF t = s THEN "gone" ELSE wsi[t]
    BY <1>1 DEF Control, SessionType
  <2> QED BY <1>2, <1>4, <2>1 DEF Begun, Connected
<1>6. /\ pipe' \in [Sessions -> [Directions -> Seq(Unit)]]
      /\ pipe'[s][Down] = pipe[s][Down]
      /\ \A t \in Sessions \ {s} : pipe'[t] = pipe[t]
  <2>1. pipe \in [Sessions -> [Directions -> Seq(Unit)]]  BY <1>2 DEF StreamType
  <2>2. <<>> \in Seq(Unit)  OBVIOUS
  <2> QED BY <1>1, <2>1, <2>2, UpIsNotDown, DirectionsApart
<1>7. StreamType'  BY <1>1, <1>2, <1>6 DEF StreamType
<1>8. DownUnits(s)' = DownUnits(s)  BY <1>1, <1>6 DEF DownUnits
<1>9. Counted(s)' /\ Upward(s)' /\ Downward(s)'
  BY <1>1, <1>2, <1>4, <1>8 DEF Counted, Upward, Downward
<1> QED BY <1>1, <1>4, <1>5, <1>6, <1>7, <1>9, OneFlows

LEMMA ConcatUnits ==
  ASSUME NEW a \in Seq(Unit), NEW b \in Seq(Unit), NEW c \in Seq(Unit)
  PROVE  (a \o b) \o c = a \o (b \o c) /\ a \o b \in Seq(Unit)
BY ConcatAssociative, ConcatProperties

LEMMA Associative ==
  \A a, b, c \in Seq(Unit) : (a \o b) \o c = a \o (b \o c)
BY ConcatUnits

LEMMA PrepareStreams ==
  ASSUME Control, Streams, PrepareOut
  PROVE  Streams'
<1>1. PICK targets \in SUBSET {s \in Linked \cap Talkers : More(s)} :
        /\ pushed' = [s \in Sessions |->
                       [pushed[s] EXCEPT ![Down] = @ + (IF s \in targets THEN 1 ELSE 0)]]
        /\ out' = [s \in Sessions |-> out[s] \o (IF s \in targets
                                                 THEN Units(pushed[s][Down] + 1) ELSE <<>>)]
  BY DEF PrepareOut
<1>2. UNCHANGED <<wsi, conn, in, pipe, incoming, got>>  BY DEF PrepareOut
<1>3. StreamType /\ Begun  BY DEF Streams
<1>4. ASSUME NEW s \in Sessions
      PROVE  /\ out'[s] \in Seq(Unit) /\ pushed'[s] \in [Directions -> 0 .. MaxFrames]
             /\ Counted(s)' /\ Upward(s)' /\ Downward(s)'
  <2>1. Counted(s) /\ Upward(s) /\ Downward(s)  BY DEF Streams
  <2>2. /\ out[s] \in Seq(Unit) /\ incoming[s] \in Seq(Unit) /\ pipe[s][Down] \in Seq(Unit)
        /\ DownUnits(s) \in Seq(Unit) /\ pipe[s][Down] \o out[s] \in Seq(Unit)
        /\ Len(got[s][Down]) \in Nat /\ pushed[s][Down] \in Nat
    BY <1>3, UnitsOfType, UpIsNotDown, ConcatProperties
  <2>3. pushed[s] \in [Directions -> 0 .. MaxFrames] /\ MaxFrames \in Nat
    BY <1>3, WebsocketAssumption DEF StreamType, WebsocketAssumption
  <2>4. CASE s \notin targets
    <3>1. out'[s] = out[s]
      <4>1. out'[s] = out[s] \o <<>>  BY <1>1, <2>4
      <4> QED BY <2>2, <4>1, ConcatEmptySeq
    <3>2. pushed'[s] = pushed[s]
      <4>1. pushed'[s] = [pushed[s] EXCEPT ![Down] = @ + 0]  BY <1>1, <2>4
      <4>2. pushed[s][Down] + 0 = pushed[s][Down]  BY <2>2
      <4> QED BY <2>3, <4>1, <4>2
    <3>3. Connected(s)' => Connected(s)  BY <1>2 DEF Connected
    <3>4. Counted(s)' /\ Upward(s)' /\ Downward(s)'
      BY <1>2, <2>1, <3>1, <3>2, <3>3, StillFlows
    <3> QED BY <2>2, <2>3, <3>1, <3>2, <3>4
  <2>5. CASE s \in targets
    <3> DEFINE k == Len(got[s][Down])
               n == pushed[s][Down]
    <3>1. n < MaxFrames /\ conn[s] = "linked"
      BY <1>1, <1>3, <2>5, MoreRoom, UpIsNotDown DEF Linked
    <3>2. out'[s] = out[s] \o Units(n + 1)  BY <1>1, <2>5
    <3>3. pushed'[s] = [pushed[s] EXCEPT ![Down] = n + 1]  BY <1>1, <2>5
    <3>4. Units(n + 1) \in Seq(Unit)  BY <2>2, UnitsType
    <3>5. /\ pushed'[s] \in [Directions -> 0 .. MaxFrames]
          /\ pushed'[s][Down] = n + 1 /\ pushed'[s][Up] = pushed[s][Up]
      BY <2>2, <2>3, <3>1, <3>3, UpIsNotDown
    <3>6. out'[s] \in Seq(Unit)  BY <2>2, <3>2, <3>4, ConcatProperties
    <3>7. DownUnits(s)' = DownUnits(s) \o Units(n + 1)
      <4>1. DownUnits(s)' = incoming[s] \o (pipe[s][Down] \o (out[s] \o Units(n + 1)))
        BY <1>2, <3>2 DEF DownUnits
      <4>2. incoming[s] \o (pipe[s][Down] \o (out[s] \o Units(n + 1)))
              = (incoming[s] \o (pipe[s][Down] \o out[s])) \o Units(n + 1)
        <5> DEFINE w == incoming[s]
                   x == pipe[s][Down]
                   y == out[s]
                   z == Units(n + 1)
        <5>1. w \in Seq(Unit) /\ x \in Seq(Unit) /\ y \in Seq(Unit) /\ z \in Seq(Unit)
          BY <2>2, <3>4
        <5> HIDE DEF w, x, y, z
        <5>2. x \o y \in Seq(Unit)  BY <5>1, ConcatUnits
        <5>6. (x \o y) \o z = x \o (y \o z)  BY <5>1, Associative, ZenonT(60)
        <5>3. PICK v \in Seq(Unit) : v = x \o y  BY <5>2
        <5>4. w \in Seq(Unit) /\ z \in Seq(Unit)  BY <5>1
        <5>5. (w \o v) \o z = w \o (v \o z)  BY <5>3, <5>4, Associative, ZenonT(60)
        <5> QED BY <5>3, <5>5, <5>6 DEF w, x, y, z
      <4> QED BY <4>1, <4>2 DEF DownUnits
    <3>8. Full(DownUnits(s)', k, n + 1)
      <4>1. Full(DownUnits(s), k, n)  BY <2>1, <3>1 DEF Downward, Connected
      <4>2. k <= n  BY <2>1, UpIsNotDown DEF Counted
      <4> QED BY <2>2, <3>7, <4>1, <4>2, PushFull
    <3>9. Orderly(DownUnits(s)', k, n + 1)
      <4>1. DownUnits(s)' \in Seq(Unit)  BY <2>2, <3>4, <3>7, ConcatProperties
      <4>2. n + 1 \in Nat  BY <2>2
      <4> QED BY <2>2, <3>8, <4>1, <4>2, FullOrderly
    <3>10. Downward(s)'  BY <1>2, <3>5, <3>8, <3>9 DEF Downward
    <3>11. Upward(s)'
      BY <1>2, <2>1, <3>5 DEF Upward, UpUnits, Connected
    <3>12. Counted(s)'
      <4>1. got' = got  BY <1>2
      <4>2. \A d \in Directions : pushed[s][d] <= pushed'[s][d]
        BY <2>2, <2>3, <3>5 DEF Directions
      <4>3. \A d \in Directions :
              pushed'[s][d] \in Nat /\ pushed[s][d] \in Nat /\ Len(got[s][d]) \in Nat
        BY <1>3, <2>3, <3>5, UnitsOfType
      <4> QED BY <2>1, <4>1, <4>2, <4>3 DEF Counted
    <3> QED BY <3>5, <3>6, <3>10, <3>11, <3>12
  <2> QED BY <2>4, <2>5
<1>5. StreamType'
  <2>1. out' \in [Sessions -> Seq(Unit)]  BY <1>1, <1>4
  <2>2. pushed' \in [Sessions -> [Directions -> 0 .. MaxFrames]]  BY <1>1, <1>4
  <2> QED BY <1>2, <1>3, <2>1, <2>2 DEF StreamType
<1>6. Begun'  BY <1>2, <1>3 DEF Begun
<1> QED BY <1>4, <1>5, <1>6 DEF Streams

\* A frame is counted when it is handled: it is the next one.
LEMMA CountFrame ==
  ASSUME StreamType, NEW s \in Sessions, NEW d \in Directions, Counted(s),
         Len(got[s][d]) + 1 <= pushed[s][d],
         got' = [got EXCEPT ![s][d] = Append(@, Len(got[s][d]) + 1)], pushed' = pushed
  PROVE  /\ got' \in [Sessions -> [Directions -> Seq(1 .. MaxFrames)]]
         /\ \A e \in Directions \ {d} : got'[s][e] = got[s][e]
         /\ \A t \in Sessions \ {s} : got'[t] = got[t]
         /\ Len(got'[s][d]) = Len(got[s][d]) + 1
         /\ Counted(s)'
<1> DEFINE g == got[s][d]
           x == Append(g, Len(g) + 1)
<1>1. g \in Seq(1 .. MaxFrames) /\ pushed[s][d] \in 0 .. MaxFrames /\ MaxFrames \in Nat
  BY WebsocketAssumption DEF StreamType, WebsocketAssumption
<1>2. Len(g) \in Nat /\ Len(g) + 1 \in 1 .. MaxFrames  BY <1>1
<1> HIDE DEF g
<1>3. /\ x \in Seq(1 .. MaxFrames) /\ Len(x) = Len(g) + 1 /\ x[Len(g) + 1] = Len(g) + 1
      /\ \A i \in 1 .. Len(g) : x[i] = g[i]
  BY <1>1, <1>2, AppendProperties
<1> HIDE DEF x
<1>4. got' = [got EXCEPT ![s][d] = x]  BY DEF g, x
<1>5. got \in [Sessions -> [Directions -> Seq(1 .. MaxFrames)]]  BY DEF StreamType
<1>6. /\ got' \in [Sessions -> [Directions -> Seq(1 .. MaxFrames)]] /\ got'[s][d] = x
      /\ \A e \in Directions \ {d} : got'[s][e] = got[s][e]
      /\ \A t \in Sessions \ {s} : got'[t] = got[t]
  <2> DEFINE F == Seq(1 .. MaxFrames)
  <2>1. x \in F /\ got \in [Sessions -> [Directions -> F]]  BY <1>3, <1>5
  <2> HIDE DEF F
  <2>2. /\ got' \in [Sessions -> [Directions -> F]] /\ got'[s][d] = x
        /\ \A e \in Directions \ {d} : got'[s][e] = got[s][e]
        /\ \A t \in Sessions \ {s} : got'[t] = got[t]
    <3> DEFINE h == got[s]
    <3>1. h \in [Directions -> F]  BY <2>1
    <3>2. got' = [got EXCEPT ![s] = [h EXCEPT ![d] = x]]  BY <1>4
    <3> HIDE DEF h
    <3>3. /\ [h EXCEPT ![d] = x] \in [Directions -> F] /\ [h EXCEPT ![d] = x][d] = x
          /\ \A e \in Directions \ {d} : [h EXCEPT ![d] = x][e] = h[e]
      BY <2>1, <3>1
    <3> QED BY <2>1, <3>2, <3>3 DEF h
  <2> QED BY <2>2 DEF F
<1>7. \A i \in 1 .. Len(x) : x[i] = i
  <2>1. \A i \in 1 .. Len(g) : g[i] = i  BY DEF Counted, g
  <2>2. \A i \in 1 .. Len(x) : i \in 1 .. Len(g) \/ i = Len(g) + 1  BY <1>2, <1>3
  <2> QED BY <1>3, <2>1, <2>2
<1>8. Counted(s)'
  <2> SUFFICES ASSUME NEW e \in Directions
               PROVE  /\ Len(got'[s][e]) <= pushed[s][e]
                      /\ \A i \in 1 .. Len(got'[s][e]) : got'[s][e][i] = i
    BY DEF Counted
  <2>1. CASE e = d  BY <1>3, <1>6, <1>7, <2>1 DEF g
  <2>2. CASE e # d  BY <1>6, <2>2 DEF Counted
  <2> QED BY <2>1, <2>2
<1> QED BY <1>3, <1>6, <1>8 DEF g

LEMMA ParseStreams ==
  ASSUME Control, Streams, NEW s \in Sessions, Parse(s)
  PROVE  Streams'
<1> DEFINE k == Len(got[s][Up])
           n == pushed[s][Up]
           a == in[s]
           b == pipe[s][Up]
<1>1. /\ Len(a) >= Pieces /\ got' = [got EXCEPT ![s][Up] = Append(@, Leading(a))]
      /\ in' = [in EXCEPT ![s] = Drop(a, Pieces)]
      /\ UNCHANGED <<wsi, conn, out, pipe, incoming, pushed>>
  BY DEF Parse, Complete, sessionVars
<1>2. StreamType /\ Counted(s) /\ Upward(s) /\ Downward(s) /\ Begun  BY DEF Streams
<1>3. /\ a \in Seq(Unit) /\ b \in Seq(Unit) /\ k \in Nat /\ n \in Nat
      /\ UpUnits(s) \in Seq(Unit)
  BY <1>2, UnitsOfType, UpIsNotDown
<1>4. Pieces \in 0 .. Len(a)  BY <1>1, <1>3, PiecesPositive
<1>5. Orderly(a, k, n)  BY <1>2 DEF Upward
<1>6. Leading(a) = k + 1 /\ k + 1 <= n  BY <1>1, <1>3, <1>5, HeadFrame
<1>7. /\ got' \in [Sessions -> [Directions -> Seq(1 .. MaxFrames)]]
      /\ got'[s][Down] = got[s][Down] /\ Len(got'[s][Up]) = k + 1
      /\ \A t \in Sessions \ {s} : got'[t] = got[t]
      /\ Counted(s)'
  <2>1. got' = [got EXCEPT ![s][Up] = Append(@, Len(got[s][Up]) + 1)] /\ pushed' = pushed
    BY <1>1, <1>6
  <2> QED BY <1>2, <1>6, <2>1, UpIsNotDown, CountFrame
<1>8. Drop(a, Pieces) \in Seq(Unit)  BY <1>3, <1>4, DropType
<1>9. /\ in' \in [Sessions -> Seq(Unit)] /\ in'[s] = Drop(a, Pieces)
      /\ \A t \in Sessions \ {s} : in'[t] = in[t]
  BY <1>1, <1>2, <1>8 DEF StreamType
<1>10. StreamType'  BY <1>1, <1>2, <1>7, <1>9 DEF StreamType
<1>11. Begun'  BY <1>1, <1>2 DEF Begun
<1>12. Orderly(in'[s], k + 1, n)  BY <1>1, <1>3, <1>5, <1>9, HandleOrderly
<1>13. Connected(s) => Full(UpUnits(s)', k + 1, n)
  <2> SUFFICES ASSUME Connected(s) PROVE Full(UpUnits(s)', k + 1, n)
    OBVIOUS
  <2>1. Full(UpUnits(s), k, n)  BY <1>2 DEF Upward
  <2>2. UpUnits(s)' = Drop(UpUnits(s), Pieces)
    BY <1>1, <1>3, <1>4, <1>9, DropOfConcat DEF UpUnits
  <2>3. Len(UpUnits(s)) >= Pieces
    <3>1. UpUnits(s) = a \o b  BY DEF UpUnits
    <3> HIDE DEF a, b
    <3>2. Len(a \o b) = Len(a) + Len(b)  BY <1>3, ConcatProperties
    <3>3. Len(a) \in Nat /\ Len(b) \in Nat  BY <1>3
    <3> QED BY <1>4, <3>1, <3>2, <3>3
  <2> QED BY <1>3, <2>1, <2>2, <2>3, HandleFull
<1>14. Upward(s)'  BY <1>1, <1>7, <1>12, <1>13 DEF Upward, Connected
<1>15. Downward(s)'  BY <1>1, <1>2, <1>7 DEF Downward, DownUnits, Connected
<1> QED BY <1>1, <1>7, <1>9, <1>10, <1>11, <1>14, <1>15, OneFlows

\* The program at the other end takes a frame.
LEMMA HandleIncomingStreams ==
  ASSUME Control, Streams, NEW s \in Sessions, HandleIncoming(s)
  PROVE  Streams'
<1> DEFINE k == Len(got[s][Down])
           n == pushed[s][Down]
           a == incoming[s]
           b == pipe[s][Down] \o out[s]
<1>1. /\ Len(a) >= Pieces /\ got' = [got EXCEPT ![s][Down] = Append(@, Leading(a))]
      /\ incoming' = [incoming EXCEPT ![s] = Drop(a, Pieces)]
      /\ UNCHANGED <<wsi, conn, out, pipe, in, pushed>>
  BY DEF HandleIncoming, sessionVars
<1>2. StreamType /\ Counted(s) /\ Upward(s) /\ Downward(s) /\ Begun  BY DEF Streams
<1>3. /\ a \in Seq(Unit) /\ b \in Seq(Unit) /\ k \in Nat /\ n \in Nat
      /\ DownUnits(s) \in Seq(Unit) /\ DownUnits(s) = a \o b
  <2>1. pipe[s][Down] \in Seq(Unit) /\ out[s] \in Seq(Unit)  BY <1>2, UnitsOfType
  <2>2. b \in Seq(Unit)  BY <2>1, ConcatProperties
  <2> QED BY <1>2, <2>2, UnitsOfType, UpIsNotDown DEF DownUnits
<1>4. Pieces \in 0 .. Len(a)  BY <1>1, <1>3, PiecesPositive
<1>5. Orderly(DownUnits(s), k, n)  BY <1>2 DEF Downward
<1>6. Orderly(a, k, n)  BY <1>3, <1>5, PrefixOrderly
<1>7. Leading(a) = k + 1 /\ k + 1 <= n  BY <1>1, <1>3, <1>6, HeadFrame
<1>8. /\ got' \in [Sessions -> [Directions -> Seq(1 .. MaxFrames)]]
      /\ got'[s][Up] = got[s][Up] /\ Len(got'[s][Down]) = k + 1
      /\ \A t \in Sessions \ {s} : got'[t] = got[t]
      /\ Counted(s)'
  <2>1. got' = [got EXCEPT ![s][Down] = Append(@, Len(got[s][Down]) + 1)] /\ pushed' = pushed
    BY <1>1, <1>7
  <2> QED BY <1>2, <1>7, <2>1, UpIsNotDown, CountFrame
<1>9. Drop(a, Pieces) \in Seq(Unit)  BY <1>3, <1>4, DropType
<1>10. /\ incoming' \in [Sessions -> Seq(Unit)] /\ incoming'[s] = Drop(a, Pieces)
       /\ \A t \in Sessions \ {s} : incoming'[t] = incoming[t]
  BY <1>1, <1>2, <1>9 DEF StreamType
<1>11. StreamType'  BY <1>1, <1>2, <1>8, <1>10 DEF StreamType
<1>12. Begun'  BY <1>1, <1>2 DEF Begun
<1>13. DownUnits(s)' = Drop(DownUnits(s), Pieces)
  <2>1. DownUnits(s)' = Drop(a, Pieces) \o b  BY <1>1, <1>10 DEF DownUnits
  <2> HIDE DEF a, b
  <2>2. Drop(a, Pieces) \o b = Drop(a \o b, Pieces)  BY <1>3, <1>4, DropOfConcat
  <2> QED BY <1>3, <2>1, <2>2
<1>14. Len(DownUnits(s)) >= Pieces
  <2> HIDE DEF a, b
  <2>1. Len(DownUnits(s)) = Len(a) + Len(b)  BY <1>3, ConcatProperties
  <2>2. Len(a) \in Nat /\ Len(b) \in Nat  BY <1>3
  <2> QED BY <1>4, <2>1, <2>2
<1>15. Orderly(DownUnits(s)', k + 1, n)
  BY <1>3, <1>5, <1>13, <1>14, HandleOrderly
<1>16. Connected(s) => Full(DownUnits(s)', k + 1, n)
  BY <1>2, <1>3, <1>13, <1>14, HandleFull DEF Downward
<1>17. Downward(s)'  BY <1>1, <1>8, <1>15, <1>16 DEF Downward, Connected
<1>18. Upward(s)'  BY <1>1, <1>2, <1>8 DEF Upward, UpUnits, Connected
<1> QED BY <1>1, <1>8, <1>10, <1>11, <1>12, <1>17, <1>18, OneFlows

LEMMA OnMessageStreams ==
  ASSUME Control, Streams, NEW s \in Sessions, OnMessage(s)
  PROVE  Streams'
<1>1. /\ incoming' = [incoming EXCEPT ![s] = @ \o pipe[s][Down]]
      /\ pipe' = [pipe EXCEPT ![s][Down] = <<>>]
      /\ UNCHANGED <<wsi, conn, out, in, pushed, got>>
  BY DEF OnMessage, sessionVars
<1>2. StreamType /\ Counted(s) /\ Upward(s) /\ Downward(s) /\ Begun  BY DEF Streams
<1>3. incoming[s] \in Seq(Unit) /\ pipe[s][Down] \in Seq(Unit) /\ out[s] \in Seq(Unit)
  BY <1>2, UnitsOfType
<1>4. incoming[s] \o pipe[s][Down] \in Seq(Unit)  BY <1>3, ConcatUnits
<1>5. /\ pipe' \in [Sessions -> [Directions -> Seq(Unit)]]
      /\ pipe'[s][Down] = <<>> /\ pipe'[s][Up] = pipe[s][Up]
      /\ \A t \in Sessions \ {s} : pipe'[t] = pipe[t]
  <2>1. pipe \in [Sessions -> [Directions -> Seq(Unit)]]  BY <1>2 DEF StreamType
  <2>2. <<>> \in Seq(Unit)  OBVIOUS
  <2> QED BY <1>1, <2>1, <2>2, UpIsNotDown, DirectionsApart
<1>6. /\ incoming' \in [Sessions -> Seq(Unit)]
      /\ incoming'[s] = incoming[s] \o pipe[s][Down]
      /\ \A t \in Sessions \ {s} : incoming'[t] = incoming[t]
  BY <1>1, <1>2, <1>4 DEF StreamType
<1>7. StreamType'  BY <1>1, <1>2, <1>5, <1>6 DEF StreamType
<1>8. Begun'  BY <1>1, <1>2 DEF Begun
<1>9. DownUnits(s)' = DownUnits(s)
  <2>1. PICK a \in Seq(Unit), b \in Seq(Unit), c \in Seq(Unit) :
          a = incoming[s] /\ b = pipe[s][Down] /\ c = out[s]
    BY <1>3
  <2>2. DownUnits(s) = a \o (b \o c) /\ DownUnits(s)' = (a \o b) \o (<<>> \o c)
    BY <1>1, <1>5, <1>6, <2>1 DEF DownUnits
  <2>3. <<>> \o c = c  BY ConcatEmptySeq
  <2> QED BY <2>2, <2>3, ConcatUnits
<1>10. Counted(s)' /\ Upward(s)' /\ Downward(s)'
  BY <1>1, <1>2, <1>5, <1>9 DEF Counted, Upward, Downward, UpUnits, Connected
<1> QED BY <1>1, <1>5, <1>6, <1>7, <1>8, <1>10, OneFlows

LEMMA SendStreams ==
  ASSUME Control, Streams, NEW s \in Sessions, Send(s)
  PROVE  Streams'
<1> DEFINE k == Len(got[s][Up])
           n == pushed[s][Up]
           a == in[s]
           b == pipe[s][Up]
           u == Units(n + 1)
<1>1. /\ wsi[s] = "open" /\ More(s)
      /\ pushed' = [pushed EXCEPT ![s][Up] = n + 1]
      /\ pipe' = [pipe EXCEPT ![s][Up] = b \o u]
      /\ UNCHANGED <<wsi, conn, out, in, incoming, got>>
  BY DEF Send, sessionVars
<1>2. StreamType /\ Counted(s) /\ Upward(s) /\ Downward(s) /\ Begun  BY DEF Streams
<1>3. /\ a \in Seq(Unit) /\ b \in Seq(Unit) /\ k \in Nat /\ n \in Nat
      /\ UpUnits(s) \in Seq(Unit)
  BY <1>2, UnitsOfType, UpIsNotDown
<1>4. u \in Seq(Unit) /\ n + 1 \in Nat /\ n + 1 \in 0 .. MaxFrames
  <2>1. n < MaxFrames  BY <1>1, <1>2, MoreRoom, UpIsNotDown
  <2> QED BY SMTT(30), <1>3, <2>1, UnitsType, WebsocketAssumption DEF WebsocketAssumption
<1>5. b \o u \in Seq(Unit)  BY <1>3, <1>4, ConcatUnits
<1> HIDE DEF u
<1>6. /\ pipe' \in [Sessions -> [Directions -> Seq(Unit)]]
      /\ pipe'[s][Up] = b \o u /\ pipe'[s][Down] = pipe[s][Down]
      /\ \A t \in Sessions \ {s} : pipe'[t] = pipe[t]
  <2>1. pipe \in [Sessions -> [Directions -> Seq(Unit)]]  BY <1>2 DEF StreamType
  <2> QED BY <1>1, <1>5, <2>1, UpIsNotDown, DirectionsApart
<1>7. /\ pushed' \in [Sessions -> [Directions -> 0 .. MaxFrames]]
      /\ pushed'[s][Up] = n + 1 /\ pushed'[s][Down] = pushed[s][Down]
      /\ \A t \in Sessions \ {s} : pushed'[t] = pushed[t]
  <2>1. pushed \in [Sessions -> [Directions -> 0 .. MaxFrames]]  BY <1>2 DEF StreamType
  <2> QED BY <1>1, <1>4, <2>1, UpIsNotDown
<1>8. StreamType'  BY <1>1, <1>2, <1>6, <1>7 DEF StreamType
<1>9. Begun'  BY <1>1, <1>2 DEF Begun
<1>10. Counted(s)'
  <2>1. \A d \in Directions :
          /\ pushed[s][d] \in Nat /\ pushed'[s][d] \in Nat /\ Len(got[s][d]) \in Nat
          /\ pushed[s][d] <= pushed'[s][d]
    BY <1>2, <1>3, <1>4, <1>7, UnitsOfType DEF Directions
  <2> QED BY <1>1, <1>2, <2>1 DEF Counted
<1>11. Connected(s) => Full(UpUnits(s)', k, n + 1)
  <2> SUFFICES ASSUME Connected(s) PROVE Full(UpUnits(s)', k, n + 1)
    OBVIOUS
  <2>1. Full(UpUnits(s), k, n)  BY <1>2 DEF Upward
  <2>2. k <= n  BY <1>2, UpIsNotDown DEF Counted
  <2>3. UpUnits(s)' = UpUnits(s) \o u
    <3>1. UpUnits(s)' = a \o (b \o u) /\ UpUnits(s) = a \o b
      BY <1>1, <1>6 DEF UpUnits
    <3> HIDE DEF a, b, u
    <3>2. (a \o b) \o u = a \o (b \o u)  BY <1>3, <1>4, Associative, ZenonT(60)
    <3> QED BY <3>1, <3>2
  <2> QED BY <1>3, <2>1, <2>2, <2>3, PushFull DEF u
<1>12. Orderly(a, k, n + 1)
  BY <1>2, <1>3, LaterOrderly DEF Upward
<1>13. Upward(s)'  BY <1>1, <1>7, <1>11, <1>12 DEF Upward, Connected
<1>14. Downward(s)'  BY <1>1, <1>2, <1>6, <1>7 DEF Downward, DownUnits, Connected
<1> QED BY <1>1, <1>6, <1>7, <1>8, <1>9, <1>10, <1>13, <1>14, OneFlows

LEMMA EmptyOrderly ==
  ASSUME NEW k \in Nat, NEW n \in Nat, k <= n
  PROVE  Orderly(<<>>, k, n)
<1>1. (n - k) * Pieces \in Nat  BY PiecesPositive
<1>2. Len(<<>>) = 0 /\ Runs(<<>>, k)  BY DEF Runs
<1> QED BY <1>1, <1>2 DEF Orderly

\* The buffers of the clients without a connection go.
LEMMA CleanupStreams ==
  ASSUME Control, Streams, Cleanup
  PROVE  Streams'
<1>1. /\ conn' = [s \in Sessions |-> IF conn[s] = "null" THEN "removed" ELSE conn[s]]
      /\ out' = [s \in Sessions |-> IF conn[s] = "null" THEN <<>> ELSE out[s]]
      /\ in' = [s \in Sessions |-> IF conn[s] = "null" THEN <<>> ELSE in[s]]
      /\ UNCHANGED <<wsi, pipe, incoming, pushed, got>>
  BY DEF Cleanup
<1>2. StreamType /\ Begun  BY DEF Streams
<1>3. ASSUME NEW s \in Sessions
      PROVE  /\ in'[s] \in Seq(Unit) /\ out'[s] \in Seq(Unit)
             /\ Counted(s)' /\ Upward(s)' /\ Downward(s)'
  <2>1. Counted(s) /\ Upward(s) /\ Downward(s)  BY DEF Streams
  <2>2. /\ in[s] \in Seq(Unit) /\ out[s] \in Seq(Unit) /\ incoming[s] \in Seq(Unit)
        /\ pipe[s][Down] \in Seq(Unit)
    BY <1>2, UnitsOfType
  <2>3. CASE conn[s] # "null"
    <3>1. in'[s] = in[s] /\ out'[s] = out[s] /\ conn'[s] = conn[s]  BY <1>1, <2>3
    <3> QED BY <1>1, <2>1, <2>2, <3>1, StillFlows DEF Connected
  <2>4. CASE conn[s] = "null"
    <3>1. in'[s] = <<>> /\ out'[s] = <<>> /\ ~Connected(s)'
      BY <1>1, <2>4 DEF Connected
    <3>2. /\ Len(got[s][Up]) \in Nat /\ pushed[s][Up] \in Nat
          /\ Len(got[s][Down]) \in Nat /\ pushed[s][Down] \in Nat
          /\ Len(got[s][Up]) <= pushed[s][Up]
      BY <1>2, <2>1, UnitsOfType, UpIsNotDown DEF Counted
    <3>3. Upward(s)'  BY <1>1, <3>1, <3>2, EmptyOrderly DEF Upward
    <3>4. Downward(s)'
      <4>1. PICK a \in Seq(Unit), b \in Seq(Unit), c \in Seq(Unit) :
              a = incoming[s] /\ b = pipe[s][Down] /\ c = out[s]
        BY <2>2
      <4>2. DownUnits(s) = a \o (b \o c) /\ DownUnits(s)' = a \o (b \o <<>>)
        BY <1>1, <3>1, <4>1 DEF DownUnits
      <4>3. a \o (b \o <<>>) = a \o b  BY ConcatEmptySeq
      <4>4. a \o (b \o c) = (a \o b) \o c /\ a \o b \in Seq(Unit)  BY SMTT(30), ConcatUnits
      <4>5. Orderly((a \o b) \o c, Len(got[s][Down]), pushed[s][Down])
        BY <2>1, <4>2, <4>4 DEF Downward
      <4>6. Orderly(a \o b, Len(got[s][Down]), pushed[s][Down])
        BY <3>2, <4>4, <4>5, PrefixOrderly
      <4> QED BY <1>1, <3>1, <4>2, <4>3, <4>6 DEF Downward
    <3>5. Counted(s)'  BY <1>1, <2>1 DEF Counted
    <3>6. <<>> \in Seq(Unit)  OBVIOUS
    <3> QED BY <3>1, <3>3, <3>4, <3>5, <3>6
  <2> QED BY <2>3, <2>4
<1>4. in' \in [Sessions -> Seq(Unit)] /\ out' \in [Sessions -> Seq(Unit)]
  BY <1>1, <1>3
<1>5. StreamType'  BY <1>1, <1>2, <1>4 DEF StreamType
<1>6. Begun'  BY <1>1, <1>2 DEF Begun
<1> QED BY <1>3, <1>5, <1>6 DEF Streams

LEMMA NextStreams == Control /\ Streams /\ [Next]_vars => Streams'
<1> SUFFICES ASSUME Control, Streams, [Next]_vars PROVE Streams'
  OBVIOUS
<1>1. Begun  BY DEF Streams
<1>2. ASSUME UNCHANGED <<wsi, conn, dataVars>> PROVE Streams'
  <2>1. Begun' /\ \A s \in Sessions : Connected(s)' => Connected(s)
    BY <1>1, <1>2 DEF Begun, Connected
  <2> QED BY <1>2, <2>1, IdleStreams
<1>3. CASE UNCHANGED vars \/ Ended \/ Serviced \/ Parsed \/ Destroy
  BY <1>2, <1>3 DEF vars, sessionVars, Ended, Serviced, Parsed, Destroy
<1>4. CASE Destroyed
  <2>1. /\ \A s \in Sessions : conn'[s] = IF conn[s] = "none" THEN "none" ELSE "removed"
        /\ UNCHANGED <<wsi, dataVars>>
    BY <1>4 DEF Destroyed
  <2>2. Begun' /\ \A s \in Sessions : Connected(s)' => Connected(s)
    BY <1>1, <2>1 DEF Begun, Connected
  <2> QED BY <2>1, <2>2, IdleStreams
<1>5. ASSUME NEW s \in Sessions, Established(s) PROVE Streams'
  <2>1. /\ wsi[s] = "none" /\ wsi' = [wsi EXCEPT ![s] = "open"]
        /\ conn' = [conn EXCEPT ![s] = "linked"] /\ UNCHANGED dataVars
    BY <1>5 DEF Established
  <2>2. \A t \in Sessions : /\ wsi'[t] = IF t = s THEN "open" ELSE wsi[t]
                            /\ conn'[t] = IF t = s THEN "linked" ELSE conn[t]
    BY <2>1 DEF Control, SessionType
  <2>3. Begun' /\ \A t \in Sessions : Connected(t)' => Connected(t)
    BY <1>1, <2>1, <2>2 DEF Begun, Connected
  <2> QED BY <2>1, <2>3, IdleStreams
<1>6. ASSUME NEW s \in Sessions, PeerGone(s) \/ Dismiss(s) PROVE Streams'
  <2>1. /\ wsi[s] # "none" /\ conn[s] # "none" /\ UNCHANGED dataVars
        /\ \A t \in Sessions : /\ t # s => wsi'[t] = wsi[t] /\ conn'[t] = conn[t]
                               /\ wsi'[t] # wsi[t] => wsi'[t] = "closing"
                               /\ conn'[t] # conn[t] => conn'[t] = "null"
    <3>1. CASE PeerGone(s)
      BY <1>1, <3>1 DEF PeerGone, Serving, Refuse, Begun, Control, SessionType
    <3>2. CASE Dismiss(s)
      BY <1>1, <3>2 DEF Dismiss, Close, Begun, Control, SessionType
    <3> QED BY <1>6, <3>1, <3>2
  <2>2. Begun' /\ \A t \in Sessions : Connected(t)' => Connected(t)
    BY <1>1, <2>1 DEF Begun, Connected
  <2> QED BY <2>1, <2>2, IdleStreams
<1>7. ASSUME NEW s \in Sessions, Peer(s) PROVE Streams'
  <2>1. CASE Open(s) \/ Leave(s)
    BY <1>2, <2>1 DEF Open, Leave, sessionVars
  <2> QED BY <1>7, <2>1, SendStreams, OnMessageStreams, HandleIncomingStreams DEF Peer
<1>8. ASSUME NEW s \in Sessions, Callback(s) PROVE Streams'
  BY <1>6, <1>8, ReceiveStreams, WriteableStreams, ClosedStreams DEF Callback
<1>9. CASE Pass
  BY <1>3, <1>9, PrepareStreams, ParseStreams, CleanupStreams DEF Pass
<1> QED BY <1>3, <1>4, <1>5, <1>6, <1>7, <1>8, <1>9 DEF Next

\* The units of every session, either way: what was pushed is what came out, what is in
\* the pipe and what is still to be written, in that order and cut nowhere but in chunks.
THEOREM StreamsFlow == Safe => []Streams
<1>1. Control /\ Streams /\ [Next]_vars => Streams'  BY NextStreams
<1> QED BY <1>1, InitStreams, SessionsControlled, PTL DEF Safe

-----------------------------------------------------------------------------
(* What a step does to one direction of a session.                         *)

Lost(s) == \/ conn[s] \in {"null", "removed"} \/ peer[s] = "left"
           \/ phase \in {"destroy", "ended"}

Quiet(s, d) == pushed'[s][d] = pushed[s][d] /\ got'[s][d] = got[s][d] /\ (Lost(s) => Lost(s)')
Pushes(s, d) == /\ pushed'[s][d] = pushed[s][d] + 1 /\ got'[s][d] = got[s][d]
                /\ Lost(s)' <=> Lost(s)
Pops(s, d) == /\ pushed'[s][d] = pushed[s][d]
              /\ \E n : got'[s][d] = Append(got[s][d], n)
              /\ Lost(s)' <=> Lost(s)

LEMMA StreamStep ==
  ASSUME Control, Streams, [Next]_vars, NEW s \in Sessions, NEW d \in Directions
  PROVE  Quiet(s, d) \/ Pushes(s, d) \/ Pops(s, d)
<1>1. StreamType /\ Begun  BY DEF Streams
<1>2. CASE PrepareOut
  <2>1. PICK targets \in SUBSET {t \in Linked \cap Talkers : More(t)} :
          pushed' = [t \in Sessions |->
                      [pushed[t] EXCEPT ![Down] = @ + (IF t \in targets THEN 1 ELSE 0)]]
    BY <1>2 DEF PrepareOut
  <2>2. UNCHANGED <<conn, peer, got>> /\ phase = "out" /\ phase' = "service"
    BY <1>2 DEF PrepareOut
  <2>3. Lost(s)' <=> Lost(s)  BY <2>2 DEF Lost
  <2>4. pushed'[s][d] = pushed[s][d] \/ pushed'[s][d] = pushed[s][d] + 1
    <3>1. pushed'[s] = [pushed[s] EXCEPT ![Down] = @ + (IF s \in targets THEN 1 ELSE 0)]
      BY <2>1
    <3>2. pushed[s] \in [Directions -> 0 .. MaxFrames] /\ pushed[s][d] \in Nat
      BY <1>1, UnitsOfType DEF StreamType
    <3> QED BY <3>1, <3>2
  <2> QED BY <2>2, <2>3, <2>4 DEF Quiet, Pushes
<1>3. CASE UNCHANGED <<pushed, got>> /\ (Lost(s) => Lost(s)')
  BY <1>3 DEF Quiet
<1>4. CASE UNCHANGED vars \/ Ended \/ Serviced \/ Parsed \/ Destroy \/ Destroyed \/ Cleanup
  <2>1. UNCHANGED <<pushed, got>>
    BY <1>4 DEF vars, dataVars, Ended, Serviced, Parsed, Destroy, Destroyed, Cleanup
  <2>2. Lost(s) => Lost(s)'
    BY <1>4 DEF Lost, vars, sessionVars, Ended, Serviced, Parsed, Destroy, Destroyed, Cleanup
  <2> QED BY <1>3, <2>1, <2>2
<1>5. ASSUME NEW t \in Sessions, Parse(t) \/ HandleIncoming(t)
      PROVE  Quiet(s, d) \/ Pops(s, d)
  <2>1. UNCHANGED <<pushed, conn, peer, phase>>
    BY <1>5 DEF Parse, HandleIncoming, sessionVars
  <2>2. Lost(s)' <=> Lost(s)  BY <2>1 DEF Lost
  <2>3. PICK e, n : e \in Directions /\ got' = [got EXCEPT ![t][e] = Append(@, n)]
    <3>1. CASE Parse(t)
      BY <3>1, UpIsNotDown DEF Parse
    <3>2. CASE HandleIncoming(t)
      BY <3>2, UpIsNotDown DEF HandleIncoming
    <3> QED BY <1>5, <3>1, <3>2
  <2>4. got'[s][d] = got[s][d] \/ got'[s][d] = Append(got[s][d], n)
    BY <1>1, <2>3 DEF StreamType
  <2> QED BY <2>1, <2>2, <2>4 DEF Quiet, Pops
<1>6. ASSUME NEW t \in Sessions, Send(t)
      PROVE  Quiet(s, d) \/ Pushes(s, d)
  <2>1. UNCHANGED <<got, conn, peer, phase>> /\ pushed' = [pushed EXCEPT ![t][Up] = @ + 1]
    BY <1>6 DEF Send, sessionVars
  <2>2. Lost(s)' <=> Lost(s)  BY <2>1 DEF Lost
  <2>3. pushed'[s][d] = pushed[s][d] \/ pushed'[s][d] = pushed[s][d] + 1
    BY <1>1, <2>1 DEF StreamType
  <2> QED BY <2>1, <2>2, <2>3 DEF Quiet, Pushes
<1>7. ASSUME NEW t \in Sessions, Established(t) \/ Callback(t) \/ Dismiss(t)
      PROVE  Quiet(s, d)
  <2>1. UNCHANGED <<pushed, got, peer, phase>>
    BY <1>7 DEF Established, Callback, Receive, Writeable, SendPart, PeerGone, Closed,
                Dismiss, dataVars
  <2>2. conn[s] \in {"null", "removed"} => conn'[s] \in {"null", "removed"}
    <3>1. CASE Established(t)
      <4>1. wsi[t] = "none" /\ conn' = [conn EXCEPT ![t] = "linked"]
        BY <3>1 DEF Established
      <4> QED BY <1>1, <4>1 DEF Begun, Control, SessionType
    <3>2. CASE Callback(t) \/ Dismiss(t)
      <4>1. conn' = conn \/ \E c : conn' = [conn EXCEPT ![t] = c]
                                   /\ c \in {"null", conn[t]}
        BY <3>2 DEF Callback, Receive, Writeable, SendPart, PeerGone, Closed, Dismiss, Close
      <4> QED BY <4>1 DEF Control, SessionType
    <3> QED BY <1>7, <3>1, <3>2
  <2> QED BY <2>1, <2>2 DEF Quiet, Lost
<1>8. ASSUME NEW t \in Sessions, Open(t) \/ Leave(t) \/ OnMessage(t)
      PROVE  Quiet(s, d)
  <2>1. UNCHANGED <<pushed, got, conn, phase>>
    BY <1>8 DEF Open, Leave, OnMessage, sessionVars, dataVars
  <2>2. peer[s] = "left" => peer'[s] = "left"
    BY <1>8 DEF Open, Leave, OnMessage, Control, SessionType
  <2> QED BY <2>1, <2>2 DEF Quiet, Lost
<1> QED BY <1>2, <1>4, <1>5, <1>6, <1>7, <1>8 DEF Next, Pass, Peer

-----------------------------------------------------------------------------
(* The frames whose length is misread.                                     *)

\* The length MBusClient.js announces is that of the frame below 4 MiB, and more than it
\* from there on: the broker waits for what does not come, and takes the frames behind for
\* a part of this one.
THEOREM LongFramesMisread ==
  ASSUME NEW n \in Nat, n < 536870912
  PROVE  Announced(n) >= n /\ (Announced(n) = n <=> n < 4194304)
<1>1. n \div 4194304 < 128 /\ n \div 4194304 \in Nat  BY SMT
<1>2. (n \div 4194304) % 256 = n \div 4194304  BY SMT, <1>1
<1>3. Announced(n) = 16777216 * (n \div 4194304) + (n % 16777216)
  BY SMT, <1>2 DEF Announced
<1> QED BY SMT, <1>1, <1>3

\* The first frame whose length is misread was sent, and does not come out.
Unread ==
  /\ misread \in [Sessions -> 0 .. MaxFrames]
  /\ \A s \in Sessions : misread[s] # 0 => /\ Len(got[s][Up]) < misread[s]
                                          /\ misread[s] <= pushed[s][Up]

LEMMA InitUnread == Init => Unread
<1> SUFFICES ASSUME Init PROVE Unread
  OBVIOUS
<1>1. misread = [s \in Sessions |-> 0] /\ 0 \in 0 .. MaxFrames
  BY WebsocketAssumption DEF Init, WebsocketAssumption
<1> QED BY <1>1 DEF Unread

\* A frame is misread when it is sent, if none was before.
LEMMA MisreadStep ==
  ASSUME Streams, Unread, [Next]_vars, NEW s \in Sessions
  PROVE  \/ misread'[s] = misread[s]
         \/ /\ misread[s] = 0 /\ misread'[s] = pushed[s][Up] + 1
            /\ pushed'[s][Up] = pushed[s][Up] + 1
<1>1. StreamType  BY DEF Streams
<1>2. CASE misread' = misread
  BY <1>2
<1>3. ASSUME NEW t \in Sessions, Send(t)
      PROVE  \/ misread'[s] = misread[s]
             \/ /\ misread[s] = 0 /\ misread'[s] = pushed[s][Up] + 1
                /\ pushed'[s][Up] = pushed[s][Up] + 1
  <2>1. PICK n \in Lengths :
          misread' = [misread EXCEPT ![t] = IF @ = 0 /\ Announced(n) # n
                                            THEN pushed[t][Up] + 1 ELSE @]
    BY <1>3 DEF Send
  <2>2. pushed' = [pushed EXCEPT ![t][Up] = @ + 1]  BY <1>3 DEF Send
  <2>3. CASE s = t
    <3>1. pushed'[s][Up] = pushed[s][Up] + 1
      BY <1>1, <2>2, <2>3, UpIsNotDown DEF StreamType
    <3> QED BY <2>1, <2>3, <3>1 DEF Unread
  <2>4. CASE s # t  BY <2>1, <2>4 DEF Unread
  <2> QED BY <2>3, <2>4
<1>4. CASE UNCHANGED vars \/ Ended \/ Serviced \/ Parsed \/ Destroy \/ Destroyed \/ Cleanup
           \/ PrepareOut
  BY <1>2, <1>4 DEF vars, dataVars, Ended, Serviced, Parsed, Destroy, Destroyed, Cleanup,
                    PrepareOut
<1>5. ASSUME NEW t \in Sessions,
             Established(t) \/ Callback(t) \/ Dismiss(t) \/ Parse(t) \/ HandleIncoming(t)
               \/ Open(t) \/ Leave(t) \/ OnMessage(t)
      PROVE  misread' = misread
  BY <1>5 DEF Established, Callback, Receive, Writeable, SendPart, PeerGone, Closed, Dismiss,
              Parse, HandleIncoming, Open, Leave, OnMessage, dataVars
<1> QED BY <1>2, <1>3, <1>4, <1>5 DEF Next, Pass, Peer

\* A frame that comes out from s is not the one whose length is misread.
LEMMA NotMisread ==
  ASSUME Streams, Streams', [Next]_vars, NEW s \in Sessions
  PROVE  \/ got'[s][Up] = got[s][Up]
         \/ /\ Len(got'[s][Up]) = Len(got[s][Up]) + 1
            /\ Len(got[s][Up]) + 1 # misread[s] /\ UNCHANGED <<pushed, misread>>
<1>1. StreamType  BY DEF Streams
<1>2. CASE got' = got
  BY <1>2
<1>3. CASE Parse(s)
  <2> DEFINE k == Len(got[s][Up])
             n == pushed[s][Up]
             a == in[s]
  <2>1. /\ Len(a) >= Pieces /\ a[1][1] # misread[s] /\ UNCHANGED <<pushed, misread>>
        /\ got' = [got EXCEPT ![s][Up] = Append(@, Leading(a))]
    BY <1>3 DEF Parse, Complete
  <2>2. a \in Seq(Unit) /\ k \in Nat /\ n \in Nat
    BY <1>1, UnitsOfType, UpIsNotDown
  <2>3. Orderly(a, k, n)  BY DEF Streams, Upward
  <2>4. Leading(a) = k + 1  BY <2>1, <2>2, <2>3, HeadFrame
  <2>5. k + 1 # 0  BY <2>2
  <2>6. a[1][1] = k + 1  BY <2>4, <2>5 DEF Leading
  <2>7. got'[s][Up] = Append(got[s][Up], k + 1) /\ Len(got'[s][Up]) = k + 1
    BY <1>1, <2>1, <2>4, UpIsNotDown DEF StreamType
  <2> QED BY <2>1, <2>6, <2>7
<1>4. ASSUME NEW t \in Sessions, (Parse(t) /\ t # s) \/ HandleIncoming(t)
      PROVE  got'[s][Up] = got[s][Up]
  BY <1>1, <1>4, UpIsNotDown DEF Parse, HandleIncoming, StreamType
<1>5. CASE UNCHANGED vars \/ Ended \/ Serviced \/ Parsed \/ Destroy \/ Destroyed \/ Cleanup
           \/ PrepareOut
  BY <1>2, <1>5 DEF vars, dataVars, Ended, Serviced, Parsed, Destroy, Destroyed, Cleanup,
                    PrepareOut
<1>6. ASSUME NEW t \in Sessions,
             Established(t) \/ Callback(t) \/ Dismiss(t) \/ Send(t)
               \/ Open(t) \/ Leave(t) \/ OnMessage(t)
      PROVE  got' = got
  BY <1>6 DEF Established, Callback, Receive, Writeable, SendPart, PeerGone, Closed, Dismiss,
              Send, Open, Leave, OnMessage, dataVars
<1> QED BY <1>2, <1>3, <1>4, <1>5, <1>6 DEF Next, Pass, Peer

LEMMA NextUnread ==
  ASSUME Control, Streams, Streams', Unread, [Next]_vars
  PROVE  Unread'
<1>1. StreamType /\ StreamType'  BY DEF Streams
<1>2. ASSUME NEW s \in Sessions
      PROVE  /\ misread'[s] \in 0 .. MaxFrames
             /\ misread'[s] # 0 => /\ Len(got'[s][Up]) < misread'[s]
                                   /\ misread'[s] <= pushed'[s][Up]
  <2>1. PICK k \in Nat, l \in Nat, n \in 0 .. MaxFrames, o \in 0 .. MaxFrames :
          k = Len(got[s][Up]) /\ l = Len(got'[s][Up]) /\ n = pushed[s][Up] /\ o = pushed'[s][Up]
    <3>1. got[s][Up] \in Seq(1 .. MaxFrames) /\ got'[s][Up] \in Seq(1 .. MaxFrames)
      BY <1>1, UpIsNotDown DEF StreamType
    <3> QED BY <1>1, <3>1, UpIsNotDown DEF StreamType
  <2>2. k <= n  BY <2>1, UpIsNotDown DEF Streams, Counted
  <2>3. n <= o
    <3>1. Quiet(s, Up) \/ Pushes(s, Up) \/ Pops(s, Up)  BY StreamStep, UpIsNotDown
    <3> QED BY <2>1, <3>1 DEF Quiet, Pushes, Pops
  <2>4. misread[s] \in 0 .. MaxFrames /\ (misread[s] # 0 => k < misread[s] /\ misread[s] <= n)
    BY <2>1 DEF Unread
  <2>5. \/ misread'[s] = misread[s]
        \/ misread[s] = 0 /\ misread'[s] = n + 1 /\ o = n + 1
    BY <2>1, MisreadStep
  <2>6. l = k \/ (l = k + 1 /\ l # misread[s] /\ misread'[s] = misread[s])
    BY <2>1, NotMisread
  <2>7. PICK m \in 0 .. MaxFrames : m = misread[s]  BY <2>4
  <2>8. CASE misread'[s] = misread[s]
    BY <2>1, <2>2, <2>3, <2>4, <2>6, <2>7, <2>8
  <2>9. CASE misread[s] = 0 /\ misread'[s] = n + 1 /\ o = n + 1
    <3>1. l = k  BY <2>1, <2>6, <2>9
    <3> QED BY <2>1, <2>2, <2>9, <3>1
  <2> QED BY <2>5, <2>8, <2>9
<1>3. misread' \in [Sessions -> 0 .. MaxFrames]
  <2>1. \/ misread' = misread
        \/ \E t \in Sessions : \E m : misread' = [misread EXCEPT ![t] = m]
    <3>1. ASSUME NEW t \in Sessions, Send(t)
          PROVE  \E m : misread' = [misread EXCEPT ![t] = m]
      BY <3>1 DEF Send
    <3>2. CASE UNCHANGED vars \/ Ended \/ Serviced \/ Parsed \/ Destroy \/ Destroyed \/ Cleanup
               \/ PrepareOut
      BY <3>2 DEF vars, dataVars, Ended, Serviced, Parsed, Destroy, Destroyed, Cleanup,
                  PrepareOut
    <3>3. ASSUME NEW t \in Sessions,
                 Established(t) \/ Callback(t) \/ Dismiss(t) \/ Parse(t) \/ HandleIncoming(t)
                   \/ Open(t) \/ Leave(t) \/ OnMessage(t)
          PROVE  misread' = misread
      BY <3>3 DEF Established, Callback, Receive, Writeable, SendPart, PeerGone, Closed,
                  Dismiss, Parse, HandleIncoming, Open, Leave, OnMessage, dataVars
    <3> QED BY <3>1, <3>2, <3>3 DEF Next, Pass, Peer
  <2> QED BY <1>2, <2>1 DEF Unread
<1> QED BY <1>2, <1>3 DEF Unread

\* Once a length was misread nothing comes out that was sent behind it, or that frame.
THEOREM MisreadStays == Safe => []Unread
<1>1. Control /\ Streams /\ Streams' /\ Unread /\ [Next]_vars => Unread'  BY NextUnread
<1> QED BY <1>1, InitUnread, SessionsControlled, StreamsFlow, PTL DEF Safe

\* The variables keep their types, the numbers of the frames that come out among them:
\* no frame that comes out is made of the units of two, or of none that was pushed.
THEOREM SessionsTyped == Safe => []TypeOK
<1>1. Control /\ Streams /\ Unread => TypeOK
  BY DEF Control, SessionType, Streams, StreamType, Unread, TypeOK, Entry
<1> QED BY <1>1, SessionsControlled, StreamsFlow, MisreadStays, PTL

-----------------------------------------------------------------------------
(* Each direction implements MbusFifo.                                     *)

\* The numbers of the frames pushed, as a sequence.
Numbers(n) == [i \in 1 .. n |-> i]

LEMMA NumbersGrow ==
  ASSUME NEW n \in Nat
  PROVE  /\ Len(Numbers(n)) = n /\ Numbers(n + 1) = Append(Numbers(n), n + 1)
         /\ \A i \in 1 .. n : Numbers(n)[i] = i
<1>1. Numbers(n) \in Seq(Nat) /\ Len(Numbers(n)) = n /\ \A i \in 1 .. n : Numbers(n)[i] = i
  BY DEF Numbers
<1>2. /\ Numbers(n + 1) \in Seq(Nat) /\ Len(Numbers(n + 1)) = n + 1
      /\ \A i \in 1 .. n + 1 : Numbers(n + 1)[i] = i
  BY DEF Numbers
<1> DEFINE a == Append(Numbers(n), n + 1)
<1>3. /\ a \in Seq(Nat) /\ Len(a) = n + 1 /\ a[n + 1] = n + 1
      /\ \A i \in 1 .. n : a[i] = Numbers(n)[i]
  BY <1>1, AppendProperties
<1> HIDE DEF a
<1>4. \A i \in 1 .. n + 1 : i \in 1 .. n \/ i = n + 1  OBVIOUS
<1>5. \A i \in 1 .. Len(a) : a[i] = Numbers(n + 1)[i]  BY <1>1, <1>2, <1>3, <1>4
<1>6. a = Numbers(n + 1)  BY <1>2, <1>3, <1>5, SeqEqual
<1> QED BY <1>1, <1>6 DEF a

\* A frame comes out: it is the next of those pushed.
LEMMA PopsNext ==
  ASSUME StreamType, StreamType', NEW s \in Sessions, NEW d \in Directions,
         Counted(s)', Pops(s, d), NEW n \in Nat, Len(got'[s][d]) <= n
  PROVE  /\ Len(got[s][d]) < Len(Numbers(n))
         /\ got'[s][d] = Append(got[s][d], Numbers(n)[Len(got[s][d]) + 1])
<1>1. PICK x : got'[s][d] = Append(got[s][d], x)  BY DEF Pops
<1>2. PICK g \in Seq(1 .. MaxFrames), h \in Seq(1 .. MaxFrames) :
        g = got[s][d] /\ h = got'[s][d]
  BY DEF StreamType
<1>3. h = Append(g, x) /\ Len(g) \in Nat  BY <1>1, <1>2
<1>4. Len(h) = Len(g) + 1 /\ h[Len(g) + 1] = x  BY <1>3
<1>5. Len(h) <= n /\ \A i \in 1 .. Len(h) : h[i] = i
  BY <1>2 DEF Counted, Pops
<1>6. Len(g) + 1 \in 1 .. Len(h)  BY <1>3, <1>4
<1>7. x = Len(g) + 1 /\ Len(g) + 1 \in 1 .. n  BY <1>3, <1>4, <1>5, <1>6
<1>8. Numbers(n)[Len(g) + 1] = Len(g) + 1 /\ Len(Numbers(n)) = n
  BY <1>7, NumbersGrow
<1>9. Len(g) < n  BY <1>3, <1>7
<1> QED BY <1>2, <1>3, <1>7, <1>8, <1>9

LEMMA WatchedIsOne == Sessions # {} => Watched \in Sessions
BY LeastExists, WebsocketAssumption DEF Watched, WebsocketAssumption

LEMMA BrokenIsLost == (Broken = Lost(Watched)) /\ (Broken' = Lost(Watched)')
BY DEF Broken, Lost

\* What the program at the other end sends is taken by the broker in that order, without
\* a gap up to a frame whose length is misread, while their connection lasts.
LEMMA UpStreamStep ==
  ASSUME Control, Streams, Streams', Unread, Unread', [Next]_vars, Watched \in Sessions
  PROVE  [UpStream!Next]_UpStream!vars
<1>1. StreamType /\ StreamType' /\ Counted(Watched)'  BY DEF Streams, Watched
<1>2. PICK s \in Sessions : s = Watched  OBVIOUS
<1>3. PICK n \in Nat, o \in 0 .. MaxFrames, m \in 0 .. MaxFrames, l \in 0 .. MaxFrames :
        n = pushed[s][Up] /\ o = pushed'[s][Up] /\ m = misread[s] /\ l = misread'[s]
  <2>1. pushed[s][Up] \in Nat /\ pushed'[s][Up] \in 0 .. MaxFrames
    BY <1>1, UnitsOfType, UpIsNotDown DEF StreamType
  <2>2. misread[s] \in 0 .. MaxFrames /\ misread'[s] \in 0 .. MaxFrames  BY DEF Unread
  <2> QED BY <2>1, <2>2
<1>4. PICK a \in Nat, b \in Nat :
        /\ a = (IF m = 0 THEN n ELSE m - 1) /\ a = Readable(s)
        /\ b = (IF l = 0 THEN o ELSE l - 1) /\ b = Readable(s)'
  <2>1. (IF m = 0 THEN n ELSE m - 1) \in Nat /\ (IF l = 0 THEN o ELSE l - 1) \in Nat
    BY <1>3, WebsocketAssumption DEF WebsocketAssumption
  <2>2. Readable(s) = (IF m = 0 THEN n ELSE m - 1) /\ Readable(s)' = (IF l = 0 THEN o ELSE l - 1)
    BY <1>3 DEF Readable
  <2> QED BY <2>1, <2>2
<1>5. a = Readable(Watched) /\ b = Readable(Watched)' /\ Watched' = s
  BY <1>2, <1>4 DEF Watched
<1>6. l = m \/ (m = 0 /\ l = n + 1 /\ o = n + 1)
  BY <1>3, MisreadStep
<1>7. Quiet(s, Up) \/ Pushes(s, Up) \/ Pops(s, Up)
  BY StreamStep, UpIsNotDown
<1>9. CASE Quiet(s, Up)
  <2>1. o = n /\ got'[s][Up] = got[s][Up] /\ (Broken => Broken')
    BY <1>2, <1>3, <1>9, BrokenIsLost DEF Quiet
  <2>2. b = a  BY <1>3, <1>4, <1>6, <2>1
  <2>3. CASE Broken' <=> Broken
    <3>1. Broken' = Broken  BY <2>3, BrokenIsLost DEF Lost
    <3> QED BY <1>2, <1>5, <2>1, <2>2, <3>1 DEF UpStream!vars
  <2>4. CASE Broken' /\ ~Broken
    <3>1. UpStream!Break
      <4>1. Broken' = TRUE  BY <2>4, BrokenIsLost DEF Lost
      <4> QED BY <1>2, <1>5, <2>1, <2>2, <2>4, <4>1 DEF UpStream!Break
    <3> QED BY <3>1 DEF UpStream!Next
  <2> QED BY <2>1, <2>3, <2>4
<1>10. CASE Pushes(s, Up)
  <2>1. o = n + 1 /\ got'[s][Up] = got[s][Up] /\ Broken' = Broken
    BY <1>2, <1>3, <1>10, BrokenIsLost DEF Pushes, Lost
  <2>2. CASE b = a
    BY <1>2, <1>5, <2>1, <2>2 DEF UpStream!vars
  <2>3. CASE b = a + 1
    <3>1. b \in 1 .. MaxFrames  BY <1>3, <1>4, <1>6, <2>1, <2>3
    <3>2. Numbers(b) = Append(Numbers(a), b)  BY <2>3, NumbersGrow
    <3>3. PICK message \in 1 .. MaxFrames : message = b  BY <3>1
    <3>4. UpStream!Push(message)
      BY <1>2, <1>5, <2>1, <3>2, <3>3 DEF UpStream!Push, Numbers
    <3> QED BY <3>3, <3>4 DEF UpStream!Next
  <2>4. b = a \/ b = a + 1  BY <1>3, <1>4, <1>6, <2>1
  <2> QED BY <2>2, <2>3, <2>4
<1>11. CASE Pops(s, Up)
  <2>1. o = n /\ Broken' = Broken
    BY <1>2, <1>3, <1>11, BrokenIsLost DEF Pops, Lost
  <2>2. b = a  BY <1>3, <1>4, <1>6, <2>1
  <2>3. Len(got'[s][Up]) <= a
    <3>1. Len(got'[s][Up]) <= o /\ Len(got'[s][Up]) \in Nat
      <4>1. got'[s][Up] \in Seq(1 .. MaxFrames)  BY <1>1, UpIsNotDown DEF StreamType
      <4> QED BY <1>1, <1>2, <1>3, <4>1, UpIsNotDown DEF Counted, Watched
    <3>2. l # 0 => Len(got'[s][Up]) < l  BY <1>3 DEF Unread
    <3> QED BY <1>3, <1>4, <2>2, <3>1, <3>2
  <2>4. /\ Len(got[s][Up]) < Len(Numbers(a))
        /\ got'[s][Up] = Append(got[s][Up], Numbers(a)[Len(got[s][Up]) + 1])
    BY <1>1, <1>2, <1>5, <1>11, <2>3, PopsNext, UpIsNotDown
  <2>5. UpStream!Pop
    BY <1>2, <1>5, <2>1, <2>2, <2>4 DEF UpStream!Pop, Numbers
  <2> QED BY <2>5 DEF UpStream!Next
<1> QED BY <1>7, <1>9, <1>10, <1>11

\* And what the broker sends is taken by that program.
LEMMA DownStreamStep ==
  ASSUME Control, Streams, Streams', [Next]_vars, Watched \in Sessions
  PROVE  [DownStream!Next]_DownStream!vars
<1>1. StreamType /\ StreamType' /\ Counted(Watched)'  BY DEF Streams, Watched
<1>2. PICK s \in Sessions : s = Watched  OBVIOUS
<1>3. /\ pushed[s][Down] \in Nat /\ pushed'[s][Down] \in 0 .. MaxFrames /\ MaxFrames \in Nat
      /\ Watched' = s
  BY <1>1, <1>2, UnitsOfType, UpIsNotDown, WebsocketAssumption
     DEF StreamType, WebsocketAssumption, Watched
<1>4. Quiet(s, Down) \/ Pushes(s, Down) \/ Pops(s, Down)
  BY StreamStep, UpIsNotDown
<1>5. CASE Quiet(s, Down)
  <2>1. pushed'[s][Down] = pushed[s][Down] /\ got'[s][Down] = got[s][Down] /\ (Broken => Broken')
    BY <1>2, <1>3, <1>5, BrokenIsLost DEF Quiet
  <2>2. CASE Broken' <=> Broken
    <3>1. Broken' = Broken  BY <2>2, BrokenIsLost DEF Lost
    <3> QED BY <1>2, <1>3, <2>1, <3>1 DEF DownStream!vars
  <2>3. CASE Broken' /\ ~Broken
    <3>1. DownStream!Break
      <4>1. Broken' = TRUE  BY <2>3, BrokenIsLost DEF Lost
      <4> QED BY <1>2, <1>3, <2>1, <2>3, <4>1 DEF DownStream!Break
    <3> QED BY <3>1 DEF DownStream!Next
  <2> QED BY <2>1, <2>2, <2>3

<1>6. CASE Pushes(s, Down)
  <2>1. /\ pushed'[s][Down] = pushed[s][Down] + 1 /\ got'[s][Down] = got[s][Down]
        /\ Broken' = Broken
    BY <1>2, <1>3, <1>6, BrokenIsLost DEF Pushes, Lost
  <2>2. Numbers(pushed'[s][Down]) = Append(Numbers(pushed[s][Down]), pushed'[s][Down])
    BY <1>3, <2>1, NumbersGrow
  <2>3. PICK m \in 1 .. MaxFrames : m = pushed'[s][Down]  BY <1>3, <2>1
  <2>4. DownStream!Push(m)
    BY <1>2, <1>3, <2>1, <2>2, <2>3 DEF DownStream!Push, Numbers
  <2> QED BY <2>3, <2>4 DEF DownStream!Next
<1>7. CASE Pops(s, Down)
  <2>1. pushed'[s][Down] = pushed[s][Down] /\ Broken' = Broken
    BY <1>2, <1>3, <1>7, BrokenIsLost DEF Pops, Lost
  <2>2. /\ Len(got[s][Down]) < Len(Numbers(pushed[s][Down]))
        /\ got'[s][Down] = Append(got[s][Down], Numbers(pushed[s][Down])[Len(got[s][Down]) + 1])
    <3>1. Len(got'[s][Down]) <= pushed'[s][Down]
      BY <1>1, <1>2, UpIsNotDown DEF Counted, Watched
    <3> QED BY <1>1, <1>2, <1>3, <1>7, <2>1, <3>1, PopsNext, UpIsNotDown
  <2>3. DownStream!Pop
    BY <1>2, <1>3, <2>1, <2>2 DEF DownStream!Pop, Numbers
  <2> QED BY <2>3 DEF DownStream!Next
<1> QED BY <1>4, <1>5, <1>6, <1>7

\* Both directions of a session implement MbusFifo, whatever the sizes of a frame, of a
\* chunk and of the pipe: a frame is cut where the chunk ends and put together again, no
\* frame overtakes another or comes twice, and none is lost before one that comes.
\* (That they come at all is the part of Fifos that stays with TLC.)
THEOREM SessionsImplementFifo ==
  Sessions # {} => (Safe => UpStream!Safe /\ DownStream!Safe)
<1> SUFFICES ASSUME Sessions # {} PROVE Safe => UpStream!Safe /\ DownStream!Safe
  OBVIOUS
<1>1. Watched \in Sessions  BY WatchedIsOne
<1>2. Init => UpStream!Init /\ DownStream!Init
  <2> SUFFICES ASSUME Init PROVE UpStream!Init /\ DownStream!Init
    OBVIOUS
  <2>1. \A d \in Directions : pushed[Watched][d] = 0 /\ got[Watched][d] = <<>>
    BY <1>1 DEF Init
  <2>2. Numbers(0) = <<>> /\ Readable(Watched) = 0
    BY <1>1, <2>1, UpIsNotDown DEF Numbers, Readable, Init
  <2>3. Broken = FALSE
    BY <1>1 DEF Init, Broken
  <2> QED BY <2>1, <2>2, <2>3, UpIsNotDown DEF UpStream!Init, DownStream!Init, Numbers
<1>3. Control /\ Streams /\ Streams' /\ Unread /\ Unread' /\ [Next]_vars
        => [UpStream!Next]_UpStream!vars /\ [DownStream!Next]_DownStream!vars
  BY <1>1, UpStreamStep, DownStreamStep
<1> QED
  BY <1>2, <1>3, SessionsControlled, StreamsFlow, MisreadStays, PTL
     DEF Safe, UpStream!Safe, DownStream!Safe

\* The frames that came out of any session, either way, are the first of those pushed.
THEOREM FramesInOrder == Safe => [](\A s \in Sessions : Counted(s))
<1>1. Streams => \A s \in Sessions : Counted(s)  BY DEF Streams
<1> QED BY <1>1, StreamsFlow, PTL

=============================================================================
