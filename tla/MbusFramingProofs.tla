--------------------------- MODULE MbusFramingProofs --------------------------
(***************************************************************************)
(* Proofs about MbusFraming: wherever reads and writes cut the streams,    *)
(* and whichever sizes frames, chunks and sockets have, what is handled is *)
(* what was pushed, whole, once and in order, and decoded by the           *)
(* compression it was encoded with.                                        *)
(*                                                                         *)
(* The invariant says what stands in the buffers in terms of units: each   *)
(* follows the one before it, within a frame and from frame to frame, and  *)
(* the first is the first of the next frame to be handled.                 *)
(***************************************************************************)
EXTENDS MbusFraming, SequenceTheorems, WellFoundedInduction, TLAPS

Frame == [size : Sizes, zip : BOOLEAN]
Unit == Nat \X Nat

LEMMA Constants ==
  /\ HeaderUnits \in Nat /\ HeaderUnits >= 1 /\ Chunk \in Nat /\ Capacity \in Nat
  /\ MaxFrames \in Nat /\ \A frame \in Frame : Length(frame) \in Nat
<1>1. /\ HeaderUnits \in Nat \ {0} /\ Sizes \subseteq Nat \ {0}
      /\ Chunk \in Nat /\ Capacity \in Nat /\ MaxFrames \in Nat
  BY FramingAssumption DEF FramingAssumption
<1>2. ASSUME NEW frame \in Frame PROVE Length(frame) \in Nat
  <2>1. frame.size \in Nat  BY <1>1 DEF Frame
  <2> QED BY <1>1, <2>1 DEF Length
<1> QED BY <1>1, <1>2

LEMMA UpIsNotDown == Up # Down /\ Directions = {Up, Down}
BY DEF Up, Down, Directions

LEMMA MinOfTwo ==
  ASSUME NEW a \in Int, NEW b \in Int
  PROVE  Min({a, b}) \in Int /\ Min({a, b}) <= a /\ Min({a, b}) <= b
<1>1. CASE a <= b
  <2>1. \E x \in {a, b} : \A y \in {a, b} : x <= y  BY <1>1
  <2> QED BY <2>1 DEF Min
<1>2. CASE b <= a
  <2>1. \E x \in {a, b} : \A y \in {a, b} : x <= y  BY <1>2
  <2> QED BY <2>1 DEF Min
<1> QED BY <1>1, <1>2

-----------------------------------------------------------------------------
(* Units that follow one another.                                          *)

Size(frames, n) == HeaderUnits + Length(frames[n])

Valid(frames, u) == u[1] \in DOMAIN frames /\ u[2] \in 1 .. Size(frames, u[1])

\* The unit after u: of the same frame, or the first of the next.
Following(frames, u) ==
  IF u[2] < Size(frames, u[1]) THEN <<u[1], u[2] + 1>> ELSE <<u[1] + 1, 1>>

\* Units that follow one another from the frame after k.
Runs(frames, s, k) ==
  /\ \A i \in 1 .. Len(s) : Valid(frames, s[i])
  /\ s # <<>> => s[1] = <<k + 1, 1>>
  /\ \A i \in 1 .. Len(s), j \in 1 .. Len(s) : j = i + 1 => s[j] = Following(frames, s[i])

\* All the units of the frames after k.
Full(frames, s, k) ==
  /\ Runs(frames, s, k)
  /\ IF s = <<>> THEN k = Len(frames)
     ELSE s[Len(s)] = <<Len(frames), Size(frames, Len(frames))>>

\* The units are of the first n frames.
Known(n, s) == \A i \in 1 .. Len(s) : s[i][1] \in 1 .. n

LEMMA SizeType ==
  ASSUME NEW frames \in Seq(Frame), NEW n \in 1 .. Len(frames)
  PROVE  Size(frames, n) \in Nat /\ Size(frames, n) >= HeaderUnits /\ Size(frames, n) >= 1
<1>1. frames[n] \in Frame  OBVIOUS
<1> QED BY <1>1, Constants DEF Size

LEMMA UnitsType ==
  ASSUME NEW n \in Nat, NEW frame \in Frame
  PROVE  /\ Units(n, frame) \in Seq(Unit)
         /\ Len(Units(n, frame)) = HeaderUnits + Length(frame)
         /\ \A i \in 1 .. HeaderUnits + Length(frame) : Units(n, frame)[i] = <<n, i>>
<1>1. HeaderUnits + Length(frame) \in Nat  BY Constants
<1> QED BY <1>1 DEF Units, Unit

LEMMA LeastExists ==
  ASSUME NEW S \in SUBSET Nat, S # {}
  PROVE  \E m \in S : \A n \in S : m <= n
<1> DEFINE less == {ss \in Nat \X Nat : ss[1] < ss[2]}
<1>1. IsWellFoundedOn(less, Nat)
  BY NatLessThanWellFounded DEF OpToRel
<1> HIDE DEF less
<1>2. PICK m \in S : \A n \in S : ~ (<<n, m>> \in less)
  BY <1>1, WFMin
<1>3. \A n \in S : m <= n
  <2>1. ASSUME NEW n \in S PROVE m <= n
    <3>1. m \in Nat /\ n \in Nat  OBVIOUS
    <3>2. n < m => <<n, m>> \in less  BY <3>1 DEF less
    <3> QED BY <1>2, <2>1, <3>1, <3>2
  <2> QED BY <2>1
<1> QED BY <1>3

\* A run starts with the units of its first frame, as far as it goes.
LEMMA HeadFrame ==
  ASSUME NEW frames \in Seq(Frame), NEW s \in Seq(Unit), NEW k \in Nat,
         Runs(frames, s, k), s # <<>>
  PROVE  /\ k + 1 \in 1 .. Len(frames)
         /\ \A i \in 1 .. Len(s) : i <= Size(frames, k + 1) => s[i] = <<k + 1, i>>
<1> DEFINE z == Size(frames, k + 1)
           B == {i \in 1 .. Len(s) : i <= z /\ s[i] # <<k + 1, i>>}
<1>1. Len(s) \in Nat /\ Len(s) >= 1 /\ s[1] = <<k + 1, 1>>  BY EmptySeq DEF Runs
<1>2. k + 1 \in 1 .. Len(frames)
  <2>1. 1 \in 1 .. Len(s)  BY <1>1
  <2>2. Valid(frames, s[1])  BY <2>1 DEF Runs
  <2>3. s[1][1] = k + 1  BY <1>1
  <2> QED BY <2>2, <2>3 DEF Valid
<1>3. z \in Nat /\ z >= 1  BY <1>2, SizeType
<1>4. \A i \in 1 .. Len(s), j \in 1 .. Len(s) : j = i + 1 => s[j] = Following(frames, s[i])
  BY DEF Runs
<1> HIDE DEF z
<1>5. B = {}
  <2> SUFFICES ASSUME B # {} PROVE FALSE  OBVIOUS
  <2>1. B \in SUBSET Nat  BY <1>1
  <2> HIDE DEF B
  <2>2. PICK m \in B : \A n \in B : m <= n  BY <2>1, LeastExists
  <2> USE DEF B
  <2>3. m \in 1 .. Len(s) /\ m <= z /\ s[m] # <<k + 1, m>>  OBVIOUS
  <2>4. m # 1  BY <1>1, <2>3
  <2>5. m - 1 \in 1 .. Len(s) /\ m - 1 < z /\ m = (m - 1) + 1  BY <1>1, <1>3, <2>3, <2>4
  <2>6. s[m - 1] = <<k + 1, m - 1>>
    <3>1. m - 1 \notin B  BY <2>1, <2>2, <2>3
    <3> QED BY <1>3, <2>5, <3>1
  <2>7. s[m] = Following(frames, s[m - 1])  BY <1>4, <2>3, <2>5
  <2>8. Following(frames, s[m - 1]) = <<k + 1, m>>
    <3>1. s[m - 1][1] = k + 1 /\ s[m - 1][2] = m - 1  BY <2>6
    <3> QED BY <2>5, <3>1 DEF Following, z
  <2> QED BY <2>3, <2>7, <2>8
<1> QED BY <1>2, <1>5 DEF z

LEMMA DropType ==
  ASSUME NEW a \in Seq(Unit), NEW n \in 0 .. Len(a)
  PROVE  /\ Drop(a, n) \in Seq(Unit) /\ Len(Drop(a, n)) = Len(a) - n
         /\ \A i \in 1 .. Len(a) - n : Drop(a, n)[i] = a[n + i]
         /\ SubSeq(a, 1, n) \in Seq(Unit) /\ Len(SubSeq(a, 1, n)) = n
         /\ \A i \in 1 .. n : SubSeq(a, 1, n)[i] = a[i]
<1>1. Len(a) \in Nat /\ \A i \in 1 .. Len(a) : a[i] \in Unit  OBVIOUS
<1>2. (\A i \in n + 1 .. Len(a) : a[i] \in Unit) /\ \A i \in 1 .. n : a[i] \in Unit
  BY <1>1
<1>3. /\ SubSeq(a, n + 1, Len(a)) \in Seq(Unit)
      /\ Len(SubSeq(a, n + 1, Len(a))) = Len(a) - n
      /\ \A i \in 1 .. Len(a) - n : SubSeq(a, n + 1, Len(a))[i] = a[n + i]
  BY <1>1, <1>2, SubSeqProperties
<1>4. /\ SubSeq(a, 1, n) \in Seq(Unit) /\ Len(SubSeq(a, 1, n)) = n
      /\ \A i \in 1 .. n : SubSeq(a, 1, n)[i] = a[i]
  BY <1>1, <1>2, SubSeqProperties
<1> QED BY <1>3, <1>4 DEF Drop

LEMMA ConcatType ==
  ASSUME NEW a \in Seq(Unit), NEW b \in Seq(Unit)
  PROVE  /\ a \o b \in Seq(Unit) /\ Len(a \o b) = Len(a) + Len(b)
         /\ \A i \in 1 .. Len(a) : (a \o b)[i] = a[i]
         /\ \A i \in 1 .. Len(b) : (a \o b)[Len(a) + i] = b[i]
         /\ \A i \in 1 .. Len(a) + Len(b) :
              (a \o b)[i] = IF i <= Len(a) THEN a[i] ELSE b[i - Len(a)]
<1>1. Len(a) \in Nat /\ Len(b) \in Nat  OBVIOUS
<1> DEFINE c == a \o b
<1>2. /\ c \in Seq(Unit) /\ Len(c) = Len(a) + Len(b)
      /\ \A i \in 1 .. Len(a) + Len(b) : c[i] = IF i <= Len(a) THEN a[i] ELSE b[i - Len(a)]
  BY ConcatProperties
<1> HIDE DEF c
<1>3. \A i \in 1 .. Len(a) : c[i] = a[i]  BY <1>1, <1>2
<1>4. ASSUME NEW i \in 1 .. Len(b) PROVE c[Len(a) + i] = b[i]
  <2>1. Len(a) + i \in 1 .. Len(a) + Len(b) /\ ~(Len(a) + i <= Len(a))
        /\ Len(a) + i - Len(a) = i
    BY <1>1
  <2> QED BY <1>2, <2>1
<1> QED BY <1>2, <1>3, <1>4 DEF c

LEMMA Associative ==
  ASSUME NEW a \in Seq(Unit), NEW b \in Seq(Unit), NEW c \in Seq(Unit)
  PROVE  (a \o b) \o c = a \o (b \o c)
BY ConcatAssociative

\* Units that move from the head of one buffer to the end of the one before.
LEMMA MoveUnits ==
  ASSUME NEW a \in Seq(Unit), NEW b \in Seq(Unit), NEW n \in 0 .. Len(b)
  PROVE  (a \o SubSeq(b, 1, n)) \o Drop(b, n) = a \o b
<1> DEFINE x == SubSeq(b, 1, n)
           y == Drop(b, n)
<1>1. x \in Seq(Unit) /\ y \in Seq(Unit)
  BY DropType
<1>2. x \o y = b
  <2>1. n \in 1 - 1 .. Len(b) /\ Len(b) \in n .. Len(b) /\ 1 \in 1 .. Len(b) + 1
    OBVIOUS
  <2>2. SubSeq(b, 1, n) \o SubSeq(b, n + 1, Len(b)) = SubSeq(b, 1, Len(b))
    BY <2>1, ConcatAdjacentSubSeq
  <2>3. SubSeq(b, 1, Len(b)) = b  BY SubSeqFull
  <2> QED BY <2>2, <2>3 DEF Drop
<1> HIDE DEF x, y
<1>3. (a \o x) \o y = a \o (x \o y)
  BY <1>1, ConcatAssociative
<1>4. (a \o x) \o y = a \o b  BY <1>2, <1>3
<1> QED BY <1>4 DEF x, y

LEMMA DropOfConcat ==
  ASSUME NEW a \in Seq(Unit), NEW b \in Seq(Unit), NEW n \in 0 .. Len(a)
  PROVE  Drop(a, n) \o b = Drop(a \o b, n)
<1> DEFINE c == a \o b
           x == Drop(a, n)
           y == Drop(c, n)
<1>1. /\ c \in Seq(Unit) /\ Len(c) = Len(a) + Len(b)
      /\ \A i \in 1 .. Len(a) + Len(b) : c[i] = IF i <= Len(a) THEN a[i] ELSE b[i - Len(a)]
  BY ConcatType
<1>2. n \in 0 .. Len(c)  BY <1>1
<1>3. /\ x \in Seq(Unit) /\ Len(x) = Len(a) - n
      /\ \A i \in 1 .. Len(a) - n : x[i] = a[n + i]
  BY DropType
<1> HIDE DEF c
<1>4. /\ y \in Seq(Unit) /\ Len(y) = Len(c) - n
      /\ \A i \in 1 .. Len(c) - n : y[i] = c[n + i]
  BY <1>1, <1>2, DropType
<1> HIDE DEF x, y
<1>5. /\ x \o b \in Seq(Unit) /\ Len(x \o b) = Len(x) + Len(b)
      /\ \A i \in 1 .. Len(x) + Len(b) :
           (x \o b)[i] = IF i <= Len(x) THEN x[i] ELSE b[i - Len(x)]
  BY <1>3, ConcatType
<1>6. Len(a) \in Nat /\ Len(b) \in Nat  OBVIOUS
<1>7. Len(x \o b) = Len(y) /\ Len(y) = Len(a) - n + Len(b)
  BY <1>1, <1>3, <1>4, <1>5, <1>6
<1>8. ASSUME NEW i \in 1 .. Len(y) PROVE (x \o b)[i] = y[i]
  <2>1. y[i] = c[n + i]  BY <1>1, <1>4, <1>6, <1>7
  <2>2. n + i \in 1 .. Len(a) + Len(b)  BY <1>6, <1>7
  <2>3. CASE n + i <= Len(a)
    BY <1>1, <1>3, <1>5, <1>6, <1>7, <2>1, <2>2, <2>3
  <2>4. CASE n + i > Len(a)
    <3>1. c[n + i] = b[n + i - Len(a)]  BY <1>1, <1>6, <2>2, <2>4
    <3>2. (x \o b)[i] = b[i - Len(x)]  BY <1>3, <1>5, <1>6, <1>7, <2>4
    <3>3. i - Len(x) = n + i - Len(a)  BY <1>3, <1>6
    <3> QED BY <2>1, <3>1, <3>2, <3>3
  <2> QED BY <1>6, <1>7, <2>3, <2>4
<1>9. x \o b = y
  <2>1. \A i \in 1 .. Len(x \o b) : (x \o b)[i] = y[i]  BY <1>7, <1>8
  <2>2. x \o b \in Seq(Unit) /\ y \in Seq(Unit)  BY <1>4, <1>5
  <2> QED BY <1>7, <2>1, <2>2, SeqEqual
<1> QED BY <1>9 DEF x, y, c

LEMMA PrefixRuns ==
  ASSUME NEW frames, NEW a \in Seq(Unit), NEW b \in Seq(Unit), NEW k \in Nat,
         Runs(frames, a \o b, k)
  PROVE  Runs(frames, a, k)
<1> DEFINE c == a \o b
<1>1. /\ Len(c) = Len(a) + Len(b) /\ Len(a) \in Nat /\ Len(b) \in Nat
      /\ \A i \in 1 .. Len(a) : c[i] = a[i]
  BY ConcatType
<1> HIDE DEF c
<1>2. Runs(frames, c, k)  BY DEF c
<1>3. \A i \in 1 .. Len(a) : i \in 1 .. Len(c) /\ c[i] = a[i]  BY <1>1
<1>4. \A i \in 1 .. Len(a) : Valid(frames, a[i])  BY <1>2, <1>3 DEF Runs
<1>5. a # <<>> => a[1] = <<k + 1, 1>>
  <2> SUFFICES ASSUME a # <<>> PROVE a[1] = <<k + 1, 1>>  OBVIOUS
  <2>1. 1 \in 1 .. Len(a)  BY <1>1, EmptySeq
  <2>2. c # <<>>  BY <1>1, <2>1, EmptySeq
  <2> QED BY <1>2, <1>3, <2>1, <2>2 DEF Runs
<1>6. \A i \in 1 .. Len(a), j \in 1 .. Len(a) : j = i + 1 => a[j] = Following(frames, a[i])
  BY <1>2, <1>3 DEF Runs
<1> QED BY <1>4, <1>5, <1>6 DEF Runs

\* The first frame goes.
LEMMA RestRuns ==
  ASSUME NEW frames \in Seq(Frame), NEW s \in Seq(Unit), NEW k \in Nat,
         Runs(frames, s, k), s # <<>>, Size(frames, k + 1) <= Len(s)
  PROVE  LET z == Size(frames, k + 1) IN
         /\ z \in 0 .. Len(s) /\ Runs(frames, Drop(s, z), k + 1)
         /\ Full(frames, s, k) => Full(frames, Drop(s, z), k + 1)
<1> DEFINE z == Size(frames, k + 1)
           t == Drop(s, z)
<1>1. /\ k + 1 \in 1 .. Len(frames)
      /\ \A i \in 1 .. Len(s) : i <= z => s[i] = <<k + 1, i>>
  BY HeadFrame
<1>2. z \in Nat /\ z >= 1 /\ z <= Len(s) /\ Len(s) \in Nat  BY <1>1, SizeType
<1>3. /\ t \in Seq(Unit) /\ Len(t) = Len(s) - z
      /\ \A i \in 1 .. Len(s) - z : t[i] = s[z + i]
  <2> HIDE DEF z
  <2>1. z \in 0 .. Len(s)  BY <1>2
  <2> QED BY <2>1, DropType
<1> HIDE DEF t
<1>4. s[z] = <<k + 1, z>>  BY <1>1, <1>2
<1>5. \A i \in 1 .. Len(t) : z + i \in 1 .. Len(s) /\ t[i] = s[z + i]  BY <1>2, <1>3
<1>6. Runs(frames, t, k + 1)
  <2>1. \A i \in 1 .. Len(t) : Valid(frames, t[i])  BY <1>5 DEF Runs
  <2>2. t # <<>> => t[1] = <<k + 1 + 1, 1>>
    <3> SUFFICES ASSUME t # <<>> PROVE t[1] = <<k + 1 + 1, 1>>  OBVIOUS
    <3>1. Len(t) >= 1  BY <1>2, <1>3, EmptySeq
    <3>2. z \in 1 .. Len(s) /\ z + 1 \in 1 .. Len(s) /\ t[1] = s[z + 1]
      BY <1>2, <1>3, <3>1
    <3>3. s[z + 1] = Following(frames, s[z])  BY <3>2 DEF Runs
    <3>4. s[z][1] = k + 1 /\ s[z][2] = z  BY <1>4
    <3>5. ~(s[z][2] < Size(frames, s[z][1]))  BY <1>2, <3>4
    <3> QED BY <3>2, <3>3, <3>4, <3>5 DEF Following
  <2>3. ASSUME NEW i \in 1 .. Len(t), NEW j \in 1 .. Len(t), j = i + 1
        PROVE  t[j] = Following(frames, t[i])
    <3>1. z + j = (z + i) + 1  BY <1>2, <2>3
    <3> QED BY <1>5, <2>3, <3>1 DEF Runs
  <2> QED BY <2>1, <2>2, <2>3 DEF Runs
<1>7. ASSUME Full(frames, s, k) PROVE Full(frames, t, k + 1)
  <2>1. s[Len(s)] = <<Len(frames), Size(frames, Len(frames))>>  BY <1>7 DEF Full
  <2>2. CASE t = <<>>
    <3>1. Len(s) = z  BY <1>2, <1>3, <2>2
    <3>2. <<k + 1, z>> = <<Len(frames), Size(frames, Len(frames))>>  BY <1>4, <2>1, <3>1
    <3>3. k + 1 = Len(frames)  BY <3>2
    <3> QED BY <1>6, <2>2, <3>3 DEF Full
  <2>3. CASE t # <<>>
    <3>1. Len(t) >= 1  BY <1>2, <1>3, <2>3, EmptySeq
    <3>2. t[Len(t)] = s[Len(s)]
      <4>1. Len(t) \in 1 .. Len(t) /\ z + Len(t) = Len(s)  BY <1>2, <1>3, <3>1
      <4> QED BY <1>5, <4>1
    <3> QED BY <1>6, <2>1, <2>3, <3>2 DEF Full
  <2> QED BY <2>2, <2>3
<1> QED BY <1>2, <1>6, <1>7 DEF t

\* A frame more is known of: what there was of the others is as it was.
LEMMA LaterRuns ==
  ASSUME NEW frames \in Seq(Frame), NEW frame \in Frame, NEW s \in Seq(Unit),
         NEW k \in Nat, Runs(frames, s, k)
  PROVE  /\ Runs(Append(frames, frame), s, k)
         /\ \A u \in Unit : Valid(frames, u) =>
              /\ Valid(Append(frames, frame), u)
              /\ Following(Append(frames, frame), u) = Following(frames, u)
<1> DEFINE more == Append(frames, frame)
<1>1. /\ DOMAIN frames = 1 .. Len(frames) /\ Len(frames) \in Nat
      /\ DOMAIN more = 1 .. Len(frames) + 1
      /\ \A n \in 1 .. Len(frames) : more[n] = frames[n]
  BY AppendProperties
<1> HIDE DEF more
<1>2. \A n \in 1 .. Len(frames) : Size(more, n) = Size(frames, n)  BY <1>1 DEF Size
<1>3. ASSUME NEW u \in Unit, Valid(frames, u)
      PROVE  Valid(more, u) /\ Following(more, u) = Following(frames, u)
  <2>1. u[1] \in 1 .. Len(frames)  BY <1>1, <1>3 DEF Valid
  <2>2. Size(more, u[1]) = Size(frames, u[1])  BY <1>2, <2>1
  <2>3. u[1] \in DOMAIN more  BY <1>1, <2>1
  <2> QED BY <1>3, <2>2, <2>3 DEF Valid, Following
<1>4. \A i \in 1 .. Len(s) : s[i] \in Unit /\ Valid(frames, s[i])  BY DEF Runs
<1>5. Runs(more, s, k)
  <2>1. \A i \in 1 .. Len(s) : Valid(more, s[i])  BY <1>3, <1>4
  <2>2. \A i \in 1 .. Len(s), j \in 1 .. Len(s) : j = i + 1 => s[j] = Following(more, s[i])
    BY <1>3, <1>4 DEF Runs
  <2> QED BY <2>1, <2>2 DEF Runs
<1> QED BY <1>3, <1>5 DEF more

\* A frame is pushed behind those that are on their way.
LEMMA PushFull ==
  ASSUME NEW frames \in Seq(Frame), NEW frame \in Frame, NEW s \in Seq(Unit),
         NEW k \in Nat, Full(frames, s, k)
  PROVE  Full(Append(frames, frame), s \o Units(Len(frames) + 1, frame), k)
<1> DEFINE more == Append(frames, frame)
           n == Len(frames)
           u == Units(n + 1, frame)
           z == HeaderUnits + Length(frame)
           c == s \o u
<1>1. /\ more \in Seq(Frame) /\ Len(more) = n + 1 /\ n \in Nat /\ more[n + 1] = frame
      /\ DOMAIN more = 1 .. n + 1
      /\ \A i \in 1 .. n : more[i] = frames[i]
  BY AppendProperties
<1>2. z \in Nat /\ z >= 1  BY Constants
<1>3. u \in Seq(Unit) /\ Len(u) = z /\ \A i \in 1 .. z : u[i] = <<n + 1, i>>
  BY UnitsType
<1>4. Runs(more, s, k) /\ \A v \in Unit : Valid(frames, v) => Following(more, v) = Following(frames, v)
  BY LaterRuns DEF Full
<1>5. Size(more, n + 1) = z  BY <1>1 DEF Size
<1>6. IF s = <<>> THEN k = n ELSE s[Len(s)] = <<n, Size(frames, n)>>  BY DEF Full
<1>7. Runs(frames, s, k)  BY DEF Full
<1> HIDE DEF more, n, u, z
<1>8. /\ c \in Seq(Unit) /\ Len(c) = Len(s) + z /\ Len(s) \in Nat
      /\ \A i \in 1 .. Len(s) : c[i] = s[i]
      /\ \A i \in 1 .. z : c[Len(s) + i] = <<n + 1, i>>
  <2>1. /\ c \in Seq(Unit) /\ Len(c) = Len(s) + Len(u)
        /\ \A i \in 1 .. Len(s) : c[i] = s[i]
        /\ \A i \in 1 .. Len(u) : c[Len(s) + i] = u[i]
    BY <1>3, ConcatType
  <2> HIDE DEF c
  <2> QED BY <1>3, <2>1
<1> HIDE DEF c
<1>9. \A i \in 1 .. Len(c) :
        i \in 1 .. Len(s) \/ \E j \in 1 .. z : i = Len(s) + j
  <2> TAKE i \in 1 .. Len(c)
  <2>1. i \in 1 .. Len(s) \/ (i - Len(s) \in 1 .. z /\ i = Len(s) + (i - Len(s)))
    BY <1>2, <1>8
  <2> QED BY <2>1
<1>10. \A i \in 1 .. Len(c) : Valid(more, c[i])
  <2>1. \A i \in 1 .. Len(s) : Valid(more, c[i])  BY <1>4, <1>8 DEF Runs
  <2>2. ASSUME NEW j \in 1 .. z PROVE Valid(more, c[Len(s) + j])
    <3>1. c[Len(s) + j][1] = n + 1 /\ c[Len(s) + j][2] = j  BY <1>8
    <3> QED BY <1>1, <1>5, <3>1 DEF Valid
  <2> QED BY <1>9, <2>1, <2>2
<1>11. c[1] = <<k + 1, 1>>
  <2>1. CASE s = <<>>
    <3>1. Len(s) + 1 = 1 /\ 1 \in 1 .. z /\ k = n  BY <1>2, <1>6, <1>8, <2>1, EmptySeq
    <3> QED BY <1>8, <3>1
  <2>2. CASE s # <<>>
    <3>1. 1 \in 1 .. Len(s)  BY <1>8, <2>2, EmptySeq
    <3> QED BY <1>7, <1>8, <2>2, <3>1 DEF Runs
  <2> QED BY <2>1, <2>2
<1>12. ASSUME NEW i \in 1 .. Len(c), NEW j \in 1 .. Len(c), j = i + 1
       PROVE  c[j] = Following(more, c[i])
  <2>1. CASE j \in 1 .. Len(s)
    <3>1. i \in 1 .. Len(s)  BY <1>8, <1>12, <2>1
    <3> QED BY <1>4, <1>8, <1>12, <2>1, <3>1 DEF Runs
  <2>2. CASE i \in 1 .. Len(s) /\ j \notin 1 .. Len(s)
    <3>1. i = Len(s) /\ j = Len(s) + 1 /\ s # <<>>  BY <1>8, <1>12, <2>2, EmptySeq
    <3>2. c[j] = <<n + 1, 1>>  BY <1>2, <1>8, <3>1
    <3>3. s[Len(s)] = <<n, Size(frames, n)>>  BY <1>6, <3>1
    <3>4. s[i] \in Unit /\ Valid(frames, s[i])  BY <1>7, <2>2 DEF Runs
    <3>5. Following(more, c[i]) = Following(frames, s[i])  BY <1>4, <1>8, <2>2, <3>4
    <3>6. s[i][1] = n /\ s[i][2] = Size(frames, n)  BY <3>1, <3>3
    <3>7. Size(frames, n) \in Nat  BY <3>4, <3>6 DEF Valid
    <3> QED BY <3>2, <3>5, <3>6, <3>7 DEF Following
  <2>3. CASE i \notin 1 .. Len(s)
    <3>1. PICK q \in 1 .. z : i = Len(s) + q  BY <1>9, <2>3
    <3>2. q + 1 \in 1 .. z /\ j = Len(s) + (q + 1)  BY <1>2, <1>8, <1>12, <3>1
    <3>3. c[i] = <<n + 1, q>> /\ c[j] = <<n + 1, q + 1>>  BY <1>8, <3>1, <3>2
    <3>4. c[i][1] = n + 1 /\ c[i][2] = q /\ q < z  BY <1>2, <3>2, <3>3
    <3> QED BY <1>5, <3>3, <3>4 DEF Following
  <2> QED BY <2>1, <2>2, <2>3
<1>13. c # <<>> /\ c[Len(c)] = <<Len(more), Size(more, Len(more))>>
  <2>1. z \in 1 .. z  BY <1>2
  <2>2. Len(c) >= 1  BY <1>2, <1>8
  <2> QED BY <1>1, <1>5, <1>8, <2>1, <2>2, EmptySeq
<1>14. Runs(more, c, k)  BY <1>10, <1>11, <1>12 DEF Runs
<1>15. Full(more, c, k)  BY <1>13, <1>14 DEF Full
<1> QED BY <1>15 DEF more, c, u, n

LEMMA KnownParts ==
  ASSUME NEW n \in Nat, NEW a \in Seq(Unit), NEW b \in Seq(Unit), NEW m \in 0 .. Len(a),
         Known(n, a), Known(n, b)
  PROVE  /\ Known(n, Drop(a, m)) /\ Known(n, SubSeq(a, 1, m))
         /\ Known(n, a \o b)
<1>1. Len(a) \in Nat /\ Len(b) \in Nat  OBVIOUS
<1>2. \A i \in 1 .. Len(a) - m : m + i \in 1 .. Len(a)  BY <1>1
<1>3. Known(n, Drop(a, m))
  <2>1. Len(Drop(a, m)) = Len(a) - m /\ \A i \in 1 .. Len(a) - m : Drop(a, m)[i] = a[m + i]
    BY DropType
  <2> QED BY <1>2, <2>1 DEF Known
<1>4. \A i \in 1 .. m : i \in 1 .. Len(a)  BY <1>1
<1>5. Known(n, SubSeq(a, 1, m))  BY <1>4, DropType DEF Known
<1>6. Known(n, a \o b)
  <2> SUFFICES ASSUME NEW i \in 1 .. Len(a) + Len(b) PROVE (a \o b)[i][1] \in 1 .. n
    BY ConcatType DEF Known
  <2>1. CASE i <= Len(a)
    <3>1. i \in 1 .. Len(a)  BY <1>1, <2>1
    <3> QED BY <3>1, ConcatType DEF Known
  <2>2. CASE ~(i <= Len(a))
    <3>1. i - Len(a) \in 1 .. Len(b) /\ i = Len(a) + (i - Len(a))  BY <1>1, <2>2
    <3>2. (a \o b)[i] = b[i - Len(a)]  BY <3>1, ConcatType
    <3> QED BY <3>1, <3>2 DEF Known
  <2> QED BY <2>1, <2>2
<1> QED BY <1>3, <1>5, <1>6

-----------------------------------------------------------------------------
(* The invariant.                                                          *)

Whole == broker # "closed" /\ client = "open"

\* What the reader has, and what it can still read.
Ahead(d) == in[d] \o pipe[d]

Counted(d) ==
  /\ Len(got[d]) <= Len(pushed[d])
  /\ \A i \in 1 .. Len(got[d]) : got[d][i] = i

\* What was not handled comes next, and all of it while no end has closed.
Stream(d) ==
  /\ Counted(d)
  /\ Runs(pushed[d], Ahead(d), Len(got[d]))
  /\ Whole => Full(pushed[d], Ahead(d) \o out[d], Len(got[d]))

Flow == Stream(Down) /\ (lost = 0 => Stream(Up))

\* The frames of a direction and its units.
Buffers(d) ==
  /\ pushed[d] \in Seq(Frame) /\ Len(pushed[d]) <= MaxFrames
  /\ got[d] \in Seq(0 .. MaxFrames)
  /\ \A s \in {out[d], pipe[d], in[d]} : s \in Seq(Unit) /\ Known(Len(pushed[d]), s)

\* Both directions have their buffers.
Functions ==
  \A f \in {pushed, got, out, pipe, in} : f = [d \in Directions |-> f[d]]

Ground ==
  /\ transport \in Transports /\ offered \in BOOLEAN /\ lost \in 0 .. MaxFrames + 1
  /\ broker \in {"backlog", "open", "closed"} /\ client \in {"open", "closed"}
  /\ retry \in [Directions -> {"none", "same", "moved"}]
  /\ Plain => \A d \in Directions : retry[d] = "none"
  /\ zip \in [{"broker", "client"} -> BOOLEAN]
  /\ phase \in {"out", "poll", "events", "parse", "handle", "ended"}
  /\ revents \subseteq {"in", "out", "hup"} /\ errno \in {"again", "other"}
  /\ revents # {} => broker = "open"
  /\ lost # 0 => lost - 1 <= Len(got[Up])

Typed == Ground /\ Functions /\ \A d \in Directions : Buffers(d)

\* The compression of the frames, and what the two ends know of it: the broker sets it
\* once create was handled, before it sends anything, and the client when it has the
\* answer, before it sends anything else.
Compressed ==
  /\ \A d \in Directions : \A n \in 1 .. Len(pushed[d]) :
       pushed[d][n].zip <=> (n > 1 /\ offered)
  /\ zip["client"] <=> (offered /\ got[Down] # <<>>)
  /\ zip["broker"] => offered /\ got[Up] # <<>>
  /\ phase \in {"out", "poll", "events"} => (zip["broker"] <=> (offered /\ got[Up] # <<>>))
  /\ pushed[Down] # <<>> => got[Up] # <<>> /\ (zip["broker"] <=> offered)
  /\ Len(pushed[Up]) > 1 => got[Down] # <<>>
  /\ got[Up] # <<>> => pushed[Up] # <<>>
  /\ got[Down] # <<>> => pushed[Down] # <<>>

Framed == Typed /\ Flow /\ Compressed /\ RunsOn

-----------------------------------------------------------------------------
(* What a step does to the buffers of a direction.                         *)

\* An end that closed stays closed.
Shut ==
  /\ broker = "closed" => broker' = "closed"
  /\ client' = "open" => client = "open"

Same(d) ==
  /\ pushed'[d] = pushed[d] /\ got'[d] = got[d]
  /\ out'[d] = out[d] /\ pipe'[d] = pipe[d] /\ in'[d] = in[d]

Cut(d) ==
  /\ pushed'[d] = pushed[d] /\ got'[d] = got[d]
  /\ out'[d] = out[d] /\ in'[d] = in[d]
  /\ pipe'[d] = <<>> /\ ~Whole'

Grows(d) ==
  /\ Len(pushed[d]) < MaxFrames
  /\ \E frame \in Frame :
       /\ pushed'[d] = Append(pushed[d], frame)
       /\ out'[d] = out[d] \o Units(Len(pushed[d]) + 1, frame)
  /\ got'[d] = got[d] /\ pipe'[d] = pipe[d] /\ in'[d] = in[d]

Sends(d) ==
  /\ Whole
  /\ \E n \in 0 .. Len(out[d]) :
       pipe'[d] = pipe[d] \o SubSeq(out[d], 1, n) /\ out'[d] = Drop(out[d], n)
  /\ pushed'[d] = pushed[d] /\ got'[d] = got[d] /\ in'[d] = in[d]

Takes(d) ==
  /\ \E n \in 0 .. Len(pipe[d]) :
       in'[d] = in[d] \o SubSeq(pipe[d], 1, n) /\ pipe'[d] = Drop(pipe[d], n)
  /\ pushed'[d] = pushed[d] /\ got'[d] = got[d] /\ out'[d] = out[d]

\* A frame is handled: the next, or after a loss any or none.
Handles(d) ==
  LET k == Len(got[d]) + 1 IN
  /\ in[d] # <<>> /\ Size(pushed[d], k) <= Len(in[d])
  /\ got'[d] = Append(got[d], k)
  /\ in'[d] = Drop(in[d], Size(pushed[d], k))
  /\ pushed'[d] = pushed[d] /\ out'[d] = out[d] /\ pipe'[d] = pipe[d]

HandlesAny(d) ==
  /\ \E n \in 0 .. Len(pushed[d]) : got'[d] = Append(got[d], n)
  /\ \E m \in 0 .. Len(in[d]) : in'[d] = Drop(in[d], m)
  /\ pipe'[d] \in {pipe[d], <<>>}
  /\ pushed'[d] = pushed[d] /\ out'[d] = out[d]

Loses(d) ==
  /\ \E m \in 0 .. Len(in[d]) : in'[d] = SubSeq(in[d], 1, m)
  /\ pushed'[d] = pushed[d] /\ got'[d] = got[d] /\ out'[d] = out[d] /\ pipe'[d] = pipe[d]

InOrder(d) == Same(d) \/ Cut(d) \/ Grows(d) \/ Sends(d) \/ Takes(d) \/ Handles(d)

LEMMA NothingKnown == <<>> \in Seq(Unit) /\ \A n : Known(n, <<>>)
BY DEF Known

LEMMA KnownMore ==
  ASSUME NEW n \in Nat, NEW s \in Seq(Unit), Known(n, s)
  PROVE  Known(n + 1, s)
BY DEF Known

\* The buffers hold units of frames that are known.
LEMMA BuffersStep ==
  ASSUME NEW d \in Directions, Buffers(d),
         \/ Same(d) \/ Cut(d) \/ Grows(d) \/ Sends(d) \/ Takes(d)
         \/ HandlesAny(d) \/ Loses(d)
  PROVE  Buffers(d)'
<1> DEFINE n == Len(pushed[d])
<1>1. /\ n \in Nat /\ out[d] \in Seq(Unit) /\ pipe[d] \in Seq(Unit) /\ in[d] \in Seq(Unit)
      /\ Known(n, out[d]) /\ Known(n, pipe[d]) /\ Known(n, in[d])
      /\ pushed[d] \in Seq(Frame) /\ got[d] \in Seq(0 .. MaxFrames) /\ n <= MaxFrames
      /\ MaxFrames \in Nat
  BY Constants DEF Buffers
<1>2. CASE Same(d)
  BY <1>1, <1>2 DEF Same, Buffers
<1>3. CASE Cut(d)
  BY <1>1, <1>3, NothingKnown DEF Cut, Buffers
<1>4. CASE Grows(d)
  <2>1. PICK frame \in Frame :
          /\ pushed'[d] = Append(pushed[d], frame)
          /\ out'[d] = out[d] \o Units(n + 1, frame)
    BY <1>4 DEF Grows
  <2>2. pushed'[d] \in Seq(Frame) /\ Len(pushed'[d]) = n + 1 /\ n + 1 <= MaxFrames
    BY <1>1, <1>4, <2>1, AppendProperties DEF Grows
  <2>3. Units(n + 1, frame) \in Seq(Unit) /\ Known(n + 1, Units(n + 1, frame))
    <3>1. /\ Units(n + 1, frame) \in Seq(Unit)
          /\ Len(Units(n + 1, frame)) = HeaderUnits + Length(frame)
          /\ \A i \in 1 .. HeaderUnits + Length(frame) :
               Units(n + 1, frame)[i] = <<n + 1, i>>
      <4>1. n + 1 \in Nat  BY <1>1
      <4> HIDE DEF n
      <4> QED BY <4>1, UnitsType
    <3>2. n + 1 \in 1 .. n + 1  BY <1>1
    <3> QED BY <3>1, <3>2 DEF Known
  <2>4. Known(n + 1, out[d]) /\ Known(n + 1, pipe[d]) /\ Known(n + 1, in[d])
    BY <1>1, KnownMore
  <2>5. out'[d] \in Seq(Unit) /\ Known(n + 1, out'[d])
    <3>1. 0 \in 0 .. Len(out[d]) /\ n + 1 \in Nat  BY <1>1
    <3> QED BY <1>1, <2>1, <2>3, <2>4, <3>1, KnownParts, ConcatType
  <2>6. got'[d] = got[d] /\ pipe'[d] = pipe[d] /\ in'[d] = in[d]
    BY <1>4 DEF Grows
  <2> QED BY <1>1, <2>2, <2>4, <2>5, <2>6 DEF Buffers
<1>5. CASE Sends(d)
  <2>1. PICK m \in 0 .. Len(out[d]) :
          pipe'[d] = pipe[d] \o SubSeq(out[d], 1, m) /\ out'[d] = Drop(out[d], m)
    BY <1>5 DEF Sends
  <2>2. SubSeq(out[d], 1, m) \in Seq(Unit) /\ Drop(out[d], m) \in Seq(Unit)
    BY <1>1, DropType
  <2>3. Known(n, SubSeq(out[d], 1, m)) /\ Known(n, Drop(out[d], m))
    BY <1>1, KnownParts
  <2>4. 0 \in 0 .. Len(pipe[d])  BY <1>1
  <2>5. pipe[d] \o SubSeq(out[d], 1, m) \in Seq(Unit)
        /\ Known(n, pipe[d] \o SubSeq(out[d], 1, m))
    BY <1>1, <2>2, <2>3, <2>4, KnownParts, ConcatType
  <2>6. pushed'[d] = pushed[d] /\ got'[d] = got[d] /\ in'[d] = in[d]
    BY <1>5 DEF Sends
  <2> QED BY <1>1, <2>1, <2>2, <2>3, <2>5, <2>6 DEF Buffers
<1>6. CASE Takes(d)
  <2>1. PICK m \in 0 .. Len(pipe[d]) :
          in'[d] = in[d] \o SubSeq(pipe[d], 1, m) /\ pipe'[d] = Drop(pipe[d], m)
    BY <1>6 DEF Takes
  <2>2. SubSeq(pipe[d], 1, m) \in Seq(Unit) /\ Drop(pipe[d], m) \in Seq(Unit)
    BY <1>1, DropType
  <2>3. Known(n, SubSeq(pipe[d], 1, m)) /\ Known(n, Drop(pipe[d], m))
    BY <1>1, KnownParts
  <2>4. 0 \in 0 .. Len(in[d])  BY <1>1
  <2>5. in[d] \o SubSeq(pipe[d], 1, m) \in Seq(Unit)
        /\ Known(n, in[d] \o SubSeq(pipe[d], 1, m))
    BY <1>1, <2>2, <2>3, <2>4, KnownParts, ConcatType
  <2>6. pushed'[d] = pushed[d] /\ got'[d] = got[d] /\ out'[d] = out[d]
    BY <1>6 DEF Takes
  <2> QED BY <1>1, <2>1, <2>2, <2>3, <2>5, <2>6 DEF Buffers
<1>7. CASE HandlesAny(d)
  <2>1. PICK k \in 0 .. n : got'[d] = Append(got[d], k)  BY <1>7 DEF HandlesAny
  <2>2. PICK m \in 0 .. Len(in[d]) : in'[d] = Drop(in[d], m)  BY <1>7 DEF HandlesAny
  <2>3. Drop(in[d], m) \in Seq(Unit) /\ Known(n, Drop(in[d], m))
    BY <1>1, DropType, KnownParts
  <2>4. k \in 0 .. MaxFrames  BY <1>1
  <2>5. got'[d] \in Seq(0 .. MaxFrames)  BY <1>1, <2>1, <2>4
  <2>6. pushed'[d] = pushed[d] /\ out'[d] = out[d] /\ pipe'[d] \in {pipe[d], <<>>}
    BY <1>7 DEF HandlesAny
  <2> QED BY <1>1, <2>2, <2>3, <2>5, <2>6, NothingKnown DEF Buffers
<1>8. CASE Loses(d)
  <2>1. PICK m \in 0 .. Len(in[d]) : in'[d] = SubSeq(in[d], 1, m)  BY <1>8 DEF Loses
  <2>2. SubSeq(in[d], 1, m) \in Seq(Unit) /\ Known(n, SubSeq(in[d], 1, m))
    BY <1>1, DropType, KnownParts
  <2>3. pushed'[d] = pushed[d] /\ got'[d] = got[d] /\ out'[d] = out[d] /\ pipe'[d] = pipe[d]
    BY <1>8 DEF Loses
  <2> QED BY <1>1, <2>1, <2>2, <2>3 DEF Buffers
<1> QED BY <1>2, <1>3, <1>4, <1>5, <1>6, <1>7, <1>8

\* Whichever way units move in order, they stay in order.
LEMMA StreamStep ==
  ASSUME NEW d \in Directions, Buffers(d), Stream(d), Shut, InOrder(d)
  PROVE  Stream(d)'
<1> DEFINE frames == pushed[d]
           k == Len(got[d])
           a == in[d]
           b == pipe[d]
           c == out[d]
<1>1. /\ frames \in Seq(Frame) /\ got[d] \in Seq(0 .. MaxFrames) /\ k \in Nat
      /\ a \in Seq(Unit) /\ b \in Seq(Unit) /\ c \in Seq(Unit)
  BY DEF Buffers
<1>2. /\ k <= Len(frames) /\ \A i \in 1 .. k : got[d][i] = i
      /\ Runs(frames, a \o b, k)
      /\ Whole => Full(frames, (a \o b) \o c, k)
  BY DEF Stream, Counted, Ahead
<1>3. Whole' => Whole
  BY DEF Shut, Whole
<1>4. a \o b \in Seq(Unit)  BY <1>1, ConcatType
<1>5. CASE Same(d)
  BY <1>2, <1>3, <1>5 DEF Same, Stream, Counted, Ahead
<1>6. CASE Cut(d)
  <2>1. Runs(frames, a, k)  BY <1>1, <1>2, PrefixRuns
  <2>2. a \o <<>> = a  BY <1>1, ConcatEmptySeq
  <2>3. /\ pushed'[d] = frames /\ got'[d] = got[d]
        /\ in'[d] = a /\ pipe'[d] = <<>> /\ ~Whole'
    BY <1>6 DEF Cut
  <2> HIDE DEF frames, a, b, c
  <2>4. Ahead(d)' = a  BY <2>2, <2>3 DEF Ahead
  <2> QED BY <1>2, <2>1, <2>3, <2>4 DEF Stream, Counted, frames, k
<1>7. CASE Grows(d)
  <2>1. PICK frame \in Frame :
          /\ pushed'[d] = Append(frames, frame)
          /\ out'[d] = c \o Units(Len(frames) + 1, frame)
    BY <1>7 DEF Grows
  <2>2. got'[d] = got[d] /\ pipe'[d] = b /\ in'[d] = a  BY <1>7 DEF Grows
  <2> DEFINE u == Units(Len(frames) + 1, frame)
  <2>3. u \in Seq(Unit)
    <3>1. Len(frames) + 1 \in Nat  BY <1>1
    <3> QED BY <3>1, UnitsType
  <2> HIDE DEF frames, a, b, c
  <2>4. Runs(Append(frames, frame), a \o b, k)
    BY <1>1, <1>2, <1>4, LaterRuns
  <2>5. Whole => Full(Append(frames, frame), ((a \o b) \o c) \o u, k)
    <3>1. (a \o b) \o c \in Seq(Unit)  BY <1>1, <1>4, ConcatType
    <3> QED BY <1>1, <1>2, <3>1, PushFull
  <2>6. ((a \o b) \o c) \o u = (a \o b) \o (c \o u)
    BY SMTT(30), <1>1, <1>4, <2>3, Associative
  <2>7. Len(Append(frames, frame)) = Len(frames) + 1 /\ Len(frames) \in Nat
    BY <1>1, AppendProperties
  <2>8. Counted(d)'  BY <1>1, <1>2, <2>1, <2>2, <2>7 DEF Counted, k
  <2>9. Ahead(d)' = a \o b  BY <2>2 DEF Ahead
  <2> QED BY <1>3, <2>1, <2>2, <2>4, <2>5, <2>6, <2>8, <2>9 DEF Stream, k, u
<1>8. CASE Sends(d)
  <2>1. PICK m \in 0 .. Len(c) :
          pipe'[d] = b \o SubSeq(c, 1, m) /\ out'[d] = Drop(c, m)
    BY <1>8 DEF Sends
  <2>2. pushed'[d] = frames /\ got'[d] = got[d] /\ in'[d] = a /\ Whole  BY <1>8 DEF Sends
  <2> DEFINE x == SubSeq(c, 1, m)
             y == Drop(c, m)
  <2>3. x \in Seq(Unit) /\ y \in Seq(Unit)  BY <1>1, DropType
  <2>4. ((a \o b) \o x) \o y = (a \o b) \o c  BY <1>1, <1>4, MoveUnits
  <2> HIDE DEF frames, a, b, c, x, y
  <2>5. a \o (b \o x) = (a \o b) \o x  BY SMTT(30), <1>1, <2>3, Associative
  <2>6. Full(frames, (a \o b) \o c, k)  BY <1>2, <2>2
  <2>7. Runs(frames, (a \o b) \o x, k)
    <3>1. Runs(frames, ((a \o b) \o x) \o y, k)  BY <2>4, <2>6 DEF Full
    <3>2. (a \o b) \o x \in Seq(Unit)  BY <1>4, <2>3, ConcatType
    <3> QED BY <1>1, <2>3, <3>1, <3>2, PrefixRuns
  <2>8. Ahead(d)' = (a \o b) \o x /\ out'[d] = y  BY <2>1, <2>2, <2>5 DEF Ahead, x, y
  <2>9. Counted(d)'  BY <1>2, <2>2 DEF Counted, frames, k
  <2> QED BY <2>2, <2>4, <2>6, <2>7, <2>8, <2>9 DEF Stream, k
<1>9. CASE Takes(d)
  <2>1. PICK m \in 0 .. Len(b) :
          in'[d] = a \o SubSeq(b, 1, m) /\ pipe'[d] = Drop(b, m)
    BY <1>9 DEF Takes
  <2>2. pushed'[d] = frames /\ got'[d] = got[d] /\ out'[d] = c  BY <1>9 DEF Takes
  <2>3. (a \o SubSeq(b, 1, m)) \o Drop(b, m) = a \o b  BY <1>1, MoveUnits
  <2> HIDE DEF frames, a, b, c
  <2>4. Ahead(d)' = a \o b  BY <2>1, <2>3 DEF Ahead
  <2>5. Counted(d)'  BY <1>2, <2>2 DEF Counted, frames, k
  <2> QED BY <1>2, <1>3, <2>2, <2>4, <2>5 DEF Stream, k
<1>10. CASE Handles(d)
  <2> DEFINE z == Size(frames, k + 1)
  <2>1. /\ a # <<>> /\ z <= Len(a)
        /\ got'[d] = Append(got[d], k + 1) /\ in'[d] = Drop(a, z)
        /\ pushed'[d] = frames /\ out'[d] = c /\ pipe'[d] = b
    BY <1>10 DEF Handles
  <2>2. Len(a) \in Nat /\ Len(a) >= 1 /\ Len(a) <= Len(a \o b) /\ Len(a \o b) \in Nat
    <3>1. Len(a \o b) = Len(a) + Len(b) /\ Len(b) \in Nat  BY <1>1, ConcatType
    <3>2. Len(a) \in Nat /\ Len(a) # 0  BY <1>1, <2>1, EmptySeq
    <3> HIDE DEF a, b
    <3> QED BY <3>1, <3>2
  <2> HIDE DEF frames, a, b, c
  <2>3. a \o b # <<>>  BY <1>4, <2>2, EmptySeq
  <2>4. k + 1 \in 1 .. Len(frames)  BY <1>1, <1>2, <1>4, <2>3, HeadFrame
  <2>5. z \in 0 .. Len(a) /\ z \in 0 .. Len(a \o b) /\ z \in Nat
    <3>1. z \in Nat  BY <1>1, <2>4, SizeType
    <3> HIDE DEF z
    <3> QED BY <2>1, <2>2, <3>1
  <2>6. Drop(a, z) \o b = Drop(a \o b, z)
    <3> HIDE DEF z
    <3> QED BY <1>1, <2>5, DropOfConcat
  <2>7. Runs(frames, Drop(a \o b, z), k + 1)
    <3>1. z <= Len(a \o b)  BY <2>5, <2>2
    <3> QED BY <1>1, <1>2, <1>4, <2>3, <3>1, RestRuns
  <2>8. Whole => Full(frames, Drop((a \o b) \o c, z), k + 1)
    <3> SUFFICES ASSUME Whole PROVE Full(frames, Drop((a \o b) \o c, z), k + 1)
      OBVIOUS
    <3> DEFINE s == (a \o b) \o c
    <3>1. s \in Seq(Unit) /\ Len(s) = Len(a \o b) + Len(c) /\ Len(c) \in Nat
      BY <1>1, <1>4, ConcatType
    <3>2. Full(frames, s, k) /\ Runs(frames, s, k)  BY <1>2 DEF Full
    <3> HIDE DEF s
    <3>3. s # <<>>  BY <2>2, <3>1, EmptySeq
    <3>4. z <= Len(s)
      <4> HIDE DEF z
      <4> QED BY <2>2, <2>5, <3>1
    <3>5. Full(frames, Drop(s, z), k + 1)
      BY <1>1, <3>1, <3>2, <3>3, <3>4, RestRuns
    <3> QED BY <3>5 DEF s
  <2>9. Drop((a \o b) \o c, z) = Drop(a \o b, z) \o c
    <3> HIDE DEF z
    <3> QED BY <1>1, <1>4, <2>5, DropOfConcat
  <2>10. Len(got'[d]) = k + 1 /\ Counted(d)'
    <3>1. /\ Len(Append(got[d], k + 1)) = k + 1
          /\ \A i \in 1 .. k : Append(got[d], k + 1)[i] = got[d][i]
          /\ Append(got[d], k + 1)[k + 1] = k + 1
      BY <1>1
    <3>2. \A i \in 1 .. k + 1 : i \in 1 .. k \/ i = k + 1
      <4>1. k \in Nat  BY <1>1
      <4> HIDE DEF k
      <4> QED BY <4>1
    <3>3. \A i \in 1 .. k + 1 : Append(got[d], k + 1)[i] = i  BY <1>2, <3>1, <3>2
    <3>4. k + 1 <= Len(frames)  BY <2>4
    <3> HIDE DEF k
    <3> QED BY <2>1, <3>1, <3>3, <3>4 DEF Counted
  <2>11. Ahead(d)' = Drop(a \o b, z)  BY <2>1, <2>6 DEF Ahead
  <2> QED BY <1>3, <2>1, <2>7, <2>8, <2>9, <2>10, <2>11 DEF Stream
<1> QED BY <1>5, <1>6, <1>7, <1>8, <1>9, <1>10 DEF InOrder

-----------------------------------------------------------------------------
(* What the actions do to the buffers.                                     *)

StepOf(d) ==
  Same(d) \/ Cut(d) \/ Grows(d) \/ Sends(d) \/ Takes(d) \/ HandlesAny(d) \/ Loses(d)

\* What is to show of an action: its types, and what it does to either direction.
Moves == Ground' /\ Functions' /\ Shut /\ \A d \in Directions : StepOf(d)

LEMMA TwoFunctions ==
  Functions <=> /\ pushed = [d \in Directions |-> pushed[d]]
                /\ got = [d \in Directions |-> got[d]]
                /\ out = [d \in Directions |-> out[d]]
                /\ pipe = [d \in Directions |-> pipe[d]]
                /\ in = [d \in Directions |-> in[d]]
BY DEF Functions

LEMMA TwoFunctionsNext ==
  Functions' <=> /\ pushed' = [d \in Directions |-> pushed'[d]]
                 /\ got' = [d \in Directions |-> got'[d]]
                 /\ out' = [d \in Directions |-> out'[d]]
                 /\ pipe' = [d \in Directions |-> pipe'[d]]
                 /\ in' = [d \in Directions |-> in'[d]]
BY DEF Functions

LEMMA ChangeOne ==
  ASSUME NEW f, f = [d \in Directions |-> f[d]], NEW e \in Directions, NEW x
  PROVE  LET g == [f EXCEPT ![e] = x] IN
         g = [d \in Directions |-> g[d]] /\ g[e] = x /\ \A d \in Directions : d # e => g[d] = f[d]
OBVIOUS

LEMMA NothingMoves ==
  ASSUME Functions, UNCHANGED <<streams, pushed, got>>
  PROVE  Functions' /\ \A d \in Directions : Same(d)
BY DEF Functions, streams, Same

LEMMA ShutDownMoves ==
  ASSUME Functions, Ground, ShutDown, UNCHANGED <<out, in, pushed, got, client>>
  PROVE  /\ Functions' /\ Shut /\ \A d \in Directions : Same(d) \/ Cut(d)
         /\ broker' = "closed" /\ revents' = {}
<1>1. broker' = "closed" /\ revents' = {} /\ ~Whole'  BY DEF ShutDown, Whole
<1>2. \/ pipe' = [pipe EXCEPT ![Up] = <<>>]
      \/ pipe' = [d \in Directions |-> <<>>]
  BY DEF ShutDown
<1>3. pipe = [d \in Directions |-> pipe[d]]  BY TwoFunctions
<1>4. /\ pipe' = [d \in Directions |-> pipe'[d]]
      /\ \A d \in Directions : pipe'[d] = pipe[d] \/ pipe'[d] = <<>>
  BY <1>2, <1>3, UpIsNotDown
<1>5. Functions'  BY <1>4, TwoFunctions, TwoFunctionsNext
<1>6. ASSUME NEW d \in Directions PROVE Same(d) \/ Cut(d)
  BY <1>1, <1>4 DEF Same, Cut
<1> QED BY <1>1, <1>5, <1>6 DEF Shut

\* Steps that leave the buffers alone.
Quiet ==
  Poll \/ EventsDone \/ Parsed \/ Handle \/ Elsewhere \/ ClientElsewhere \/ Over \/ UNCHANGED vars

LEMMA QuietMoves ==
  ASSUME Typed, Quiet
  PROVE  Moves /\ UNCHANGED <<streams, pushed, got, lost, ends, retry>>
<1>1. UNCHANGED <<streams, pushed, got, lost, ends, retry, transport, offered>>
  BY DEF Quiet, Poll, EventsDone, Parsed, Handle, Elsewhere, ClientElsewhere, Over, vars, ends, history, streams
<1>2. Functions' /\ \A d \in Directions : Same(d)  BY <1>1, NothingMoves DEF Typed
<1>3. Shut  BY <1>1 DEF Shut, ends
<1>4. Ground'
  <2>1. Ground  BY DEF Typed
  <2>2. zip' \in [{"broker", "client"} -> BOOLEAN]
    BY <2>1 DEF Ground, Quiet, Poll, EventsDone, Parsed, Handle, Elsewhere, ClientElsewhere, Over, vars
  <2>3. phase' \in {"out", "poll", "events", "parse", "handle", "ended"}
    BY <2>1 DEF Ground, Quiet, Poll, EventsDone, Parsed, Handle, Elsewhere, ClientElsewhere, Over, vars, loop
  <2>4. /\ revents' \subseteq {"in", "out", "hup"} /\ errno' \in {"again", "other"}
        /\ revents' # {} => broker = "open"
    BY <2>1 DEF Ground, Quiet, Poll, EventsDone, Parsed, Handle, Elsewhere, ClientElsewhere, Over, vars, loop
  <2> QED BY <1>1, <2>1, <2>2, <2>3, <2>4 DEF Ground, ends, Plain, Tls
<1> QED BY <1>1, <1>2, <1>3, <1>4 DEF Moves, StepOf

LEMMA HungUpMoves ==
  ASSUME Typed, HungUp \/ Accept \/ ClientClose
  PROVE  /\ Moves /\ UNCHANGED <<pushed, got, lost, zip, offered>>
         /\ \A d \in Directions : Same(d) \/ Cut(d)
         /\ phase' = phase \/ phase' = "parse"
<1>1. Ground /\ Functions  BY DEF Typed
<1>2. CASE HungUp
  <2>1. ShutDown /\ UNCHANGED <<transport, offered, client, out, in, zip, retry, phase, errno, history>>
    BY <1>2 DEF HungUp
  <2>2. /\ Functions' /\ Shut /\ \A d \in Directions : Same(d) \/ Cut(d)
        /\ broker' = "closed" /\ revents' = {}
    BY <1>1, <2>1, ShutDownMoves DEF history
  <2>3. Ground'  BY <1>1, <2>1, <2>2 DEF Ground, history, Plain, Tls
  <2> QED BY <2>1, <2>2, <2>3 DEF Moves, StepOf, history
<1>3. CASE Accept
  <2>1. /\ phase' = "parse" /\ broker = "backlog"
        /\ UNCHANGED <<transport, offered, client, out, in, zip, retry, revents, errno, history>>
        /\ \/ broker' = "open" /\ UNCHANGED pipe
           \/ broker' = "closed" /\ pipe' = [pipe EXCEPT ![Up] = <<>>]
    BY <1>3 DEF Accept
  <2>2. /\ pipe' = [d \in Directions |-> pipe'[d]]
        /\ \A d \in Directions :
             pipe'[d] = pipe[d] \/ (pipe'[d] = <<>> /\ broker' = "closed")
    BY <1>1, <2>1, TwoFunctions, UpIsNotDown
  <2>3. Functions'  BY <1>1, <2>1, <2>2, TwoFunctions, TwoFunctionsNext DEF history
  <2>4. ASSUME NEW d \in Directions PROVE Same(d) \/ Cut(d)
    BY <2>1, <2>2 DEF Same, Cut, Whole, history
  <2>5. Shut  BY <2>1 DEF Shut
  <2>6. Ground'  BY <1>1, <2>1 DEF Ground, history, Plain, Tls
  <2> QED BY <2>1, <2>3, <2>4, <2>5, <2>6 DEF Moves, StepOf, history
<1>4. CASE ClientClose
  <2>1. /\ client' = "closed"
        /\ UNCHANGED <<transport, offered, broker, out, in, zip, retry, loop, history>>
        /\ pipe' = [pipe EXCEPT ![Down] = <<>>] \/ pipe' = [d \in Directions |-> <<>>]
    BY <1>4 DEF ClientClose, Reset
  <2>2. /\ pipe' = [d \in Directions |-> pipe'[d]]
        /\ \A d \in Directions : pipe'[d] = pipe[d] \/ pipe'[d] = <<>>
    BY <1>1, <2>1, TwoFunctions, UpIsNotDown
  <2>3. Functions'  BY <1>1, <2>1, <2>2, TwoFunctions, TwoFunctionsNext DEF history
  <2>4. ASSUME NEW d \in Directions PROVE Same(d) \/ Cut(d)
    BY <2>1, <2>2 DEF Same, Cut, Whole, history
  <2>5. Shut  BY <2>1 DEF Shut
  <2>6. Ground'  BY <1>1, <2>1 DEF Ground, history, Plain, Tls, loop
  <2> QED BY <2>1, <2>3, <2>4, <2>5, <2>6 DEF Moves, StepOf, history, loop
<1> QED BY <1>2, <1>3, <1>4

\* A frame is pushed.
LEMMA PushMoves ==
  ASSUME Typed, NEW d \in Directions, NEW size \in Sizes, NEW compressed \in BOOLEAN,
         PushString(d, size, compressed), Len(pushed[d]) < MaxFrames,
         UNCHANGED <<transport, offered, ends, pipe, in, zip, revents, errno, got, lost>>,
         phase' \in {"out", "poll", "events", "parse", "handle", "ended"}
  PROVE  /\ Moves /\ Grows(d)
         /\ pushed'[d] = Append(pushed[d], [size |-> size, zip |-> compressed])
         /\ \A e \in Directions : e # d => Same(e) /\ retry'[e] = retry[e]
<1>1. Ground /\ Functions  BY DEF Typed
<1> DEFINE frame == [size |-> size, zip |-> compressed]
           x == Append(pushed[d], frame)
           y == out[d] \o Units(Len(pushed[d]) + 1, frame)
<1>2. pushed' = [pushed EXCEPT ![d] = x] /\ out' = [out EXCEPT ![d] = y]
  BY DEF PushString
<1>3. frame \in Frame  BY DEF Frame
<1>4. /\ retry' \in [Directions -> {"none", "same", "moved"}]
      /\ retry[d] = "none" => retry' = retry
      /\ \A e \in Directions : e # d => retry'[e] = retry[e]
  <2>1. retry \in [Directions -> {"none", "same", "moved"}]  BY <1>1 DEF Ground
  <2>2. CASE retry[d] = "none"  BY <2>1, <2>2 DEF PushString
  <2>3. CASE retry[d] # "none"
    <3>1. PICK r \in {retry[d], "moved"} : retry' = [retry EXCEPT ![d] = r]
      BY <2>3 DEF PushString
    <3>2. r \in {"none", "same", "moved"}  BY <2>1
    <3> QED BY <2>1, <2>3, <3>1, <3>2
  <2> QED BY <2>2, <2>3
<1> HIDE DEF frame
<1>5. /\ pushed' = [e \in Directions |-> pushed'[e]] /\ out' = [e \in Directions |-> out'[e]]
      /\ pushed'[d] = x /\ out'[d] = y
      /\ \A e \in Directions : e # d => pushed'[e] = pushed[e] /\ out'[e] = out[e]
  <2> HIDE DEF x, y
  <2>1. pushed = [e \in Directions |-> pushed[e]] /\ out = [e \in Directions |-> out[e]]
    BY <1>1, TwoFunctions
  <2> QED BY <1>2, <2>1, ChangeOne
<1>6. Functions'  BY <1>1, <1>5, TwoFunctions, TwoFunctionsNext
<1>7. Grows(d)  BY <1>3, <1>5 DEF Grows
<1>8. ASSUME NEW e \in Directions, e # d PROVE Same(e)
  BY <1>5, <1>8 DEF Same
<1>9. Shut  BY DEF Shut, ends
<1>10. Ground'
  <2>1. Plain' => \A e \in Directions : retry'[e] = "none"
    <3> SUFFICES ASSUME Plain' PROVE \A e \in Directions : retry'[e] = "none"
      OBVIOUS
    <3>1. \A e \in Directions : retry[e] = "none"  BY <1>1 DEF Ground, Plain, Tls
    <3> QED BY <1>4, <3>1
  <2> QED BY <1>1, <1>4, <2>1 DEF Ground, ends
<1> QED BY <1>4, <1>5, <1>6, <1>7, <1>8, <1>9, <1>10 DEF Moves, StepOf, frame

LEMMA PrepareOutMoves ==
  ASSUME Typed, PrepareOut
  PROVE  /\ Moves /\ InOrder(Down) /\ Same(Up) /\ retry'[Up] = retry[Up]
         /\ phase = "out" /\ phase' = "poll"
         /\ UNCHANGED <<ends, got, lost, zip, offered>>
         /\ \/ pushed' = pushed
            \/ /\ got[Up] # <<>>
               /\ \E size \in Sizes :
                    pushed'[Down] = Append(pushed[Down], [size |-> size, zip |-> Compression])
<1>1. /\ phase = "out" /\ phase' = "poll"
      /\ UNCHANGED <<transport, offered, ends, pipe, in, zip, revents, errno, got, lost>>
  BY DEF PrepareOut
<1>2. CASE UNCHANGED <<out, retry, pushed>>
  <2>1. Functions' /\ \A d \in Directions : Same(d)
    BY <1>1, <1>2, NothingMoves DEF Typed, streams
  <2>2. Shut  BY <1>1 DEF Shut, ends
  <2>3. Ground'  BY <1>1, <1>2 DEF Typed, Ground, ends, Plain, Tls
  <2> QED BY <1>1, <1>2, <2>1, <2>2, <2>3, UpIsNotDown DEF Moves, StepOf, InOrder
<1>3. CASE /\ broker = "open" /\ got[Up] # <<>> /\ Len(pushed[Down]) < MaxFrames
           /\ \E size \in Sizes : PushString(Down, size, Compression)
  <2>1. PICK size \in Sizes : PushString(Down, size, Compression)  BY <1>3
  <2>2. Compression \in BOOLEAN
    <3>1. zip["broker"] \in BOOLEAN  BY DEF Typed, Ground
    <3> QED BY <3>1 DEF Compression
  <2>3. Down \in Directions /\ Up # Down  BY UpIsNotDown
  <2>4. phase' \in {"out", "poll", "events", "parse", "handle", "ended"}  BY <1>1
  <2>5. /\ Moves /\ Grows(Down)
        /\ pushed'[Down] = Append(pushed[Down], [size |-> size, zip |-> Compression])
        /\ \A e \in Directions : e # Down => Same(e) /\ retry'[e] = retry[e]
    BY <1>1, <1>3, <2>1, <2>2, <2>3, <2>4, PushMoves
  <2> QED BY <1>1, <1>3, <2>3, <2>5, UpIsNotDown DEF InOrder
<1> QED BY <1>2, <1>3 DEF PrepareOut

LEMMA FlushMoves ==
  ASSUME Typed, Flush
  PROVE  /\ Moves /\ InOrder(Up) /\ Same(Down)
         /\ UNCHANGED <<ends, got, lost, zip, offered, phase>>
         /\ pushed[Up] = <<>> \/ got[Down] # <<>>
         /\ \E size \in Sizes :
              pushed'[Up] = Append(pushed[Up], [size |-> size, zip |-> zip["client"]])
<1>1. /\ pushed[Up] = <<>> \/ got[Down] # <<>>
      /\ Len(pushed[Up]) < MaxFrames
      /\ UNCHANGED <<transport, offered, ends, pipe, in, zip, loop, got, lost>>
  BY DEF Flush
<1>2. PICK size \in Sizes : PushString(Up, size, zip["client"])  BY DEF Flush
<1>3. zip["client"] \in BOOLEAN  BY DEF Typed, Ground
<1>4. Up \in Directions /\ Up # Down /\ Down \in Directions  BY UpIsNotDown
<1>5. /\ phase' = phase /\ revents' = revents /\ errno' = errno
      /\ phase' \in {"out", "poll", "events", "parse", "handle", "ended"}
  BY <1>1 DEF loop, Typed, Ground
<1>6. /\ Moves /\ Grows(Up)
      /\ pushed'[Up] = Append(pushed[Up], [size |-> size, zip |-> zip["client"]])
      /\ \A e \in Directions : e # Up => Same(e) /\ retry'[e] = retry[e]
  BY <1>1, <1>2, <1>3, <1>4, <1>5, PushMoves
<1> QED BY <1>1, <1>4, <1>5, <1>6 DEF InOrder

\* Some units are read.
LEMMA TakeMoves ==
  ASSUME Functions, NEW d \in Directions, NEW n \in 0 .. Len(pipe[d]),
         pipe' = [pipe EXCEPT ![d] = Drop(@, n)],
         in' = [in EXCEPT ![d] = @ \o SubSeq(pipe[d], 1, n)],
         UNCHANGED <<pushed, got, out>>
  PROVE  Functions' /\ Takes(d) /\ \A e \in Directions : e # d => Same(e)
<1> DEFINE x == Drop(pipe[d], n)
           y == in[d] \o SubSeq(pipe[d], 1, n)
<1>1. pipe' = [pipe EXCEPT ![d] = x] /\ in' = [in EXCEPT ![d] = y]
  OBVIOUS
<1>2. pipe = [e \in Directions |-> pipe[e]] /\ in = [e \in Directions |-> in[e]]
  BY TwoFunctions
<1>3. /\ pipe' = [e \in Directions |-> pipe'[e]] /\ in' = [e \in Directions |-> in'[e]]
      /\ pipe'[d] = x /\ in'[d] = y
      /\ \A e \in Directions : e # d => pipe'[e] = pipe[e] /\ in'[e] = in[e]
  <2> HIDE DEF x, y
  <2> QED BY <1>1, <1>2, ChangeOne
<1>4. Functions'  BY <1>3, TwoFunctions, TwoFunctionsNext
<1>5. Takes(d)  BY <1>3 DEF Takes
<1>6. ASSUME NEW e \in Directions, e # d PROVE Same(e)
  BY <1>3, <1>6 DEF Same
<1> QED BY <1>4, <1>5, <1>6

LEMMA SendMoves ==
  ASSUME Functions, NEW d \in Directions, NEW n \in 0 .. Len(out[d]), Whole,
         Send(d, n), UNCHANGED <<pushed, got, in>>
  PROVE  Functions' /\ Sends(d) /\ \A e \in Directions : e # d => Same(e)
<1> DEFINE x == pipe[d] \o SubSeq(out[d], 1, n)
           y == Drop(out[d], n)
<1>1. pipe' = [pipe EXCEPT ![d] = x] /\ out' = [out EXCEPT ![d] = y]
  BY DEF Send
<1>2. pipe = [e \in Directions |-> pipe[e]] /\ out = [e \in Directions |-> out[e]]
  BY TwoFunctions
<1>3. /\ pipe' = [e \in Directions |-> pipe'[e]] /\ out' = [e \in Directions |-> out'[e]]
      /\ pipe'[d] = x /\ out'[d] = y
      /\ \A e \in Directions : e # d => pipe'[e] = pipe[e] /\ out'[e] = out[e]
  <2> HIDE DEF x, y
  <2> QED BY <1>1, <1>2, ChangeOne
<1>4. Functions'  BY <1>3, TwoFunctions, TwoFunctionsNext
<1>5. Sends(d)  BY <1>3 DEF Sends
<1>6. ASSUME NEW e \in Directions, e # d PROVE Same(e)
  BY <1>3, <1>6 DEF Same
<1> QED BY <1>4, <1>5, <1>6

LEMMA LenOfBuffers ==
  ASSUME Typed, NEW d \in Directions
  PROVE  /\ Len(out[d]) \in Nat /\ Len(pipe[d]) \in Nat /\ Len(in[d]) \in Nat
         /\ Len(pushed[d]) \in 0 .. MaxFrames /\ Len(got[d]) \in Nat
<1>1. /\ out[d] \in Seq(Unit) /\ pipe[d] \in Seq(Unit) /\ in[d] \in Seq(Unit)
      /\ pushed[d] \in Seq(Frame) /\ got[d] \in Seq(0 .. MaxFrames)
      /\ Len(pushed[d]) <= MaxFrames /\ MaxFrames \in Nat
  BY Constants DEF Typed, Buffers
<1> QED BY <1>1

\* The broker reads: some units, nothing, the end, or it drops one.
LEMMA ReadMoves ==
  ASSUME Typed, Flow, Read
  PROVE  /\ Moves /\ (Same(Down) \/ Cut(Down))
         /\ lost' = 0 => InOrder(Up)
         /\ lost' = lost \/ (lost = 0 /\ lost' = Len(got[Up]) + 1)
         /\ UNCHANGED <<pushed, got, zip, offered, phase, retry, client>>
<1>1. /\ phase = "events" /\ "in" \in revents
      /\ UNCHANGED <<transport, offered, client, out, zip, retry, phase, pushed, got>>
      /\ PlainRead \/ TlsRead
  BY DEF Read, TcpRead, UdsRead
<1>2. Functions /\ Ground /\ Up \in Directions /\ Down \in Directions /\ Up # Down
  BY UpIsNotDown DEF Typed
<1>3. broker = "open"  BY <1>1, <1>2 DEF Ground
<1>4. ASSUME NEW most \in Nat, Stay, Receive(most)
      PROVE  Functions' /\ Takes(Up) /\ Same(Down) /\ UNCHANGED <<errno, lost>>
  <2>1. PICK n \in 1 .. Min({most, Len(pipe[Up])}) :
          /\ pipe' = [pipe EXCEPT ![Up] = Drop(@, n)]
          /\ in' = [in EXCEPT ![Up] = @ \o SubSeq(pipe[Up], 1, n)]
    BY <1>4 DEF Receive
  <2>2. n \in 0 .. Len(pipe[Up])
    <3>1. Len(pipe[Up]) \in Nat  BY <1>2, LenOfBuffers
    <3>2. most \in Int /\ Len(pipe[Up]) \in Int  BY <3>1
    <3>3. Min({most, Len(pipe[Up])}) \in Int /\ Min({most, Len(pipe[Up])}) <= Len(pipe[Up])
      BY <3>2, MinOfTwo
    <3> QED BY <3>1, <3>3
  <2>3. Functions' /\ Takes(Up) /\ \A e \in Directions : e # Up => Same(e)
    BY <1>1, <1>2, <2>1, <2>2, TakeMoves
  <2> QED BY <1>2, <1>4, <2>3 DEF Receive
<1>5. CASE Stay /\ UNCHANGED <<pipe, in, lost>> /\ errno' \in {"again", "other"}
  <2>1. Functions' /\ \A d \in Directions : Same(d)
    BY <1>1, <1>2, <1>5, NothingMoves DEF streams
  <2>2. Shut /\ Ground'
    BY <1>1, <1>2, <1>3, <1>5 DEF Stay, Shut, Ground, Plain, Tls
  <2> QED BY <1>1, <1>2, <1>5, <2>1, <2>2 DEF Moves, StepOf, InOrder
<1>6. CASE Stay /\ \E most \in Nat : Receive(most)
  <2>1. Functions' /\ Takes(Up) /\ Same(Down) /\ UNCHANGED <<errno, lost>>
    BY <1>4, <1>6
  <2>2. Shut /\ Ground'
    BY <1>1, <1>2, <1>3, <1>6, <2>1 DEF Stay, Shut, Ground, Plain, Tls
  <2> QED BY <1>1, <1>2, <2>1, <2>2, UpIsNotDown DEF Moves, StepOf, InOrder
<1>7. CASE ShutDown /\ UNCHANGED <<in, lost>> /\ errno' \in {"again", "other"}
  <2>1. /\ Functions' /\ Shut /\ \A d \in Directions : Same(d) \/ Cut(d)
        /\ broker' = "closed" /\ revents' = {}
    BY <1>1, <1>2, <1>7, ShutDownMoves
  <2>2. Ground'  BY <1>1, <1>2, <1>7, <2>1 DEF Ground, Plain, Tls
  <2> QED BY <1>1, <1>2, <1>7, <2>1, <2>2 DEF Moves, StepOf, InOrder
<1>8. CASE /\ Stay /\ errno' = "again" /\ UNCHANGED pipe /\ in[Up] # <<>>
           /\ lost' = IF lost = 0 THEN Len(got[Up]) + 1 ELSE lost
           /\ in' = [in EXCEPT ![Up] = Front(@)]
  <2>1. /\ Len(in[Up]) \in Nat /\ Len(in[Up]) # 0
        /\ Len(got[Up]) \in Nat /\ Len(pushed[Up]) \in 0 .. MaxFrames
    <3>1. in[Up] \in Seq(Unit)  BY <1>2 DEF Typed, Buffers
    <3> QED BY <1>2, <1>8, <3>1, EmptySeq, LenOfBuffers
  <2> DEFINE m == Len(in[Up]) - 1
  <2>2. m \in 0 .. Len(in[Up]) /\ Front(in[Up]) = SubSeq(in[Up], 1, m)
    BY <2>1 DEF Front
  <2>3. in = [e \in Directions |-> in[e]]  BY <1>2, TwoFunctions
  <2>4. /\ in' = [e \in Directions |-> in'[e]] /\ in'[Up] = SubSeq(in[Up], 1, m)
        /\ in'[Down] = in[Down]
    BY <1>2, <1>8, <2>2, <2>3, ChangeOne
  <2>5. Functions'  BY <1>1, <1>2, <1>8, <2>4, TwoFunctions, TwoFunctionsNext
  <2>6. Loses(Up)  BY <1>1, <1>8, <2>2, <2>4 DEF Loses
  <2>7. Same(Down)  BY <1>1, <1>8, <2>4 DEF Same
  <2>8. Len(got[Up]) <= MaxFrames \/ lost # 0
    <3>1. lost = 0 => Len(got[Up]) <= Len(pushed[Up])  BY DEF Flow, Stream, Counted
    <3> QED BY <2>1, <3>1, Constants
  <2>9. /\ lost' \in 0 .. MaxFrames + 1 /\ lost' # 0 /\ lost' - 1 <= Len(got[Up])
        /\ lost' = lost \/ (lost = 0 /\ lost' = Len(got[Up]) + 1)
    <3>1. lost \in 0 .. MaxFrames + 1 /\ (lost # 0 => lost - 1 <= Len(got[Up]))
      BY <1>2 DEF Ground
    <3>2. CASE lost = 0
      <4>1. lost' = Len(got[Up]) + 1  BY <1>8, <3>2
      <4> QED BY <2>1, <2>8, <3>2, <4>1, Constants
    <3>3. CASE lost # 0
      <4>1. lost' = lost  BY <1>8, <3>3
      <4> QED BY <3>1, <3>3, <4>1
    <3> QED BY <3>2, <3>3
  <2>10. Shut /\ Ground'
    BY <1>1, <1>2, <1>3, <1>8, <2>9 DEF Stay, Shut, Ground, Plain, Tls
  <2>11. \A d \in Directions : StepOf(d)
    BY <1>2, <2>6, <2>7, UpIsNotDown DEF StepOf
  <2> QED BY <1>1, <2>5, <2>7, <2>9, <2>10, <2>11 DEF Moves
<1>9. CASE PlainRead
  <2>1. Chunk \in Nat  BY Constants
  <2>2. CASE Stay /\ Receive(Chunk)  BY <1>6, <2>1, <2>2
  <2>3. CASE EndOfFile  BY <1>2, <1>5, <1>7, <2>3 DEF EndOfFile, Ground
  <2>4. CASE Interrupted  BY <1>7, <1>8, <2>4 DEF Interrupted
  <2> QED BY <1>9, <2>2, <2>3, <2>4 DEF PlainRead
<1>10. CASE TlsRead
  <2>1. Len(pipe[Up]) \in Nat  BY <1>2, LenOfBuffers
  <2>2. CASE Stay /\ Receive(Len(pipe[Up]))  BY <1>6, <2>1, <2>2
  <2> QED BY <1>5, <1>7, <1>10, <2>2 DEF TlsRead
<1> QED BY <1>1, <1>9, <1>10

\* At most so many units go as there are, and as there is room for.
LEMMA SomeUnits ==
  ASSUME Typed, NEW d \in Directions, NEW n \in 1 .. Min({Len(out[d]), Room(d)})
  PROVE  n \in 0 .. Len(out[d])
<1>1. Len(out[d]) \in Nat /\ Len(pipe[d]) \in Nat  BY LenOfBuffers
<1>2. Room(d) \in Int /\ Len(out[d]) \in Int  BY <1>1, Constants DEF Room
<1>3. Min({Len(out[d]), Room(d)}) \in Int /\ Min({Len(out[d]), Room(d)}) <= Len(out[d])
  BY <1>2, MinOfTwo
<1> QED BY <1>1, <1>3

LEMMA WriteMoves ==
  ASSUME Typed, Write
  PROVE  /\ Moves /\ InOrder(Down) /\ (Same(Up) \/ Cut(Up)) /\ retry'[Up] = retry[Up]
         /\ UNCHANGED <<pushed, got, zip, offered, phase, lost, client>>
<1>1. /\ "out" \in revents
      /\ UNCHANGED <<transport, offered, client, in, zip, phase, history>>
      /\ PlainWrite \/ TlsWrite
  BY DEF Write, TcpWrite, UdsWrite
<1>2. Functions /\ Ground /\ Up \in Directions /\ Down \in Directions /\ Up # Down
  BY UpIsNotDown DEF Typed
<1>3. broker = "open" /\ UNCHANGED <<pushed, got, lost>>  BY <1>1, <1>2 DEF Ground, history
<1>4. CASE /\ client = "open" /\ UNCHANGED <<broker, errno>> /\ revents' = revents \ {"out"}
           /\ \E n \in 0 .. Len(out[Down]) : Send(Down, n)
           /\ retry' = retry \/ (Tls /\ retry' = [retry EXCEPT ![Down] = "none"])
  <2>1. PICK n \in 0 .. Len(out[Down]) : Send(Down, n)  BY <1>4
  <2>2. Whole  BY <1>3, <1>4 DEF Whole
  <2>3. Functions' /\ Sends(Down) /\ \A e \in Directions : e # Down => Same(e)
    BY <1>1, <1>2, <1>3, <2>1, <2>2, SendMoves
  <2>4. Shut /\ Ground' /\ retry'[Up] = retry[Up]
    BY <1>1, <1>2, <1>3, <1>4 DEF Shut, Ground, Plain, Tls
  <2> QED BY <1>1, <1>2, <1>3, <2>3, <2>4, UpIsNotDown DEF Moves, StepOf, InOrder
<1>5. CASE /\ Tls /\ retry' = [retry EXCEPT ![Down] = "same"] /\ errno' = "again"
           /\ revents' = revents \ {"out"} /\ UNCHANGED <<broker, out, pipe>>
  <2>1. Functions' /\ \A d \in Directions : Same(d)
    BY <1>1, <1>2, <1>3, <1>5, NothingMoves DEF streams
  <2>2. Shut /\ Ground' /\ retry'[Up] = retry[Up]
    BY <1>1, <1>2, <1>3, <1>5 DEF Shut, Ground, Plain, Tls
  <2> QED BY <1>1, <1>2, <1>3, <2>1, <2>2 DEF Moves, StepOf, InOrder
<1>6. CASE ShutDown /\ errno' = "other" /\ UNCHANGED <<out, retry>>
  <2>1. /\ Functions' /\ Shut /\ \A d \in Directions : Same(d) \/ Cut(d)
        /\ broker' = "closed" /\ revents' = {}
    BY <1>1, <1>2, <1>3, <1>6, ShutDownMoves
  <2>2. Ground'  BY <1>1, <1>2, <1>3, <1>6, <2>1 DEF Ground, Plain, Tls
  <2> QED BY <1>1, <1>2, <1>3, <1>6, <2>1, <2>2 DEF Moves, StepOf, InOrder
<1>7. CASE PlainWrite
  <2>1. CASE /\ client = "open"
             /\ \E n \in 1 .. Min({Len(out[Down]), Room(Down)}) : Send(Down, n)
             /\ revents' = revents \ {"out"} /\ UNCHANGED <<broker, errno, retry>>
    <3>1. PICK n \in 1 .. Min({Len(out[Down]), Room(Down)}) : Send(Down, n)  BY <2>1
    <3>2. n \in 0 .. Len(out[Down])  BY <1>2, <3>1, SomeUnits
    <3> QED BY <1>4, <2>1, <3>1, <3>2
  <2> QED BY <1>6, <1>7, <2>1 DEF PlainWrite
<1>8. CASE TlsWrite
  <2>1. Len(out[Down]) \in 0 .. Len(out[Down])
    <3>1. Len(out[Down]) \in Nat  BY <1>2, LenOfBuffers
    <3> QED BY <3>1
  <2> QED BY <1>4, <1>5, <1>6, <1>8, <2>1 DEF TlsWrite
<1> QED BY <1>1, <1>7, <1>8

LEMMA ClientReadMoves ==
  ASSUME Typed, ClientRead
  PROVE  /\ Moves /\ InOrder(Down) /\ Same(Up)
         /\ UNCHANGED <<pushed, got, zip, offered, phase, lost, ends, retry>>
<1>1. UNCHANGED <<transport, offered, ends, out, zip, retry, loop, history>>
  BY DEF ClientRead
<1>2. Functions /\ Ground /\ Up \in Directions /\ Down \in Directions /\ Up # Down
  BY UpIsNotDown DEF Typed
<1>3. UNCHANGED <<pushed, got, lost, phase, revents, errno, broker, client>>
  BY <1>1 DEF history, loop, ends
<1>4. PICK n \in 1 .. Min({Chunk, Len(pipe[Down])}) :
        /\ pipe' = [pipe EXCEPT ![Down] = Drop(@, n)]
        /\ in' = [in EXCEPT ![Down] = @ \o SubSeq(pipe[Down], 1, n)]
  BY DEF ClientRead
<1>5. n \in 0 .. Len(pipe[Down])
  <2>1. Len(pipe[Down]) \in Nat  BY <1>2, LenOfBuffers
  <2>2. Chunk \in Int /\ Len(pipe[Down]) \in Int  BY <2>1, Constants
  <2>3. Min({Chunk, Len(pipe[Down])}) \in Int /\ Min({Chunk, Len(pipe[Down])}) <= Len(pipe[Down])
    BY <2>2, MinOfTwo
  <2> QED BY <2>1, <2>3
<1>6. Functions' /\ Takes(Down) /\ \A e \in Directions : e # Down => Same(e)
  BY <1>1, <1>2, <1>3, <1>4, <1>5, TakeMoves
<1>7. Shut /\ Ground'  BY <1>1, <1>2, <1>3 DEF Shut, Ground, Plain, Tls
<1> QED BY <1>1, <1>2, <1>3, <1>6, <1>7, UpIsNotDown DEF Moves, StepOf, InOrder

LEMMA ClientWriteMoves ==
  ASSUME Typed, ClientWrite
  PROVE  /\ Moves /\ InOrder(Up) /\ Same(Down) /\ retry[Up] # "moved" /\ retry'[Up] # "moved"
         /\ UNCHANGED <<pushed, got, zip, offered, phase, lost, ends>>
<1>1. /\ UNCHANGED <<transport, offered, ends, in, zip, loop, history>>
      /\ client = "open" /\ broker # "closed" /\ retry[Up] # "moved"
  BY DEF ClientWrite
<1>2. Functions /\ Ground /\ Up \in Directions /\ Down \in Directions /\ Up # Down
  BY UpIsNotDown DEF Typed
<1>3. UNCHANGED <<pushed, got, lost, phase, revents, errno, broker, client>>
  BY <1>1 DEF history, loop, ends
<1>4. Whole  BY <1>1 DEF Whole
<1>5. CASE /\ \E n \in 0 .. Len(out[Up]) : Send(Up, n)
           /\ retry' = retry \/ (Tls /\ retry' = [retry EXCEPT ![Up] = "none"])
  <2>1. PICK n \in 0 .. Len(out[Up]) : Send(Up, n)  BY <1>5
  <2>2. Functions' /\ Sends(Up) /\ \A e \in Directions : e # Up => Same(e)
    BY <1>1, <1>2, <1>3, <1>4, <2>1, SendMoves
  <2>3. Shut /\ Ground' /\ retry'[Up] # "moved"
    BY <1>1, <1>2, <1>3, <1>5 DEF Shut, Ground, Plain, Tls
  <2> QED BY <1>1, <1>2, <1>3, <2>2, <2>3, UpIsNotDown DEF Moves, StepOf, InOrder
<1>6. CASE Tls /\ UNCHANGED <<out, pipe>> /\ retry' = [retry EXCEPT ![Up] = "same"]
  <2>1. Functions' /\ \A d \in Directions : Same(d)
    BY <1>1, <1>2, <1>3, <1>6, NothingMoves DEF streams
  <2>2. Shut /\ Ground' /\ retry'[Up] # "moved"
    BY <1>1, <1>2, <1>3, <1>6 DEF Shut, Ground, Plain, Tls
  <2> QED BY <1>1, <1>2, <1>3, <2>1, <2>2 DEF Moves, StepOf, InOrder
<1>7. CASE Plain /\ UNCHANGED retry /\ \E n \in 1 .. Min({Len(out[Up]), Room(Up)}) : Send(Up, n)
  <2>1. PICK n \in 1 .. Min({Len(out[Up]), Room(Up)}) : Send(Up, n)  BY <1>7
  <2>2. n \in 0 .. Len(out[Up])  BY <1>2, <2>1, SomeUnits
  <2> QED BY <1>5, <1>7, <2>1, <2>2
<1>8. CASE Tls /\ Send(Up, Len(out[Up])) /\ retry' = [retry EXCEPT ![Up] = "none"]
  <2>1. Len(out[Up]) \in 0 .. Len(out[Up])
    <3>1. Len(out[Up]) \in Nat  BY <1>2, LenOfBuffers
    <3> QED BY <3>1
  <2> QED BY <1>5, <1>8, <2>1
<1> QED BY <1>6, <1>7, <1>8 DEF ClientWrite

\* What a buffer with a length in it may be taken for.
LEMMA ParseParts ==
  ASSUME NEW d \in Directions, Buffers(d), Len(in[d]) >= HeaderUnits,
         NEW expected \in Expected(d), Complete(d, expected)
  PROVE  /\ in[d] # <<>> /\ pushed[d] # <<>>
         /\ HeaderUnits + expected \in 0 .. Len(in[d])
         /\ Text(d, expected) \in 0 .. Len(pushed[d])
         /\ Shift(in[d], expected) = Drop(in[d], HeaderUnits + expected)
<1>1. /\ in[d] \in Seq(Unit) /\ Known(Len(pushed[d]), in[d]) /\ Len(in[d]) \in Nat
      /\ pushed[d] \in Seq(Frame) /\ Len(pushed[d]) \in Nat
  BY DEF Buffers
<1>2. Len(in[d]) >= 1 /\ in[d] # <<>>  BY <1>1, Constants, EmptySeq
<1>3. in[d][1][1] \in 1 .. Len(pushed[d])  BY <1>1, <1>2 DEF Known
<1>4. pushed[d] # <<>>  BY <1>1, <1>3, EmptySeq
<1>5. Leading(d) \in 0 .. Len(pushed[d])  BY <1>1, <1>3 DEF Leading
<1>6. expected \in Nat
  <2>1. CASE Leading(d) # 0
    <3>1. pushed[d][Leading(d)] \in Frame  BY <1>1, <1>5, <2>1
    <3>2. expected = Length(pushed[d][Leading(d)])  BY <2>1 DEF Expected
    <3> QED BY <3>1, <3>2, Constants
  <2>2. CASE Leading(d) = 0  BY <1>1, <2>2 DEF Expected
  <2> QED BY <2>1, <2>2
<1>7. HeaderUnits + expected \in 0 .. Len(in[d])
  BY <1>1, <1>6, Constants DEF Complete
<1>8. Text(d, expected) \in 0 .. Len(pushed[d])  BY <1>1, <1>5 DEF Text
<1>9. Shift(in[d], expected) = Drop(in[d], HeaderUnits + expected)  BY DEF Shift, Drop
<1> QED BY <1>2, <1>4, <1>7, <1>8, <1>9

\* With units in order it is the next frame.
LEMMA ParseNext ==
  ASSUME NEW d \in Directions, Buffers(d), Stream(d), Len(in[d]) >= HeaderUnits,
         NEW expected \in Expected(d), Complete(d, expected)
  PROVE  LET k == Len(got[d]) + 1 IN
         /\ k \in 1 .. Len(pushed[d]) /\ Text(d, expected) = k
         /\ HeaderUnits + expected = Size(pushed[d], k)
<1> DEFINE k == Len(got[d])
           s == in[d]
           frames == pushed[d]
           z == Size(frames, k + 1)
<1>1. /\ s \in Seq(Unit) /\ Len(s) \in Nat /\ pipe[d] \in Seq(Unit)
      /\ frames \in Seq(Frame) /\ Len(frames) \in Nat /\ k \in Nat
  BY DEF Buffers
<1>2. Runs(frames, s \o pipe[d], k)  BY DEF Stream, Ahead
<1>3. s # <<>> /\ HeaderUnits + expected \in 0 .. Len(s)  BY ParseParts
<1> HIDE DEF s, frames, k
<1>4. Runs(frames, s, k)  BY <1>1, <1>2, PrefixRuns
<1>5. /\ k + 1 \in 1 .. Len(frames)
      /\ \A i \in 1 .. Len(s) : i <= z => s[i] = <<k + 1, i>>
  BY <1>1, <1>3, <1>4, HeadFrame
<1>6. z \in Nat /\ z >= HeaderUnits /\ z = HeaderUnits + Length(frames[k + 1])
      /\ Length(frames[k + 1]) \in Nat
  <2>1. frames[k + 1] \in Frame  BY <1>1, <1>5
  <2> QED BY <1>1, <1>5, <2>1, SizeType, Constants DEF Size
<1> HIDE DEF z
<1>7. HeaderUnits \in 1 .. Len(s) /\ HeaderUnits \in Nat  BY <1>1, Constants DEF s
<1>8. s[1] = <<k + 1, 1>> /\ s[1][1] = k + 1  BY SMTT(30), <1>1, <1>5, <1>6, <1>7
<1>9. SubSeq(s, 1, HeaderUnits) = [i \in 1 .. HeaderUnits |-> <<k + 1, i>>]
  <2>1. HeaderUnits \in 0 .. Len(s)  BY <1>7
  <2>2. /\ SubSeq(s, 1, HeaderUnits) \in Seq(Unit)
        /\ Len(SubSeq(s, 1, HeaderUnits)) = HeaderUnits
        /\ \A i \in 1 .. HeaderUnits : SubSeq(s, 1, HeaderUnits)[i] = s[i]
    BY <1>1, <2>1, DropType
  <2>3. \A i \in 1 .. HeaderUnits : i \in 1 .. Len(s) /\ i <= z  BY <1>1, <1>6, <1>7
  <2>4. \A i \in 1 .. HeaderUnits : s[i] = <<k + 1, i>>  BY <1>5, <2>3
  <2> QED BY <2>2, <2>4
<1>10. Leading(d) = k + 1  BY <1>8, <1>9 DEF Leading, s
<1>11. k + 1 # 0  BY <1>1
<1>12. expected = Length(frames[k + 1])  BY <1>10, <1>11 DEF Expected, frames
<1>13. HeaderUnits + expected = z /\ z \in 0 .. Len(s)  BY <1>3, <1>6, <1>12
<1>14. SubSeq(s, 1, z) = Units(k + 1, frames[k + 1])
  <2>1. /\ SubSeq(s, 1, z) \in Seq(Unit) /\ Len(SubSeq(s, 1, z)) = z
        /\ \A i \in 1 .. z : SubSeq(s, 1, z)[i] = s[i]
    BY <1>1, <1>13, DropType
  <2>2. \A i \in 1 .. z : i \in 1 .. Len(s) /\ i <= z  BY <1>1, <1>13
  <2>3. \A i \in 1 .. z : s[i] = <<k + 1, i>>  BY <1>5, <2>2
  <2>4. Units(k + 1, frames[k + 1]) = [i \in 1 .. z |-> <<k + 1, i>>]
    BY <1>6 DEF Units
  <2>5. SubSeq(s, 1, z) = [i \in 1 .. z |-> <<k + 1, i>>]
    BY <2>1, <2>3
  <2> QED BY <2>4, <2>5
<1>15. Text(d, expected) = k + 1  BY <1>10, <1>11, <1>13, <1>14 DEF Text, s, frames
<1> QED BY <1>5, <1>13, <1>15 DEF k, frames, z

\* The broker parses.  While nothing was lost the frame is the next one.
LEMMA ParseMoves ==
  ASSUME Typed, Parse
  PROVE  \E expected \in Expected(Up) :
           LET n == Text(Up, expected) IN
           /\ Len(in[Up]) >= HeaderUnits /\ Complete(Up, expected)
           /\ Moves /\ (Same(Down) \/ Cut(Down)) /\ pushed[Up] # <<>>
           /\ UNCHANGED <<transport, offered, client, out, zip, retry, pushed, lost>>
           /\ phase = "parse"
           /\ got'[Down] = got[Down] /\ \E g : got'[Up] = Append(got[Up], g)
           /\ \/ /\ Readable(Up, n, zip["broker"])
                 /\ got'[Up] = Append(got[Up], n)
                 /\ in'[Up] = Drop(in[Up], HeaderUnits + expected)
                 /\ UNCHANGED <<broker, pipe, phase>>
              \/ ~Readable(Up, n, zip["broker"]) /\ phase' \in {"ended", "handle"}
<1>1. /\ phase = "parse" /\ Len(in[Up]) >= HeaderUnits
      /\ UNCHANGED <<transport, offered, client, out, zip, retry, errno, pushed, lost>>
  BY DEF Parse
<1>2. Functions /\ Ground /\ Up \in Directions /\ Down \in Directions /\ Up # Down /\ Buffers(Up)
  BY UpIsNotDown DEF Typed
<1>3. PICK expected \in Expected(Up) :
        LET n == Text(Up, expected)
        IN /\ Complete(Up, expected)
           /\ got' = [got EXCEPT ![Up] = Append(@, IF Readable(Up, n, zip["broker"])
                                                    THEN n ELSE 0)]
           /\ \/ /\ Readable(Up, n, zip["broker"])
                 /\ in' = [in EXCEPT ![Up] = Shift(@, expected)]
                 /\ UNCHANGED <<broker, pipe, phase, revents>>
              \/ /\ zip["broker"] /\ ~Readable(Up, n, TRUE)
                 /\ phase' = "ended" /\ UNCHANGED <<broker, in, pipe, revents>>
              \/ /\ ~zip["broker"] /\ ~Readable(Up, n, FALSE)
                 /\ ShutDown /\ phase' = "handle" /\ UNCHANGED in
  BY DEF Parse
<1> DEFINE n == Text(Up, expected)
           m == HeaderUnits + expected
           g == IF Readable(Up, n, zip["broker"]) THEN n ELSE 0
<1>4. /\ in[Up] # <<>> /\ pushed[Up] # <<>> /\ m \in 0 .. Len(in[Up])
      /\ n \in 0 .. Len(pushed[Up]) /\ Shift(in[Up], expected) = Drop(in[Up], m)
  BY <1>1, <1>2, <1>3, ParseParts
<1>5. zip["broker"] \in BOOLEAN  BY <1>2 DEF Ground
<1>6. \/ /\ Readable(Up, n, zip["broker"])
         /\ in' = [in EXCEPT ![Up] = Drop(in[Up], m)]
         /\ UNCHANGED <<broker, pipe, phase, revents>>
      \/ /\ ~Readable(Up, n, zip["broker"])
         /\ phase' = "ended" /\ UNCHANGED <<broker, in, pipe, revents>>
      \/ /\ ~Readable(Up, n, zip["broker"])
         /\ ShutDown /\ phase' = "handle" /\ UNCHANGED in
  <2>1. zip["broker"] = TRUE \/ zip["broker"] = FALSE  BY <1>5
  <2> QED BY <1>3, <1>4, <2>1
<1>7. got' = [got EXCEPT ![Up] = Append(got[Up], g)]  BY <1>3
<1>8. g \in 0 .. Len(pushed[Up])
  <2>1. Len(pushed[Up]) \in Nat  BY <1>2, LenOfBuffers
  <2> HIDE DEF n
  <2> QED BY <1>4, <2>1
<1> HIDE DEF n, m, g
<1>9. /\ got' = [e \in Directions |-> got'[e]] /\ got'[Up] = Append(got[Up], g)
      /\ got'[Down] = got[Down]
  <2>1. got = [e \in Directions |-> got[e]]  BY <1>2, TwoFunctions
  <2> QED BY <1>2, <1>7, <2>1, ChangeOne
<1>10. in = [e \in Directions |-> in[e]] /\ pipe = [e \in Directions |-> pipe[e]]
  BY <1>2, TwoFunctions
<1>11. Len(got'[Up]) = Len(got[Up]) + 1 /\ Len(got[Up]) \in Nat
  <2>1. got[Up] \in Seq(0 .. MaxFrames)  BY <1>2 DEF Buffers
  <2> QED BY <1>9, <2>1
<1>12. lost' # 0 => lost' - 1 <= Len(got'[Up])
  <2>1. lost \in 0 .. MaxFrames + 1 /\ (lost # 0 => lost - 1 <= Len(got[Up]))
    BY <1>2 DEF Ground
  <2> QED BY <1>1, <1>11, <2>1, Constants
<1>13. CASE /\ Readable(Up, n, zip["broker"])
            /\ in' = [in EXCEPT ![Up] = Drop(in[Up], m)]
            /\ UNCHANGED <<broker, pipe, phase, revents>>
  <2>1. /\ in' = [e \in Directions |-> in'[e]] /\ in'[Up] = Drop(in[Up], m)
        /\ in'[Down] = in[Down]
    BY <1>2, <1>10, <1>13, ChangeOne
  <2>2. Functions'  BY <1>1, <1>2, <1>9, <1>13, <2>1, TwoFunctions, TwoFunctionsNext
  <2>3. HandlesAny(Up)  BY <1>1, <1>4, <1>8, <1>9, <1>13, <2>1 DEF HandlesAny
  <2>4. Same(Down)  BY <1>1, <1>9, <1>13, <2>1 DEF Same
  <2>5. Shut /\ Ground'  BY <1>1, <1>2, <1>12, <1>13 DEF Shut, Ground, Plain, Tls
  <2>6. Moves  BY <1>2, <2>2, <2>3, <2>4, <2>5, UpIsNotDown DEF Moves, StepOf
  <2>7. g = n  BY <1>13 DEF g
  <2> QED BY <1>1, <1>3, <1>4, <1>9, <1>13, <2>1, <2>4, <2>6, <2>7 DEF n, m
<1>14. CASE /\ ~Readable(Up, n, zip["broker"])
            /\ phase' = "ended" /\ UNCHANGED <<broker, in, pipe, revents>>
  <2>1. Functions'  BY <1>1, <1>2, <1>9, <1>14, TwoFunctions, TwoFunctionsNext
  <2>2. HandlesAny(Up)
    <3>1. 0 \in 0 .. Len(in[Up]) /\ in'[Up] = Drop(in[Up], 0)
      <4>1. in[Up] \in Seq(Unit) /\ Len(in[Up]) \in Nat  BY <1>2 DEF Buffers
      <4>2. SubSeq(in[Up], 1, Len(in[Up])) = in[Up]  BY <4>1, SubSeqFull
      <4> QED BY <1>14, <4>1, <4>2 DEF Drop
    <3> QED BY <1>1, <1>8, <1>9, <1>14, <3>1 DEF HandlesAny
  <2>3. Same(Down)  BY <1>1, <1>9, <1>14 DEF Same
  <2>4. Shut /\ Ground'  BY <1>1, <1>2, <1>12, <1>14 DEF Shut, Ground, Plain, Tls
  <2>5. Moves  BY <1>2, <2>1, <2>2, <2>3, <2>4, UpIsNotDown DEF Moves, StepOf
  <2> QED BY <1>1, <1>3, <1>4, <1>9, <1>14, <2>3, <2>5 DEF n, m
<1>15. CASE /\ ~Readable(Up, n, zip["broker"])
            /\ ShutDown /\ phase' = "handle" /\ UNCHANGED in
  <2>1. /\ broker' = "closed" /\ revents' = {} /\ ~Whole'
        /\ pipe' = [pipe EXCEPT ![Up] = <<>>] \/ pipe' = [e \in Directions |-> <<>>]
    BY <1>15 DEF ShutDown, Whole
  <2>2. /\ pipe' = [e \in Directions |-> pipe'[e]]
        /\ \A e \in Directions : pipe'[e] = pipe[e] \/ pipe'[e] = <<>>
    BY <1>10, <2>1, UpIsNotDown
  <2>3. Functions'  BY <1>1, <1>2, <1>9, <1>15, <2>2, TwoFunctions, TwoFunctionsNext
  <2>4. HandlesAny(Up)
    <3>1. 0 \in 0 .. Len(in[Up]) /\ in'[Up] = Drop(in[Up], 0)
      <4>1. in[Up] \in Seq(Unit) /\ Len(in[Up]) \in Nat  BY <1>2 DEF Buffers
      <4>2. SubSeq(in[Up], 1, Len(in[Up])) = in[Up]  BY <4>1, SubSeqFull
      <4> QED BY <1>15, <4>1, <4>2 DEF Drop
    <3> QED BY <1>1, <1>2, <1>8, <1>9, <1>15, <2>2, <3>1 DEF HandlesAny
  <2>5. Same(Down) \/ Cut(Down)  BY <1>1, <1>2, <1>9, <1>15, <2>1, <2>2 DEF Same, Cut
  <2>6. Shut /\ Ground'  BY <1>1, <1>2, <1>12, <1>15, <2>1 DEF Shut, Ground, Plain, Tls
  <2>7. Moves  BY <1>2, <2>3, <2>4, <2>5, <2>6, UpIsNotDown DEF Moves, StepOf
  <2> QED BY <1>1, <1>3, <1>4, <1>9, <1>15, <2>5, <2>7 DEF n, m
<1> QED BY <1>6, <1>13, <1>14, <1>15
LEMMA EqualBooleans ==
  ASSUME NEW a \in BOOLEAN, NEW b \in BOOLEAN, a <=> b
  PROVE  a = b
OBVIOUS

LEMMA FrameZip ==
  ASSUME Typed, NEW d \in Directions, NEW n \in 1 .. Len(pushed[d])
  PROVE  pushed[d][n].zip \in BOOLEAN
<1>1. pushed[d] \in Seq(Frame)  BY DEF Typed, Buffers
<1>2. pushed[d][n] \in Frame  BY <1>1
<1> QED BY <1>2 DEF Frame

\* The client parses: the frame is the next one, and decoded as it was encoded.
LEMMA ClientParseMoves ==
  ASSUME Typed, Flow, Compressed, ClientParse
  PROVE  /\ Moves /\ Handles(Down) /\ Same(Up) /\ pushed[Down] # <<>>
         /\ zip' = [zip EXCEPT !["client"] = offered]
         /\ UNCHANGED <<offered, ends, pushed, lost, retry, phase>>
<1>1. /\ Len(in[Down]) >= HeaderUnits
      /\ UNCHANGED <<transport, offered, broker, out, retry, loop, pushed, lost>>
  BY DEF ClientParse
<1>2. /\ Functions /\ Ground /\ Up \in Directions /\ Down \in Directions /\ Up # Down
      /\ Buffers(Down) /\ Stream(Down)
  BY UpIsNotDown DEF Typed, Flow
<1>3. PICK expected \in Expected(Down) :
        /\ Complete(Down, expected)
        /\ LET n == Text(Down, expected)
           IN IF Readable(Down, n, zip["client"])
              THEN /\ got' = [got EXCEPT ![Down] = Append(@, n)]
                   /\ zip' = [zip EXCEPT !["client"] = offered]
                   /\ UNCHANGED <<client, pipe>>
              ELSE got' = [got EXCEPT ![Down] = Append(@, 0)] /\ Reset /\ UNCHANGED zip
        /\ in' = [in EXCEPT ![Down] = Shift(@, expected)]
  BY DEF ClientParse
<1> DEFINE k == Len(got[Down]) + 1
           z == Size(pushed[Down], k)
<1>4. /\ in[Down] # <<>> /\ pushed[Down] # <<>>
      /\ HeaderUnits + expected \in 0 .. Len(in[Down])
      /\ Shift(in[Down], expected) = Drop(in[Down], HeaderUnits + expected)
  BY <1>1, <1>2, <1>3, ParseParts
<1>5. k \in 1 .. Len(pushed[Down]) /\ Text(Down, expected) = k /\ HeaderUnits + expected = z
  BY <1>1, <1>2, <1>3, ParseNext
<1>6. Len(got[Down]) \in Nat /\ (got[Down] # <<>> <=> k > 1) /\ k # 0
  <2>1. got[Down] \in Seq(0 .. MaxFrames)  BY <1>2 DEF Buffers
  <2> QED BY <2>1, EmptySeq
<1>7. Readable(Down, k, zip["client"])
  <2>1. pushed[Down][k].zip <=> zip["client"]
    BY <1>2, <1>5, <1>6 DEF Compressed
  <2>2. zip["client"] \in BOOLEAN  BY <1>2 DEF Ground
  <2>3. pushed[Down][k].zip \in BOOLEAN  BY <1>2, <1>5, FrameZip
  <2>4. pushed[Down][k].zip = zip["client"]  BY <2>1, <2>2, <2>3, EqualBooleans
  <2> QED BY <1>6, <2>4 DEF Readable
<1> HIDE DEF k, z
<1>8. /\ got' = [got EXCEPT ![Down] = Append(got[Down], k)]
      /\ zip' = [zip EXCEPT !["client"] = offered]
      /\ UNCHANGED <<client, pipe>>
      /\ in' = [in EXCEPT ![Down] = Drop(in[Down], z)]
  BY <1>3, <1>4, <1>5, <1>7
<1>9. got = [e \in Directions |-> got[e]] /\ in = [e \in Directions |-> in[e]]
  BY <1>2, TwoFunctions
<1>10. /\ got' = [e \in Directions |-> got'[e]] /\ got'[Down] = Append(got[Down], k)
       /\ got'[Up] = got[Up]
       /\ in' = [e \in Directions |-> in'[e]] /\ in'[Down] = Drop(in[Down], z)
       /\ in'[Up] = in[Up]
  BY <1>2, <1>8, <1>9, ChangeOne
<1>11. Functions'  BY <1>1, <1>2, <1>8, <1>10, TwoFunctions, TwoFunctionsNext
<1>12. z \in 0 .. Len(in[Down]) /\ k \in 0 .. Len(pushed[Down])
  <2>1. Len(pushed[Down]) \in Nat  BY <1>2, LenOfBuffers
  <2> QED BY <1>4, <1>5, <2>1
<1>13. Handles(Down) /\ HandlesAny(Down)
  <2>1. z <= Len(in[Down])
    <3>1. Len(in[Down]) \in Nat  BY <1>2, LenOfBuffers
    <3> QED BY <1>12, <3>1
  <2>2. Handles(Down)  BY <1>1, <1>4, <1>8, <1>10, <2>1 DEF Handles, k, z
  <2>3. HandlesAny(Down)  BY <1>1, <1>8, <1>10, <1>12 DEF HandlesAny
  <2> QED BY <2>2, <2>3
<1>14. Same(Up)  BY <1>1, <1>8, <1>10 DEF Same
<1>15. Shut  BY <1>1, <1>8 DEF Shut
<1>16. zip' \in [{"broker", "client"} -> BOOLEAN]
  BY <1>2, <1>8 DEF Ground
<1>17. Ground'
  BY <1>1, <1>2, <1>8, <1>10, <1>16 DEF Ground, Plain, Tls, loop
<1>18. Moves  BY <1>2, <1>11, <1>13, <1>14, <1>15, <1>17, UpIsNotDown DEF Moves, StepOf
<1> QED BY <1>1, <1>4, <1>8, <1>13, <1>14, <1>18 DEF ends, loop

\* While nothing was lost, what the broker parses is the next frame, and decoded as it
\* was encoded: a connection that is compressed is not spoken to before both ends know.
LEMMA ParseHandles ==
  ASSUME Typed, Flow, Compressed, Parse, lost = 0
  PROVE  /\ Handles(Up) /\ (Same(Down) \/ Cut(Down))
         /\ UNCHANGED <<ends, phase, lost, retry>>
<1>1. PICK expected \in Expected(Up) :
        LET n == Text(Up, expected) IN
        /\ Len(in[Up]) >= HeaderUnits /\ Complete(Up, expected)
        /\ Same(Down) \/ Cut(Down)
        /\ UNCHANGED <<transport, offered, client, out, zip, retry, pushed, lost>>
        /\ \/ /\ Readable(Up, n, zip["broker"])
              /\ got'[Up] = Append(got[Up], n)
              /\ in'[Up] = Drop(in[Up], HeaderUnits + expected)
              /\ UNCHANGED <<broker, pipe, phase>>
           \/ ~Readable(Up, n, zip["broker"]) /\ phase' \in {"ended", "handle"}
  BY ParseMoves
<1>2. /\ Ground /\ Up \in Directions /\ Down \in Directions /\ Up # Down
      /\ Buffers(Up) /\ Stream(Up)
  BY UpIsNotDown DEF Typed, Flow
<1> DEFINE k == Len(got[Up]) + 1
           z == Size(pushed[Up], k)
<1>3. in[Up] # <<>> /\ HeaderUnits + expected \in 0 .. Len(in[Up])
  BY <1>1, <1>2, ParseParts
<1>4. k \in 1 .. Len(pushed[Up]) /\ Text(Up, expected) = k /\ HeaderUnits + expected = z
  BY <1>1, <1>2, ParseNext
<1>5. /\ Len(got[Up]) \in Nat /\ (got[Up] # <<>> <=> k > 1) /\ k # 0
      /\ k > 1 => Len(pushed[Up]) > 1
  <2>1. got[Up] \in Seq(0 .. MaxFrames) /\ Len(pushed[Up]) \in Nat
    BY <1>2, LenOfBuffers DEF Buffers
  <2> QED BY <1>4, <2>1, EmptySeq
<1>6. Readable(Up, k, zip["broker"])
  <2>1. pushed[Up][k].zip <=> (k > 1 /\ offered)
    BY <1>2, <1>4 DEF Compressed
  <2>2. k > 1 => (zip["broker"] <=> offered)
    BY <1>5 DEF Compressed
  <2>3. ~(k > 1) => ~zip["broker"]
    BY <1>5 DEF Compressed
  <2>4. zip["broker"] \in BOOLEAN  BY <1>2 DEF Ground
  <2>5. pushed[Up][k].zip \in BOOLEAN  BY <1>2, <1>4, FrameZip
  <2>6. pushed[Up][k].zip <=> zip["broker"]
    <3> HIDE DEF k
    <3> QED BY <2>1, <2>2, <2>3
  <2>7. pushed[Up][k].zip = zip["broker"]  BY <2>4, <2>5, <2>6, EqualBooleans
  <2> QED BY <1>5, <2>7 DEF Readable
<1>7. /\ got'[Up] = Append(got[Up], k) /\ in'[Up] = Drop(in[Up], z)
      /\ UNCHANGED <<broker, pipe, phase>>
  BY <1>1, <1>4, <1>6
<1>8. z <= Len(in[Up])
  <2>1. Len(in[Up]) \in Nat  BY <1>2, LenOfBuffers
  <2> HIDE DEF z
  <2> QED BY <1>3, <1>4, <2>1
<1>9. Handles(Up)
  BY <1>1, <1>3, <1>7, <1>8 DEF Handles
<1> QED BY <1>1, <1>7, <1>9 DEF ends

-----------------------------------------------------------------------------
(* Every step keeps the order of the units and what is known of compression. *)

Ordered ==
  /\ Moves /\ InOrder(Down) /\ (lost' = 0 => InOrder(Up))
  /\ \/ lost' = lost
     \/ lost = 0 /\ lost' = Len(got[Up]) + 1 /\ UNCHANGED <<got, pushed>>
  /\ phase = "ended" => phase' = "ended"
  /\ retry[Up] = "moved" => retry'[Up] = "moved"
  /\ got'[Down] # got[Down] \/ (got'[Up] # got[Up] /\ lost = 0)
       => UNCHANGED <<ends, phase, lost, retry>>

LEMMA CompressedStays ==
  ASSUME Compressed, UNCHANGED <<pushed, got, zip, offered>>,
         phase' \in {"out", "poll", "events"} => phase \in {"out", "poll", "events"}
  PROVE  Compressed'
BY DEF Compressed

\* Steps that neither push nor handle a frame.
LEMMA BetweenStep ==
  ASSUME Framed,
         \/ Poll \/ EventsDone \/ Parsed \/ Elsewhere \/ ClientElsewhere \/ Over \/ UNCHANGED vars
         \/ HungUp \/ Accept \/ ClientClose \/ Read \/ Write \/ ClientRead \/ ClientWrite
  PROVE  Ordered /\ Compressed' /\ RunsOn'
<1>1. Typed /\ Flow /\ Compressed /\ RunsOn  BY DEF Framed
<1>2. CASE Poll \/ EventsDone \/ Parsed \/ Elsewhere \/ ClientElsewhere \/ Over \/ UNCHANGED vars
  <2>1. Moves /\ UNCHANGED <<streams, pushed, got, lost, ends, retry>>
    BY <1>1, <1>2, QuietMoves DEF Quiet
  <2>2. \A d \in Directions : Same(d)  BY <1>1, <2>1, NothingMoves DEF Typed
  <2>3. UNCHANGED <<zip, offered>>
    BY <1>2 DEF Poll, EventsDone, Parsed, Elsewhere, ClientElsewhere, Over, vars
  <2>4. /\ phase = "ended" <=> phase' = "ended"
        /\ phase' \in {"out", "poll", "events"} => phase \in {"out", "poll", "events"}
    BY <1>2 DEF Poll, EventsDone, Parsed, Elsewhere, ClientElsewhere, Over, vars, loop
  <2>5. Compressed'  BY <1>1, <2>1, <2>3, <2>4, CompressedStays
  <2>6. RunsOn'  BY <1>1, <2>1, <2>4 DEF RunsOn
  <2> QED BY <2>1, <2>2, <2>4, <2>5, <2>6, UpIsNotDown DEF Ordered, InOrder
<1>3. CASE HungUp \/ Accept \/ ClientClose
  <2>1. /\ Moves /\ UNCHANGED <<pushed, got, lost, zip, offered>>
        /\ \A d \in Directions : Same(d) \/ Cut(d)
        /\ phase' = phase \/ phase' = "parse"
    BY <1>1, <1>3, HungUpMoves
  <2>2. retry' = retry  BY <1>3 DEF HungUp, Accept, ClientClose
  <2>3. phase' = phase \/ phase = "poll"  BY <1>3 DEF HungUp, Accept, ClientClose, loop
  <2>4. Compressed'  BY <1>1, <2>1, CompressedStays
  <2>5. RunsOn'  BY <1>1, <2>1 DEF RunsOn
  <2> QED BY <2>1, <2>2, <2>3, <2>4, <2>5, UpIsNotDown DEF Ordered, InOrder
<1>4. CASE Read
  <2>1. /\ Moves /\ (Same(Down) \/ Cut(Down))
        /\ lost' = 0 => InOrder(Up)
        /\ lost' = lost \/ (lost = 0 /\ lost' = Len(got[Up]) + 1)
        /\ UNCHANGED <<pushed, got, zip, offered, phase, retry, client>>
    BY <1>1, <1>4, ReadMoves
  <2>2. Compressed'  BY <1>1, <2>1, CompressedStays
  <2>3. RunsOn'
    <3>1. Len(got[Up]) + 1 # 0  BY <1>1, LenOfBuffers, UpIsNotDown
    <3> QED BY <1>1, <2>1, <3>1 DEF RunsOn
  <2> QED BY <2>1, <2>2, <2>3 DEF Ordered, InOrder
<1>5. CASE Write
  <2>1. /\ Moves /\ InOrder(Down) /\ (Same(Up) \/ Cut(Up)) /\ retry'[Up] = retry[Up]
        /\ UNCHANGED <<pushed, got, zip, offered, phase, lost, client>>
    BY <1>1, <1>5, WriteMoves
  <2>2. Compressed'  BY <1>1, <2>1, CompressedStays
  <2>3. RunsOn'  BY <1>1, <2>1 DEF RunsOn
  <2> QED BY <2>1, <2>2, <2>3 DEF Ordered, InOrder
<1>6. CASE ClientRead
  <2>1. /\ Moves /\ InOrder(Down) /\ Same(Up)
        /\ UNCHANGED <<pushed, got, zip, offered, phase, lost, ends, retry>>
    BY <1>1, <1>6, ClientReadMoves
  <2>2. Compressed'  BY <1>1, <2>1, CompressedStays
  <2>3. RunsOn'  BY <1>1, <2>1 DEF RunsOn
  <2> QED BY <2>1, <2>2, <2>3 DEF Ordered, InOrder
<1>7. CASE ClientWrite
  <2>1. /\ Moves /\ InOrder(Up) /\ Same(Down) /\ retry[Up] # "moved"
        /\ UNCHANGED <<pushed, got, zip, offered, phase, lost, ends>>
    BY <1>1, <1>7, ClientWriteMoves
  <2>2. Compressed'  BY <1>1, <2>1, CompressedStays
  <2>3. RunsOn'  BY <1>1, <2>1 DEF RunsOn
  <2> QED BY <2>1, <2>2, <2>3 DEF Ordered, InOrder
<1> QED BY <1>2, <1>3, <1>4, <1>5, <1>6, <1>7
\* A frame of a direction more.
LEMMA ZipAppend ==
  ASSUME NEW frames \in Seq(Frame), NEW frame \in Frame,
         \A n \in 1 .. Len(frames) : frames[n].zip <=> (n > 1 /\ offered),
         frame.zip <=> (frames # <<>> /\ offered)
  PROVE  LET more == Append(frames, frame) IN
         /\ \A n \in 1 .. Len(more) : more[n].zip <=> (n > 1 /\ offered)
         /\ more # <<>> /\ (Len(more) > 1 => frames # <<>>)
<1> DEFINE more == Append(frames, frame)
           k == Len(frames)
<1>1. /\ k \in Nat /\ Len(more) = k + 1 /\ more \in Seq(Frame)
      /\ \A n \in 1 .. k : more[n] = frames[n]
      /\ more[k + 1] = frame
  BY AppendProperties
<1>2. (frames # <<>> <=> k >= 1) /\ more # <<>>  BY <1>1, EmptySeq
<1> HIDE DEF more, k
<1>3. ASSUME NEW n \in 1 .. k + 1 PROVE more[n].zip <=> (n > 1 /\ offered)
  <2>1. CASE n \in 1 .. k
    <3>1. n \in 1 .. Len(frames) /\ more[n] = frames[n]  BY <1>1, <2>1 DEF k
    <3> QED BY <3>1
  <2>2. CASE n = k + 1
    <3>1. n > 1 <=> frames # <<>>  BY <1>1, <1>2, <2>2
    <3> QED BY <1>1, <2>2, <3>1
  <2> QED BY <1>1, <2>1, <2>2
<1>4. Len(more) > 1 => frames # <<>>  BY <1>1, <1>2
<1> QED BY <1>1, <1>2, <1>3, <1>4 DEF more

\* An answer is pushed after the one to create, which told the client of the compression.
LEMMA PrepareOutStep ==
  ASSUME Framed, PrepareOut
  PROVE  Ordered /\ Compressed' /\ RunsOn'
<1>1. Typed /\ Flow /\ Compressed /\ RunsOn  BY DEF Framed
<1>2. /\ Moves /\ InOrder(Down) /\ Same(Up) /\ retry'[Up] = retry[Up]
      /\ phase = "out" /\ phase' = "poll"
      /\ UNCHANGED <<ends, got, lost, zip, offered>>
      /\ \/ pushed' = pushed
         \/ /\ got[Up] # <<>>
            /\ \E size \in Sizes :
                 pushed'[Down] = Append(pushed[Down], [size |-> size, zip |-> Compression])
  BY <1>1, PrepareOutMoves
<1>3. Ordered  BY <1>2 DEF Ordered, InOrder
<1>4. RunsOn'  BY <1>2 DEF RunsOn
<1>5. CASE pushed' = pushed
  <2>1. Compressed'  BY <1>1, <1>2, <1>5, CompressedStays
  <2> QED BY <1>3, <1>4, <2>1
<1>6. CASE got[Up] # <<>> /\ \E size \in Sizes :
             pushed'[Down] = Append(pushed[Down], [size |-> size, zip |-> Compression])
  <2>1. PICK size \in Sizes :
          pushed'[Down] = Append(pushed[Down], [size |-> size, zip |-> Compression])
    BY <1>6
  <2> DEFINE frame == [size |-> size, zip |-> Compression]
             frames == pushed[Down]
             more == Append(frames, frame)
  <2>2. zip["broker"] <=> offered  BY <1>1, <1>2, <1>6 DEF Compressed
  <2>3. zip["broker"] \in BOOLEAN  BY <1>1 DEF Typed, Ground
  <2>4. frame \in Frame  BY <2>3 DEF Frame, Compression
  <2>5. frames \in Seq(Frame)  BY <1>1, UpIsNotDown DEF Typed, Buffers
  <2>6. frame.zip <=> (frames # <<>> /\ offered)  BY <2>2 DEF Compression
  <2>7. \A n \in 1 .. Len(frames) : frames[n].zip <=> (n > 1 /\ offered)
    BY <1>1, UpIsNotDown DEF Compressed
  <2> HIDE DEF frame, frames
  <2>8. /\ \A n \in 1 .. Len(more) : more[n].zip <=> (n > 1 /\ offered)
        /\ more # <<>>
    BY <2>4, <2>5, <2>6, <2>7, ZipAppend
  <2>9. pushed'[Down] = more /\ pushed'[Up] = pushed[Up]
    BY <1>2, <2>1 DEF frame, frames, Same
  <2> HIDE DEF more
  <2>10. \A d \in Directions : \A n \in 1 .. Len(pushed'[d]) :
           pushed'[d][n].zip <=> (n > 1 /\ offered)
    BY <1>1, <2>8, <2>9, UpIsNotDown DEF Compressed
  <2>11. Compressed'
    BY <1>1, <1>2, <1>6, <2>2, <2>8, <2>9, <2>10 DEF Compressed
  <2> QED BY <1>3, <1>4, <2>11
<1> QED BY <1>2, <1>5, <1>6

\* create is pushed before anything is known of a compression, and the rest after its
\* answer.
LEMMA FlushStep ==
  ASSUME Framed, Flush
  PROVE  Ordered /\ Compressed' /\ RunsOn'
<1>1. Typed /\ Flow /\ Compressed /\ RunsOn  BY DEF Framed
<1>2. /\ Moves /\ InOrder(Up) /\ Same(Down)
      /\ UNCHANGED <<ends, got, lost, zip, offered, phase>>
      /\ pushed[Up] = <<>> \/ got[Down] # <<>>
      /\ \E size \in Sizes :
           pushed'[Up] = Append(pushed[Up], [size |-> size, zip |-> zip["client"]])
  BY <1>1, FlushMoves
<1>3. retry[Up] = "moved" => retry'[Up] = "moved"
  <2> SUFFICES ASSUME retry[Up] = "moved" PROVE retry'[Up] = "moved"
    OBVIOUS
  <2>1. PICK size \in Sizes : PushString(Up, size, zip["client"])  BY DEF Flush
  <2>2. \E r \in {retry[Up], "moved"} : retry' = [retry EXCEPT ![Up] = r]
    BY <2>1 DEF PushString
  <2>3. retry' = [retry EXCEPT ![Up] = "moved"]  BY <2>2
  <2>4. retry \in [Directions -> {"none", "same", "moved"}]  BY <1>1 DEF Typed, Ground
  <2> QED BY <2>3, <2>4, UpIsNotDown
<1>4. Ordered  BY <1>2, <1>3 DEF Ordered, InOrder
<1>5. RunsOn'  BY <1>1, <1>2 DEF RunsOn
<1>6. Compressed'
  <2>1. PICK size \in Sizes :
          pushed'[Up] = Append(pushed[Up], [size |-> size, zip |-> zip["client"]])
    BY <1>2
  <2> DEFINE frame == [size |-> size, zip |-> zip["client"]]
             frames == pushed[Up]
             more == Append(frames, frame)
  <2>2. zip["client"] <=> (frames # <<>> /\ offered)
    BY <1>1, <1>2 DEF Compressed
  <2>3. zip["client"] \in BOOLEAN  BY <1>1 DEF Typed, Ground
  <2>4. frame \in Frame  BY <2>3 DEF Frame
  <2>5. frames \in Seq(Frame)  BY <1>1, UpIsNotDown DEF Typed, Buffers
  <2>6. frame.zip <=> (frames # <<>> /\ offered)  BY <2>2
  <2>7. \A n \in 1 .. Len(frames) : frames[n].zip <=> (n > 1 /\ offered)
    BY <1>1, UpIsNotDown DEF Compressed
  <2> HIDE DEF frame
  <2>8. /\ \A n \in 1 .. Len(more) : more[n].zip <=> (n > 1 /\ offered)
        /\ more # <<>> /\ (Len(more) > 1 => frames # <<>>)
    <3> HIDE DEF frames
    <3> QED BY <2>4, <2>5, <2>6, <2>7, ZipAppend
  <2>9. pushed'[Up] = more /\ pushed'[Down] = pushed[Down]
    BY <1>2, <2>1 DEF frame, frames, Same
  <2> HIDE DEF more
  <2>10. \A d \in Directions : \A n \in 1 .. Len(pushed'[d]) :
           pushed'[d][n].zip <=> (n > 1 /\ offered)
    BY <1>1, <2>8, <2>9, UpIsNotDown DEF Compressed
  <2>11. Len(pushed'[Up]) > 1 => got[Down] # <<>>
    BY <1>2, <2>8, <2>9
  <2> QED BY <1>1, <1>2, <2>8, <2>9, <2>10, <2>11 DEF Compressed
<1> QED BY <1>4, <1>5, <1>6

LEMMA HandleStep ==
  ASSUME Framed, Handle
  PROVE  Ordered /\ Compressed' /\ RunsOn'
<1>1. Typed /\ Flow /\ Compressed /\ RunsOn  BY DEF Framed
<1>2. Moves /\ UNCHANGED <<streams, pushed, got, lost, ends, retry>>
  BY <1>1, QuietMoves DEF Quiet
<1>3. \A d \in Directions : Same(d)  BY <1>1, <1>2, NothingMoves DEF Typed
<1>4. /\ phase = "handle" /\ phase' = "out" /\ UNCHANGED offered
      /\ zip' = [zip EXCEPT !["broker"] = offered /\ got[Up] # <<>>]
  BY DEF Handle
<1>5. zip'["client"] = zip["client"] /\ zip'["broker"] = (offered /\ got[Up] # <<>>)
  <2>1. zip \in [{"broker", "client"} -> BOOLEAN]  BY <1>1 DEF Typed, Ground
  <2> QED BY <1>4, <2>1
<1>6. zip'["broker"] <=> (offered /\ got[Up] # <<>>)  BY <1>5
<1>7. Compressed'  BY <1>1, <1>2, <1>4, <1>5, <1>6 DEF Compressed
<1>8. RunsOn'  BY <1>4 DEF RunsOn
<1> QED BY <1>2, <1>3, <1>4, <1>7, <1>8, UpIsNotDown DEF Ordered, InOrder

LEMMA AppendNotSame ==
  ASSUME NEW S, NEW s \in Seq(S), NEW x
  PROVE  Append(s, x) # s /\ Append(s, x) # <<>>
<1>1. Len(Append(s, x)) = Len(s) + 1 /\ Len(s) \in Nat
  OBVIOUS
<1>2. Len(<<>>) = 0  OBVIOUS
<1> QED BY <1>1, <1>2

\* The broker does not end, nor the connection, for a frame it cannot decode.
LEMMA ParseStep ==
  ASSUME Framed, Parse
  PROVE  Ordered /\ Compressed' /\ RunsOn'
<1>1. Typed /\ Flow /\ Compressed /\ RunsOn  BY DEF Framed
<1>2. /\ Moves /\ (Same(Down) \/ Cut(Down)) /\ pushed[Up] # <<>>
      /\ UNCHANGED <<transport, offered, client, out, zip, retry, pushed, lost>>
      /\ phase = "parse" /\ phase' \in {"parse", "ended", "handle"}
      /\ got'[Down] = got[Down] /\ \E g : got'[Up] = Append(got[Up], g)
  BY <1>1, ParseMoves
<1>3. lost = 0 => Handles(Up) /\ UNCHANGED <<ends, phase, lost, retry>>
  BY <1>1, ParseHandles
<1>4. Ordered  BY <1>2, <1>3 DEF Ordered, InOrder
<1>5. RunsOn'  BY <1>1, <1>2, <1>3 DEF RunsOn
<1>6. got'[Up] # <<>>
  <2>1. got[Up] \in Seq(0 .. MaxFrames)  BY <1>1, UpIsNotDown DEF Typed, Buffers
  <2> QED BY <1>2, <2>1, AppendNotSame
<1>7. Compressed'
  BY <1>1, <1>2, <1>6 DEF Compressed
<1> QED BY <1>4, <1>5, <1>7

LEMMA ClientParseStep ==
  ASSUME Framed, ClientParse
  PROVE  Ordered /\ Compressed' /\ RunsOn'
<1>1. Typed /\ Flow /\ Compressed /\ RunsOn  BY DEF Framed
<1>2. /\ Moves /\ Handles(Down) /\ Same(Up) /\ pushed[Down] # <<>>
      /\ zip' = [zip EXCEPT !["client"] = offered]
      /\ UNCHANGED <<offered, ends, pushed, lost, retry, phase>>
  BY <1>1, ClientParseMoves
<1>3. Ordered  BY <1>2 DEF Ordered, InOrder
<1>4. RunsOn'  BY <1>1, <1>2 DEF RunsOn
<1>5. zip'["broker"] = zip["broker"] /\ zip'["client"] = offered
  <2>1. zip \in [{"broker", "client"} -> BOOLEAN]  BY <1>1 DEF Typed, Ground
  <2> QED BY <1>2, <2>1
<1>6. got'[Down] # <<>> /\ got'[Up] = got[Up]
  <2>1. got[Down] \in Seq(0 .. MaxFrames)  BY <1>1, UpIsNotDown DEF Typed, Buffers
  <2> QED BY <1>2, <2>1, AppendNotSame DEF Handles, Same
<1>7. Compressed'  BY <1>1, <1>2, <1>5, <1>6 DEF Compressed
<1> QED BY <1>3, <1>4, <1>7

LEMMA OrderedStep ==
  ASSUME Framed, [Next]_vars
  PROVE  Ordered /\ Compressed' /\ RunsOn'
<1>1. \/ PrepareOut \/ Poll \/ Accept \/ Read \/ Write \/ HungUp \/ EventsDone \/ Parse
      \/ Parsed \/ Handle \/ Elsewhere \/ ClientElsewhere \/ Flush \/ ClientRead \/ ClientWrite
      \/ ClientParse \/ ClientClose \/ Over \/ UNCHANGED vars
  BY DEF Next, Broker, TcpAccept, UdsAccept, Client, ClientLeave
<1> QED
  BY <1>1, BetweenStep, PrepareOutStep, FlushStep, HandleStep, ParseStep, ClientParseStep

LEMMA FramedStep ==
  ASSUME Framed, [Next]_vars
  PROVE  Framed'
<1>1. Typed /\ Flow  BY DEF Framed
<1>2. Ordered /\ Compressed' /\ RunsOn'  BY OrderedStep
<1>3. Moves /\ Up \in Directions /\ Down \in Directions
  BY <1>2, UpIsNotDown DEF Ordered
<1>4. ASSUME NEW d \in Directions PROVE Buffers(d)'
  <2>1. Buffers(d) /\ StepOf(d)  BY <1>1, <1>3 DEF Typed, Moves
  <2> QED BY <2>1, BuffersStep DEF StepOf
<1>5. Typed'  BY <1>3, <1>4 DEF Typed, Moves
<1>6. Stream(Down)'
  <2>1. Buffers(Down) /\ Stream(Down) /\ Shut /\ InOrder(Down)
    BY <1>1, <1>2, <1>3 DEF Typed, Flow, Moves, Ordered
  <2> QED BY <1>3, <2>1, StreamStep
<1>7. lost' = 0 => Stream(Up)'
  <2> SUFFICES ASSUME lost' = 0 PROVE Stream(Up)'
    OBVIOUS
  <2>1. lost = 0
    <3>1. Len(got[Up]) + 1 # 0  BY <1>1, <1>3, LenOfBuffers
    <3> QED BY <1>2, <3>1 DEF Ordered
  <2>2. Buffers(Up) /\ Stream(Up) /\ Shut /\ InOrder(Up)
    BY <1>1, <1>2, <1>3, <2>1 DEF Typed, Flow, Moves, Ordered
  <2> QED BY <1>3, <2>2, StreamStep
<1> QED BY <1>2, <1>5, <1>6, <1>7 DEF Framed, Flow

LEMMA FramedInit ==
  ASSUME Init
  PROVE  Framed
<1> DEFINE none == [d \in Directions |-> <<>>]
<1>1. /\ out = none /\ pipe = none /\ in = none /\ pushed = none /\ got = none
      /\ transport \in Transports /\ offered \in BOOLEAN
      /\ broker = "backlog" /\ client = "open"
      /\ zip = [e \in {"broker", "client"} |-> FALSE]
      /\ retry = [d \in Directions |-> "none"]
      /\ phase = "out" /\ revents = {} /\ errno = "other" /\ lost = 0
  BY DEF Init
<1>2. \A d \in Directions : none[d] = <<>>  OBVIOUS
<1>3. Functions  BY <1>1 DEF Functions
<1>4. Ground
  <2>1. 0 \in 0 .. MaxFrames + 1  BY Constants
  <2> QED BY <1>1, <2>1 DEF Ground
<1> HIDE DEF none
<1>5. Len(<<>>) = 0 /\ \A S : <<>> \in Seq(S)  OBVIOUS
<1>6. ASSUME NEW d \in Directions PROVE Buffers(d) /\ Stream(d)
  <2>1. out[d] = <<>> /\ pipe[d] = <<>> /\ in[d] = <<>> /\ pushed[d] = <<>> /\ got[d] = <<>>
    BY <1>1, <1>2
  <2>2. Buffers(d)  BY <1>5, <2>1, NothingKnown, Constants DEF Buffers
  <2>3. <<>> \o <<>> = <<>>  OBVIOUS
  <2>4. Runs(<<>>, <<>>, 0)  BY <1>5 DEF Runs
  <2>5. Full(<<>>, <<>>, 0)  BY <1>5, <2>4 DEF Full
  <2>6. Stream(d)  BY <1>5, <2>1, <2>3, <2>4, <2>5 DEF Stream, Counted, Ahead
  <2> QED BY <2>2, <2>6
<1>7. Typed /\ Flow  BY <1>3, <1>4, <1>6, UpIsNotDown DEF Typed, Flow
<1>8. \A d \in Directions : pushed[d] = <<>> /\ got[d] = <<>> /\ Len(pushed[d]) = 0
  BY <1>1, <1>2, <1>5
<1>9. ~zip["client"] /\ ~zip["broker"]  BY <1>1
<1>10. Compressed
  BY <1>8, <1>9, UpIsNotDown DEF Compressed
<1>11. RunsOn  BY <1>1 DEF RunsOn
<1> QED BY <1>7, <1>10, <1>11 DEF Framed
-----------------------------------------------------------------------------
(* The theorems.                                                           *)

\* The inductive invariant: the units of both directions follow one another from buffer
\* to buffer, and each end knows of the compression when it matters.
THEOREM StreamsInOrder == Safe => []Framed
<1>1. Init => Framed  BY FramedInit
<1>2. Framed /\ [Next]_vars => Framed'  BY FramedStep
<1> QED BY <1>1, <1>2, PTL DEF Safe

\* Nobody but the client's thread touches its errno.
LEMMA ExcuseStep ==
  ASSUME excuse \in {"again", "other"}, [Next]_vars
  PROVE  excuse' \in {"again", "other"}
<1>1. PrepareOut \/ Poll \/ Accept \/ Read \/ Write \/ HungUp => excuse' = excuse
  BY DEF PrepareOut, Poll, Accept, Read, Write, HungUp
<1>2. EventsDone \/ Parse \/ Parsed \/ Handle \/ Elsewhere => excuse' = excuse
  BY DEF EventsDone, Parse, Parsed, Handle, Elsewhere
<1>3. Flush \/ ClientRead \/ ClientWrite \/ ClientParse \/ ClientClose => excuse' = excuse
  BY DEF Flush, ClientRead, ClientWrite, ClientParse, ClientClose
<1>4. Over \/ UNCHANGED vars => excuse' = excuse  BY DEF Over, vars
<1>5. ClientElsewhere => excuse' \in {"again", "other"}  BY DEF ClientElsewhere
<1> QED
  BY <1>1, <1>2, <1>3, <1>4, <1>5 DEF Next, Broker, TcpAccept, UdsAccept, Client, ClientLeave

\* The variables have their types, and every unit of a buffer is one of a frame that was
\* pushed in its direction.
THEOREM FramesTyped == Safe => []TypeOK
<1> DEFINE Excused == excuse \in {"again", "other"}
<1>1. Framed /\ Excused => TypeOK
  <2> SUFFICES ASSUME Framed, Excused PROVE TypeOK
    OBVIOUS
  <2>1. Ground /\ \A d \in Directions : Buffers(d)  BY DEF Framed, Typed
  <2>2. ASSUME NEW d \in Directions
        PROVE  /\ pushed[d] \in Seq([size : Sizes, zip : BOOLEAN]) /\ Len(pushed[d]) <= MaxFrames
               /\ got[d] \in Seq(0 .. MaxFrames)
               /\ retry[d] \in {"none", "same", "moved"} /\ (Plain => retry[d] = "none")
               /\ \A s \in {out[d], pipe[d], in[d]} : \A i \in DOMAIN s :
                    s[i][1] \in DOMAIN pushed[d]
    <3>1. /\ pushed[d] \in Seq(Frame) /\ Len(pushed[d]) <= MaxFrames
          /\ got[d] \in Seq(0 .. MaxFrames)
      BY <2>1 DEF Buffers
    <3>2. retry[d] \in {"none", "same", "moved"} /\ (Plain => retry[d] = "none")
      BY <2>1 DEF Ground
    <3>3. ASSUME NEW s \in {out[d], pipe[d], in[d]}, NEW i \in DOMAIN s
          PROVE  s[i][1] \in DOMAIN pushed[d]
      <4>1. s \in Seq(Unit) /\ Known(Len(pushed[d]), s)  BY <2>1 DEF Buffers
      <4>2. i \in 1 .. Len(s)  BY <4>1
      <4>3. s[i][1] \in 1 .. Len(pushed[d])  BY <4>1, <4>2 DEF Known
      <4> QED BY <3>1, <4>3
    <3> QED BY <3>1, <3>2, <3>3 DEF Frame
  <2> QED BY <2>1, <2>2 DEF TypeOK, Ground
<1>2. Init => Excused  BY DEF Init
<1>3. Excused /\ [Next]_vars => Excused'  BY ExcuseStep
<1> QED BY <1>1, <1>2, <1>3, StreamsInOrder, PTL DEF Safe

\* No client ends the broker with a frame that does not uncompress, unless an interrupted
\* read took a unit out of the stream.
THEOREM BrokerRunsOn == Safe => []RunsOn
<1>1. Framed => RunsOn  BY DEF Framed
<1> QED BY <1>1, StreamsInOrder, PTL

LEMMA NumbersGrow ==
  ASSUME NEW frames \in Seq(Frame)
  PROVE  /\ Len(Numbers(frames)) = Len(frames)
         /\ \A i \in 1 .. Len(frames) : Numbers(frames)[i] = i
         /\ \A frame \in Frame :
              Numbers(Append(frames, frame)) = Append(Numbers(frames), Len(frames) + 1)
<1> DEFINE n == Len(frames)
           numbers == [i \in 1 .. n |-> i]
<1>1. n \in Nat /\ Numbers(frames) = numbers  BY DEF Numbers
<1> HIDE DEF n
<1>2. numbers \in Seq(Nat) /\ Len(numbers) = n /\ \A i \in 1 .. n : numbers[i] = i
  BY <1>1
<1>3. ASSUME NEW frame \in Frame
      PROVE  Numbers(Append(frames, frame)) = Append(numbers, n + 1)
  <2>1. DOMAIN Append(frames, frame) = 1 .. n + 1  BY DEF n
  <2>2. Numbers(Append(frames, frame)) = [i \in 1 .. n + 1 |-> i]  BY <2>1 DEF Numbers
  <2> DEFINE a == Append(numbers, n + 1)
             b == [i \in 1 .. n + 1 |-> i]
  <2>3. b \in Seq(Nat) /\ Len(b) = n + 1 /\ \A i \in 1 .. n + 1 : b[i] = i
    BY <1>1
  <2> HIDE DEF numbers
  <2>4. /\ a \in Seq(Nat) /\ Len(a) = n + 1 /\ a[n + 1] = n + 1
        /\ \A i \in 1 .. n : a[i] = numbers[i]
    <3>1. n + 1 \in Nat  BY <1>1
    <3> QED BY <1>1, <1>2, <3>1, AppendProperties
  <2> HIDE DEF a, b
  <2>5. \A i \in 1 .. n + 1 : i \in 1 .. n \/ i = n + 1  BY <1>1
  <2>6. \A i \in 1 .. n + 1 : a[i] = i
    <3>1. \A i \in 1 .. n : a[i] = i  BY <1>2, <2>4
    <3> QED BY <2>4, <2>5, <3>1
  <2>7. \A i \in 1 .. Len(a) : a[i] = b[i]  BY <2>3, <2>4, <2>6
  <2>8. a = b  BY <2>3, <2>4, <2>7, SeqEqual
  <2> QED BY <2>2, <2>8 DEF a, b
<1> QED BY <1>1, <1>2, <1>3 DEF n

LEMMA BreaksForGood ==
  ASSUME Framed, Ordered
  PROVE  Broken => Broken'
<1>1. Ground /\ Ground' /\ Shut  BY DEF Framed, Typed, Ordered, Moves
<1>2. client = "closed" => client' = "closed"
  BY <1>1 DEF Shut, Ground
<1>3. broker = "closed" => broker' = "closed"  BY <1>1 DEF Shut
<1>4. phase = "ended" => phase' = "ended"  BY DEF Ordered
<1> QED BY <1>2, <1>3, <1>4 DEF Broken

\* What a step does to what was pushed and what came out.
LEMMA FifoKinds ==
  ASSUME Framed, NEW d \in Directions
  PROVE  /\ InOrder(d) => Grows(d) \/ Handles(d)
                          \/ (pushed'[d] = pushed[d] /\ got'[d] = got[d])
         /\ StepOf(d) => Grows(d) \/ HandlesAny(d)
                          \/ (pushed'[d] = pushed[d] /\ got'[d] = got[d])
BY DEF InOrder, StepOf, Same, Cut, Sends, Takes, Loses

LEMMA GrowsNumbers ==
  ASSUME Framed, NEW d \in Directions, Grows(d)
  PROVE  \E m \in 1 .. MaxFrames : Numbers(pushed'[d]) = Append(Numbers(pushed[d]), m)
<1>1. Typed /\ pushed[d] \in Seq(Frame)  BY DEF Framed, Typed, Buffers
<1>2. Len(pushed[d]) + 1 \in 1 .. MaxFrames
  <2>1. Len(pushed[d]) \in Nat /\ MaxFrames \in Nat /\ Len(pushed[d]) < MaxFrames
    BY <1>1, Constants DEF Grows
  <2> QED BY <2>1
<1>3. PICK frame \in Frame : pushed'[d] = Append(pushed[d], frame)  BY DEF Grows
<1>4. Numbers(pushed'[d]) = Append(Numbers(pushed[d]), Len(pushed[d]) + 1)
  BY <1>1, <1>3, NumbersGrow
<1> QED BY <1>2, <1>4

LEMMA HandlesNext ==
  ASSUME Framed, NEW d \in Directions, Stream(d), Handles(d)
  PROVE  /\ Len(got[d]) < Len(Numbers(pushed[d]))
         /\ got'[d] = Append(got[d], Numbers(pushed[d])[Len(got[d]) + 1])
         /\ pushed'[d] = pushed[d] /\ got'[d] # got[d]
<1>1. Typed /\ Buffers(d)  BY DEF Framed, Typed
<1> DEFINE k == Len(got[d])
<1>2. /\ pushed[d] \in Seq(Frame) /\ in[d] \in Seq(Unit) /\ pipe[d] \in Seq(Unit)
      /\ got[d] \in Seq(0 .. MaxFrames) /\ k \in Nat
  BY <1>1 DEF Buffers
<1>3. in[d] # <<>> /\ got'[d] = Append(got[d], k + 1) /\ pushed'[d] = pushed[d]
  BY DEF Handles
<1>4. Runs(pushed[d], in[d], k)
  <2>1. Runs(pushed[d], in[d] \o pipe[d], k)  BY DEF Stream, Ahead
  <2> HIDE DEF k
  <2> QED BY <1>2, <2>1, PrefixRuns
<1>5. got'[d] # got[d]  BY <1>2, <1>3, AppendNotSame
<1> HIDE DEF k
<1>6. k + 1 \in 1 .. Len(pushed[d])  BY <1>2, <1>3, <1>4, HeadFrame
<1>7. Numbers(pushed[d])[k + 1] = k + 1 /\ Len(Numbers(pushed[d])) = Len(pushed[d])
  BY <1>2, <1>6, NumbersGrow
<1>8. k < Len(pushed[d])
  <2>1. Len(pushed[d]) \in Nat  BY <1>2
  <2> QED BY <1>2, <1>6, <2>1
<1> QED BY <1>3, <1>5, <1>7, <1>8 DEF k

\* What the broker sends comes to the client whole, once and in order.
LEMMA DownStreamStep ==
  ASSUME Framed, [Next]_vars
  PROVE  [DownStream!Next]_DownStream!vars
<1>1. Ordered /\ Down \in Directions /\ Stream(Down)
  BY OrderedStep, UpIsNotDown DEF Framed, Flow
<1>2. Broken => Broken'  BY <1>1, BreaksForGood
<1>3. Grows(Down) \/ Handles(Down) \/ (pushed'[Down] = pushed[Down] /\ got'[Down] = got[Down])
  BY <1>1, FifoKinds DEF Ordered
<1>4. CASE pushed'[Down] = pushed[Down] /\ got'[Down] = got[Down]
  <2>1. CASE Broken' <=> Broken
    <3>1. Broken' = Broken  BY <2>1 DEF Broken
    <3> QED BY <1>4, <3>1 DEF DownStream!vars
  <2>2. CASE Broken' /\ ~Broken
    <3>1. Broken' = TRUE  BY <2>2 DEF Broken
    <3>2. DownStream!Break  BY <1>4, <2>2, <3>1 DEF DownStream!Break
    <3> QED BY <3>2 DEF DownStream!Next
  <2> QED BY <1>2, <2>1, <2>2
<1>5. CASE Grows(Down)
  <2>1. PICK m \in 1 .. MaxFrames : Numbers(pushed'[Down]) = Append(Numbers(pushed[Down]), m)
    BY <1>1, <1>5, GrowsNumbers
  <2>2. Broken' = Broken \/ Broken' = TRUE  BY <1>2 DEF Broken
  <2>3. got'[Down] = got[Down]  BY <1>5 DEF Grows
  <2>4. DownStream!Push(m)  BY <2>1, <2>2, <2>3 DEF DownStream!Push, Numbers
  <2> QED BY <2>4 DEF DownStream!Next
<1>6. CASE Handles(Down)
  <2>1. /\ Len(got[Down]) < Len(Numbers(pushed[Down]))
        /\ got'[Down] = Append(got[Down], Numbers(pushed[Down])[Len(got[Down]) + 1])
        /\ pushed'[Down] = pushed[Down] /\ got'[Down] # got[Down]
    BY <1>1, <1>6, HandlesNext
  <2>2. UNCHANGED <<ends, phase>>  BY <1>1, <2>1 DEF Ordered
  <2>3. Broken' = Broken  BY <2>2 DEF Broken, ends
  <2>4. DownStream!Pop  BY <2>1, <2>3 DEF DownStream!Pop, Numbers
  <2> QED BY <2>4 DEF DownStream!Next
<1> QED BY <1>3, <1>4, <1>5, <1>6

\* The frames of the client that were handled before a unit was dropped, if one was.
UpGot == IF lost = 0 THEN got[Up] ELSE SubSeq(got[Up], 1, lost - 1)

UpBroken == Broken \/ lost # 0 \/ retry[Up] = "moved"

\* After a loss nothing counts any more.
LEMMA UpGotStays ==
  ASSUME Framed, Ordered, lost' # 0
  PROVE  UpGot' = UpGot
<1>1. Typed /\ Typed' /\ Up \in Directions
  <2>1. Typed /\ Moves  BY DEF Framed, Ordered
  <2>2. \A d \in Directions : Buffers(d)'
    BY <2>1, BuffersStep DEF Typed, Moves, StepOf
  <2> QED BY <2>1, <2>2, UpIsNotDown DEF Typed, Moves
<1>2. got[Up] \in Seq(0 .. MaxFrames) /\ Len(got[Up]) \in Nat
  BY <1>1 DEF Typed, Buffers
<1>3. CASE lost = 0
  <2>1. lost' = Len(got[Up]) + 1 /\ got' = got  BY <1>3 DEF Ordered
  <2>2. lost' - 1 = Len(got[Up])  BY <1>2, <2>1
  <2>3. SubSeq(got[Up], 1, Len(got[Up])) = got[Up]  BY <1>2, SubSeqFull
  <2> QED BY <1>3, <2>1, <2>2, <2>3 DEF UpGot
<1>4. CASE lost # 0
  <2> DEFINE m == lost - 1
  <2>1. lost' = lost /\ m \in 0 .. Len(got[Up])
    <3>1. lost' = lost  BY <1>4 DEF Ordered
    <3>2. lost \in 0 .. MaxFrames + 1 /\ lost - 1 <= Len(got[Up])
      BY <1>1, <1>4 DEF Typed, Ground
    <3> QED BY <1>2, <1>4, <3>1, <3>2, Constants
  <2>2. UpGot = SubSeq(got[Up], 1, m) /\ UpGot' = SubSeq(got'[Up], 1, m)
    BY <1>4, <2>1 DEF UpGot
  <2> HIDE DEF m
  <2>3. CASE got'[Up] = got[Up]  BY <2>2, <2>3
  <2>4. CASE HandlesAny(Up)
    <3>1. PICK n \in 0 .. Len(pushed[Up]) : got'[Up] = Append(got[Up], n)
      BY <2>4 DEF HandlesAny
    <3>2. n \in 0 .. MaxFrames
      <4>1. Len(pushed[Up]) \in 0 .. MaxFrames  BY <1>1, LenOfBuffers
      <4> QED BY <4>1, Constants
    <3> DEFINE g == got[Up]
               h == Append(g, n)
    <3>3. /\ h \in Seq(0 .. MaxFrames) /\ Len(h) = Len(g) + 1
          /\ \A i \in 1 .. Len(g) : h[i] = g[i]
      BY <1>2, <3>2, AppendProperties
    <3> HIDE DEF g, h
    <3>4. \A i \in 1 .. m : i \in 1 .. Len(g)  BY <1>2, <2>1 DEF g
    <3>5. m \in 0 .. Len(g) /\ m \in 0 .. Len(h) /\ Len(g) \in Nat  BY <1>2, <2>1, <3>3 DEF g
    <3>6. SubSeq(g, 1, m) = [i \in 1 .. m |-> g[i]] /\ SubSeq(h, 1, m) = [i \in 1 .. m |-> h[i]]
      <4>1. 1 + m - 1 = m  BY <3>5
      <4>2. \A s : SubSeq(s, 1, m) = [i \in 1 .. m |-> s[i]]  BY <3>5, <4>1
      <4> QED BY <4>2
    <3>7. SubSeq(h, 1, m) = SubSeq(g, 1, m)  BY <3>3, <3>4, <3>6
    <3> QED BY <2>2, <3>1, <3>7 DEF g, h
  <2>5. got'[Up] = got[Up] \/ HandlesAny(Up)
    <3>1. StepOf(Up)  BY <1>1 DEF Ordered, Moves
    <3> QED BY <1>1, <3>1, FifoKinds DEF Grows
  <2> QED BY <2>3, <2>4, <2>5
<1> QED BY <1>3, <1>4

\* And what the client sends comes to the broker, up to a loss.
LEMMA UpStreamStep ==
  ASSUME Framed, [Next]_vars
  PROVE  [UpStream!Next]_UpStream!vars
<1>1. Ordered /\ Moves /\ Up \in Directions /\ Typed
  BY OrderedStep, UpIsNotDown DEF Framed, Ordered
<1>2. lost # 0 => lost' = lost  BY <1>1 DEF Ordered
<1>3. UpBroken => UpBroken'
  BY <1>1, <1>2, BreaksForGood DEF UpBroken, Ordered
<1>4. \/ pushed'[Up] = pushed[Up] /\ UpGot' = UpGot
      \/ Grows(Up) /\ UpGot' = UpGot
      \/ lost = 0 /\ lost' = 0 /\ Handles(Up)
  <2>1. CASE lost' = 0
    <3>1. lost = 0 /\ InOrder(Up)  BY <1>1, <1>2, <2>1 DEF Ordered
    <3>2. Grows(Up) \/ Handles(Up) \/ (pushed'[Up] = pushed[Up] /\ got'[Up] = got[Up])
      BY <1>1, <3>1, FifoKinds
    <3>3. Grows(Up) => got'[Up] = got[Up]  BY DEF Grows
    <3> QED BY <2>1, <3>1, <3>2, <3>3 DEF UpGot
  <2>2. CASE lost' # 0
    <3>1. UpGot' = UpGot  BY <1>1, <2>2, UpGotStays
    <3>2. Grows(Up) \/ pushed'[Up] = pushed[Up]
      <4>1. StepOf(Up)  BY <1>1 DEF Moves
      <4> QED BY <1>1, <4>1, FifoKinds DEF HandlesAny
    <3> QED BY <3>1, <3>2
  <2> QED BY <2>1, <2>2
<1>5. CASE pushed'[Up] = pushed[Up] /\ UpGot' = UpGot
  <2>1. CASE UpBroken' <=> UpBroken
    <3>1. UpBroken' = UpBroken  BY <2>1 DEF UpBroken
    <3> QED BY <1>5, <3>1 DEF UpStream!vars, UpGot, UpBroken
  <2>2. CASE UpBroken' /\ ~UpBroken
    <3>1. UpBroken' = TRUE  BY <2>2 DEF UpBroken
    <3>2. UpStream!Break  BY <1>5, <2>2, <3>1 DEF UpStream!Break, UpGot, UpBroken
    <3> QED BY <3>2 DEF UpStream!Next
  <2> QED BY <1>3, <2>1, <2>2
<1>6. CASE Grows(Up) /\ UpGot' = UpGot
  <2>1. PICK m \in 1 .. MaxFrames : Numbers(pushed'[Up]) = Append(Numbers(pushed[Up]), m)
    BY <1>1, <1>6, GrowsNumbers
  <2>2. UpBroken' = UpBroken \/ UpBroken' = TRUE  BY <1>3 DEF UpBroken
  <2>3. UpStream!Push(m)
    BY <1>6, <2>1, <2>2 DEF UpStream!Push, Numbers, UpGot, UpBroken
  <2> QED BY <2>3 DEF UpStream!Next
<1>7. CASE lost = 0 /\ lost' = 0 /\ Handles(Up)
  <2>1. Stream(Up)  BY <1>7 DEF Framed, Flow
  <2>2. /\ Len(got[Up]) < Len(Numbers(pushed[Up]))
        /\ got'[Up] = Append(got[Up], Numbers(pushed[Up])[Len(got[Up]) + 1])
        /\ pushed'[Up] = pushed[Up] /\ got'[Up] # got[Up]
    BY <1>1, <1>7, <2>1, HandlesNext
  <2>3. UNCHANGED <<ends, phase, lost, retry>>  BY <1>1, <1>7, <2>2 DEF Ordered
  <2>4. UpBroken' = UpBroken  BY <2>3 DEF UpBroken, Broken, ends
  <2>5. UpGot = got[Up] /\ UpGot' = got'[Up]  BY <1>7 DEF UpGot
  <2>6. UpStream!Pop
    BY <2>2, <2>4, <2>5 DEF UpStream!Pop, Numbers, UpGot, UpBroken
  <2> QED BY <2>6 DEF UpStream!Next
<1> QED BY <1>4, <1>5, <1>6, <1>7

\* Both directions implement the safety part of MbusFifo, for every size of frame, chunk
\* and socket, and whatever the cuts: no frame is torn, overtaken, doubled or read with
\* the wrong compression, and none is missing before one that comes.  (That they come at
\* all is the part of Fifos that stays with TLC.)
THEOREM SocketsImplementFifo == Safe => UpStream!Safe /\ DownStream!Safe
<1>1. Init => UpStream!Init /\ DownStream!Init
  <2> SUFFICES ASSUME Init PROVE UpStream!Init /\ DownStream!Init
    OBVIOUS
  <2>1. \A d \in Directions : pushed[d] = <<>> /\ got[d] = <<>>
    BY DEF Init
  <2>2. Numbers(<<>>) = <<>>  BY DEF Numbers
  <2>3. /\ broker = "backlog" /\ client = "open" /\ phase = "out" /\ lost = 0
        /\ retry[Up] = "none"
    BY UpIsNotDown DEF Init
  <2>4. Broken = FALSE /\ UpBroken = FALSE /\ UpGot = got[Up]
    BY <2>3 DEF Broken, UpBroken, UpGot
  <2> QED BY <2>1, <2>2, <2>4, UpIsNotDown
       DEF UpStream!Init, DownStream!Init, Numbers, UpBroken, UpGot
<1>2. Framed /\ [Next]_vars => [UpStream!Next]_UpStream!vars /\ [DownStream!Next]_DownStream!vars
  BY UpStreamStep, DownStreamStep
<1> QED BY <1>1, <1>2, StreamsInOrder, PTL DEF Safe, UpStream!Safe, DownStream!Safe

\* The frames that came out are the first of those pushed: all that the client handled,
\* and what the broker handled while nothing was lost.
THEOREM FramesInOrder == Safe => [](Counted(Down) /\ (lost = 0 => Counted(Up)))
<1>1. Framed => Counted(Down) /\ (lost = 0 => Counted(Up))  BY DEF Framed, Flow, Stream
<1> QED BY <1>1, StreamsInOrder, PTL


=============================================================================
