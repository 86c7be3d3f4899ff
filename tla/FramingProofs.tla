---------------------------- MODULE FramingProofs ----------------------------
(***************************************************************************)
(* What Framing promises for any number of messages, cut into any pieces.  *)
(***************************************************************************)
EXTENDS Framing, SequenceTheorems, TLAPS

Types == TypeOK /\ (server \in {"header", "rest"} => id \in PlayerIds)

-----------------------------------------------------------------------------
(* Sequences                                                               *)

\* The first n bytes, and what is left of the others.
LEMMA Pieces ==
    ASSUME NEW s \in Seq(Byte), NEW n \in 0 .. Len(s)
    PROVE  /\ SubSeq(s, 1, n) \in Seq(Byte)
           /\ Len(SubSeq(s, 1, n)) = n
           /\ \A i \in 1 .. n : SubSeq(s, 1, n)[i] = s[i]
           /\ SubSeq(s, n + 1, Len(s)) \in Seq(Byte)
           /\ Len(SubSeq(s, n + 1, Len(s))) = Len(s) - n
           /\ \A i \in 1 .. Len(s) - n : SubSeq(s, n + 1, Len(s))[i] = s[n + i]
<1>1. Len(s) \in Nat
  BY LenProperties
<1>2. \A i \in 1 .. Len(s) : s[i] \in Byte
  BY ElementOfSeq
<1>3. /\ SubSeq(s, 1, n) \in Seq(Byte)
      /\ Len(SubSeq(s, 1, n)) = IF 1 <= n THEN n - 1 + 1 ELSE 0
      /\ \A i \in 1 .. n - 1 + 1 : SubSeq(s, 1, n)[i] = s[1 + i - 1]
  BY <1>1, <1>2, SubSeqProperties
<1>4. /\ SubSeq(s, n + 1, Len(s)) \in Seq(Byte)
      /\ Len(SubSeq(s, n + 1, Len(s))) =
             IF n + 1 <= Len(s) THEN Len(s) - (n + 1) + 1 ELSE 0
      /\ \A i \in 1 .. Len(s) - (n + 1) + 1 :
             SubSeq(s, n + 1, Len(s))[i] = s[n + 1 + i - 1]
  BY <1>1, <1>2, SubSeqProperties
<1> QED BY <1>1, <1>3, <1>4

\* A number of two bytes is cut into them.
LEMMA Halves ==
    ASSUME NEW p \in U16
    PROVE  p \div 256 \in Byte /\ p % 256 \in Byte
<1>1. PICK a, b \in Byte : p = 256 * a + b
  BY SMT DEF U16
<1>2. a \in Int /\ a >= 0 /\ a <= 255 /\ b \in Int /\ b >= 0 /\ b <= 255
  BY SMT DEF Byte
<1>3. p \div 256 = a /\ p % 256 = b
  BY <1>1, <1>2, Z3
<1> QED BY <1>3

\* The messages are sequences of bytes, and those to the server have three.
LEMMA Triple ==
    ASSUME NEW x \in Byte, NEW y \in Byte, NEW z \in Byte
    PROVE  <<x, y, z>> \in Seq(Byte) /\ Len(<<x, y, z>>) = 3
BY SMT

LEMMA Bytes ==
    /\ MSG_CONNECT \in Byte /\ MSG_SWING \in Byte /\ MSG_RESPAWN_REQUEST \in Byte
    /\ MSG_CONNECTED \in Byte /\ MSG_HEALTH_UPDATE \in Byte
    /\ MSG_YOU_DIED \in Byte
    /\ 0 \in Byte /\ 1 \in Byte /\ 200 \in Byte
BY SMT DEF MSG_CONNECT, MSG_SWING, MSG_RESPAWN_REQUEST, MSG_CONNECTED,
           MSG_HEALTH_UPDATE, MSG_YOU_DIED, Byte

LEMMA Requests ==
    /\ Connect \in Seq(Byte) /\ Len(Connect) = 3
    /\ \A p \in U16 :
           /\ Swing(p) \in Seq(Byte) /\ Len(Swing(p)) = 3
           /\ RespawnRequest(p) \in Seq(Byte) /\ Len(RespawnRequest(p)) = 3
BY Halves, Triple, Bytes, SMT DEF Connect, Swing, RespawnRequest

LEMMA Answers ==
    ASSUME NEW p \in Byte, NEW h \in Byte
    PROVE  /\ Connected(p) \in Seq(Byte)
           /\ HealthUpdate(p, h) \in Seq(Byte)
           /\ YouDied(p) \in Seq(Byte)
BY Bytes, SMT DEF Connected, HealthUpdate, YouDied

-----------------------------------------------------------------------------
(* Types                                                                   *)

LEMMA TypesInit == Init => Types
<1> SUFFICES ASSUME Init PROVE Types
  OBVIOUS
<1>1. <<>> \in Seq(Byte) /\ <<>> \in Seq(Seq(Byte))
  BY EmptySeq
<1>2. attempts \in 0 .. Attempts /\ header \in Byte
  BY FramingConstants, Bytes DEF Init
<1> QED BY <1>1, <1>2 DEF Init, Types, TypeOK

LEMMA SendTypes ==
    ASSUME Types, NEW m \in Seq(Byte), ClientSends(m)
    PROVE  /\ upSent' \in Seq(Seq(Byte)) /\ upNet' \in Seq(Byte)
           /\ UNCHANGED <<upBuf, server, header, upDone>>
BY ConcatProperties, AppendProperties DEF ClientSends, Types, TypeOK

LEMMA AnswerTypes ==
    ASSUME Types, NEW m \in Seq(Byte), ServerSends(m)
    PROVE  /\ downSent' \in Seq(Seq(Byte)) /\ downNet' \in Seq(Byte)
           /\ UNCHANGED <<downBuf, downDone, torn>>
BY ConcatProperties, AppendProperties DEF ServerSends, Types, TypeOK

\* The connection.
LEMMA TypesJoin ==
    ASSUME Types, Join \/ Dial \/ Retry
    PROVE  Types'
<1> USE FramingConstants
<1>1. CASE Join
  BY <1>1 DEF Join, Attempt, Types, TypeOK, upVars, downVars
<1>2. CASE Dial
  BY <1>2 DEF Dial, Refused, Accepted, Types, TypeOK, upVars, downVars
<1>3. CASE Joined
  BY <1>3, SendTypes, Requests DEF Joined, Types, TypeOK, downVars
<1>4. CASE AttemptFails
  BY <1>4 DEF AttemptFails, Types, TypeOK, upVars, downVars
<1>5. CASE PauseEnds
  BY <1>5 DEF PauseEnds, Attempt, Types, TypeOK, upVars, downVars
<1>6. CASE GiveUp
  BY <1>6 DEF GiveUp, Types, TypeOK, upVars, downVars
<1> QED BY <1>1, <1>2, <1>3, <1>4, <1>5, <1>6 DEF Retry

\* The way up.
LEMMA TypesUp ==
    ASSUME Types, SendRequest \/ ArriveUp \/ Read
    PROVE  Types'
<1> USE FramingConstants
<1>1. CASE SendRequest
  <2>1. me \in U16
    BY <1>1 DEF SendRequest, Types, TypeOK
  <2>2. PICK m \in {Swing(me), RespawnRequest(me)} : ClientSends(m)
    BY <1>1 DEF SendRequest
  <2>3. m \in Seq(Byte)
    BY <2>1, <2>2, Requests
  <2> QED
    BY <1>1, <2>2, <2>3, SendTypes
    DEF SendRequest, Types, TypeOK, joinVars, downVars
<1>2. CASE ArriveUp
  <2>1. PICK n \in 1 .. Len(upNet) :
            /\ upBuf' = upBuf \o SubSeq(upNet, 1, n)
            /\ upNet' = SubSeq(upNet, n + 1, Len(upNet))
    BY <1>2 DEF ArriveUp
  <2>2. upBuf' \in Seq(Byte) /\ upNet' \in Seq(Byte)
    BY <2>1, Pieces, LenProperties, ConcatProperties DEF Types, TypeOK
  <2> QED BY <1>2, <2>2 DEF ArriveUp, Types, TypeOK, joinVars, downVars
<1>3. ASSUME NEW n \in Nat, ReadExact(n)
      PROVE  upBuf' \in Seq(Byte) /\ Taken(n) \in Seq(Byte)
  BY <1>3, Pieces, LenProperties DEF ReadExact, Taken, Types, TypeOK
<1>4. \A i \in 1 .. Len(upBuf) : upBuf[i] \in Byte
  BY ElementOfSeq DEF Types, TypeOK
<1>5. CASE ReadConnect
  <2>1. ReadExact(3)
    BY <1>5 DEF ReadConnect
  <2>2. CASE upBuf[1] = MSG_CONNECT
    <3>1. id' \in PlayerIds /\ ServerSends(Connected(id'))
      BY <1>5, <2>2 DEF ReadConnect
    <3>2. Connected(id') \in Seq(Byte)
      BY <3>1, Answers DEF Byte
    <3>3. upDone' \in Seq(Seq(Byte))
      <4>1. Taken(3) \in Seq(Byte) /\ upDone' = Append(upDone, Taken(3))
        BY <1>3, <1>5, <2>1, <2>2 DEF ReadConnect
      <4> QED BY <4>1, AppendProperties DEF Types, TypeOK
    <3> QED
      BY <1>3, <1>5, <2>1, <2>2, <3>1, <3>2, <3>3, AnswerTypes
      DEF ReadConnect, Types, TypeOK, joinVars
  <2>3. CASE upBuf[1] # MSG_CONNECT
    BY <1>3, <1>5, <2>1, <2>3
    DEF ReadConnect, Types, TypeOK, joinVars, downVars
  <2> QED BY <2>2, <2>3
<1>6. CASE ReadHeader
  <2>1. ReadExact(1) /\ Len(upBuf) >= 1
    BY <1>6 DEF ReadHeader, ReadExact
  <2>2. upBuf' \in Seq(Byte) /\ header' \in Byte
    BY <1>3, <1>4, <1>6, <2>1, LenProperties DEF ReadHeader, Types, TypeOK
  <2> QED BY <1>6, <2>2 DEF ReadHeader, Types, TypeOK, joinVars, downVars
<1>7. CASE ReadRest
  <2>1. ReadExact(2)
    BY <1>7 DEF ReadRest
  <2>2. <<header>> \o Taken(2) \in Seq(Byte)
    BY <1>3, <2>1, ConcatProperties DEF Types, TypeOK
  <2>3. upDone' \in Seq(Seq(Byte))
    BY <1>7, <2>2, AppendProperties DEF ReadRest, Types, TypeOK
  <2> QED
    BY <1>3, <1>7, <2>1, <2>3 DEF ReadRest, Types, TypeOK, joinVars, downVars
<1> QED BY <1>1, <1>2, <1>5, <1>6, <1>7 DEF Read

\* Two bytes make a number of 16 bits.
LEMMA Value ==
    ASSUME NEW a \in Byte, NEW b \in Byte
    PROVE  256 * a + b \in U16
BY SMT DEF U16

\* The way down.
LEMMA TypesDown ==
    ASSUME Types, Write \/ ArriveDown \/ Poll
    PROVE  Types'
<1> USE FramingConstants
<1>1. CASE Write
  <2>1. id \in Byte
    BY <1>1 DEF Write, Types
  <2>2. PICK m \in {YouDied(id)} \cup {HealthUpdate(id, h) : h \in Healths} :
            ServerSends(m)
    BY <1>1 DEF Write
  <2>3. m \in Seq(Byte)
    BY <2>1, <2>2, Answers, Bytes
  <2> QED
    BY <1>1, <2>2, <2>3, AnswerTypes DEF Write, Types, TypeOK, joinVars, upVars
<1>2. CASE ArriveDown
  <2>1. PICK n \in 1 .. Len(downNet) :
            /\ downBuf' = downBuf \o SubSeq(downNet, 1, n)
            /\ downNet' = SubSeq(downNet, n + 1, Len(downNet))
    BY <1>2 DEF ArriveDown
  <2>2. downBuf' \in Seq(Byte) /\ downNet' \in Seq(Byte)
    BY <2>1, Pieces, LenProperties, ConcatProperties DEF Types, TypeOK
  <2> QED BY <1>2, <2>2 DEF ArriveDown, Types, TypeOK, joinVars, upVars
<1>3. \A i \in 1 .. Len(downBuf) : downBuf[i] \in Byte
  BY ElementOfSeq DEF Types, TypeOK
<1>4. CASE PollMessage
  <2> DEFINE n == 1 + BodyLength(downBuf[1])
  <2>1. n \in {3, 7} /\ Len(downBuf) >= n
    BY <1>4, SMT DEF PollMessage, Known, BodyLength
  <2>2. /\ downDone' = Append(downDone, SubSeq(downBuf, 1, n))
        /\ downBuf' = SubSeq(downBuf, n + 1, Len(downBuf))
    BY <1>4 DEF PollMessage
  <2>3. n \in 0 .. Len(downBuf)
    BY <2>1, LenProperties DEF Types, TypeOK
  <2> HIDE DEF n
  <2>4. downDone' \in Seq(Seq(Byte)) /\ downBuf' \in Seq(Byte)
    BY <2>2, <2>3, Pieces, AppendProperties DEF Types, TypeOK
  <2>5. me' \in U16 \cup {NoId}
    <3>1. downBuf[2] \in Byte /\ downBuf[3] \in Byte
      BY <1>3, <2>1, LenProperties DEF Types, TypeOK
    <3>2. 256 * downBuf[2] + downBuf[3] \in U16
      BY <3>1, Value
    <3>3. me' = 256 * downBuf[2] + downBuf[3] \/ me' = me
      BY <1>4, Zenon DEF PollMessage
    <3>4. me \in U16 \cup {NoId}
      BY DEF Types, TypeOK
    <3> QED BY <3>2, <3>3, <3>4, SMT
  <2> QED
    BY <1>4, <2>4, <2>5 DEF PollMessage, Types, TypeOK, joinVars, upVars
<1>5. CASE PollTorn
  BY <1>5, HeadTailProperties DEF PollTorn, Types, TypeOK, joinVars, upVars
<1>6. CASE PollUnknown
  BY <1>6, HeadTailProperties DEF PollUnknown, Types, TypeOK, joinVars, upVars
<1> QED BY <1>1, <1>2, <1>4, <1>5, <1>6 DEF Poll

LEMMA TypesStep == Types /\ [Next]_vars => Types'
<1> SUFFICES ASSUME Types, [Next]_vars PROVE Types'
  OBVIOUS
<1>1. CASE UNCHANGED vars
  BY <1>1 DEF Types, TypeOK, vars, joinVars, upVars, downVars
<1> QED BY <1>1, TypesJoin, TypesUp, TypesDown DEF Next

LEMMA TypesHold == Spec => []Types
BY TypesInit, TypesStep, PTL DEF Spec

\* Types: attempts are counted within their number, and only bytes travel.
THEOREM FramingTypes == Spec => []TypeOK
<1>1. Types => TypeOK
  BY DEF Types
<1> QED BY <1>1, TypesHold, PTL

-----------------------------------------------------------------------------
(* The server keeps in step with what the client sends                     *)

\* The bytes the server has not read, and how many of the next message it has.
Pending == upBuf \o upNet
Begun == IF server = "rest" THEN 1 ELSE 0

\* Where in Pending byte b of message j is, if it is not read yet.
Place(j, b) == 3 * (j - Len(upDone) - 1) + b - Begun

\* What is not read is exactly the messages that are not dispatched, less the
\* type byte of the one that is being read.
InStep ==
    /\ \A j \in 1 .. Len(upSent) : Len(upSent[j]) = 3
    /\ Len(upDone) <= Len(upSent)
    /\ Len(Pending) = 3 * (Len(upSent) - Len(upDone)) - Begun
    /\ \A j \in 1 .. Len(upSent), b \in 1 .. 3 :
           Place(j, b) >= 1 => Pending[Place(j, b)] = upSent[j][b]
    /\ server = "connect" => upDone = <<>>
    /\ server = "rest" => header = upSent[Len(upDone) + 1][1]

UpInv == Types /\ (server = "closed" \/ InStep)

\* The lengths and the contents of what is sent and pending.
LEMMA UpTypes ==
    ASSUME Types
    PROVE  /\ upBuf \in Seq(Byte) /\ upNet \in Seq(Byte)
           /\ Pending \in Seq(Byte)
           /\ Len(Pending) = Len(upBuf) + Len(upNet)
           /\ \A i \in 1 .. Len(Pending) :
                  Pending[i] = IF i <= Len(upBuf) THEN upBuf[i]
                               ELSE upNet[i - Len(upBuf)]
           /\ Len(upBuf) \in Nat /\ Len(upNet) \in Nat
           /\ upSent \in Seq(Seq(Byte)) /\ upDone \in Seq(Seq(Byte))
           /\ Len(upSent) \in Nat /\ Len(upDone) \in Nat
           /\ \A j \in 1 .. Len(upSent) : upSent[j] \in Seq(Byte)
<1>1. /\ upBuf \in Seq(Byte) /\ upNet \in Seq(Byte)
      /\ upSent \in Seq(Seq(Byte)) /\ upDone \in Seq(Seq(Byte))
  BY DEF Types, TypeOK
<1> QED BY <1>1, ConcatProperties, LenProperties, ElementOfSeq DEF Pending

LEMMA Associative ==
    ASSUME NEW s \in Seq(Byte), NEW x \in Seq(Byte), NEW y \in Seq(Byte)
    PROVE  (s \o x) \o y = s \o (x \o y)
BY ConcatAssociative

\* Elements that move from the front of t to the end of s.
LEMMA Moved ==
    ASSUME NEW s \in Seq(Byte), NEW t \in Seq(Byte), NEW n \in 0 .. Len(t)
    PROVE  (s \o SubSeq(t, 1, n)) \o SubSeq(t, n + 1, Len(t)) = s \o t
<1>1. Len(t) \in Nat
  BY LenProperties
<1>2. SubSeq(t, 1, n) \in Seq(Byte) /\ SubSeq(t, n + 1, Len(t)) \in Seq(Byte)
  BY Pieces
<1>3. SubSeq(t, 1, n) \o SubSeq(t, n + 1, Len(t)) = t
  <2>1. /\ 1 \in 1 .. Len(t) + 1 /\ n \in 1 - 1 .. Len(t)
        /\ Len(t) \in n .. Len(t)
    BY <1>1
  <2>2. SubSeq(t, 1, n) \o SubSeq(t, n + 1, Len(t)) = SubSeq(t, 1, Len(t))
    BY <2>1, ConcatAdjacentSubSeq
  <2> QED BY <2>2, SubSeqFull
<1>4. PICK x \in Seq(Byte), y \in Seq(Byte) :
          x = SubSeq(t, 1, n) /\ y = SubSeq(t, n + 1, Len(t))
  BY <1>2, Zenon
<1>5. (s \o x) \o y = s \o (x \o y)
  BY Associative
<1> QED BY <1>3, <1>4, <1>5, Zenon

\* A segment that arrives changes nothing of it.
LEMMA ArrivalKeeps ==
    ASSUME Types, ArriveUp
    PROVE  Pending' = Pending
<1>1. PICK n \in 1 .. Len(upNet) :
          /\ upBuf' = upBuf \o SubSeq(upNet, 1, n)
          /\ upNet' = SubSeq(upNet, n + 1, Len(upNet))
  BY DEF ArriveUp
<1>2. n \in 0 .. Len(upNet)
  BY UpTypes
<1>3. (upBuf \o SubSeq(upNet, 1, n)) \o SubSeq(upNet, n + 1, Len(upNet))
          = upBuf \o upNet
  BY <1>2, UpTypes, Moved
<1> QED BY <1>1, <1>3, Zenon DEF Pending

\* What is left of two sequences without the first n elements.
LEMMA Rest ==
    ASSUME NEW s \in Seq(Byte), NEW t \in Seq(Byte), NEW n \in 0 .. Len(s)
    PROVE  LET r == SubSeq(s, n + 1, Len(s)) \o t IN
           /\ Len(r) = Len(s \o t) - n
           /\ \A i \in 1 .. Len(s \o t) - n : r[i] = (s \o t)[n + i]
<1> DEFINE u == SubSeq(s, n + 1, Len(s))
<1>1. Len(s) \in Nat /\ Len(t) \in Nat
  BY LenProperties
<1>2. /\ u \in Seq(Byte) /\ Len(u) = Len(s) - n
      /\ \A i \in 1 .. Len(s) - n : u[i] = s[n + i]
  BY Pieces
<1> HIDE DEF u
<1>3. /\ Len(u \o t) = Len(u) + Len(t)
      /\ \A i \in 1 .. Len(u) + Len(t) :
             (u \o t)[i] = IF i <= Len(u) THEN u[i] ELSE t[i - Len(u)]
  BY <1>2, ConcatProperties
<1>4. /\ Len(s \o t) = Len(s) + Len(t)
      /\ \A i \in 1 .. Len(s) + Len(t) :
             (s \o t)[i] = IF i <= Len(s) THEN s[i] ELSE t[i - Len(s)]
  BY ConcatProperties
<1>5. ASSUME NEW i \in 1 .. Len(s \o t) - n
      PROVE  (u \o t)[i] = (s \o t)[n + i]
  <2>1. i \in 1 .. Len(u) + Len(t) /\ n + i \in 1 .. Len(s) + Len(t)
    BY <1>1, <1>2, <1>4
  <2>2. CASE i <= Len(u)
    <3>1. n + i <= Len(s) /\ i \in 1 .. Len(s) - n
      BY <1>1, <1>2, <2>2
    <3> QED BY <1>2, <1>3, <1>4, <2>1, <2>2, <3>1
  <2>3. CASE ~ (i <= Len(u))
    <3>1. ~ (n + i <= Len(s)) /\ (n + i) - Len(s) = i - Len(u)
      BY <1>1, <1>2, <2>3
    <3> QED BY <1>3, <1>4, <2>1, <2>3, <3>1
  <2> QED BY <2>2, <2>3
<1>6. Len(u \o t) = Len(s \o t) - n
  BY <1>1, <1>2, <1>3, <1>4
<1> QED BY <1>5, <1>6 DEF u

\* read_exact takes the first bytes off.
LEMMA ReadTakes ==
    ASSUME Types, NEW n \in Nat, ReadExact(n), UNCHANGED upNet
    PROVE  /\ Len(Pending) >= n
           /\ Len(Pending') = Len(Pending) - n
           /\ \A i \in 1 .. Len(Pending) - n : Pending'[i] = Pending[n + i]
           /\ Taken(n) \in Seq(Byte) /\ Len(Taken(n)) = n
           /\ \A i \in 1 .. n : Taken(n)[i] = Pending[i]
<1> DEFINE left == SubSeq(upBuf, n + 1, Len(upBuf)) \o upNet
<1>1. /\ upBuf \in Seq(Byte) /\ upNet \in Seq(Byte)
      /\ Len(upBuf) \in Nat /\ Len(upNet) \in Nat
  BY UpTypes
<1>2. /\ Len(Pending) = Len(upBuf) + Len(upNet)
      /\ \A i \in 1 .. Len(upBuf) : Pending[i] = upBuf[i]
  BY <1>1, ConcatProperties DEF Pending
<1>3. n \in 0 .. Len(upBuf)
  BY <1>1 DEF ReadExact
<1>4. Pending' = left
  BY DEF ReadExact, Pending
<1>5. /\ Len(left) = Len(Pending) - n
      /\ \A i \in 1 .. Len(Pending) - n : left[i] = Pending[n + i]
  BY <1>1, <1>3, Rest DEF Pending
<1>6. /\ Taken(n) \in Seq(Byte) /\ Len(Taken(n)) = n
      /\ \A i \in 1 .. n : Taken(n)[i] = upBuf[i]
  BY <1>1, <1>3, Pieces DEF Taken
<1>7. Len(Pending) >= n /\ \A i \in 1 .. n : Taken(n)[i] = Pending[i]
  BY <1>1, <1>2, <1>3, <1>6
<1> HIDE DEF left
<1> QED BY <1>4, <1>5, <1>6, <1>7

LEMMA UpInit == Init => UpInv
<1> SUFFICES ASSUME Init PROVE UpInv
  OBVIOUS
<1>1. Types
  BY TypesInit
<1>2. upSent = <<>> /\ upDone = <<>> /\ server = "connect" /\ Pending = <<>>
  BY DEF Init, Pending
<1> QED BY <1>1, <1>2 DEF UpInv, InStep, Begun

\* A message more.
LEMMA SendKeeps ==
    ASSUME UpInv, NEW m \in Seq(Byte), Len(m) = 3, ClientSends(m)
    PROVE  (server = "closed" \/ InStep)' /\ Up!Send
<1> USE DEF UpInv
<1>1. /\ Pending \in Seq(Byte) /\ Len(Pending) \in Nat
      /\ Len(upSent) \in Nat /\ Len(upDone) \in Nat
      /\ upSent \in Seq(Seq(Byte))
  BY UpTypes, LenProperties
<1>2. /\ upSent' = Append(upSent, m)
      /\ UNCHANGED <<upBuf, server, header, upDone>>
  BY DEF ClientSends
<1>3. /\ upSent' \in Seq(Seq(Byte)) /\ Len(upSent') = Len(upSent) + 1
      /\ \A j \in 1 .. Len(upSent) : upSent'[j] = upSent[j]
      /\ upSent'[Len(upSent) + 1] = m
  BY <1>1, <1>2, AppendProperties
<1>4. Up!Send
  <2>1. /\ SubSeq(upSent', 1, Len(upSent)) \in Seq(Seq(Byte))
        /\ Len(SubSeq(upSent', 1, Len(upSent))) = Len(upSent)
        /\ \A j \in 1 .. Len(upSent) :
               SubSeq(upSent', 1, Len(upSent))[j] = upSent'[j]
    <3>1. \A j \in 1 .. Len(upSent) : upSent'[j] \in Seq(Byte)
      BY <1>1, <1>3, ElementOfSeq
    <3>2. LET s == SubSeq(upSent', 1, Len(upSent)) IN
          /\ s \in Seq(Seq(Byte))
          /\ Len(s) = IF 1 <= Len(upSent) THEN Len(upSent) - 1 + 1 ELSE 0
          /\ \A j \in 1 .. Len(upSent) - 1 + 1 : s[j] = upSent'[1 + j - 1]
      BY <1>1, <3>1, SubSeqProperties
    <3> QED BY <1>1, <3>2
  <2>2. SubSeq(upSent', 1, Len(upSent)) = upSent
    BY <1>1, <1>3, <2>1, SeqEqual
  <2> QED BY <1>2, <1>3, <2>2 DEF Up!Send
<1>5. CASE InStep
  <2>1. Pending' = Pending \o m
    <3>1. Pending' = upBuf \o (upNet \o m)
      BY DEF ClientSends, Pending
    <3>2. upBuf \in Seq(Byte) /\ upNet \in Seq(Byte)
      BY UpTypes
    <3>3. (upBuf \o upNet) \o m = upBuf \o (upNet \o m)
      BY <3>2, ConcatAssociative
    <3> QED BY <3>1, <3>3 DEF Pending
  <2>2. /\ Len(Pending') = Len(Pending) + 3
        /\ \A i \in 1 .. Len(Pending) : Pending'[i] = Pending[i]
        /\ \A b \in 1 .. 3 : Pending'[Len(Pending) + b] = m[b]
    <3> DEFINE P == Pending
    <3>1. Len(P) \in Nat
      BY <1>1
    <3>2. /\ Len(P \o m) = Len(P) + Len(m)
          /\ \A i \in 1 .. Len(P) + Len(m) :
                 (P \o m)[i] = IF i <= Len(P) THEN P[i] ELSE m[i - Len(P)]
      BY <1>1, ConcatProperties
    <3> HIDE DEF P
    <3>3. /\ Len(P \o m) = Len(P) + 3
          /\ \A i \in 1 .. Len(P) : (P \o m)[i] = P[i]
          /\ \A b \in 1 .. 3 : (P \o m)[Len(P) + b] = m[b]
      BY <3>1, <3>2
    <3> QED BY <2>1, <3>3 DEF P
  <2>3. Begun' = Begun /\ Begun \in {0, 1}
    BY <1>2 DEF Begun
  <2>4. ASSUME NEW j \in 1 .. Len(upSent'), NEW b \in 1 .. 3, Place(j, b)' >= 1
        PROVE  Pending'[Place(j, b)'] = upSent'[j][b]
    <3>1. Place(j, b)' = Place(j, b)
      BY <1>2, <2>3 DEF Place
    <3>2. CASE j <= Len(upSent)
      <4>1. j \in 1 .. Len(upSent)
        BY <1>1, <1>3, <3>2
      <4>2. Place(j, b) \in 1 .. Len(Pending)
        BY <1>1, <1>5, <2>3, <2>4, <3>1, <4>1 DEF Place, InStep
      <4>3. Place(j, b) >= 1 /\ Pending'[Place(j, b)] = Pending[Place(j, b)]
        BY <2>2, <4>2
      <4>4. Pending[Place(j, b)] = upSent[j][b]
        BY <1>5, <4>1, <4>3 DEF InStep
      <4>5. Pending'[Place(j, b)'] = Pending[Place(j, b)]
        BY <3>1, <4>3, Zenon
      <4>6. upSent'[j] = upSent[j]
        BY <1>3, <4>1
      <4> QED BY <4>4, <4>5, <4>6
    <3>3. CASE j = Len(upSent) + 1
      <4>1. Place(j, b) = Len(Pending) + b
        BY <1>1, <1>5, <2>3, <3>3 DEF Place, InStep
      <4>2. Pending'[Len(Pending) + b] = m[b] /\ upSent'[j] = m
        BY <1>3, <2>2, <3>3
      <4>3. Place(j, b)' = Len(Pending) + b
        BY <3>1, <4>1
      <4>4. Pending'[Place(j, b)'] = m[b]
        BY <4>2, <4>3, Zenon
      <4> QED BY <4>2, <4>4
    <3> QED BY <1>1, <1>3, <3>2, <3>3
  <2>5. \A j \in 1 .. Len(upSent') : Len(upSent'[j]) = 3
    <3> SUFFICES ASSUME NEW j \in 1 .. Len(upSent') PROVE Len(upSent'[j]) = 3
      OBVIOUS
    <3>1. j \in 1 .. Len(upSent) \/ j = Len(upSent) + 1
      BY <1>1, <1>3
    <3> QED BY <1>3, <1>5, <3>1 DEF InStep
  <2>6. server = "rest" => header' = upSent'[Len(upDone') + 1][1]
    BY <1>1, <1>2, <1>3, <1>5 DEF InStep, Begun
  <2>7. Len(upDone') <= Len(upSent')
    BY <1>1, <1>2, <1>3, <1>5 DEF InStep
  <2>8. Len(Pending') = 3 * (Len(upSent') - Len(upDone')) - Begun'
    BY <1>1, <1>2, <1>3, <1>5, <2>2, <2>3 DEF InStep
  <2>9. InStep'
    BY <1>2, <1>5, <2>4, <2>5, <2>6, <2>7, <2>8 DEF InStep
  <2> QED BY <1>4, <2>9
<1> QED BY <1>2, <1>4, <1>5

\* k bytes less to read, and as many counted as read.
LEMMA ReadShifts ==
    ASSUME UpInv, InStep, NEW k \in Nat, ReadExact(k), UNCHANGED <<upSent, upNet>>,
           Len(upDone') \in Nat, Begun' \in {0, 1},
           3 * Len(upDone') + Begun' = 3 * Len(upDone) + Begun + k
    PROVE  /\ Len(Pending') = 3 * (Len(upSent') - Len(upDone')) - Begun'
           /\ \A j \in 1 .. Len(upSent'), b \in 1 .. 3 :
                  Place(j, b)' >= 1 =>
                      Pending'[Place(j, b)'] = upSent'[j][b]
<1>1. /\ Len(Pending) >= k /\ Len(Pending') = Len(Pending) - k
      /\ \A i \in 1 .. Len(Pending) - k : Pending'[i] = Pending[k + i]
  BY ReadTakes DEF UpInv
<1>2. /\ Len(Pending) \in Nat /\ Len(upSent) \in Nat /\ Len(upDone) \in Nat
      /\ Begun \in {0, 1}
  BY UpTypes, LenProperties DEF UpInv, Begun
<1>3. Len(Pending) = 3 * (Len(upSent) - Len(upDone)) - Begun
  BY DEF InStep
<1>4. ASSUME NEW j \in 1 .. Len(upSent), NEW b \in 1 .. 3, Place(j, b)' >= 1
      PROVE  Pending'[Place(j, b)'] = upSent[j][b]
  <2>0. Place(j, b) \in Int
    BY <1>2 DEF Place
  <2>1. PICK q \in Int : q = Place(j, b)
    BY <2>0
  <2>2. Place(j, b)' = q - k
    BY <1>2, <2>1 DEF Place
  <2>3. q - k >= 1
    BY <1>4, <2>2
  <2>4. q <= Len(Pending)
    BY <1>2, <1>3, <2>1 DEF Place
  <2>5. q - k \in 1 .. Len(Pending) - k /\ k + (q - k) = q /\ q >= 1
    BY <1>2, <2>3, <2>4
  <2>6. Pending'[q - k] = Pending[q]
    BY <1>1, <2>5
  <2>7. Pending[q] = upSent[j][b]
    BY <2>1, <2>5 DEF InStep
  <2> QED BY <2>2, <2>6, <2>7
<1>5. Len(Pending') = 3 * (Len(upSent') - Len(upDone')) - Begun'
  BY <1>1, <1>2, <1>3
<1>6. upSent' = upSent
  OBVIOUS
<1> QED BY <1>4, <1>5, <1>6

\* The server takes bytes off, and dispatches the message they complete.
LEMMA ReadKeeps ==
    ASSUME UpInv, Types', Read
    PROVE  /\ (server = "closed" \/ InStep)'
           /\ [Up!Next]_<<upSent, upDone>>
<1>1. Types /\ (server = "closed" \/ InStep)
  BY DEF UpInv
<1>2. /\ Len(Pending) \in Nat /\ Len(upSent) \in Nat /\ Len(upDone) \in Nat
      /\ upSent \in Seq(Seq(Byte)) /\ upDone \in Seq(Seq(Byte))
      /\ \A j \in 1 .. Len(upSent) : upSent[j] \in Seq(Byte)
  BY <1>1, UpTypes, LenProperties
<1>3. ASSUME NEW k \in Nat, ReadExact(k), UNCHANGED upNet
      PROVE  /\ Len(Pending) >= k /\ Taken(k) \in Seq(Byte) /\ Len(Taken(k)) = k
             /\ \A i \in 1 .. k : Taken(k)[i] = Pending[i]
             /\ k >= 1 => upBuf[1] = Pending[1]
  <2>1. /\ Len(Pending) >= k /\ Taken(k) \in Seq(Byte) /\ Len(Taken(k)) = k
        /\ \A i \in 1 .. k : Taken(k)[i] = Pending[i]
    BY <1>1, <1>3, ReadTakes
  <2>2. k >= 1 => upBuf[1] = Pending[1]
    <3> SUFFICES ASSUME k >= 1 PROVE upBuf[1] = Pending[1]
      OBVIOUS
    <3>1. Len(upBuf) >= 1
      BY <1>1, <1>3, UpTypes DEF ReadExact
    <3>2. 1 \in 1 .. Len(Pending)
      BY <1>1, <3>1, UpTypes
    <3> QED BY <1>1, <3>1, <3>2, UpTypes
  <2> QED BY <2>1, <2>2
<1>4. ASSUME InStep, NEW m \in Seq(Byte), Len(m) = 3,
             upDone' = Append(upDone, m), UNCHANGED upSent,
             Len(upDone) < Len(upSent),
             \A b \in 1 .. 3 : m[b] = upSent[Len(upDone) + 1][b]
      PROVE  Up!Handle /\ Len(upDone') = Len(upDone) + 1
  <2>1. Len(upDone) + 1 \in 1 .. Len(upSent)
    BY <1>2, <1>4
  <2>2. upSent[Len(upDone) + 1] \in Seq(Byte) /\ Len(upSent[Len(upDone) + 1]) = 3
    BY <1>2, <1>4, <2>1 DEF InStep
  <2>3. upSent[Len(upDone) + 1] = m
    BY <1>4, <2>2, SeqEqual
  <2> QED BY <1>2, <1>4, <2>3, AppendProperties DEF Up!Handle
\* The byte of the next message that is at place q.
<1>5. ASSUME InStep, NEW b \in 1 .. 3, Len(upDone) < Len(upSent), b - Begun >= 1
      PROVE  Pending[b - Begun] = upSent[Len(upDone) + 1][b]
  <2>1. Len(upDone) + 1 \in 1 .. Len(upSent) /\ Begun \in {0, 1}
    BY <1>2, <1>5 DEF Begun
  <2>2. Place(Len(upDone) + 1, b) = b - Begun
    BY <1>2, <2>1 DEF Place
  <2> QED BY <1>5, <2>1, <2>2 DEF InStep
<1>6. Len(upDone) = 0 <=> upDone = <<>>
  BY <1>2, EmptySeq
<1>7. CASE ReadConnect
  <2>1. /\ ReadExact(3) /\ UNCHANGED <<upSent, upNet>>
        /\ server = "connect" /\ InStep
    BY <1>1, <1>7 DEF ReadConnect
  <2>2. Begun = 0 /\ Len(upDone) = 0
    BY <1>6, <2>1 DEF Begun, InStep
  <2>3. CASE upBuf[1] = MSG_CONNECT
    <3>1. upDone' = Append(upDone, Taken(3)) /\ server' = "header"
      BY <1>7, <2>3 DEF ReadConnect
    <3>2. /\ Len(Pending) >= 3 /\ Taken(3) \in Seq(Byte) /\ Len(Taken(3)) = 3
          /\ \A i \in 1 .. 3 : Taken(3)[i] = Pending[i]
      BY <1>3, <2>1
    <3>3. Len(upDone) < Len(upSent)
      BY <1>2, <2>1, <2>2, <3>2 DEF InStep
    <3>4. \A b \in 1 .. 3 : Taken(3)[b] = upSent[Len(upDone) + 1][b]
      <4> SUFFICES ASSUME NEW b \in 1 .. 3
                   PROVE  Taken(3)[b] = upSent[Len(upDone) + 1][b]
        OBVIOUS
      <4>1. b - Begun = b /\ b - Begun >= 1
        BY <2>2
      <4>2. Pending[b] = upSent[Len(upDone) + 1][b]
        BY <1>5, <2>1, <3>3, <4>1
      <4> QED BY <3>2, <4>2
    <3>5. Up!Handle /\ Len(upDone') = Len(upDone) + 1
      BY <1>4, <2>1, <3>1, <3>2, <3>3, <3>4
    <3>6. Begun' = 0
      BY <3>1 DEF Begun
    <3>7. /\ Len(Pending') = 3 * (Len(upSent') - Len(upDone')) - Begun'
          /\ \A j \in 1 .. Len(upSent'), b \in 1 .. 3 :
                 Place(j, b)' >= 1 => Pending'[Place(j, b)'] = upSent'[j][b]
      <4>1. /\ Len(upDone') \in Nat /\ Begun' \in {0, 1}
            /\ 3 * Len(upDone') + Begun' = 3 * Len(upDone) + Begun + 3
        BY <1>2, <2>2, <3>5, <3>6
      <4> QED BY <2>1, <4>1, ReadShifts
    <3>8. Len(upDone') <= Len(upSent')
      BY <1>2, <2>1, <3>3, <3>5
    <3>9. InStep'
      BY <2>1, <3>1, <3>7, <3>8 DEF InStep
    <3> QED BY <3>5, <3>9 DEF Up!Next
  <2>4. CASE upBuf[1] # MSG_CONNECT
    BY <1>7, <2>1, <2>4 DEF ReadConnect
  <2> QED BY <2>3, <2>4
<1>8. CASE ReadHeader
  <2>1. /\ ReadExact(1) /\ UNCHANGED <<upSent, upNet, upDone>>
        /\ server = "header" /\ InStep
        /\ header' = upBuf[1] /\ server' \in {"rest", "closed"}
    BY <1>1, <1>8 DEF ReadHeader
  <2>2. CASE server' = "rest"
    <3>1. Begun = 0 /\ Begun' = 1
      BY <2>1, <2>2 DEF Begun
    <3>2. Len(Pending) >= 1 /\ upBuf[1] = Pending[1]
      BY <1>3, <2>1
    <3>3. Len(upDone) < Len(upSent)
      BY <1>2, <2>1, <3>1, <3>2 DEF InStep
    <3>4. header' = upSent[Len(upDone) + 1][1]
      <4>1. 1 - Begun = 1
        BY <3>1
      <4>2. Pending[1] = upSent[Len(upDone) + 1][1]
        BY <1>5, <2>1, <3>3, <4>1
      <4> QED BY <2>1, <3>2, <4>2
    <3>5. /\ Len(Pending') = 3 * (Len(upSent') - Len(upDone')) - Begun'
          /\ \A j \in 1 .. Len(upSent'), b \in 1 .. 3 :
                 Place(j, b)' >= 1 => Pending'[Place(j, b)'] = upSent'[j][b]
      <4>1. /\ Len(upDone') \in Nat /\ Begun' \in {0, 1}
            /\ 3 * Len(upDone') + Begun' = 3 * Len(upDone) + Begun + 1
        BY <1>2, <2>1, <3>1
      <4> QED BY <2>1, <4>1, ReadShifts
    <3>6. InStep'
      BY <2>1, <2>2, <3>4, <3>5 DEF InStep
    <3> QED BY <2>1, <3>6
  <2> QED BY <2>1, <2>2
<1>9. CASE ReadRest
  <2>1. /\ ReadExact(2) /\ UNCHANGED <<upSent, upNet>>
        /\ server = "rest" /\ server' = "header" /\ InStep
        /\ upDone' = Append(upDone, <<header>> \o Taken(2))
    BY <1>1, <1>9 DEF ReadRest
  <2>2. Begun = 1 /\ Begun' = 0
    BY <2>1 DEF Begun
  <2>3. /\ Len(Pending) >= 2 /\ Taken(2) \in Seq(Byte) /\ Len(Taken(2)) = 2
        /\ \A i \in 1 .. 2 : Taken(2)[i] = Pending[i]
    BY <1>3, <2>1
  <2>4. Len(upDone) < Len(upSent)
    BY <1>2, <2>1, <2>2, <2>3 DEF InStep
  <2>5. PICK m \in Seq(Byte) :
            /\ m = <<header>> \o Taken(2) /\ Len(m) = 3
            /\ m[1] = header /\ m[2] = Taken(2)[1] /\ m[3] = Taken(2)[2]
    <3>1. /\ header \in Byte
          /\ <<header>> \in Seq(Byte) /\ Len(<<header>>) = 1
          /\ <<header>>[1] = header
      BY <1>1 DEF Types, TypeOK
    <3> DEFINE t == Taken(2)
               h == <<header>>
    <3>2. /\ h \o t \in Seq(Byte) /\ Len(h \o t) = Len(h) + Len(t)
          /\ \A i \in 1 .. Len(h) + Len(t) :
                 (h \o t)[i] = IF i <= Len(h) THEN h[i] ELSE t[i - Len(h)]
      BY <2>3, <3>1, ConcatProperties
    <3>3. Len(t) = 2 /\ Len(h) = 1 /\ h[1] = header
      BY <2>3, <3>1
    <3> HIDE DEF t, h
    <3>4. /\ Len(h \o t) = 3
          /\ (h \o t)[1] = header /\ (h \o t)[2] = t[1] /\ (h \o t)[3] = t[2]
      BY <3>2, <3>3
    <3> QED BY <3>2, <3>4 DEF t, h
  <2>6. \A b \in 1 .. 3 : m[b] = upSent[Len(upDone) + 1][b]
    <3>1. m[1] = upSent[Len(upDone) + 1][1]
      BY <2>1, <2>5 DEF InStep
    <3>2. 2 - Begun = 1 /\ 3 - Begun = 2
      BY <2>2
    <3>3. /\ Pending[1] = upSent[Len(upDone) + 1][2]
          /\ Pending[2] = upSent[Len(upDone) + 1][3]
      BY <1>5, <2>1, <2>4, <3>2
    <3>4. m[2] = Pending[1] /\ m[3] = Pending[2]
      BY <2>3, <2>5
    <3> QED BY <3>1, <3>3, <3>4
  <2>7. Up!Handle /\ Len(upDone') = Len(upDone) + 1
    BY <1>4, <2>1, <2>4, <2>5, <2>6
  <2>8. /\ Len(Pending') = 3 * (Len(upSent') - Len(upDone')) - Begun'
        /\ \A j \in 1 .. Len(upSent'), b \in 1 .. 3 :
               Place(j, b)' >= 1 => Pending'[Place(j, b)'] = upSent'[j][b]
    <3>1. /\ Len(upDone') \in Nat /\ Begun' \in {0, 1}
          /\ 3 * Len(upDone') + Begun' = 3 * Len(upDone) + Begun + 2
      BY <1>2, <2>2, <2>7
    <3> QED BY <2>1, <3>1, ReadShifts
  <2>9. Len(upDone') <= Len(upSent')
    BY <1>2, <2>1, <2>4, <2>7
  <2>10. InStep'
    BY <2>1, <2>8, <2>9 DEF InStep
  <2> QED BY <2>7, <2>10 DEF Up!Next
<1> QED BY <1>7, <1>8, <1>9 DEF Read

LEMMA UpStep ==
    ASSUME UpInv, [Next]_vars
    PROVE  UpInv' /\ [Up!Next]_<<upSent, upDone>>
<1>1. Types /\ (server = "closed" \/ InStep)
  BY DEF UpInv
<1>2. Types'
  BY <1>1, TypesStep
<1>3. ASSUME UNCHANGED <<upSent, upDone, server, header>>, Pending' = Pending
      PROVE  InStep => InStep'
  <2>1. Begun' = Begun
    BY <1>3 DEF Begun
  <2> QED BY <1>3, <2>1 DEF InStep, Place
<1>4. ASSUME UNCHANGED upVars
      PROVE  (server = "closed" \/ InStep)' /\ UNCHANGED <<upSent, upDone>>
  BY <1>1, <1>3, <1>4 DEF upVars, Pending
<1>5. CASE UNCHANGED vars \/ Join \/ Dial \/ AttemptFails \/ PauseEnds \/ GiveUp
  BY <1>2, <1>4, <1>5
  DEF vars, Join, Dial, Refused, Accepted, AttemptFails, PauseEnds, GiveUp, UpInv
<1>6. CASE Joined
  BY <1>2, <1>6, SendKeeps, Requests DEF Joined, UpInv, Up!Next
<1>7. CASE SendRequest
  <2>1. me \in U16
    BY <1>1, <1>7 DEF SendRequest, Types, TypeOK
  <2>2. PICK m \in {Swing(me), RespawnRequest(me)} : ClientSends(m)
    BY <1>7 DEF SendRequest
  <2>3. m \in Seq(Byte) /\ Len(m) = 3
    BY <2>1, <2>2, Requests
  <2> QED BY <1>2, <2>2, <2>3, SendKeeps DEF UpInv, Up!Next
<1>8. CASE ArriveUp
  BY <1>1, <1>2, <1>3, <1>8, ArrivalKeeps DEF ArriveUp, UpInv
<1>9. CASE Read
  BY <1>2, <1>9, ReadKeeps DEF UpInv
<1>10. CASE Write \/ ArriveDown \/ Poll
  BY <1>2, <1>4, <1>10
  DEF Write, ArriveDown, Poll, PollMessage, PollTorn, PollUnknown, UpInv
<1> QED BY <1>5, <1>6, <1>7, <1>8, <1>9, <1>10 DEF Next, Retry

\* However many messages a client sends, and whatever the pieces in which TCP
\* brings their bytes, the server dispatches them whole and in the order of
\* sending (legacy.rs, read_exact): ServerInStep without its liveness.
THEOREM ServerKeepsStep == Spec => Up!Spec
<1>1. Init => Up!Init
  BY DEF Init, Up!Init
<1> QED BY <1>1, UpInit, UpStep, PTL DEF Spec, Up!Spec

-----------------------------------------------------------------------------
(* The client keeps in step with what the server sends                     *)

\* What a server sends to player p.
Answer(p) ==
    {Connected(p), YouDied(p)} \cup {HealthUpdate(p, h) : h \in Healths}

\* bytes are exactly the messages of sent that come after the first d, and
\* message j begins behind the first off[j] of them.
Layout(off, d, sent, bytes) ==
    LET s == Len(sent)
    IN /\ off \in [d + 1 .. s + 1 -> Nat]
       /\ off[d + 1] = 0
       /\ off[s + 1] = Len(bytes)
       /\ \A i, j \in d + 1 .. s + 1 : i <= j => off[i] <= off[j]
       /\ \A j \in d + 1 .. s :
             /\ off[j + 1] = off[j] + Len(sent[j])
             /\ \A b \in 1 .. Len(sent[j]) : bytes[off[j] + b] = sent[j][b]

LaidOut(d, sent, bytes) == \E off : Layout(off, d, sent, bytes)

\* The bytes the client has not read.
Arriving == downBuf \o downNet

\* What is handled is the beginning of what was sent, and what is not read is
\* exactly the rest of it.
DownInStep ==
    /\ Len(downDone) <= Len(downSent)
    /\ \A j \in 1 .. Len(downDone) : downDone[j] = downSent[j]
    /\ LaidOut(Len(downDone), downSent, Arriving)

\* All that is ever sent is meant for the one player of this connection.
AnswersOK ==
    /\ server = "connect" =>
          /\ id = NoId /\ me = NoId /\ ~ torn
          /\ downSent = <<>> /\ downDone = <<>>
          /\ downBuf = <<>> /\ downNet = <<>>
    /\ \A j \in 1 .. Len(downSent) :
          id \in PlayerIds /\ downSent[j] \in Answer(id)

DownInv ==
    /\ Types
    /\ AnswersOK
    /\ ~ torn => DownInStep /\ me \in {NoId, id}

LEMMA DownTypes ==
    ASSUME Types
    PROVE  /\ downBuf \in Seq(Byte) /\ downNet \in Seq(Byte)
           /\ Arriving \in Seq(Byte) /\ Len(Arriving) \in Nat
           /\ Len(Arriving) = Len(downBuf) + Len(downNet)
           /\ \A i \in 1 .. Len(downBuf) : Arriving[i] = downBuf[i]
           /\ Len(downBuf) \in Nat /\ Len(downNet) \in Nat
           /\ downSent \in Seq(Seq(Byte)) /\ downDone \in Seq(Seq(Byte))
           /\ Len(downSent) \in Nat /\ Len(downDone) \in Nat
<1>1. /\ downBuf \in Seq(Byte) /\ downNet \in Seq(Byte)
      /\ downSent \in Seq(Seq(Byte)) /\ downDone \in Seq(Seq(Byte))
  BY DEF Types, TypeOK
<1>2. /\ Len(downBuf) \in Nat /\ Len(downNet) \in Nat
      /\ Len(downSent) \in Nat /\ Len(downDone) \in Nat
  BY <1>1, LenProperties
<1>3. /\ Arriving \in Seq(Byte) /\ Len(Arriving) = Len(downBuf) + Len(downNet)
      /\ \A i \in 1 .. Len(downBuf) + Len(downNet) :
             Arriving[i] = IF i <= Len(downBuf) THEN downBuf[i]
                           ELSE downNet[i - Len(downBuf)]
  BY <1>1, ConcatProperties DEF Arriving
<1> HIDE DEF Arriving
<1>4. \A i \in 1 .. Len(downBuf) : Arriving[i] = downBuf[i]
  BY <1>2, <1>3
<1> QED BY <1>1, <1>2, <1>3, <1>4

\* The client can tell from the type byte how long a message is.
LEMMA AnswerShape ==
    ASSUME NEW p \in Byte, NEW m \in Answer(p)
    PROVE  /\ m \in Seq(Byte) /\ Len(m) \in {3, 7}
           /\ Known(m[1]) /\ Len(m) = 1 + BodyLength(m[1])
           /\ m[1] = MSG_CONNECTED => m[2] = 0 /\ m[3] = p
<1> USE DEF MSG_CONNECTED, MSG_YOU_DIED, MSG_HEALTH_UPDATE
<1>1. CASE m = Connected(p)
  <2>1. m = <<16, 0, p>>
    BY <1>1 DEF Connected
  <2>2. m \in Seq(Byte) /\ Len(m) = 3 /\ m[1] = 16 /\ m[2] = 0 /\ m[3] = p
    BY <2>1, Triple, Bytes
  <2>3. Known(16) /\ BodyLength(16) = 2
    BY DEF Known, BodyLength
  <2> QED BY <2>2, <2>3
<1>2. CASE m = YouDied(p)
  <2>1. m = <<20, 0, p>>
    BY <1>2 DEF YouDied
  <2>2. m \in Seq(Byte) /\ Len(m) = 3 /\ m[1] = 20
    BY <2>1, Triple, Bytes
  <2>3. Known(20) /\ BodyLength(20) = 2
    BY DEF Known, BodyLength
  <2> QED BY <2>2, <2>3
<1>3. CASE \E h \in Healths : m = HealthUpdate(p, h)
  <2>1. PICK h \in Byte : m = HealthUpdate(p, h)
    BY <1>3, FramingConstants
  <2>2. m \in Seq(Byte)
    BY <2>1, Answers
  <2>3. Len(m) = 7 /\ m[1] = 19
    BY <2>1 DEF HealthUpdate
  <2>4. Known(19) /\ BodyLength(19) = 6
    BY DEF Known, BodyLength
  <2> QED BY <2>2, <2>3, <2>4
<1> QED BY <1>1, <1>2, <1>3 DEF Answer

\* A message more is laid out behind the others.
LEMMA LaidOutMore ==
    ASSUME NEW sent \in Seq(Seq(Byte)), NEW bytes \in Seq(Byte),
           NEW m \in Seq(Byte), NEW d \in 0 .. Len(sent),
           LaidOut(d, sent, bytes)
    PROVE  LaidOut(d, Append(sent, m), bytes \o m)
<1> DEFINE s == Len(sent)
           n == Len(m)
           a == Len(bytes)
           Sent == Append(sent, m)
           Bytes2 == bytes \o m
<1>1. PICK off : Layout(off, d, sent, bytes)
  BY DEF LaidOut
<1>2. d \in Nat /\ s \in Nat /\ n \in Nat /\ a \in Nat /\ d <= s
  BY LenProperties
<1>3. /\ Len(Sent) = s + 1 /\ Sent[s + 1] = m
      /\ \A j \in 1 .. s : Sent[j] = sent[j]
  BY AppendProperties
<1>4. /\ Len(Bytes2) = a + n
      /\ \A i \in 1 .. a + n :
             Bytes2[i] = IF i <= a THEN bytes[i] ELSE m[i - a]
  BY ConcatProperties
<1>5. /\ off \in [d + 1 .. s + 1 -> Nat]
      /\ off[d + 1] = 0 /\ off[s + 1] = a
      /\ \A i, j \in d + 1 .. s + 1 : i <= j => off[i] <= off[j]
      /\ \A j \in d + 1 .. s :
            /\ off[j + 1] = off[j] + Len(sent[j])
            /\ \A b \in 1 .. Len(sent[j]) : bytes[off[j] + b] = sent[j][b]
  BY <1>1 DEF Layout
<1>6. \A j \in 1 .. s : Len(sent[j]) \in Nat
  BY ElementOfSeq, LenProperties
<1> DEFINE new == [j \in d + 1 .. s + 2 |->
                      IF j = s + 2 THEN a + n ELSE off[j]]
<1> HIDE DEF s, n, a, Sent, Bytes2
<1>7. /\ new \in [d + 1 .. s + 2 -> Nat]
      /\ new[s + 2] = a + n
      /\ \A j \in d + 1 .. s + 1 : new[j] = off[j]
  <2>1. ASSUME NEW j \in d + 1 .. s + 2, j # s + 2
        PROVE  j \in d + 1 .. s + 1
    BY <1>2, <2>1
  <2>2. a + n \in Nat /\ s + 2 \in d + 1 .. s + 2
    BY <1>2
  <2>3. \A j \in d + 1 .. s + 1 : j \in d + 1 .. s + 2 /\ j # s + 2
    BY <1>2
  <2> QED BY <1>5, <2>1, <2>2, <2>3
<1> HIDE DEF new
<1>8. \A j \in d + 1 .. s + 1 : off[j] \in Nat /\ off[j] <= a
  BY <1>2, <1>5
<1>9. new[d + 1] = 0
  BY <1>2, <1>5, <1>7
<1>10. ASSUME NEW i \in d + 1 .. s + 2, NEW j \in d + 1 .. s + 2, i <= j
       PROVE  new[i] <= new[j]
  <2>1. CASE j = s + 2
    <3>1. CASE i = s + 2
      BY <1>2, <1>7, <2>1, <3>1
    <3>2. CASE i # s + 2
      <4>1. i \in d + 1 .. s + 1
        BY <1>2, <3>2
      <4> QED BY <1>2, <1>7, <1>8, <2>1, <4>1
    <3> QED BY <3>1, <3>2
  <2>2. CASE j # s + 2
    <3>1. i \in d + 1 .. s + 1 /\ j \in d + 1 .. s + 1
      BY <1>2, <1>10, <2>2
    <3> QED BY <1>5, <1>7, <1>10, <3>1
  <2> QED BY <2>1, <2>2
<1>11. ASSUME NEW j \in d + 1 .. s + 1
       PROVE  /\ new[j + 1] = new[j] + Len(Sent[j])
              /\ \A b \in 1 .. Len(Sent[j]) : Bytes2[new[j] + b] = Sent[j][b]
  <2>1. CASE j = s + 1
    <3>1. new[j] = a /\ new[j + 1] = a + n /\ Sent[j] = m
      <4>1. j + 1 = s + 2
        BY <1>2, <2>1
      <4> QED BY <1>3, <1>5, <1>7, <2>1, <4>1
    <3>2. ASSUME NEW b \in 1 .. n
          PROVE  Bytes2[a + b] = m[b]
      <4>1. a + b \in 1 .. a + n /\ ~ (a + b <= a) /\ (a + b) - a = b
        BY <1>2
      <4>2. Bytes2[a + b] = m[(a + b) - a]
        BY <1>4, <4>1, Zenon
      <4> QED BY <4>1, <4>2, Zenon
    <3>3. Len(Sent[j]) = n
      BY <3>1 DEF n
    <3> QED BY <3>1, <3>2, <3>3
  <2>2. CASE j # s + 1
    <3>1. /\ j \in d + 1 .. s /\ j \in 1 .. s /\ j + 1 \in d + 1 .. s + 1
      BY <1>2, <2>2
    <3>2. Sent[j] = sent[j]
      BY <1>3, <3>1
    <3>3. new[j] = off[j] /\ new[j + 1] = off[j + 1]
      BY <1>7, <3>1
    <3>4. /\ off[j + 1] = off[j] + Len(sent[j])
          /\ off[j + 1] <= a /\ off[j] \in Nat /\ Len(sent[j]) \in Nat
      BY <1>5, <1>6, <1>8, <3>1
    <3>5. ASSUME NEW b \in 1 .. Len(sent[j])
          PROVE  Bytes2[off[j] + b] = sent[j][b]
      <4>1. off[j] + b \in 1 .. a + n /\ off[j] + b <= a
        <5>1. PICK o \in Nat, l \in Nat : o = off[j] /\ l = Len(sent[j])
          BY <3>4, Zenon
        <5>2. o + l <= a /\ b \in 1 .. l
          BY <3>4, <5>1, Zenon
        <5>3. o + b \in 1 .. a + n /\ o + b <= a
          BY <1>2, <5>2
        <5> QED BY <5>1, <5>3, Zenon
      <4>2. Bytes2[off[j] + b] = bytes[off[j] + b]
        BY <1>4, <4>1, Zenon
      <4>3. bytes[off[j] + b] = sent[j][b]
        BY <1>5, <3>1, Zenon
      <4> QED BY <4>2, <4>3, Zenon
    <3> QED BY <3>2, <3>3, <3>4, <3>5
  <2> QED BY <2>1, <2>2
<1>12. s + 1 + 1 = s + 2
  BY <1>2
<1>13. Layout(new, d, Sent, Bytes2)
  BY <1>3, <1>4, <1>7, <1>9, <1>10, <1>11, <1>12 DEF Layout
<1> QED BY <1>13 DEF LaidOut, Sent, Bytes2

\* The first message is taken off, and the others move up.
LEMMA LaidOutLess ==
    ASSUME NEW sent \in Seq(Seq(Byte)), NEW bytes \in Seq(Byte),
           NEW d \in Nat, d < Len(sent), LaidOut(d, sent, bytes),
           NEW rest \in Seq(Byte), NEW n \in Nat, n = Len(sent[d + 1]),
           Len(rest) = Len(bytes) - n,
           \A i \in 1 .. Len(bytes) - n : rest[i] = bytes[n + i]
    PROVE  LaidOut(d + 1, sent, rest)
<1> DEFINE s == Len(sent)
           a == Len(bytes)
<1>1. PICK off : Layout(off, d, sent, bytes)
  BY DEF LaidOut
<1>2. d \in Nat /\ s \in Nat /\ a \in Nat /\ n \in Nat /\ d + 1 <= s
  BY LenProperties
<1>3. /\ off \in [d + 1 .. s + 1 -> Nat]
      /\ off[d + 1] = 0 /\ off[s + 1] = a
      /\ \A i, j \in d + 1 .. s + 1 : i <= j => off[i] <= off[j]
      /\ \A j \in d + 1 .. s :
            /\ off[j + 1] = off[j] + Len(sent[j])
            /\ \A b \in 1 .. Len(sent[j]) : bytes[off[j] + b] = sent[j][b]
  BY <1>1 DEF Layout
<1>4. \A j \in 1 .. s : Len(sent[j]) \in Nat
  BY ElementOfSeq, LenProperties
<1> DEFINE new == [j \in d + 2 .. s + 1 |-> off[j] - n]
<1> HIDE DEF s, a
<1>5. off[d + 2] = n
  <2>1. d + 1 \in d + 1 .. s /\ d + 1 + 1 = d + 2
    BY <1>2
  <2>2. off[d + 1 + 1] = off[d + 1] + Len(sent[d + 1])
    BY <1>3, <2>1
  <2> QED BY <1>2, <1>3, <2>1, <2>2
<1>6. \A j \in d + 2 .. s + 1 : off[j] \in Nat /\ n <= off[j] /\ off[j] <= a
  <2> SUFFICES ASSUME NEW j \in d + 2 .. s + 1
               PROVE  off[j] \in Nat /\ n <= off[j] /\ off[j] <= a
    OBVIOUS
  <2>1. /\ j \in d + 1 .. s + 1 /\ d + 2 \in d + 1 .. s + 1
        /\ s + 1 \in d + 1 .. s + 1 /\ d + 2 <= j /\ j <= s + 1
    BY <1>2
  <2> QED BY <1>3, <1>5, <2>1
<1>7. /\ new \in [d + 2 .. s + 1 -> Nat]
      /\ \A j \in d + 2 .. s + 1 : new[j] = off[j] - n
  <2>1. \A j \in d + 2 .. s + 1 : off[j] - n \in Nat
    BY <1>2, <1>6
  <2> QED BY <2>1
<1> HIDE DEF new
<1>8. new[d + 2] = 0 /\ new[s + 1] = a - n
  <2>1. d + 2 \in d + 2 .. s + 1 /\ s + 1 \in d + 2 .. s + 1
    BY <1>2
  <2>2. new[d + 2] = off[d + 2] - n /\ new[s + 1] = off[s + 1] - n
    BY <1>7, <2>1, Zenon
  <2>3. n - n = 0
    BY <1>2
  <2> QED BY <1>3, <1>5, <2>2, <2>3, Zenon
<1>9. ASSUME NEW i \in d + 2 .. s + 1, NEW j \in d + 2 .. s + 1, i <= j
      PROVE  new[i] <= new[j]
  <2>1. i \in d + 1 .. s + 1 /\ j \in d + 1 .. s + 1
    BY <1>2
  <2>2. off[i] <= off[j]
    BY <1>3, <1>9, <2>1
  <2>3. new[i] = off[i] - n /\ new[j] = off[j] - n
    BY <1>7, Zenon
  <2>4. off[i] \in Nat /\ off[j] \in Nat
    BY <1>6, Zenon
  <2>5. off[i] - n <= off[j] - n
    <3>1. PICK x \in Nat, y \in Nat : x = off[i] /\ y = off[j]
      BY <2>4, Zenon
    <3>2. x <= y
      BY <2>2, <3>1, Zenon
    <3>3. x - n <= y - n
      BY <1>2, <3>2
    <3> QED BY <3>1, <3>3, Zenon
  <2> QED BY <2>3, <2>5, Zenon
<1>10. ASSUME NEW j \in d + 2 .. s
       PROVE  /\ new[j + 1] = new[j] + Len(sent[j])
              /\ \A b \in 1 .. Len(sent[j]) : rest[new[j] + b] = sent[j][b]
  <2>1. /\ j \in d + 1 .. s /\ j \in 1 .. s
        /\ j \in d + 2 .. s + 1 /\ j + 1 \in d + 2 .. s + 1
    BY <1>2
  <2>2. /\ off[j + 1] = off[j] + Len(sent[j]) /\ Len(sent[j]) \in Nat
        /\ off[j] \in Nat /\ n <= off[j] /\ off[j + 1] <= a
        /\ new[j] = off[j] - n /\ new[j + 1] = off[j + 1] - n
    BY <1>3, <1>4, <1>6, <1>7, <2>1
  <2>3. ASSUME NEW b \in 1 .. Len(sent[j])
        PROVE  rest[new[j] + b] = sent[j][b]
    <3>1. /\ b \in Nat /\ off[j] - n + b \in 1 .. a - n
          /\ n + (off[j] - n + b) = off[j] + b
      <4>1. PICK o \in Nat, l \in Nat : o = off[j] /\ l = Len(sent[j])
        BY <2>2
      <4>2. n <= o /\ o + l <= a /\ b \in 1 .. l
        BY <2>2, <4>1
      <4>3. /\ b \in Nat /\ o - n + b \in 1 .. a - n
            /\ n + (o - n + b) = o + b
        BY <1>2, <4>2
      <4> QED BY <4>1, <4>3
    <3>2. rest[off[j] - n + b] = bytes[n + (off[j] - n + b)]
      BY <3>1, Zenon DEF a
    <3>3. bytes[off[j] + b] = sent[j][b]
      BY <1>3, <2>1, Zenon
    <3>4. new[j] + b = off[j] - n + b
      BY <2>2, Zenon
    <3>5. rest[new[j] + b] = bytes[off[j] + b]
      BY <3>1, <3>2, <3>4
    <3> QED BY <3>3, <3>5
  <2>4. new[j + 1] = new[j] + Len(sent[j])
    <3>1. PICK o \in Nat, l \in Nat : o = off[j] /\ l = Len(sent[j])
      BY <2>2
    <3>2. (o + l) - n = (o - n) + l
      BY <1>2
    <3> QED BY <2>2, <3>1, <3>2, Zenon
  <2> QED BY <2>3, <2>4, Zenon
<1>11. d + 1 + 1 = d + 2
  BY <1>2
<1>12. Len(rest) = a - n
  BY DEF a
<1>13. Layout(new, d + 1, sent, rest)
  <2>1. /\ new \in [d + 1 + 1 .. Len(sent) + 1 -> Nat]
        /\ new[d + 1 + 1] = 0 /\ new[Len(sent) + 1] = Len(rest)
        /\ \A i, j \in d + 1 + 1 .. Len(sent) + 1 : i <= j => new[i] <= new[j]
        /\ \A j \in d + 1 + 1 .. Len(sent) :
              /\ new[j + 1] = new[j] + Len(sent[j])
              /\ \A b \in 1 .. Len(sent[j]) : rest[new[j] + b] = sent[j][b]
    BY <1>7, <1>8, <1>9, <1>10, <1>11, <1>12 DEF s
  <2> QED BY <2>1 DEF Layout
<1> QED BY <1>13 DEF LaidOut

\* If there are bytes, a whole message begins at the first of them.
LEMMA LaidOutFirst ==
    ASSUME NEW sent \in Seq(Seq(Byte)), NEW bytes \in Seq(Byte),
           NEW d \in 0 .. Len(sent), LaidOut(d, sent, bytes), Len(bytes) > 0
    PROVE  /\ d < Len(sent)
           /\ Len(sent[d + 1]) <= Len(bytes)
           /\ \A b \in 1 .. Len(sent[d + 1]) : bytes[b] = sent[d + 1][b]
<1> DEFINE s == Len(sent)
<1>1. PICK off : Layout(off, d, sent, bytes)
  BY DEF LaidOut
<1>2. d \in Nat /\ s \in Nat /\ Len(bytes) \in Nat /\ d <= s
  BY LenProperties
<1>3. /\ off \in [d + 1 .. s + 1 -> Nat]
      /\ off[d + 1] = 0 /\ off[s + 1] = Len(bytes)
      /\ \A i, j \in d + 1 .. s + 1 : i <= j => off[i] <= off[j]
      /\ \A j \in d + 1 .. s :
            /\ off[j + 1] = off[j] + Len(sent[j])
            /\ \A b \in 1 .. Len(sent[j]) : bytes[off[j] + b] = sent[j][b]
  BY <1>1 DEF Layout
<1> HIDE DEF s
<1>4. d # s
  BY <1>2, <1>3
<1>5. /\ d + 1 \in d + 1 .. s /\ d + 1 \in 1 .. s /\ d + 1 + 1 = d + 2
      /\ d + 2 \in d + 1 .. s + 1 /\ s + 1 \in d + 1 .. s + 1 /\ d + 2 <= s + 1
  BY <1>2, <1>4
<1>6. Len(sent[d + 1]) \in Nat
  BY <1>5, ElementOfSeq, LenProperties DEF s
<1>7. off[d + 2] = Len(sent[d + 1])
  BY <1>3, <1>5, <1>6
<1>8. off[d + 2] <= off[s + 1]
  BY <1>3, <1>5
<1>9. ASSUME NEW b \in 1 .. Len(sent[d + 1])
      PROVE  bytes[b] = sent[d + 1][b]
  <2>1. bytes[off[d + 1] + b] = sent[d + 1][b]
    BY <1>3, <1>5, Zenon
  <2>2. off[d + 1] + b = b
    BY <1>3, <1>6
  <2> QED BY <2>1, <2>2
<1> QED BY <1>2, <1>3, <1>4, <1>7, <1>8, <1>9 DEF s

\* A message more.
LEMMA DownSend ==
    ASSUME Types, DownInStep, NEW m \in Seq(Byte), ServerSends(m)
    PROVE  DownInStep'
<1>1. /\ downSent' = Append(downSent, m) /\ downNet' = downNet \o m
      /\ UNCHANGED <<downBuf, downDone>>
  BY DEF ServerSends
<1>2. /\ Len(downSent') = Len(downSent) + 1
      /\ \A j \in 1 .. Len(downSent) : downSent'[j] = downSent[j]
  BY <1>1, DownTypes, AppendProperties
<1>3. Arriving' = Arriving \o m
  <2>1. Arriving' = downBuf \o (downNet \o m)
    BY <1>1 DEF Arriving
  <2>2. downBuf \in Seq(Byte) /\ downNet \in Seq(Byte)
    BY DownTypes
  <2>3. (downBuf \o downNet) \o m = downBuf \o (downNet \o m)
    BY <2>2, ConcatAssociative
  <2> QED BY <2>1, <2>3 DEF Arriving
<1>4. LaidOut(Len(downDone), Append(downSent, m), Arriving \o m)
  <2>1. /\ Len(downDone) \in 0 .. Len(downSent)
        /\ LaidOut(Len(downDone), downSent, Arriving)
    BY DownTypes DEF DownInStep
  <2>2. downSent \in Seq(Seq(Byte)) /\ Arriving \in Seq(Byte)
    BY DownTypes
  <2> QED BY <2>1, <2>2, LaidOutMore, Zenon
<1>5. LaidOut(Len(downDone), downSent, Arriving)'
  BY <1>1, <1>3, <1>4
<1>6. Len(downDone') <= Len(downSent')
  BY <1>1, <1>2, DownTypes DEF DownInStep
<1>7. \A j \in 1 .. Len(downDone') : downDone'[j] = downSent'[j]
  BY <1>1, <1>2, DownTypes DEF DownInStep
<1> QED BY <1>5, <1>6, <1>7 DEF DownInStep

\* The bytes that are there tell the client where the first message ends.
LEMMA PollSees ==
    ASSUME Types, AnswersOK, DownInStep, downBuf # <<>>
    PROVE  LET d == Len(downDone)
               m == downSent[d + 1]
           IN /\ d < Len(downSent)
              /\ id \in Byte /\ m \in Answer(id)
              /\ downBuf[1] = m[1]
              /\ Known(downBuf[1])
              /\ Len(m) = 1 + BodyLength(downBuf[1])
              /\ \A b \in 1 .. Len(m) : b <= Len(downBuf) => downBuf[b] = m[b]
<1> DEFINE d == Len(downDone)
           m == downSent[d + 1]
<1>1. /\ d \in 0 .. Len(downSent) /\ Len(downSent) \in Nat
      /\ downSent \in Seq(Seq(Byte)) /\ Arriving \in Seq(Byte)
      /\ LaidOut(d, downSent, Arriving)
  BY DownTypes DEF DownInStep
<1>2. Len(downBuf) \in Nat /\ Len(downBuf) > 0
  BY DownTypes, EmptySeq
<1>3. Len(Arriving) > 0
  BY <1>2, DownTypes
<1> HIDE DEF d
<1>4. /\ d < Len(downSent)
      /\ \A b \in 1 .. Len(downSent[d + 1]) :
             Arriving[b] = downSent[d + 1][b]
  BY <1>1, <1>3, LaidOutFirst, Zenon
<1>5. d + 1 \in 1 .. Len(downSent)
  BY <1>1, <1>4
<1>6. id \in Byte /\ m \in Answer(id)
  BY <1>5, FramingConstants DEF AnswersOK
<1>7. /\ m \in Seq(Byte) /\ Len(m) \in {3, 7}
      /\ Known(m[1]) /\ Len(m) = 1 + BodyLength(m[1])
  BY <1>6, AnswerShape
<1>8. \A b \in 1 .. Len(m) : Arriving[b] = m[b]
  BY <1>4
<1> HIDE DEF m
<1>9. \A b \in 1 .. Len(m) : b <= Len(downBuf) => downBuf[b] = m[b]
  <2> SUFFICES ASSUME NEW b \in 1 .. Len(m), b <= Len(downBuf)
               PROVE  downBuf[b] = m[b]
    OBVIOUS
  <2>1. b \in 1 .. Len(downBuf)
    BY <1>2, <1>7
  <2> QED BY <1>8, <2>1, DownTypes
<1>10. downBuf[1] = m[1]
  BY <1>2, <1>7, <1>9
<1> QED BY <1>4, <1>6, <1>7, <1>9, <1>10 DEF d, m

\* A message is handled.
LEMMA PollKeeps ==
    ASSUME Types, AnswersOK, DownInStep, me \in {NoId, id}, PollMessage
    PROVE  DownInStep' /\ me' \in {NoId, id}
<1> DEFINE d == Len(downDone)
           m == downSent[d + 1]
           n == 1 + BodyLength(downBuf[1])
<1>1. /\ downBuf # <<>> /\ Len(downBuf) >= n
      /\ downDone' = Append(downDone, SubSeq(downBuf, 1, n))
      /\ downBuf' = SubSeq(downBuf, n + 1, Len(downBuf))
      /\ UNCHANGED <<id, downSent, downNet>>
  BY DEF PollMessage
<1>2. /\ d < Len(downSent)
      /\ id \in Byte /\ m \in Answer(id)
      /\ downBuf[1] = m[1]
      /\ Len(m) = n
      /\ \A b \in 1 .. Len(m) : b <= Len(downBuf) => downBuf[b] = m[b]
  BY <1>1, PollSees
<1>3. /\ m \in Seq(Byte) /\ n \in {3, 7}
      /\ m[1] = MSG_CONNECTED => m[2] = 0 /\ m[3] = id
  BY <1>2, AnswerShape
<1>4. me' = IF downBuf[1] = MSG_CONNECTED
            THEN 256 * downBuf[2] + downBuf[3] ELSE me
  BY DEF PollMessage
<1>5. d \in Nat /\ Len(downSent) \in Nat /\ Len(downBuf) \in Nat
  BY DownTypes
<1> HIDE DEF n, m
<1>6. \A b \in 1 .. n : downBuf[b] = m[b]
  BY <1>1, <1>2, <1>3, <1>5
<1>7. me' \in {NoId, id}
  <2>1. CASE downBuf[1] = MSG_CONNECTED
    <3>1. downBuf[2] = 0 /\ downBuf[3] = id
      BY <1>2, <1>3, <1>6, <2>1
    <3>2. id \in Nat /\ 256 * 0 + id = id
      BY <1>2 DEF Byte
    <3> QED BY <1>4, <2>1, <3>1, <3>2
  <2>2. CASE downBuf[1] # MSG_CONNECTED
    BY <1>4, <2>2
  <2> QED BY <2>1, <2>2
<1>8. n \in 0 .. Len(downBuf) /\ n \in Nat
  BY <1>1, <1>3, <1>5
<1>9. SubSeq(downBuf, 1, n) = m
  <2>1. /\ SubSeq(downBuf, 1, n) \in Seq(Byte)
        /\ Len(SubSeq(downBuf, 1, n)) = n
        /\ \A i \in 1 .. n : SubSeq(downBuf, 1, n)[i] = downBuf[i]
    BY <1>8, Pieces, DownTypes
  <2>2. \A i \in 1 .. n : SubSeq(downBuf, 1, n)[i] = m[i]
    BY <1>6, <2>1
  <2> QED BY <1>2, <1>3, <2>1, <2>2, SeqEqual
<1>10. /\ Len(downDone') = d + 1 /\ downDone'[d + 1] = m
       /\ \A j \in 1 .. d : downDone'[j] = downDone[j]
  BY <1>1, <1>3, <1>9, DownTypes, AppendProperties
<1>11. LaidOut(d + 1, downSent, Arriving')
  <2>1. /\ Len(Arriving') = Len(Arriving) - n
        /\ \A i \in 1 .. Len(Arriving) - n : Arriving'[i] = Arriving[n + i]
    <3>1. Arriving' = SubSeq(downBuf, n + 1, Len(downBuf)) \o downNet
      BY <1>1 DEF Arriving
    <3>2. LET r == SubSeq(downBuf, n + 1, Len(downBuf)) \o downNet IN
          /\ Len(r) = Len(downBuf \o downNet) - n
          /\ \A i \in 1 .. Len(downBuf \o downNet) - n :
                 r[i] = (downBuf \o downNet)[n + i]
      BY <1>8, DownTypes, Rest
    <3> QED BY <3>1, <3>2, Zenon DEF Arriving
  <2>2. Arriving' \in Seq(Byte)
    <3>1. SubSeq(downBuf, n + 1, Len(downBuf)) \in Seq(Byte)
      BY <1>8, Pieces, DownTypes
    <3> QED BY <1>1, <3>1, DownTypes, ConcatProperties DEF Arriving
  <2>3. /\ d \in Nat /\ n \in Nat /\ n = Len(downSent[d + 1])
        /\ d < Len(downSent) /\ LaidOut(d, downSent, Arriving)
        /\ downSent \in Seq(Seq(Byte)) /\ Arriving \in Seq(Byte)
    BY <1>2, <1>5, <1>8, DownTypes DEF DownInStep, m
  <2> HIDE DEF Arriving, d
  <2> QED BY <2>1, <2>2, <2>3, LaidOutLess, Zenon
<1>12. LaidOut(Len(downDone), downSent, Arriving)'
  BY <1>1, <1>10, <1>11
<1>13. Len(downDone') <= Len(downSent')
  BY <1>1, <1>2, <1>5, <1>10
<1>14. ASSUME NEW j \in 1 .. Len(downDone')
       PROVE  downDone'[j] = downSent'[j]
  <2>1. j \in 1 .. d \/ j = d + 1
    BY <1>5, <1>10
  <2> QED BY <1>1, <1>10, <2>1 DEF DownInStep, m
<1> QED BY <1>7, <1>12, <1>13, <1>14 DEF DownInStep

\* A segment that arrives changes nothing of it.
LEMMA DownArrives ==
    ASSUME Types, ArriveDown
    PROVE  Arriving' = Arriving
<1>1. PICK n \in 1 .. Len(downNet) :
          /\ downBuf' = downBuf \o SubSeq(downNet, 1, n)
          /\ downNet' = SubSeq(downNet, n + 1, Len(downNet))
  BY DEF ArriveDown
<1>2. n \in 0 .. Len(downNet)
  BY DownTypes
<1>3. (downBuf \o SubSeq(downNet, 1, n)) \o SubSeq(downNet, n + 1, Len(downNet))
          = downBuf \o downNet
  BY <1>2, DownTypes, Moved
<1> QED BY <1>1, <1>3, Zenon DEF Arriving

\* Of the steps of the connection and of the way up, only the first answer of
\* the server concerns the way down.
LEMMA DownElsewhere ==
    ASSUME DownInv, Join \/ Dial \/ Retry \/ SendRequest \/ ArriveUp
                        \/ ReadHeader \/ ReadRest
    PROVE  /\ UNCHANGED downVars /\ me' \in {me, NoId}
           /\ server' = "connect" => server = "connect"
<1> USE DEF upVars, downVars
<1>1. CASE Join \/ Dial
  BY <1>1 DEF Join, Dial, Refused, Accepted
<1>2. CASE Retry
  BY <1>2 DEF Retry, Joined, AttemptFails, PauseEnds, GiveUp, ClientSends
<1>3. CASE SendRequest \/ ArriveUp
  BY <1>3 DEF SendRequest, ArriveUp, ClientSends
<1>4. CASE ReadHeader \/ ReadRest
  BY <1>4 DEF ReadHeader, ReadRest
<1> QED BY <1>1, <1>2, <1>3, <1>4

LEMMA DownElsewhereKeeps ==
    ASSUME DownInv, UNCHANGED downVars, me' \in {me, NoId},
           server' = "connect" => server = "connect"
    PROVE  AnswersOK' /\ (~ torn' => DownInStep' /\ me' \in {NoId, id'})
<1>1. /\ id' = id /\ downSent' = downSent /\ downNet' = downNet
      /\ downBuf' = downBuf /\ downDone' = downDone /\ torn' = torn
  BY DEF downVars
<1>2. AnswersOK'
  BY <1>1 DEF DownInv, AnswersOK
<1>3. DownInStep' <=> DownInStep
  BY <1>1 DEF DownInStep, Arriving
<1> QED BY <1>1, <1>2, <1>3 DEF DownInv

\* The first answer.
LEMMA DownConnect ==
    ASSUME DownInv, ReadConnect
    PROVE  AnswersOK' /\ (~ torn' => DownInStep' /\ me' \in {NoId, id'})
<1>1. /\ me = NoId /\ ~ torn /\ downSent = <<>> /\ downDone = <<>>
      /\ me' = me /\ server' # "connect"
  BY DEF ReadConnect, DownInv, AnswersOK
<1>2. CASE UNCHANGED downVars
  <2>1. me' \in {me, NoId}
    BY <1>1
  <2> QED BY <1>1, <1>2, <2>1, DownElsewhereKeeps
<1>3. CASE id' \in PlayerIds /\ ServerSends(Connected(id'))
  <2>1. PICK m : m = Connected(id')
    OBVIOUS
  <2>2. m \in Seq(Byte) /\ m \in Answer(id')
    <3>1. id' \in Byte
      BY <1>3, FramingConstants
    <3>2. m \in Answer(id')
      BY <2>1 DEF Answer
    <3> QED BY <3>1, <3>2, AnswerShape
  <2>3. ServerSends(m)
    BY <1>3, <2>1
  <2>4. DownInStep'
    BY <1>1, <2>2, <2>3, DownSend DEF DownInv
  <2>5. downSent' = Append(<<>>, m)
    BY <1>1, <2>3 DEF ServerSends
  <2>6. Len(downSent') = 1 /\ downSent'[1] = m
    BY <2>5
  <2>7. AnswersOK'
    BY <1>1, <1>3, <2>2, <2>6 DEF AnswersOK
  <2> QED BY <1>1, <2>4, <2>7
<1> QED BY <1>2, <1>3 DEF ReadConnect

\* The answers after it.
LEMMA DownWrite ==
    ASSUME DownInv, Write
    PROVE  AnswersOK' /\ (~ torn' => DownInStep' /\ me' \in {NoId, id'})
<1>1. server \in {"header", "rest"} /\ id \in PlayerIds
  BY DEF Write, DownInv, Types
<1>2. PICK m \in {YouDied(id)} \cup {HealthUpdate(id, h) : h \in Healths} :
          ServerSends(m)
  BY DEF Write
<1>3. m \in Answer(id)
  BY DEF Answer
<1>4. m \in Seq(Byte)
  BY <1>1, <1>3, AnswerShape, FramingConstants
<1>5. /\ server' = server /\ id' = id /\ me' = me /\ torn' = torn
      /\ downSent' = Append(downSent, m)
  BY <1>2 DEF Write, ServerSends, upVars
<1>6. /\ Len(downSent') = Len(downSent) + 1 /\ downSent'[Len(downSent) + 1] = m
      /\ \A j \in 1 .. Len(downSent) : downSent'[j] = downSent[j]
      /\ Len(downSent) \in Nat
  BY <1>4, <1>5, DownTypes, AppendProperties DEF DownInv
<1>7. AnswersOK'
  <2> SUFFICES ASSUME NEW j \in 1 .. Len(downSent')
               PROVE  id' \in PlayerIds /\ downSent'[j] \in Answer(id')
    BY <1>1, <1>5 DEF AnswersOK
  <2>1. j \in 1 .. Len(downSent) \/ j = Len(downSent) + 1
    BY <1>6
  <2> QED BY <1>1, <1>3, <1>5, <1>6, <2>1 DEF DownInv, AnswersOK
<1>8. DownInStep => DownInStep'
  BY <1>2, <1>4, DownSend DEF DownInv
<1> QED BY <1>5, <1>7, <1>8 DEF DownInv

\* Bytes arrive and are read.
LEMMA DownRead ==
    ASSUME DownInv, ArriveDown \/ Poll
    PROVE  AnswersOK' /\ (~ torn' => DownInStep' /\ me' \in {NoId, id'})
<1>1. /\ UNCHANGED <<id, downSent, server>> /\ server # "connect"
  <2>1. UNCHANGED <<id, downSent, server>>
    BY DEF ArriveDown, Poll, PollMessage, PollTorn, PollUnknown, upVars
  <2>2. downBuf # <<>> \/ downNet # <<>>
    BY DEF ArriveDown, Poll, PollMessage, PollTorn, PollUnknown
  <2> QED BY <2>1, <2>2 DEF DownInv, AnswersOK
<1>2. AnswersOK'
  BY <1>1 DEF DownInv, AnswersOK
<1>3. CASE ArriveDown
  <2>1. /\ Arriving' = Arriving
        /\ UNCHANGED <<downDone, torn, me>>
    BY <1>3, DownArrives DEF ArriveDown, DownInv
  <2>2. DownInStep' <=> DownInStep
    BY <1>1, <2>1 DEF DownInStep
  <2> QED BY <1>1, <1>2, <2>1, <2>2 DEF DownInv
<1>4. CASE PollMessage
  <2>1. torn' = torn
    BY <1>4 DEF PollMessage
  <2>2. ~ torn => DownInStep' /\ me' \in {NoId, id}
    BY <1>4, PollKeeps DEF DownInv
  <2> QED BY <1>1, <1>2, <2>1, <2>2
<1>5. CASE PollTorn
  BY <1>2, <1>5 DEF PollTorn
<1>6. CASE PollUnknown
  <2>1. torn' = torn /\ downBuf # <<>> /\ ~ Known(downBuf[1])
    BY <1>6 DEF PollUnknown
  <2>2. torn
    BY <2>1, PollSees DEF DownInv
  <2> QED BY <1>2, <2>1, <2>2
<1> QED BY <1>3, <1>4, <1>5, <1>6 DEF Poll

LEMMA DownInit == Init => DownInv
<1> SUFFICES ASSUME Init PROVE DownInv
  OBVIOUS
<1>1. /\ downSent = <<>> /\ downDone = <<>> /\ downBuf = <<>> /\ downNet = <<>>
      /\ id = NoId /\ me = NoId /\ torn = FALSE
  BY DEF Init
<1>2. Arriving = <<>> /\ Len(Arriving) = 0
  BY <1>1 DEF Arriving
<1>3. LaidOut(0, <<>>, <<>>)
  <2> DEFINE off == [j \in 0 + 1 .. 0 + 1 |-> 0]
  <2>1. off \in [0 + 1 .. 0 + 1 -> Nat] /\ off[1] = 0
    OBVIOUS
  <2>2. \A i \in 0 + 1 .. 0 + 1 : i = 1
    OBVIOUS
  <2>3. Len(<<>>) = 0
    OBVIOUS
  <2> HIDE DEF off
  <2>4. Layout(off, 0, <<>>, <<>>)
    BY <2>1, <2>2, <2>3 DEF Layout
  <2> QED BY <2>4 DEF LaidOut
<1>4. DownInStep
  BY <1>1, <1>2, <1>3 DEF DownInStep
<1> QED BY <1>1, <1>4, TypesInit DEF DownInv, AnswersOK

LEMMA DownStep == DownInv /\ [Next]_vars => DownInv'
<1> SUFFICES ASSUME DownInv, [Next]_vars PROVE DownInv'
  OBVIOUS
<1>1. Types'
  BY TypesStep DEF DownInv
<1> SUFFICES AnswersOK' /\ (~ torn' => DownInStep' /\ me' \in {NoId, id'})
  BY <1>1 DEF DownInv
<1>2. CASE UNCHANGED vars
  <2>1. /\ UNCHANGED downVars /\ me' \in {me, NoId}
        /\ server' = "connect" => server = "connect"
    BY <1>2 DEF vars, upVars
  <2> QED BY <2>1, DownElsewhereKeeps
<1>3. CASE \/ Join \/ Dial \/ Retry \/ SendRequest \/ ArriveUp
           \/ ReadHeader \/ ReadRest
  BY <1>3, DownElsewhere, DownElsewhereKeeps
<1>4. CASE ReadConnect
  BY <1>4, DownConnect
<1>5. CASE Write
  BY <1>5, DownWrite
<1>6. CASE ArriveDown \/ Poll
  BY <1>6, DownRead
<1> QED BY <1>2, <1>3, <1>4, <1>5, <1>6 DEF Next, Read

\* No bytes left means no messages left.
LEMMA DownDrained ==
    ASSUME DownInv, ~ torn, downNet = <<>>, downBuf = <<>>
    PROVE  Len(downDone) = Len(downSent)
<1> DEFINE d == Len(downDone)
           s == Len(downSent)
<1>1. PICK off : Layout(off, d, downSent, Arriving)
  BY DEF DownInv, DownInStep, LaidOut
<1>2. Len(Arriving) = 0
  BY DEF Arriving
<1>3. d \in Nat /\ s \in Nat /\ d <= s
  BY DownTypes DEF DownInv, DownInStep
<1>4. /\ off \in [d + 1 .. s + 1 -> Nat]
      /\ off[d + 1] = 0 /\ off[s + 1] = 0
      /\ \A i, j \in d + 1 .. s + 1 : i <= j => off[i] <= off[j]
      /\ \A j \in d + 1 .. s : off[j + 1] = off[j] + Len(downSent[j])
  BY <1>1, <1>2 DEF Layout
<1>5. \A j \in 1 .. s : Len(downSent[j]) \in {3, 7}
  BY AnswerShape, FramingConstants DEF DownInv, AnswersOK
<1> HIDE DEF d, s
<1>6. ASSUME d < s
      PROVE  FALSE
  <2>1. /\ d + 1 \in d + 1 .. s /\ d + 1 \in 1 .. s /\ d + 1 + 1 = d + 2
        /\ d + 2 \in d + 1 .. s + 1 /\ s + 1 \in d + 1 .. s + 1
        /\ d + 2 <= s + 1
    BY <1>3, <1>6
  <2>2. off[d + 2] = off[d + 1] + Len(downSent[d + 1])
    BY <1>4, <2>1
  <2>3. off[d + 2] <= off[s + 1]
    BY <1>4, <2>1
  <2>4. Len(downSent[d + 1]) \in {3, 7}
    BY <1>5, <2>1, Zenon
  <2>5. off[d + 2] = 0 + Len(downSent[d + 1]) /\ off[d + 2] <= 0
    BY <1>4, <2>2, <2>3, Zenon
  <2>6. PICK l \in {3, 7} : l = Len(downSent[d + 1])
    BY <2>4
  <2>7. 0 + l <= 0
    BY <2>5, <2>6, Zenon
  <2> QED BY <2>7
<1> QED BY <1>3, <1>6 DEF d, s

\* As long as no message reaches it in two pieces, a client handles what the
\* server sent, whole and in order, and plays under the id it was given
\* (_poll_tcp), for any number of messages and any pieces in which they come.
THEOREM ClientKeepsStep == Spec => []ClientInStep
<1>1. DownInv => ClientInStep
  <2> SUFFICES ASSUME DownInv, ~ torn
               PROVE  /\ downDone = SubSeq(downSent, 1, Len(downDone))
                      /\ me \in {NoId, id}
                      /\ downNet = <<>> /\ downBuf = <<>> =>
                             downDone = downSent
    BY DEF ClientInStep
  <2>1. /\ downSent \in Seq(Seq(Byte)) /\ downDone \in Seq(Seq(Byte))
        /\ Len(downSent) \in Nat /\ Len(downDone) \in Nat
        /\ Len(downDone) <= Len(downSent)
        /\ \A j \in 1 .. Len(downDone) : downDone[j] = downSent[j]
        /\ me \in {NoId, id}
    BY DownTypes DEF DownInv, DownInStep
  <2>2. downDone = SubSeq(downSent, 1, Len(downDone))
    <3>1. \A j \in 1 .. Len(downDone) : downSent[j] \in Seq(Byte)
      BY <2>1, ElementOfSeq
    <3>2. LET t == SubSeq(downSent, 1, Len(downDone)) IN
          /\ t \in Seq(Seq(Byte))
          /\ Len(t) = IF 1 <= Len(downDone) THEN Len(downDone) - 1 + 1 ELSE 0
          /\ \A j \in 1 .. Len(downDone) - 1 + 1 : t[j] = downSent[1 + j - 1]
      BY <2>1, <3>1, SubSeqProperties
    <3>3. LET t == SubSeq(downSent, 1, Len(downDone)) IN
          /\ t \in Seq(Seq(Byte)) /\ Len(t) = Len(downDone)
          /\ \A j \in 1 .. Len(downDone) : downDone[j] = t[j]
      BY <2>1, <3>2
    <3> QED BY <2>1, <3>3, SeqEqual
  <2>3. (downNet = <<>> /\ downBuf = <<>>) => downDone = downSent
    BY <2>1, DownDrained, SeqEqual
  <2> QED BY <2>1, <2>2, <2>3
<1> QED BY <1>1, DownInit, DownStep, PTL DEF Spec
=============================================================================
