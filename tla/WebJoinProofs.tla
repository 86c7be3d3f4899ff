---------------------------- MODULE WebJoinProofs ----------------------------
(***************************************************************************)
(* What WebJoin promises however often Join is pressed.                    *)
(***************************************************************************)
EXTENDS WebJoin, TLAPS

\* Calls and transports are made in order, together; only a transport that
\* was made is locked.
OrderInv ==
    \A j \in Conn :
        /\ dial[j] = "none" <=> j > transport
        /\ call[j] = "none" <=> j > transport
        /\ locked[j] => j <= transport

\* As long as Join is never pressed too early, only the last join is under
\* way, and every transport carries the one Connect of its own call.
SingleInv ==
    ~ overlap =>
        /\ \A j \in Conn : j # transport => call[j] # "waiting"
                                          /\ dial[j] # "dialing"
        /\ \A j \in Conn : dial[j] = "dialing" => ~ locked[j]
        /\ \A j \in Conn : connects[j] <= 1
        /\ \A j \in Conn : call[j] # "over" => connects[j] = 0
        /\ \A j \in Conn : call[j] # "over" \/ connects[j] = 1
                              => \A p \in Id : owner[p] # j
        /\ \A p \in players : owner[p] \in Conn

Inv == TypeOK /\ OrderInv /\ SingleInv /\ BridgeServesCurrent /\ OneEntryEach

LEMMA InvInit == Init => Inv
<1> SUFFICES ASSUME Init PROVE Inv
  OBVIOUS
<1> USE MaxJoinsIsNat DEF Init, Conn, Id, NoConn, NoId
<1>1. TypeOK
  <2>1. streamQueue \in Seq(Id)
    OBVIOUS
  <2>2. \A i \in Conn : ~ reading[i] /\ ~ streaming[i]
    OBVIOUS
  <2>3. connects \in [Conn -> Nat] /\ replies \in [Conn -> SUBSET Id]
    OBVIOUS
  <2> QED BY <2>1, <2>2, <2>3 DEF TypeOK
<1>2. OrderInv /\ SingleInv
  BY DEF OrderInv, SingleInv
<1>3. BridgeServesCurrent /\ OneEntryEach
  BY DEF BridgeServesCurrent, OneEntryEach
<1> QED BY <1>1, <1>2, <1>3 DEF Inv

\* Connect is sent over the transport of the moment or not at all.
LEMMA SendTypes ==
    ASSUME connects \in [Conn -> Nat], NEW i, SendConnect(i)
    PROVE  connects' \in [Conn -> Nat]
<1>1. CASE connects' = connects
  BY <1>1
<1>2. CASE connects' = [connects EXCEPT ![i] = @ + 1]
  <2>1. ASSUME NEW j \in Conn PROVE connects'[j] \in Nat
    BY <1>2, <2>1
  <2> QED BY <1>2, <2>1
<1> QED BY <1>1, <1>2 DEF SendConnect

\* Every action keeps it.
LEMMA InvStep == Inv /\ [Next]_vars => Inv'
<1> SUFFICES ASSUME Inv, [Next]_vars PROVE Inv'
  OBVIOUS
<1> USE MaxJoinsIsNat DEF Conn, Id, NoConn, NoId
<1>1. CASE Press
  <2>1. TypeOK'
    <3>1. connects' \in [Conn -> Nat]
      BY <1>1, SendTypes DEF Press, Return, Inv, TypeOK
    <3>2. /\ transport' \in Conn
          /\ dial' = [dial EXCEPT ![transport'] = "dialing"]
          /\ UNCHANGED <<reading, streaming, locked>>
      BY <1>1 DEF Press, Inv, TypeOK, loops
    <3>3. /\ scene' \in {"menu", "arena"}
          /\ call' \in [Conn -> {"none", "waiting", "over"}]
          /\ ready' \in BOOLEAN
          /\ overlap' \in BOOLEAN
      BY <1>1 DEF Press, Return, Inv, TypeOK
    <3> QED
      BY <1>1, <3>1, <3>2, <3>3
      DEF Press, Inv, TypeOK, flags, queues, serverVars
  <2>2. OrderInv'
    BY <1>1
    DEF Press, Return, SendConnect, Inv, TypeOK, OrderInv,
        gameVars, bridgeVars, flags, queues, loops, netVars, serverVars
  <2>3. SingleInv'
    <3> DEFINE new == transport + 1
    <3> SUFFICES ASSUME ~ overlap' PROVE SingleInv'
      BY DEF SingleInv
    <3>1. /\ ~ overlap
          /\ \A j \in Conn : call[j] # "waiting" /\ dial[j] # "dialing"
      BY <1>1 DEF Press
    <3>2. /\ new \in Conn
          /\ transport' = new
          /\ dial' = [dial EXCEPT ![new] = "dialing"]
          /\ \/ /\ call' = [call EXCEPT ![new] = "over"]
                /\ connects' = [connects EXCEPT ![new] = @ + 1]
             \/ /\ call' = [call EXCEPT ![new] = "waiting"]
                /\ connects' = connects
      BY <1>1 DEF Press, Return, SendConnect, Inv, TypeOK
    <3>3. ~ locked[new] /\ call[new] = "none"
      BY <3>2 DEF Inv, TypeOK, OrderInv
    <3>4. connects[new] = 0 /\ \A p \in Id : owner[p] # new
      BY <3>1, <3>2, <3>3 DEF Inv, SingleInv
    <3>5. UNCHANGED <<locked, owner, players>>
      BY <1>1 DEF Press, serverVars
    <3> HIDE DEF new
    <3>6. ASSUME NEW j \in Conn
          PROVE  /\ j # new => call'[j] # "waiting" /\ dial'[j] # "dialing"
                 /\ dial'[j] = "dialing" => ~ locked[j]
      BY <3>1, <3>2, <3>3 DEF Inv, TypeOK
    <3>7. ASSUME NEW j \in Conn
          PROVE  /\ connects'[j] <= 1
                 /\ call'[j] # "over" => connects'[j] = 0
                 /\ call'[j] # "over" \/ connects'[j] = 1
                        => \A p \in Id : owner[p] # j
      <4>1. CASE j = new
        BY <3>2, <3>4, <4>1 DEF Inv, TypeOK
      <4>2. CASE j # new
        BY <3>1, <3>2, <4>2 DEF Inv, TypeOK, SingleInv
      <4> QED BY <4>1, <4>2
    <3>8. \A p \in players : owner[p] \in Conn
      BY <3>1 DEF Inv, SingleInv
    <3> QED BY <3>2, <3>5, <3>6, <3>7, <3>8 DEF SingleInv
  <2>4. BridgeServesCurrent'
    BY <1>1
    DEF Press, Return, SendConnect, Inv, TypeOK, OrderInv, SingleInv,
       BridgeServesCurrent,
        gameVars, bridgeVars, flags, queues, loops, netVars, serverVars
  <2>5. OneEntryEach'
    BY <1>1
    DEF Press, Return, SendConnect, Inv, TypeOK, OrderInv, SingleInv,
       OneEntryEach,
        gameVars, bridgeVars, flags, queues, loops, netVars, serverVars
  <2> QED BY <2>1, <2>2, <2>3, <2>4, <2>5 DEF Inv
<1>2. CASE PollStreams
  <2>1. TypeOK'
    BY <1>2
    DEF PollStreams, Inv, TypeOK,
        gameVars, bridgeVars, flags, queues, loops, netVars, serverVars
  <2>2. OrderInv'
    BY <1>2
    DEF PollStreams, Inv, TypeOK, OrderInv,
        gameVars, bridgeVars, flags, queues, loops, netVars, serverVars
  <2>3. SingleInv'
    BY <1>2
    DEF PollStreams, Inv, TypeOK, OrderInv, SingleInv,
        gameVars, bridgeVars, flags, queues, loops, netVars, serverVars
  <2>4. BridgeServesCurrent'
    BY <1>2
    DEF PollStreams, Inv, TypeOK, OrderInv, SingleInv,
       BridgeServesCurrent,
        gameVars, bridgeVars, flags, queues, loops, netVars, serverVars
  <2>5. OneEntryEach'
    BY <1>2
    DEF PollStreams, Inv, TypeOK, OrderInv, SingleInv,
       OneEntryEach,
        gameVars, bridgeVars, flags, queues, loops, netVars, serverVars
  <2> QED BY <2>1, <2>2, <2>3, <2>4, <2>5 DEF Inv
<1>3. CASE PollDatagrams
  <2>1. TypeOK'
    BY <1>3
    DEF PollDatagrams, Inv, TypeOK,
        gameVars, bridgeVars, flags, queues, loops, netVars, serverVars
  <2>2. OrderInv'
    BY <1>3
    DEF PollDatagrams, Inv, TypeOK, OrderInv,
        gameVars, bridgeVars, flags, queues, loops, netVars, serverVars
  <2>3. SingleInv'
    BY <1>3
    DEF PollDatagrams, Inv, TypeOK, OrderInv, SingleInv,
        gameVars, bridgeVars, flags, queues, loops, netVars, serverVars
  <2>4. BridgeServesCurrent'
    BY <1>3
    DEF PollDatagrams, Inv, TypeOK, OrderInv, SingleInv,
       BridgeServesCurrent,
        gameVars, bridgeVars, flags, queues, loops, netVars, serverVars
  <2>5. OneEntryEach'
    BY <1>3
    DEF PollDatagrams, Inv, TypeOK, OrderInv, SingleInv,
       OneEntryEach,
        gameVars, bridgeVars, flags, queues, loops, netVars, serverVars
  <2> QED BY <2>1, <2>2, <2>3, <2>4, <2>5 DEF Inv
<1>4. CASE Timeout
  <2>1. TypeOK'
    BY <1>4
    DEF Timeout, Inv, TypeOK,
        gameVars, bridgeVars, flags, queues, loops, netVars, serverVars
  <2>2. OrderInv'
    BY <1>4
    DEF Timeout, Inv, TypeOK, OrderInv,
        gameVars, bridgeVars, flags, queues, loops, netVars, serverVars
  <2>3. SingleInv'
    BY <1>4
    DEF Timeout, Inv, TypeOK, OrderInv, SingleInv,
        gameVars, bridgeVars, flags, queues, loops, netVars, serverVars
  <2>4. BridgeServesCurrent'
    BY <1>4
    DEF Timeout, Inv, TypeOK, OrderInv, SingleInv,
       BridgeServesCurrent,
        gameVars, bridgeVars, flags, queues, loops, netVars, serverVars
  <2>5. OneEntryEach'
    BY <1>4
    DEF Timeout, Inv, TypeOK, OrderInv, SingleInv,
       OneEntryEach,
        gameVars, bridgeVars, flags, queues, loops, netVars, serverVars
  <2> QED BY <2>1, <2>2, <2>3, <2>4, <2>5 DEF Inv
<1>5. ASSUME NEW i \in Conn, Waited(i) PROVE Inv'
  <2>1. TypeOK'
    <3>1. connects' \in [Conn -> Nat]
      BY <1>5, SendTypes DEF Waited, Return, Inv, TypeOK
    <3> QED
      BY <1>5, <3>1
      DEF Waited, Return, Inv, TypeOK, bridgeVars, flags, queues, loops,
          serverVars
  <2>2. OrderInv'
    BY <1>5
    DEF Waited, Return, SendConnect, Inv, TypeOK, OrderInv,
        gameVars, bridgeVars, flags, queues, loops, netVars, serverVars
  <2>3. SingleInv'
    BY <1>5
    DEF Waited, Return, SendConnect, Inv, TypeOK, OrderInv, SingleInv,
        gameVars, bridgeVars, flags, queues, loops, netVars, serverVars
  <2>4. BridgeServesCurrent'
    BY <1>5
    DEF Waited, Return, SendConnect, Inv, TypeOK, OrderInv, SingleInv,
       BridgeServesCurrent,
        gameVars, bridgeVars, flags, queues, loops, netVars, serverVars
  <2>5. OneEntryEach'
    BY <1>5
    DEF Waited, Return, SendConnect, Inv, TypeOK, OrderInv, SingleInv,
       OneEntryEach,
        gameVars, bridgeVars, flags, queues, loops, netVars, serverVars
  <2> QED BY <2>1, <2>2, <2>3, <2>4, <2>5 DEF Inv
<1>6. ASSUME NEW i \in Conn, WaitedInVain(i) PROVE Inv'
  <2>1. TypeOK'
    <3>1. connects' \in [Conn -> Nat]
      BY <1>6, SendTypes DEF WaitedInVain, Return, Inv, TypeOK
    <3> QED
      BY <1>6, <3>1
      DEF WaitedInVain, Return, Inv, TypeOK, bridgeVars, flags, queues, loops,
          serverVars
  <2>2. OrderInv'
    BY <1>6
    DEF WaitedInVain, Return, SendConnect, Inv, TypeOK, OrderInv,
        gameVars, bridgeVars, flags, queues, loops, netVars, serverVars
  <2>3. SingleInv'
    BY <1>6
    DEF WaitedInVain, Return, SendConnect, Inv, TypeOK, OrderInv, SingleInv,
        gameVars, bridgeVars, flags, queues, loops, netVars, serverVars
  <2>4. BridgeServesCurrent'
    BY <1>6
    DEF WaitedInVain, Return, SendConnect, Inv, TypeOK, OrderInv, SingleInv,
       BridgeServesCurrent,
        gameVars, bridgeVars, flags, queues, loops, netVars, serverVars
  <2>5. OneEntryEach'
    BY <1>6
    DEF WaitedInVain, Return, SendConnect, Inv, TypeOK, OrderInv, SingleInv,
       OneEntryEach,
        gameVars, bridgeVars, flags, queues, loops, netVars, serverVars
  <2> QED BY <2>1, <2>2, <2>3, <2>4, <2>5 DEF Inv
<1>7. ASSUME NEW i \in Conn, Opens(i) PROVE Inv'
  <2>1. TypeOK'
    <3>1. /\ transport \in Conn
          /\ dial' = [dial EXCEPT ![i] = "open"]
          /\ handler' = [handler EXCEPT ![i] = "running"]
      BY <1>7 DEF Opens, Inv, TypeOK, OrderInv
    <3>2. CASE locked[transport]
      <4>1. UNCHANGED <<locked, writer, reading, streaming>>
        BY <1>7, <3>2 DEF Opens, loops
      <4>2. connected' \in BOOLEAN /\ error' \in BOOLEAN
        BY <1>7, <3>2 DEF Opens
      <4>3. ASSUME NEW j \in Conn, reading[j] \/ streaming[j]
            PROVE  locked[j] /\ dial'[j] \in {"dialing", "open"}
        BY <3>1, <4>3 DEF Inv, TypeOK
      <4> QED
        BY <1>7, <3>1, <4>1, <4>2, <4>3
        DEF Opens, Inv, TypeOK, gameVars, queues
    <3>3. CASE ~ locked[transport]
      <4> DEFINE works == dial'[transport] \in {"dialing", "open"}
      <4>1. /\ locked' = [locked EXCEPT ![transport] = TRUE]
            /\ reading' = [reading EXCEPT ![transport] = works]
            /\ streaming' = [streaming EXCEPT ![transport] = works]
        BY <1>7, <3>3 DEF Opens
      <4>2. ASSUME NEW j \in Conn, reading'[j] \/ streaming'[j]
            PROVE  locked'[j] /\ dial'[j] \in {"dialing", "open"}
        BY <3>1, <4>1, <4>2 DEF Inv, TypeOK
      <4>3. /\ locked' \in [Conn -> BOOLEAN]
            /\ reading' \in [Conn -> BOOLEAN]
            /\ streaming' \in [Conn -> BOOLEAN]
        <5>1. works \in BOOLEAN
          OBVIOUS
        <5> HIDE DEF works
        <5> QED BY <4>1, <5>1 DEF Inv, TypeOK
      <4>4. connected' \in BOOLEAN /\ error' \in BOOLEAN
            /\ writer' \in Conn
        <5>1. connected' /\ writer' = transport /\ UNCHANGED error
          BY <1>7, <3>3 DEF Opens
        <5> QED BY <3>1, <5>1 DEF Inv, TypeOK
      <4> HIDE DEF works
      <4> QED
        BY <1>7, <3>1, <4>2, <4>3, <4>4
        DEF Opens, Inv, TypeOK, gameVars, queues
    <3> QED BY <3>2, <3>3
  <2>2. OrderInv'
    BY <1>7
    DEF Opens, Inv, TypeOK, OrderInv,
        gameVars, bridgeVars, flags, queues, loops, netVars, serverVars
  <2>3. SingleInv'
    BY <1>7
    DEF Opens, Inv, TypeOK, OrderInv, SingleInv,
        gameVars, bridgeVars, flags, queues, loops, netVars, serverVars
  <2>4. BridgeServesCurrent'
    <3> SUFFICES ASSUME ~ overlap, dial'[transport] = "open"
                 PROVE  /\ connected' /\ writer' = transport
                        /\ reading'[transport] /\ streaming'[transport]
      BY <1>7 DEF Opens, BridgeServesCurrent
    <3>1. i = transport /\ ~ locked[transport]
      BY <1>7 DEF Opens, Inv, SingleInv
    <3> DEFINE works == dial'[transport] \in {"dialing", "open"}
    <3>2. works /\ transport' = transport
      BY <1>7 DEF Opens
    <3>3. /\ connected' /\ writer' = transport
          /\ reading' = [reading EXCEPT ![transport] = works]
          /\ streaming' = [streaming EXCEPT ![transport] = works]
      BY <1>7, <3>1 DEF Opens
    <3> HIDE DEF works
    <3> QED BY <3>1, <3>2, <3>3 DEF Inv, TypeOK
  <2>5. OneEntryEach'
    BY <1>7
    DEF Opens, Inv, TypeOK, OrderInv, SingleInv,
       OneEntryEach,
        gameVars, bridgeVars, flags, queues, loops, netVars, serverVars
  <2> QED BY <2>1, <2>2, <2>3, <2>4, <2>5 DEF Inv
<1>8. ASSUME NEW i \in Conn, Fails(i) PROVE Inv'
  <2>1. TypeOK'
    BY <1>8
    DEF Fails, Inv, TypeOK,
        gameVars, bridgeVars, flags, queues, loops, netVars, serverVars
  <2>2. OrderInv'
    BY <1>8
    DEF Fails, Inv, TypeOK, OrderInv,
        gameVars, bridgeVars, flags, queues, loops, netVars, serverVars
  <2>3. SingleInv'
    BY <1>8
    DEF Fails, Inv, TypeOK, OrderInv, SingleInv,
        gameVars, bridgeVars, flags, queues, loops, netVars, serverVars
  <2>4. BridgeServesCurrent'
    BY <1>8
    DEF Fails, Inv, TypeOK, OrderInv, SingleInv,
       BridgeServesCurrent,
        gameVars, bridgeVars, flags, queues, loops, netVars, serverVars
  <2>5. OneEntryEach'
    BY <1>8
    DEF Fails, Inv, TypeOK, OrderInv, SingleInv,
       OneEntryEach,
        gameVars, bridgeVars, flags, queues, loops, netVars, serverVars
  <2> QED BY <2>1, <2>2, <2>3, <2>4, <2>5 DEF Inv
<1>9. ASSUME NEW i \in Conn, Breaks(i) PROVE Inv'
  <2>1. TypeOK'
    BY <1>9
    DEF Breaks, Inv, TypeOK,
        gameVars, bridgeVars, flags, queues, loops, netVars, serverVars
  <2>2. OrderInv'
    BY <1>9
    DEF Breaks, Inv, TypeOK, OrderInv,
        gameVars, bridgeVars, flags, queues, loops, netVars, serverVars
  <2>3. SingleInv'
    BY <1>9
    DEF Breaks, Inv, TypeOK, OrderInv, SingleInv,
        gameVars, bridgeVars, flags, queues, loops, netVars, serverVars
  <2>4. BridgeServesCurrent'
    BY <1>9
    DEF Breaks, Inv, TypeOK, OrderInv, SingleInv,
       BridgeServesCurrent,
        gameVars, bridgeVars, flags, queues, loops, netVars, serverVars
  <2>5. OneEntryEach'
    BY <1>9
    DEF Breaks, Inv, TypeOK, OrderInv, SingleInv,
       OneEntryEach,
        gameVars, bridgeVars, flags, queues, loops, netVars, serverVars
  <2> QED BY <2>1, <2>2, <2>3, <2>4, <2>5 DEF Inv
<1>10. ASSUME NEW i \in Conn, ReadDatagram(i) PROVE Inv'
  <2>1. TypeOK'
    BY <1>10
    DEF ReadDatagram, Inv, TypeOK,
        gameVars, bridgeVars, flags, queues, loops, netVars, serverVars
  <2>2. OrderInv'
    BY <1>10
    DEF ReadDatagram, Inv, TypeOK, OrderInv,
        gameVars, bridgeVars, flags, queues, loops, netVars, serverVars
  <2>3. SingleInv'
    BY <1>10
    DEF ReadDatagram, Inv, TypeOK, OrderInv, SingleInv,
        gameVars, bridgeVars, flags, queues, loops, netVars, serverVars
  <2>4. BridgeServesCurrent'
    BY <1>10
    DEF ReadDatagram, Inv, TypeOK, OrderInv, SingleInv,
       BridgeServesCurrent,
        gameVars, bridgeVars, flags, queues, loops, netVars, serverVars
  <2>5. OneEntryEach'
    BY <1>10
    DEF ReadDatagram, Inv, TypeOK, OrderInv, SingleInv,
       OneEntryEach,
        gameVars, bridgeVars, flags, queues, loops, netVars, serverVars
  <2> QED BY <2>1, <2>2, <2>3, <2>4, <2>5 DEF Inv
<1>11. ASSUME NEW i \in Conn, ReadStream(i) PROVE Inv'
  <2>1. TypeOK'
    <3>1. PICK p \in replies[i] :
              /\ replies' = [replies EXCEPT ![i] = @ \ {p}]
              /\ streamQueue' = Append(streamQueue, p)
      BY <1>11 DEF ReadStream
    <3>2. streamQueue' \in Seq(Id)
      BY <3>1 DEF Inv, TypeOK
    <3>3. replies' \in [Conn -> SUBSET Id]
      BY <3>1 DEF Inv, TypeOK
    <3> QED
      BY <1>11, <3>2, <3>3 DEF ReadStream, Inv, TypeOK, gameVars, flags,
                               serverVars
  <2>2. OrderInv'
    BY <1>11
    DEF ReadStream, Inv, TypeOK, OrderInv,
        gameVars, bridgeVars, flags, queues, loops, netVars, serverVars
  <2>3. SingleInv'
    BY <1>11
    DEF ReadStream, Inv, TypeOK, OrderInv, SingleInv,
        gameVars, bridgeVars, flags, queues, loops, netVars, serverVars
  <2>4. BridgeServesCurrent'
    BY <1>11
    DEF ReadStream, Inv, TypeOK, OrderInv, SingleInv,
       BridgeServesCurrent,
        gameVars, bridgeVars, flags, queues, loops, netVars, serverVars
  <2>5. OneEntryEach'
    BY <1>11
    DEF ReadStream, Inv, TypeOK, OrderInv, SingleInv,
       OneEntryEach,
        gameVars, bridgeVars, flags, queues, loops, netVars, serverVars
  <2> QED BY <2>1, <2>2, <2>3, <2>4, <2>5 DEF Inv
<1>12. ASSUME NEW i \in Conn, AcceptConnect(i) PROVE Inv'
  <2>1. TypeOK'
    <3>1. PICK p \in Id :
              /\ mine' = [mine EXCEPT ![i] = p]
              /\ players' = players \cup {p}
              /\ owner' = [owner EXCEPT ![p] = i]
              /\ replies' = [replies EXCEPT ![i] = @ \cup {p}]
      BY <1>12 DEF AcceptConnect
    <3>2. /\ connects' \in [Conn -> Nat]
          /\ replies' \in [Conn -> SUBSET Id]
          /\ mine' \in [Conn -> Id \cup {NoId}]
          /\ players' \subseteq Id
          /\ owner' \in [Id -> Conn \cup {NoConn}]
      <4>1. connects[i] > 0 /\ connects' = [connects EXCEPT ![i] = @ - 1]
        BY <1>12 DEF AcceptConnect
      <4>2. connects[i] \in Nat /\ connects[i] - 1 \in Nat
        BY <4>1 DEF Inv, TypeOK
      <4>3. connects' \in [Conn -> Nat]
        BY <4>1, <4>2 DEF Inv, TypeOK
      <4>4. replies' \in [Conn -> SUBSET Id]
        BY <3>1 DEF Inv, TypeOK
      <4> QED BY <3>1, <4>3, <4>4 DEF Inv, TypeOK
    <3>3. UNCHANGED <<gameVars, bridgeVars, dial, locked, handler, overlap>>
      BY <1>12 DEF AcceptConnect
    <3>4. UNCHANGED <<scene, call, ready, me, transport, writer, connected,
                      error, queue, streamQueue, reading, streaming>>
      BY <3>3 DEF gameVars, bridgeVars, flags, queues, loops
    <3>5. \A j \in Conn :
              reading'[j] \/ streaming'[j] =>
                  locked'[j] /\ dial'[j] \in {"dialing", "open"}
      BY <3>3, <3>4 DEF Inv, TypeOK
    <3> HIDE DEF Conn, Id
    <3> QED BY <3>2, <3>3, <3>4, <3>5 DEF Inv, TypeOK
  <2>2. OrderInv'
    BY <1>12
    DEF AcceptConnect, Inv, TypeOK, OrderInv,
        gameVars, bridgeVars, flags, queues, loops, netVars, serverVars
  <2>3. SingleInv'
    BY <1>12
    DEF AcceptConnect, Inv, TypeOK, OrderInv, SingleInv,
        gameVars, bridgeVars, flags, queues, loops, netVars, serverVars
  <2>4. BridgeServesCurrent'
    BY <1>12
    DEF AcceptConnect, Inv, TypeOK, OrderInv, SingleInv,
       BridgeServesCurrent,
        gameVars, bridgeVars, flags, queues, loops, netVars, serverVars
  <2>5. OneEntryEach'
    <3> SUFFICES ASSUME ~ overlap, NEW q \in players'
                 PROVE  q = mine'[owner'[q]] /\ handler[owner'[q]] = "running"
      BY <1>12 DEF AcceptConnect, OneEntryEach
    <3>1. PICK p \in Id :
              /\ mine' = [mine EXCEPT ![i] = p]
              /\ players' = players \cup {p}
              /\ owner' = [owner EXCEPT ![p] = i]
      BY <1>12 DEF AcceptConnect
    <3>2. CASE q = p
      BY <1>12, <3>1, <3>2 DEF AcceptConnect, Inv, TypeOK
    <3>3. CASE q # p
      <4>1. connects[i] = 1
        BY <1>12 DEF AcceptConnect, Inv, TypeOK, SingleInv
      <4>2. q \in players /\ q \in Id /\ owner[q] # i /\ owner[q] \in Conn
        BY <3>1, <3>3, <4>1 DEF Inv, TypeOK, SingleInv
      <4> QED BY <3>1, <3>3, <4>2 DEF Inv, TypeOK, OneEntryEach
    <3> QED BY <3>2, <3>3
  <2> QED BY <2>1, <2>2, <2>3, <2>4, <2>5 DEF Inv
<1>13. ASSUME NEW i \in Conn, CleanUp(i) PROVE Inv'
  <2>1. TypeOK'
    BY <1>13
    DEF CleanUp, Inv, TypeOK,
        gameVars, bridgeVars, flags, queues, loops, netVars, serverVars
  <2>2. OrderInv'
    BY <1>13
    DEF CleanUp, Inv, TypeOK, OrderInv,
        gameVars, bridgeVars, flags, queues, loops, netVars, serverVars
  <2>3. SingleInv'
    BY <1>13
    DEF CleanUp, Inv, TypeOK, OrderInv, SingleInv,
        gameVars, bridgeVars, flags, queues, loops, netVars, serverVars
  <2>4. BridgeServesCurrent'
    BY <1>13
    DEF CleanUp, Inv, TypeOK, OrderInv, SingleInv,
       BridgeServesCurrent,
        gameVars, bridgeVars, flags, queues, loops, netVars, serverVars
  <2>5. OneEntryEach'
    BY <1>13
    DEF CleanUp, Inv, TypeOK, OrderInv, SingleInv,
       OneEntryEach,
        gameVars, bridgeVars, flags, queues, loops, netVars, serverVars
  <2> QED BY <2>1, <2>2, <2>3, <2>4, <2>5 DEF Inv
<1>14. CASE UNCHANGED vars
  BY <1>14
  DEF vars, Inv, TypeOK, OrderInv, SingleInv, BridgeServesCurrent, OneEntryEach,
      gameVars, bridgeVars, flags, queues, loops, netVars, serverVars
<1> QED
  BY <1>1, <1>2, <1>3, <1>4, <1>5, <1>6, <1>7, <1>8, <1>9, <1>10, <1>11, <1>12, <1>13, <1>14
  DEF Next, Wait, Dialed, Serve

LEMMA InvHolds == Spec => []Inv
BY InvInit, InvStep, PTL DEF Spec

\* Types; and a loop of the bridge runs only on a transport that is locked
\* and not yet closed (webtransport_bridge.js, _readLoop and _streamLoop).
THEOREM WebJoinTypes == Spec => []TypeOK
<1>1. Inv => TypeOK
  BY DEF Inv
<1> QED BY <1>1, InvHolds, PTL

\* Whoever does not press Join too early is served by the bridge's loops and
\* writer, after any number of joins and of broken connections (connect).
THEOREM CurrentIsServed == Spec => []BridgeServesCurrent
<1>1. Inv => BridgeServesCurrent
  BY DEF Inv
<1> QED BY <1>1, InvHolds, PTL

\* On the same condition no connection has two players, and none outlives its
\* connection's task (wt.rs, my_id).
THEOREM OneEntryForEach == Spec => []OneEntryEach
<1>1. Inv => OneEntryEach
  BY DEF Inv
<1> QED BY <1>1, InvHolds, PTL
=============================================================================
