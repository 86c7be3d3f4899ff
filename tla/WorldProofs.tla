---------------------------- MODULE WorldProofs ----------------------------
(***************************************************************************)
(* What the clients of World see, for any number of clients, sessions and  *)
(* snapshots.                                                              *)
(***************************************************************************)
EXTENDS World, TLAPS

\* What the proofs below need of the types.
FigureOK ==
    /\ remote \in [Client -> SUBSET Player]
    /\ figure \in [Client -> [Player -> {"none", "live", "doomed"}]]
    /\ net \in [Client -> SUBSET Packet]
    /\ holding \in [Caster -> Packet \cup {Nothing}]

SceneInv == FigureOK /\ alive \subseteq Player /\ tick \in Nat /\ drawn \in Nat
            /\ NodesAreRegistered

LEMMA SceneInit == Init => SceneInv
BY WorldConstants DEF Init, SceneInv, FigureOK, NodesAreRegistered, Packet

\* One snapshot applied leaves nodes and registrations in agreement.
LEMMA ShowKeepsScene ==
    ASSUME FigureOK, NodesAreRegistered,
           NEW c \in Client, NEW packet \in net[c], Show(c, packet)
    PROVE  /\ remote' \in [Client -> SUBSET Player]
           /\ figure' \in [Client -> [Player -> {"none", "live", "doomed"}]]
           /\ NodesAreRegistered'
<1> DEFINE now == (remote[c] \cup Spawned(c, packet.shown)) \cap packet.shown
<1>1. packet.shown \subseteq Player
  BY DEF FigureOK, Packet
<1>2. now \subseteq Player
  BY <1>1
<1>3. /\ remote' = [remote EXCEPT ![c] = now]
      /\ figure' = [figure EXCEPT ![c] = [p \in Player |->
             IF p \in now THEN "live"
             ELSE IF p \in remote[c] THEN "doomed"
             ELSE figure[c][p]]]
  BY DEF Show, FigureOK
<1>4. /\ remote' \in [Client -> SUBSET Player]
      /\ figure' \in [Client -> [Player -> {"none", "live", "doomed"}]]
  BY <1>2, <1>3 DEF FigureOK
<1>5. ASSUME NEW d \in Client
      PROVE  {p \in Player : figure'[d][p] = "live"} = remote'[d]
  <2>1. CASE d # c
    BY <2>1, <1>3 DEF FigureOK, NodesAreRegistered
  <2>2. CASE d = c
    <3>1. remote'[c] = now
      BY <1>3 DEF FigureOK
    <3>2. ASSUME NEW p \in Player
          PROVE  figure'[c][p] = "live" <=> p \in now
      BY <1>3 DEF FigureOK, NodesAreRegistered
    <3> QED BY <2>2, <3>1, <3>2, <1>2
  <2> QED BY <2>1, <2>2
<1> QED BY <1>4, <1>5 DEF NodesAreRegistered

LEMMA SceneStep == SceneInv /\ [Next]_vars => SceneInv'
<1> SUFFICES ASSUME SceneInv, [Next]_vars PROVE SceneInv'
  OBVIOUS
<1> USE WorldConstants
<1>0. ASSUME UNCHANGED <<remote, figure>> PROVE NodesAreRegistered'
  BY <1>0 DEF SceneInv, NodesAreRegistered
<1>1. ASSUME NEW p \in Player, Join(p) PROVE SceneInv'
  BY <1>1, <1>0 DEF SceneInv, FigureOK, Join, historyVars
<1>2. ASSUME NEW p \in Player, Die(p) PROVE SceneInv'
  BY <1>2, <1>0 DEF SceneInv, FigureOK, Die, entryVars, udpVars, clientVars,
                    historyVars
<1>3. ASSUME NEW p \in Player, Revive(p) PROVE SceneInv'
  BY <1>3, <1>0 DEF SceneInv, FigureOK, Revive, entryVars, udpVars,
                    clientVars, historyVars
<1>4. ASSUME NEW p \in Player, Remove(p) PROVE SceneInv'
  BY <1>4, <1>0 DEF SceneInv, FigureOK, Remove, entryVars, udpVars,
                    clientVars, historyVars
<1>5. ASSUME NEW b \in Caster, Snapshot(b) PROVE SceneInv'
  <2>1. [tick |-> tick, shown |-> alive, serial |-> drawn + 1] \in Packet
    BY DEF SceneInv, Packet
  <2>2. (tick + 1) % TickSpan \in Nat
    BY DEF SceneInv
  <2> QED BY <1>5, <1>0, <2>1, <2>2
          DEF SceneInv, FigureOK, Snapshot, entryVars, udpVars, clientVars
<1>6. ASSUME NEW b \in Caster, SendDatagrams(b) PROVE SceneInv'
  BY <1>6, <1>0 DEF SceneInv, FigureOK, SendDatagrams, entryVars, udpVars,
                    clientVars, historyVars
<1>7. ASSUME SendUdp PROVE SceneInv'
  <2>1. holding["udp"] \in Packet
    BY <1>7 DEF SendUdp, SceneInv, FigureOK, Caster, Loop
  <2> QED BY <1>7, <1>0, <2>1
          DEF SceneInv, FigureOK, SendUdp, entryVars, udpVars, clientVars,
              historyVars
<1>8. ASSUME EndUdp PROVE SceneInv'
  BY <1>8, <1>0 DEF SceneInv, FigureOK, EndUdp, entryVars, udpVars,
                    clientVars, historyVars
<1>9. ASSUME Restart PROVE SceneInv'
  BY <1>9, <1>0 DEF SceneInv, FigureOK, Restart, entryVars, udpVars, clientVars
<1>10. ASSUME NEW c \in Client, LoadArena(c) PROVE SceneInv'
  BY <1>10, <1>0 DEF SceneInv, FigureOK, LoadArena, serverVars, entryVars,
                     udpVars, historyVars
<1>11. ASSUME NEW c \in Client, Receive(c) PROVE SceneInv'
  <2>1. PICK packet \in net[c] : Show(c, packet)
    BY <1>11 DEF Receive
  <2>2. /\ remote' \in [Client -> SUBSET Player]
        /\ figure' \in [Client -> [Player -> {"none", "live", "doomed"}]]
        /\ NodesAreRegistered'
    BY <2>1, ShowKeepsScene DEF SceneInv
  <2> QED BY <1>11, <2>2 DEF SceneInv, FigureOK, Receive, serverVars,
                             entryVars, udpVars
<1>12. ASSUME NEW c \in Client, Ignore(c) PROVE SceneInv'
  BY <1>12, <1>0 DEF SceneInv, FigureOK, Ignore, serverVars, entryVars,
                     udpVars, historyVars
<1>13. ASSUME NEW c \in Client, EndFrame(c) PROVE SceneInv'
  <2>1. figure' \in [Client -> [Player -> {"none", "live", "doomed"}]]
    BY <1>13 DEF SceneInv, FigureOK, EndFrame
  <2>2. \A d \in Client, p \in Player :
            figure'[d][p] = "live" <=> figure[d][p] = "live"
    BY <1>13 DEF SceneInv, FigureOK, EndFrame
  <2>3. NodesAreRegistered'
    BY <1>13, <2>2 DEF SceneInv, NodesAreRegistered, EndFrame
  <2> QED BY <1>13, <2>1, <2>3
          DEF SceneInv, FigureOK, EndFrame, serverVars, entryVars, udpVars,
              historyVars
<1>14. ASSUME NEW c \in Client, Timeout(c) PROVE SceneInv'
  <2>1. figure' \in [Client -> [Player -> {"none", "live", "doomed"}]]
    BY <1>14 DEF SceneInv, FigureOK, Timeout
  <2>2. \A d \in Client :
            {p \in Player : figure'[d][p] = "live"} = remote'[d]
    BY <1>14 DEF SceneInv, FigureOK, Timeout, NodesAreRegistered
  <2> QED BY <1>14, <2>1, <2>2
          DEF SceneInv, FigureOK, Timeout, NodesAreRegistered, serverVars,
              entryVars, udpVars,
              historyVars
<1>15. ASSUME NEW p \in Player, AddRoute(p) \/ RemoveRoute(p) PROVE SceneInv'
  BY <1>15, <1>0 DEF SceneInv, FigureOK, AddRoute, RemoveRoute, entryVars,
                     udpVars, clientVars, historyVars
<1>16. ASSUME NEW c \in Client, Learn(c) PROVE SceneInv'
  BY <1>16, <1>0 DEF SceneInv, FigureOK, Learn, serverVars, entryVars, udpVars,
                     historyVars
<1>17. ASSUME TakeAddrs PROVE SceneInv'
  BY <1>17, <1>0 DEF SceneInv, FigureOK, TakeAddrs, entryVars, udpVars,
                     clientVars,
                     historyVars
<1>18. CASE UNCHANGED vars
  BY <1>18, <1>0 DEF SceneInv, FigureOK, vars, serverVars, entryVars, udpVars,
                     entryVars, udpVars, clientVars, historyVars
<1> QED BY <1>1, <1>2, <1>3, <1>4, <1>5, <1>6, <1>7, <1>8, <1>9, <1>10, <1>11,
           <1>12, <1>13, <1>14, <1>15, <1>16, <1>17, <1>18
        DEF Next, Server, View

\* Whatever arrives in whatever order, however many snapshots are handled in
\* one frame, and over timeouts and restarts: the nodes of the arena are those
\* NetworkManager has registered (Main.gd and NetworkManager.gd).
THEOREM NodesAreAlwaysRegistered == Spec => []NodesAreRegistered
<1>1. SceneInv => NodesAreRegistered
  BY DEF SceneInv
<1> QED BY <1>1, SceneInit, SceneStep, PTL DEF Spec

-----------------------------------------------------------------------------
(* Order.  As long as the server is not restarted and the tick does not      *)
(* wrap around, ticks are serial numbers.                                    *)

\* A step in the middle of one life.
LivesOn == ~Restart /\ OneLife'

\* A snapshot is dated by its tick, and shows nobody who had left by then.
Genuine(packet) ==
    /\ packet.tick = packet.serial - 1
    /\ packet.serial <= drawn
    /\ \A p \in used \ present : packet.serial > goneAt[p] => p \notin packet.shown

OrderOK ==
    /\ used \subseteq Player
    /\ present \subseteq used
    /\ alive \subseteq present
    /\ seen \in [Client -> Nat]
    /\ lastTick \in [Client -> Int]
    /\ goneAt \in [Player -> Nat]
    /\ tick = drawn
    /\ drawn <= MaxSnapshots

ViewOK ==
    \A c \in Client :
        /\ lastTick[c] = seen[c] - 1
        /\ seen[c] <= drawn
        /\ \A p \in used \ present : seen[c] > goneAt[p] => p \notin remote[c]

PacketsOK ==
    /\ \A c \in Client : \A packet \in net[c] : Genuine(packet)
    /\ \A b \in Caster : holding[b] # Nothing => Genuine(holding[b])

OrderInv == SceneInv /\ OrderOK /\ ViewOK /\ PacketsOK

LEMMA OrderInit == Init => OrderInv
<1> SUFFICES ASSUME Init PROVE OrderInv
  OBVIOUS
<1>1. SceneInv
  BY SceneInit
<1>2. OrderOK
  BY WorldConstants DEF Init, OrderOK
<1>3. ViewOK
  BY DEF Init, ViewOK
<1>4. PacketsOK
  BY DEF Init, PacketsOK
<1> QED BY <1>1, <1>2, <1>3, <1>4 DEF OrderInv

\* What every step does to the server's part: time goes on, and whoever is
\* newly gone is gone from now on.
LEMMA ServerStep ==
    ASSUME LivesOn, OrderInv, [Next]_vars
    PROVE  /\ OrderOK'
           /\ drawn' >= drawn
           /\ \A p \in used \ present : p \in (used \ present)' /\ goneAt'[p] = goneAt[p]
           /\ \A p \in (used \ present)' : p \in used \ present \/ goneAt'[p] = drawn
<1> DEFINE Goal == /\ OrderOK'
                   /\ drawn' >= drawn
                   /\ \A p \in used \ present :
                          p \in (used \ present)' /\ goneAt'[p] = goneAt[p]
                   /\ \A p \in (used \ present)' :
                          p \in used \ present \/ goneAt'[p] = drawn
<1> USE WorldConstants
<1>a. /\ drawn \in Nat
      /\ remote \in [Client -> SUBSET Player]
  BY DEF OrderInv, SceneInv, FigureOK
<1>0. ASSUME UNCHANGED <<used, present, alive, tick, goneAt, drawn, seen, lastTick>>
      PROVE  Goal
  BY <1>0, <1>a DEF OrderInv, OrderOK
<1>1. ASSUME NEW p \in Player, Join(p) PROVE Goal
  BY <1>1, <1>a DEF OrderInv, OrderOK, Join, historyVars
<1>2. ASSUME NEW p \in Player, Die(p) PROVE Goal
  BY <1>2, <1>a DEF OrderInv, OrderOK, Die, entryVars, udpVars, clientVars,
                    historyVars
<1>3. ASSUME NEW p \in Player, Revive(p) PROVE Goal
  BY <1>3, <1>a DEF OrderInv, OrderOK, Revive, entryVars, udpVars, clientVars,
                    historyVars
<1>4. ASSUME NEW p \in Player, Remove(p) PROVE Goal
  BY <1>4, <1>a DEF OrderInv, OrderOK, Remove, entryVars, udpVars, clientVars
<1>5. ASSUME NEW b \in Caster, Snapshot(b) PROVE Goal
  <2>1. (tick + 1) % TickSpan = tick + 1
    BY <1>5, <1>a DEF LivesOn, OneLife, OrderInv, OrderOK, Snapshot
  <2> QED BY <1>5, <1>a, <2>1 DEF OrderInv, OrderOK, Snapshot, entryVars,
                                  udpVars, clientVars
<1>6. ASSUME NEW b \in Caster, SendDatagrams(b) PROVE Goal
  BY <1>6, <1>0 DEF SendDatagrams, entryVars, udpVars, clientVars, historyVars
<1>7. ASSUME SendUdp PROVE Goal
  BY <1>7, <1>0 DEF SendUdp, entryVars, udpVars, clientVars, historyVars
<1>8. ASSUME EndUdp PROVE Goal
  BY <1>8, <1>0 DEF EndUdp, entryVars, udpVars, clientVars, historyVars
<1>9. ~Restart
  BY DEF LivesOn
<1>10. ASSUME NEW c \in Client, LoadArena(c) PROVE Goal
  BY <1>10, <1>0 DEF LoadArena, serverVars, entryVars, udpVars, historyVars
<1>11. ASSUME NEW c \in Client, Receive(c) PROVE Goal
  <2>1. PICK packet \in net[c] : Show(c, packet)
    BY <1>11 DEF Receive
  <2>2. packet \in Packet
    BY DEF OrderInv, SceneInv, FigureOK
  <2> QED BY <1>11, <1>a, <2>1, <2>2
          DEF OrderInv, OrderOK, Receive, Show, serverVars, entryVars,
              udpVars, Packet
<1>12. ASSUME NEW c \in Client, Ignore(c) PROVE Goal
  BY <1>12, <1>0 DEF Ignore, serverVars, entryVars, udpVars, historyVars
<1>13. ASSUME NEW c \in Client, EndFrame(c) PROVE Goal
  BY <1>13, <1>0 DEF EndFrame, serverVars, entryVars, udpVars, historyVars
<1>14. ASSUME NEW c \in Client, Timeout(c) PROVE Goal
  BY <1>14, <1>0 DEF Timeout, serverVars, entryVars, udpVars, historyVars
<1>15. ASSUME NEW p \in Player, AddRoute(p) \/ RemoveRoute(p) PROVE Goal
  BY <1>15, <1>0 DEF AddRoute, RemoveRoute, entryVars, udpVars, clientVars,
                     historyVars
<1>16. ASSUME NEW c \in Client, Learn(c) PROVE Goal
  BY <1>16, <1>0 DEF Learn, serverVars, entryVars, udpVars, historyVars
<1>17. ASSUME TakeAddrs PROVE Goal
  BY <1>17, <1>0 DEF TakeAddrs, entryVars, udpVars, clientVars, historyVars
<1>18. CASE UNCHANGED vars
  BY <1>18, <1>0 DEF vars, serverVars, entryVars, udpVars, clientVars,
                     historyVars
<1> QED BY <1>1, <1>2, <1>3, <1>4, <1>5, <1>6, <1>7, <1>8, <1>9, <1>10, <1>11,
           <1>12, <1>13, <1>14, <1>15, <1>16, <1>17, <1>18
        DEF Next, Server, View

\* A genuine snapshot stays one, however long it is under way.
LEMMA StaysGenuine ==
    ASSUME LivesOn, OrderInv, [Next]_vars, NEW packet \in Packet, Genuine(packet)
    PROVE  Genuine(packet)'
<1>1. packet.serial \in Nat /\ drawn \in Nat /\ drawn' \in Nat
  BY SceneStep DEF Packet, OrderInv, SceneInv
<1>2. goneAt \in [Player -> Nat] /\ used \subseteq Player
  BY DEF OrderInv, OrderOK
<1> QED BY <1>1, <1>2, ServerStep DEF Genuine

\* The only new snapshots are those taken now; sending moves them around.
LEMMA PacketsStep ==
    ASSUME LivesOn, OrderInv, [Next]_vars
    PROVE  PacketsOK'
<1> USE WorldConstants, NothingIsNoPacket
<1>a. /\ net \in [Client -> SUBSET Packet]
      /\ holding \in [Caster -> Packet \cup {Nothing}]
      /\ drawn \in Nat
  BY DEF OrderInv, SceneInv, FigureOK
<1>b. \A packet \in Packet : Genuine(packet) => Genuine(packet)'
  BY StaysGenuine
<1>c. ASSUME \A c \in Client : net'[c] \subseteq net[c],
             \A b \in Caster : holding'[b] \in {holding[b], Nothing}
      PROVE  PacketsOK'
  BY <1>a, <1>b, <1>c DEF OrderInv, PacketsOK
<1>1. ASSUME NEW p \in Player, Join(p) PROVE PacketsOK'
  BY <1>1, <1>a, <1>c DEF Join
<1>2. ASSUME NEW p \in Player, Die(p) PROVE PacketsOK'
  BY <1>2, <1>c DEF Die
<1>3. ASSUME NEW p \in Player, Revive(p) PROVE PacketsOK'
  BY <1>3, <1>c DEF Revive
<1>4. ASSUME NEW p \in Player, Remove(p) PROVE PacketsOK'
  BY <1>4, <1>c DEF Remove
<1>5. ASSUME NEW b \in Caster, Snapshot(b) PROVE PacketsOK'
  <2> DEFINE new == [tick |-> tick, shown |-> alive, serial |-> drawn + 1]
  <2>1. drawn' = drawn + 1 /\ used' = used /\ present' = present
    BY <1>5 DEF Snapshot, entryVars
  <2>2. new.tick = new.serial - 1 /\ new.serial <= drawn' /\ new.shown \subseteq present
    BY <1>a, <2>1 DEF OrderInv, OrderOK
  <2>3. ASSUME NEW packet, packet = new PROVE Genuine(packet)'
    BY <2>3, <2>1, <2>2, <1>5 DEF Genuine, Snapshot
  <2>4. \A d \in Caster : holding'[d] = IF d = b THEN new ELSE holding[d]
    BY <1>5, <1>a DEF Snapshot
  <2>5. net' = net
    BY <1>5 DEF Snapshot
  <2>6. \A c \in Client : \A packet \in net'[c] : Genuine(packet)'
    BY <2>5, <1>a, <1>b DEF OrderInv, PacketsOK
  <2>7. ASSUME NEW d \in Caster, holding'[d] # Nothing
        PROVE  Genuine(holding[d])'
    <3>1. CASE d = b
      <4>1. holding'[d] = new
        BY <3>1, <2>4
      <4> HIDE DEF new
      <4> QED BY <4>1, <2>3 DEF Genuine
    <3>2. CASE d # b
      <4>1. holding'[d] = holding[d] /\ holding[d] \in Packet
        BY <3>2, <2>4, <2>7, <1>a
      <4>2. Genuine(holding[d])
        BY <4>1, <2>7 DEF OrderInv, PacketsOK
      <4> QED BY <4>1, <4>2, <1>b DEF Genuine
    <3> QED BY <3>1, <3>2
  <2> QED BY <2>6, <2>7 DEF PacketsOK
<1>6. ASSUME NEW b \in Caster, SendDatagrams(b) PROVE PacketsOK'
  <2>1. holding[b] \in Packet /\ Genuine(holding[b])
    BY <1>6, <1>a DEF SendDatagrams, OrderInv, PacketsOK
  <2>2. \A c \in Client : net'[c] \subseteq net[c] \cup {holding[b]}
    BY <1>6 DEF SendDatagrams
  <2>3. \A d \in Caster : holding'[d] \in {holding[d], Nothing}
    BY <1>6, <1>a DEF SendDatagrams
  <2> QED BY <2>1, <2>2, <2>3, <1>a, <1>b DEF OrderInv, PacketsOK
<1>7. ASSUME SendUdp PROVE PacketsOK'
  <2>1. "udp" \in Caster
    BY DEF Caster, Loop
  <2>2. holding["udp"] \in Packet /\ Genuine(holding["udp"])
    BY <1>7, <1>a, <2>1 DEF SendUdp, OrderInv, PacketsOK
  <2>3. \A c \in Client : net'[c] \subseteq net[c] \cup {holding["udp"]}
    BY <1>7, <1>a DEF SendUdp
  <2>4. holding' = holding
    BY <1>7 DEF SendUdp
  <2> QED BY <2>2, <2>3, <2>4, <1>a, <1>b DEF OrderInv, PacketsOK
<1>8. ASSUME EndUdp PROVE PacketsOK'
  BY <1>8, <1>a, <1>c DEF EndUdp
<1>9. ~Restart
  BY DEF LivesOn
<1>10. ASSUME NEW c \in Client, View(c) PROVE PacketsOK'
  BY <1>10, <1>c DEF View, LoadArena, Receive, Ignore, EndFrame, Timeout,
                     serverVars, entryVars, udpVars
<1>11. ASSUME NEW p \in Player, AddRoute(p) \/ RemoveRoute(p) PROVE PacketsOK'
  BY <1>11, <1>c DEF AddRoute, RemoveRoute
<1>12. ASSUME NEW c \in Client, Learn(c) PROVE PacketsOK'
  BY <1>12, <1>c DEF Learn, serverVars, entryVars, udpVars
<1>13. ASSUME TakeAddrs PROVE PacketsOK'
  BY <1>13, <1>c DEF TakeAddrs
<1>14. CASE UNCHANGED vars
  BY <1>14, <1>c DEF vars, serverVars, entryVars, udpVars
<1> QED BY <1>1, <1>2, <1>3, <1>4, <1>5, <1>6, <1>7, <1>8, <1>9, <1>10, <1>11,
           <1>12, <1>13, <1>14 DEF Next, Server

\* What a client shows, step by step.
LEMMA ViewStep ==
    ASSUME LivesOn, OrderInv, [Next]_vars
    PROVE  /\ ViewOK'
           /\ \A c \in Client : seen'[c] >= seen[c]
<1> USE WorldConstants
<1>a. /\ net \in [Client -> SUBSET Packet]
      /\ remote \in [Client -> SUBSET Player]
      /\ drawn \in Nat /\ drawn' \in Nat
      /\ seen \in [Client -> Nat]
      /\ lastTick \in [Client -> Int]
      /\ goneAt \in [Player -> Nat]
      /\ used \subseteq Player
  BY SceneStep DEF OrderInv, SceneInv, FigureOK, OrderOK
<1>b. ASSUME seen' = seen, lastTick' = lastTick,
             \A c \in Client : remote'[c] \subseteq remote[c]
      PROVE  /\ ViewOK'
             /\ \A c \in Client : seen'[c] >= seen[c]
  BY <1>a, <1>b, ServerStep DEF OrderInv, ViewOK
<1>1. ASSUME NEW p \in Player,
             \/ Join(p) \/ AddRoute(p) \/ Die(p) \/ Revive(p) \/ Remove(p)
             \/ RemoveRoute(p)
      PROVE  seen' = seen /\ lastTick' = lastTick /\ remote' = remote
  BY <1>1 DEF Join, AddRoute, Die, Revive, Remove, RemoveRoute, entryVars,
              udpVars, clientVars,
              historyVars
<1>2. ASSUME NEW b \in Caster, Snapshot(b) \/ SendDatagrams(b)
      PROVE  seen' = seen /\ lastTick' = lastTick /\ remote' = remote
  BY <1>2 DEF Snapshot, SendDatagrams, entryVars, udpVars, clientVars,
              historyVars
<1>3. ASSUME TakeAddrs \/ SendUdp \/ EndUdp
      PROVE  seen' = seen /\ lastTick' = lastTick /\ remote' = remote
  BY <1>3 DEF TakeAddrs, SendUdp, EndUdp, entryVars, udpVars, clientVars,
              historyVars
<1>4. ~Restart
  BY DEF LivesOn
<1>5. ASSUME NEW c \in Client,
             Learn(c) \/ LoadArena(c) \/ Ignore(c) \/ EndFrame(c)
      PROVE  seen' = seen /\ lastTick' = lastTick /\ remote' = remote
  BY <1>5 DEF Learn, LoadArena, Ignore, EndFrame, historyVars
<1>6. ASSUME NEW c \in Client, Timeout(c)
      PROVE  /\ seen' = seen /\ lastTick' = lastTick
             /\ \A d \in Client : remote'[d] \subseteq remote[d]
  BY <1>6, <1>a DEF Timeout, historyVars
<1>7. ASSUME NEW c \in Client, Receive(c)
      PROVE  /\ ViewOK'
             /\ \A d \in Client : seen'[d] >= seen[d]
  <2>1. PICK packet \in net[c] : packet.tick > lastTick[c] /\ Show(c, packet)
    BY <1>7 DEF Receive
  <2>2. packet \in Packet /\ Genuine(packet)
    BY <1>a DEF OrderInv, PacketsOK
  <2>3. /\ packet.serial \in Nat
        /\ packet.tick = packet.serial - 1
        /\ packet.serial <= drawn
    BY <2>2 DEF Packet, Genuine
  <2>4. /\ seen' = [seen EXCEPT ![c] = packet.serial]
        /\ lastTick' = [lastTick EXCEPT ![c] = packet.tick]
        /\ remote'[c] \subseteq packet.shown
        /\ \A d \in Client \ {c} : remote'[d] = remote[d]
    BY <2>1, <1>a DEF Show
  <2>5. UNCHANGED <<used, present, drawn, goneAt>>
    BY <1>7 DEF Receive, serverVars, entryVars, udpVars
  <2>6. packet.serial > seen[c]
    BY <2>1, <2>3, <1>a DEF OrderInv, ViewOK
  <2>7. \A p \in used \ present : packet.serial > goneAt[p] => p \notin remote'[c]
    BY <2>2, <2>4 DEF Genuine
  <2> QED BY <1>a, <2>3, <2>4, <2>5, <2>6, <2>7 DEF OrderInv, ViewOK
<1>8. CASE UNCHANGED vars
  BY <1>8, <1>b DEF vars, entryVars, udpVars, clientVars, historyVars
<1> QED BY <1>1, <1>2, <1>3, <1>4, <1>5, <1>6, <1>7, <1>8, <1>b
        DEF Next, Server, View

LEMMA OrderStep == LivesOn /\ OrderInv /\ [Next]_vars => OrderInv'
BY SceneStep, ServerStep, ViewStep, PacketsStep DEF OrderInv

\* The tick is never ahead of the count, so that they are equal only if they
\* always were; a step that ends a life changes nothing of what clients show.
LEMMA TickStep ==
    ASSUME SceneInv, tick <= drawn, [Next]_vars
    PROVE  /\ tick' <= drawn'
           /\ OneLife' => OneLife
           /\ Restart \/ (OneLife /\ ~OneLife') => UNCHANGED <<seen, remote>>
<1> DEFINE Goal == /\ tick' <= drawn'
                   /\ OneLife' => OneLife
                   /\ Restart \/ (OneLife /\ ~OneLife') => UNCHANGED <<seen, remote>>
<1> USE WorldConstants
<1>a. tick \in Nat /\ drawn \in Nat /\ TickSpan \in Nat \ {0}
  BY DEF SceneInv
<1>b. Restart => tick' = 0 /\ drawn' = drawn /\ UNCHANGED <<seen, remote>>
  BY DEF Restart, clientVars
<1>1. ASSUME NEW b \in Caster, Snapshot(b) PROVE Goal
  <2>1. /\ tick' = (tick + 1) % TickSpan /\ drawn' = drawn + 1
        /\ UNCHANGED <<seen, remote>>
    BY <1>1 DEF Snapshot, clientVars
  <2>2. (tick + 1) % TickSpan <= tick + 1
    BY <1>a
  <2>3. tick' \in Nat
    BY <1>a, <2>1
  <2> QED BY <1>a, <2>1, <2>2, <2>3 DEF OneLife
<1>2. CASE Restart
  BY <1>2, <1>a, <1>b DEF OneLife
<1>c. ASSUME UNCHANGED <<tick, drawn>> PROVE Goal
  BY <1>a, <1>b, <1>c DEF OneLife
<1>3. ASSUME NEW p \in Player,
             \/ Join(p) \/ AddRoute(p) \/ Die(p) \/ Revive(p) \/ Remove(p)
             \/ RemoveRoute(p)
      PROVE  UNCHANGED <<tick, drawn>>
  BY <1>3 DEF Join, AddRoute, Die, Revive, Remove, RemoveRoute, historyVars
<1>4. ASSUME NEW b \in Caster, SendDatagrams(b) PROVE UNCHANGED <<tick, drawn>>
  BY <1>4 DEF SendDatagrams, historyVars
<1>5. ASSUME TakeAddrs \/ SendUdp \/ EndUdp PROVE UNCHANGED <<tick, drawn>>
  BY <1>5 DEF TakeAddrs, SendUdp, EndUdp, historyVars
<1>6. ASSUME NEW c \in Client, Learn(c) \/ View(c)
      PROVE  UNCHANGED <<tick, drawn>>
  BY <1>6 DEF Learn, View, LoadArena, Receive, Ignore, EndFrame, Timeout,
              serverVars, historyVars
<1>7. CASE UNCHANGED vars
  BY <1>7, <1>c DEF vars, serverVars, historyVars
<1> QED BY <1>1, <1>2, <1>c, <1>3, <1>4, <1>5, <1>6, <1>7 DEF Next, Server

\* What holds over all lives: the order of the first one, as long as it lasts.
LifeInv == SceneInv /\ tick <= drawn /\ (OneLife => OrderInv)

LEMMA LifeInit == Init => LifeInv
<1> SUFFICES ASSUME Init PROVE LifeInv
  OBVIOUS
<1>1. tick <= drawn
  BY DEF Init
<1> QED BY <1>1, SceneInit, OrderInit DEF LifeInv

\* A server that has taken no snapshot can be restarted, and nobody notices.
LEMMA EarlyRestart ==
    ASSUME OrderInv, Restart, drawn = 0, SceneInv'
    PROVE  OrderInv'
<1>a. /\ net \in [Client -> SUBSET Packet]
      /\ holding' = [b \in Caster |-> Nothing]
      /\ seen \in [Client -> Nat]
      /\ goneAt \in [Player -> Nat]
      /\ UNCHANGED <<used, drawn, seen, lastTick, remote, net>>
      /\ present' = {} /\ alive' = {} /\ tick' = 0
      /\ goneAt' = [p \in Player |-> IF p \in present THEN drawn ELSE goneAt[p]]
  BY DEF Restart, OrderInv, OrderOK, SceneInv, FigureOK, clientVars
<1>1. OrderOK'
  BY <1>a, WorldConstants DEF OrderInv, OrderOK
<1>2. ViewOK'
  <2>1. goneAt' \in [Player -> Nat] /\ used \subseteq Player
    BY <1>1, <1>a DEF OrderOK
  <2>2. \A c \in Client : lastTick[c] = seen[c] - 1 /\ seen[c] <= 0
    BY DEF OrderInv, ViewOK
  <2> QED BY <1>a, <2>1, <2>2 DEF ViewOK
<1>3. PacketsOK'
  <2>1. \A c \in Client : net[c] = {}
    <3>1. ASSUME NEW c \in Client, NEW packet \in net[c] PROVE FALSE
      <4>1. packet.tick \in Nat /\ packet.serial \in Nat
        BY <1>a DEF Packet
      <4>2. packet.tick = packet.serial - 1 /\ packet.serial <= 0
        BY DEF OrderInv, PacketsOK, Genuine
      <4> QED BY <4>1, <4>2
    <3> QED BY <3>1
  <2> QED BY <1>a, <2>1 DEF PacketsOK
<1> QED BY <1>1, <1>2, <1>3 DEF OrderInv

LEMMA LifeStep == LifeInv /\ [Next]_vars => LifeInv'
<1> SUFFICES ASSUME LifeInv, [Next]_vars PROVE LifeInv'
  OBVIOUS
<1>1. SceneInv'
  BY SceneStep DEF LifeInv
<1>2. tick' <= drawn' /\ (OneLife' => OneLife)
  BY TickStep DEF LifeInv
<1>3. ASSUME OneLife' PROVE OrderInv'
  <2>1. OrderInv
    BY <1>2, <1>3 DEF LifeInv
  <2>2. CASE ~Restart
    BY <1>3, <2>1, <2>2, OrderStep DEF LivesOn
  <2>3. CASE Restart
    <3>1. drawn = 0
      BY <1>3, <2>3 DEF OneLife, Restart
    <3> QED BY <1>1, <2>1, <2>3, <3>1, EarlyRestart
  <2> QED BY <2>2, <2>3
<1> QED BY <1>1, <1>2, <1>3 DEF LifeInv

LEMMA LifeHolds == Spec => []LifeInv
BY LifeInit, LifeStep, PTL DEF Spec

\* As long as the server lives, what a client shows never goes back in time,
\* whichever tasks sent the snapshots and however they were delayed (game.rs,
\* fetch_add under the lock; NetworkManager.gd, the test of the tick).
THEOREM ViewsNeverGoBack == Spec => ViewNeverGoesBack
<1>1. LifeInv /\ [Next]_vars =>
          [OneLife => \A c \in Client : seen'[c] >= seen[c]]_vars
  <2> SUFFICES ASSUME LifeInv, [Next]_vars, OneLife, NEW c \in Client
               PROVE  seen'[c] >= seen[c]
    OBVIOUS
  <2>1. OrderInv
    BY DEF LifeInv
  <2>2. CASE LivesOn
    BY <2>1, <2>2, ViewStep
  <2>3. CASE ~LivesOn
    <3>1. seen' = seen
      BY <2>3, TickStep DEF LifeInv, LivesOn
    <3>2. seen[c] \in Nat
      BY <2>1 DEF OrderInv, OrderOK
    <3> QED BY <3>1, <3>2
  <2> QED BY <2>2, <2>3
<1> QED BY <1>1, LifeHolds, PTL DEF Spec, ViewNeverGoesBack

\* As long as the server lives, a player that has left and been despawned
\* does not come back to a client's arena (game.rs, broadcast_player_left
\* against a snapshot of broadcast_loop taken before and sent after it).
THEOREM TheGoneStayGone == Spec => GoneStaysGone
<1>1. LifeInv /\ [Next]_vars =>
          [OneLife => \A c \in Client, p \in Player :
               ToldGone(c, p) => p \notin remote'[c]]_vars
  <2> SUFFICES ASSUME LifeInv, [Next]_vars, OneLife,
                      NEW c \in Client, NEW p \in Player, ToldGone(c, p)
               PROVE  p \notin remote'[c]
    OBVIOUS
  <2>1. OrderInv
    BY DEF LifeInv
  <2>2. CASE LivesOn
    <3>1. p \in (used \ present)' /\ goneAt'[p] = goneAt[p]
      BY <2>1, <2>2, ServerStep DEF ToldGone
    <3>2. seen[c] \in Nat /\ seen'[c] \in Nat /\ goneAt[p] \in Nat
      BY <2>1, <2>2, ServerStep DEF OrderInv, OrderOK
    <3>3. ViewOK' /\ seen'[c] >= seen[c]
      BY <2>1, <2>2, ViewStep
    <3> QED BY <3>1, <3>2, <3>3 DEF ToldGone, ViewOK
  <2>3. CASE ~LivesOn
    <3>1. remote' = remote
      BY <2>3, TickStep DEF LifeInv, LivesOn
    <3> QED BY <2>1, <3>1 DEF OrderInv, ViewOK, ToldGone
  <2> QED BY <2>2, <2>3
<1> QED BY <1>1, LifeHolds, PTL DEF Spec, GoneStaysGone

-----------------------------------------------------------------------------
(* Types.  The clients' registrations and ids are sessions that have begun,  *)
(* because every snapshot under way shows only such sessions.                *)

TypesInv ==
    /\ TypeOK
    /\ NodesAreRegistered
    /\ leaving \subseteq used
    /\ \A c \in Client : \A packet \in net[c] : packet.shown \subseteq used
    /\ \A b \in Caster : holding[b] # Nothing => holding[b].shown \subseteq used

LEMMA TypesInit == Init => TypesInv
<1> SUFFICES ASSUME Init PROVE TypesInv
  OBVIOUS
<1>1. 0 \in 0 .. TickSpan - 1
  BY WorldConstants
<1>2. TypeOK
  <2>1. SceneInv
    BY SceneInit
  <2>2. /\ present \subseteq used /\ alive \subseteq present
        /\ used \subseteq Player /\ answered \subseteq used
        /\ tick \in 0 .. TickSpan - 1
        /\ leaving \subseteq WtPlayer \ present
        /\ routes \subseteq used \ WtPlayer
        /\ listed \in BOOLEAN
        /\ addrs \subseteq used \ WtPlayer
    BY <1>1 DEF Init
  <2>3. /\ joining \in [Client -> used \cup {NoPlayer}]
        /\ me \in [Client -> used \cup {NoPlayer}]
        /\ heard \in [Client -> BOOLEAN]
        /\ inArena \in [Client -> BOOLEAN]
        /\ remote \in [Client -> SUBSET used]
    BY DEF Init
  <2>4. /\ lastTick \in [Client -> Int]
        /\ drawn \in Nat
        /\ seen \in [Client -> Nat]
        /\ goneAt \in [Player -> Nat]
    BY DEF Init
  <2> QED BY <2>1, <2>2, <2>3, <2>4 DEF TypeOK, SceneInv, FigureOK
<1>3. NodesAreRegistered
  BY SceneInit DEF SceneInv
<1> QED BY <1>2, <1>3 DEF Init, TypesInv

LEMMA SceneOfTypes == TypesInv => SceneInv
BY WorldConstants DEF TypesInv, TypeOK, SceneInv, FigureOK

LEMMA TypesStep == TypesInv /\ [Next]_vars => TypesInv'
<1> SUFFICES ASSUME TypesInv, [Next]_vars PROVE TypesInv'
  OBVIOUS
<1> USE WorldConstants, NothingIsNoPacket
<1>0. SceneInv /\ NodesAreRegistered'
  BY SceneOfTypes, SceneStep DEF SceneInv
<1>a. /\ figure' \in [Client -> [Player -> {"none", "live", "doomed"}]]
      /\ net' \in [Client -> SUBSET Packet]
      /\ holding' \in [Caster -> Packet \cup {Nothing}]
  BY <1>0, SceneStep DEF SceneInv, FigureOK
<1>1. ASSUME NEW p \in Player, Join(p) PROVE TypesInv'
  <2>1. Owner[p] \in Client /\ used \subseteq used'
    BY <1>1 DEF Join
  <2>2. \A c \in Client : net'[c] \subseteq net[c]
    BY <1>1 DEF Join, TypesInv, TypeOK
  <2> QED BY <1>1, <1>0, <1>a, <2>1, <2>2
          DEF Join, TypesInv, TypeOK, udpVars, historyVars
<1>2. ASSUME NEW p \in Player, Die(p) PROVE TypesInv'
  BY <1>2, <1>0 DEF Die, TypesInv, TypeOK, entryVars, udpVars, clientVars,
                    historyVars
<1>3. ASSUME NEW p \in Player, Revive(p) PROVE TypesInv'
  BY <1>3, <1>0 DEF Revive, TypesInv, TypeOK, entryVars, udpVars, clientVars,
                    historyVars
<1>4. ASSUME NEW p \in Player, Remove(p) PROVE TypesInv'
  BY <1>4, <1>0 DEF Remove, TypesInv, TypeOK, entryVars, udpVars, clientVars
<1>5. ASSUME NEW b \in Caster, Snapshot(b) PROVE TypesInv'
  <2> DEFINE new == [tick |-> tick, shown |-> alive, serial |-> drawn + 1]
  <2>1. /\ tick \in Nat /\ drawn \in Nat /\ TickSpan \in Nat \ {0}
        /\ tick' = (tick + 1) % TickSpan
    BY <1>5, <1>0 DEF Snapshot, SceneInv
  <2>2. tick' \in 0 .. TickSpan - 1
    BY <2>1
  <2>3. \A d \in Caster : holding'[d] = IF d = b THEN new ELSE holding[d]
    BY <1>5 DEF Snapshot, TypesInv, TypeOK
  <2>4. ASSUME NEW d \in Caster, holding'[d] # Nothing
        PROVE  holding'[d].shown \subseteq used
    <3>1. new.shown \subseteq used
      BY DEF TypesInv, TypeOK
    <3> QED BY <2>3, <2>4, <3>1 DEF TypesInv
  <2>5. /\ drawn' \in Nat
        /\ leaving' \subseteq leaving
    BY <1>5, <2>1 DEF Snapshot, TypesInv, TypeOK
  <2>6. UNCHANGED <<entryVars, udpVars, net, clientVars, seen, goneAt>>
    BY <1>5 DEF Snapshot
  <2> QED BY <1>0, <1>a, <2>2, <2>4, <2>5, <2>6
          DEF TypesInv, TypeOK, entryVars, udpVars, clientVars
<1>6. ASSUME NEW b \in Caster, SendDatagrams(b) PROVE TypesInv'
  <2>1. holding[b] # Nothing /\ holding[b].shown \subseteq used
    BY <1>6 DEF SendDatagrams, TypesInv
  <2>2. \A c \in Client : net'[c] \subseteq net[c] \cup {holding[b]}
    BY <1>6 DEF SendDatagrams
  <2>3. \A d \in Caster : holding'[d] \in {holding[d], Nothing}
    BY <1>6 DEF SendDatagrams, TypesInv, TypeOK
  <2>4. UNCHANGED <<entryVars, tick, leaving, udpVars, clientVars, historyVars>>
    BY <1>6 DEF SendDatagrams
  <2> QED BY <1>0, <1>a, <2>1, <2>2, <2>3, <2>4
          DEF TypesInv, TypeOK, entryVars, udpVars, clientVars, historyVars
<1>7. ASSUME SendUdp PROVE TypesInv'
  <2>1. holding["udp"] # Nothing /\ holding["udp"].shown \subseteq used
    BY <1>7 DEF SendUdp, TypesInv, Caster, Loop
  <2>2. \A c \in Client : net'[c] \subseteq net[c] \cup {holding["udp"]}
    BY <1>7 DEF SendUdp, TypesInv, TypeOK
  <2>3. /\ addrs' \subseteq addrs
        /\ UNCHANGED <<entryVars, tick, leaving, holding, routes, listed,
                       clientVars, historyVars>>
    BY <1>7 DEF SendUdp
  <2> QED BY <1>0, <1>a, <2>1, <2>2, <2>3
          DEF TypesInv, TypeOK, entryVars, udpVars, clientVars, historyVars
<1>8. ASSUME EndUdp PROVE TypesInv'
  <2>1. \A d \in Caster : holding'[d] \in {holding[d], Nothing}
    BY <1>8 DEF EndUdp, TypesInv, TypeOK
  <2> QED BY <1>8, <1>0, <1>a, <2>1
          DEF EndUdp, TypesInv, TypeOK, entryVars, udpVars, clientVars,
              historyVars
<1>9. ASSUME Restart PROVE TypesInv'
  <2>1. 0 \in 0 .. TickSpan - 1
    OBVIOUS
  <2>2. goneAt' \in [Player -> Nat]
    BY <1>9 DEF Restart, TypesInv, TypeOK
  <2>3. \A d \in Caster : holding'[d] = Nothing
    BY <1>9 DEF Restart
  <2> QED BY <1>9, <1>0, <1>a, <2>1, <2>2, <2>3
          DEF Restart, TypesInv, TypeOK, entryVars, udpVars, clientVars
<1>10. ASSUME NEW c \in Client, LoadArena(c) PROVE TypesInv'
  BY <1>10, <1>0 DEF LoadArena, TypesInv, TypeOK, serverVars, entryVars,
                     udpVars, historyVars
<1>11. ASSUME NEW c \in Client, Receive(c) PROVE TypesInv'
  <2>1. PICK packet \in net[c] : Show(c, packet)
    BY <1>11 DEF Receive
  <2>2. packet \in Packet /\ packet.shown \subseteq used
    BY DEF TypesInv, TypeOK
  <2>3. packet.tick \in Int /\ packet.serial \in Nat
    BY <2>2 DEF Packet
  <2>4. PICK now \in SUBSET used : remote' = [remote EXCEPT ![c] = now]
    BY <2>1, <2>2 DEF Show
  <2>5. /\ heard' = [heard EXCEPT ![c] = TRUE]
        /\ lastTick' = [lastTick EXCEPT ![c] = packet.tick]
        /\ seen' = [seen EXCEPT ![c] = packet.serial]
    BY <2>1 DEF Show
  <2>6. UNCHANGED <<serverVars, net, joining, me, inArena, drawn, goneAt>>
    BY <1>11 DEF Receive
  <2> QED BY <1>0, <1>a, <2>3, <2>4, <2>5, <2>6
          DEF TypesInv, TypeOK, serverVars, entryVars, udpVars
<1>12. ASSUME NEW c \in Client, Ignore(c) PROVE TypesInv'
  BY <1>12, <1>0 DEF Ignore, TypesInv, TypeOK, serverVars, entryVars, udpVars,
                     historyVars
<1>13. ASSUME NEW c \in Client, EndFrame(c) PROVE TypesInv'
  BY <1>13, <1>0, <1>a DEF EndFrame, TypesInv, TypeOK, serverVars, entryVars,
                           udpVars, historyVars
<1>14. ASSUME NEW c \in Client, Timeout(c) PROVE TypesInv'
  BY <1>14, <1>0, <1>a DEF Timeout, TypesInv, TypeOK, serverVars, entryVars,
                           udpVars, historyVars
<1>15. ASSUME NEW p \in Player, AddRoute(p) \/ RemoveRoute(p) PROVE TypesInv'
  BY <1>15, <1>0 DEF AddRoute, RemoveRoute, TypesInv, TypeOK, entryVars,
                     udpVars, clientVars, historyVars
<1>16. ASSUME NEW c \in Client, Learn(c) PROVE TypesInv'
  <2>1. joining[c] \in used
    BY <1>16 DEF Learn, TypesInv, TypeOK
  <2> QED BY <1>16, <1>0, <2>1
          DEF Learn, TypesInv, TypeOK, serverVars, entryVars, udpVars,
              historyVars
<1>17. ASSUME TakeAddrs PROVE TypesInv'
  BY <1>17, <1>0 DEF TakeAddrs, TypesInv, TypeOK, entryVars, udpVars,
                     clientVars,
                     historyVars
<1>18. CASE UNCHANGED vars
  BY <1>18, <1>0
     DEF TypesInv, TypeOK, vars, serverVars, entryVars, udpVars, clientVars,
         historyVars
<1> QED BY <1>1, <1>2, <1>3, <1>4, <1>5, <1>6, <1>7, <1>8, <1>9, <1>10, <1>11,
           <1>12, <1>13, <1>14, <1>15, <1>16, <1>17, <1>18
        DEF Next, Server, View

\* However snapshots travel, and over restarts: what a client registers, and
\* the id it plays under, are sessions that have begun; who has an entry is
\* none of those that still owe their last broadcast (World, TypeOK).
THEOREM WorldTypeCorrect == Spec => []TypeOK
<1>1. TypesInv => TypeOK
  BY DEF TypesInv
<1> QED BY <1>1, TypesInit, TypesStep, PTL DEF Spec
=============================================================================
