------------------------------- MODULE World -------------------------------
(***************************************************************************)
(* How the clients come to see the world: the snapshots the server takes   *)
(* and the three kinds of task that send them (snapshot_world,             *)
(* broadcast_loop and broadcast_player_left in server/src/game.rs, the UDP *)
(* broadcast in server/src/legacy.rs), and what a client makes of them     *)
(* (_handle_world_state and _check_timeout in NetworkManager.gd,           *)
(* _on_player_joined in Main.gd).                                          *)
(*                                                                         *)
(* A snapshot is taken in one critical section and sent in later ones, so  *)
(* that snapshots of different tasks overtake each other on the server as  *)
(* well as on the network; the tick in it is what a client goes by.  The   *)
(* UDP broadcast takes the addresses it sends to in a third one, of the    *)
(* other map, udp_clients.  Here every session has an address of its own   *)
(* (module Sessions has those that share one).                             *)
(***************************************************************************)
EXTENDS Integers, FiniteSets

CONSTANTS
    Client,         \* the running game clients
    Player,         \* the sessions, each with a player_id of its own
    WtPlayer,       \* those on WebTransport; the others are legacy TCP + UDP
    Owner,          \* the client whose session it is
    TickSpan,       \* 2^32: how many values an AtomicU32 has
    MaxSnapshots,   \* bound: how many snapshots are taken
    Watched,        \* bound: the clients whose screen is followed
    Restarts,       \* bound: whether the server may be restarted
    NoPlayer,       \* "no session": my_player_id = -1
    Nothing         \* "no snapshot in hand"

Loop   == {"wt", "udp"}
Caster == Loop \cup WtPlayer

ASSUME WorldConstants ==
    /\ WtPlayer \subseteq Player
    /\ Owner \in [Player -> Client]
    /\ TickSpan \in Nat \ {0}
    /\ MaxSnapshots \in Nat
    /\ Watched \subseteq Client
    /\ Restarts \in BOOLEAN
    /\ NoPlayer \notin Player
    /\ Loop \cap Player = {}

Packet == [tick : Nat, shown : SUBSET Player, serial : Nat]

ASSUME NothingIsNoPacket == Nothing \notin Packet

VARIABLES
    \* the server
    present,    \* the ids that have an entry in the players map
    alive,      \* those whose Player.alive is set
    used,       \* the sessions that have begun
    tick,       \* WORLD_TICK
    leaving,    \* WebTransport tasks that still owe a broadcast_player_left
    holding,    \* the snapshot each task has taken and not sent
    routes,     \* the legacy sessions whose address is in udp_clients
    listed,     \* whether the UDP broadcast has taken the addresses
    addrs,      \* those it has still to send to
    answered,   \* the sessions to which Connected was sent
    \* the network
    net,        \* the snapshots sent to each client: any may come late or never
    \* the clients
    joining,    \* the session whose Connected the client has still to handle
    me,         \* my_player_id
    heard,      \* _last_packet_time # 0.0
    lastTick,   \* _last_world_state_seq
    inArena,    \* whether Main.tscn is the current scene
    remote,     \* the keys of remote_players
    figure,     \* the nodes in the arena: none, live, or doomed (queue_free)
    \* history
    drawn,      \* how many snapshots were ever taken
    seen,       \* the serial number of the last snapshot a client applied
    goneAt      \* drawn when the player was removed, 0 before

udpVars     == <<routes, listed, addrs>>
entryVars   == <<present, alive, used, answered>>
serverVars  == <<entryVars, tick, leaving, holding, udpVars>>
clientVars  == <<joining, me, heard, lastTick, inArena, remote, figure>>
historyVars == <<drawn, seen, goneAt>>
vars == <<serverVars, net, clientVars, historyVars>>

TypeOK ==
    /\ present \subseteq used
    /\ alive \subseteq present
    /\ used \subseteq Player
    /\ tick \in 0 .. TickSpan - 1
    /\ leaving \subseteq WtPlayer \ present
    /\ holding \in [Caster -> Packet \cup {Nothing}]
    /\ routes \subseteq used \ WtPlayer
    /\ listed \in BOOLEAN
    /\ addrs \subseteq used \ WtPlayer
    /\ answered \subseteq used
    /\ net \in [Client -> SUBSET Packet]
    /\ joining \in [Client -> used \cup {NoPlayer}]
    /\ me \in [Client -> used \cup {NoPlayer}]
    /\ heard \in [Client -> BOOLEAN]
    /\ lastTick \in [Client -> Int]
    /\ inArena \in [Client -> BOOLEAN]
    /\ remote \in [Client -> SUBSET used]
    /\ figure \in [Client -> [Player -> {"none", "live", "doomed"}]]
    /\ drawn \in Nat
    /\ seen \in [Client -> Nat]
    /\ goneAt \in [Player -> Nat]

Init ==
    /\ present = {} /\ alive = {} /\ used = {} /\ answered = {}
    /\ tick = 0
    /\ leaving = {}
    /\ holding = [b \in Caster |-> Nothing]
    /\ routes = {} /\ listed = FALSE /\ addrs = {}
    /\ net = [c \in Client |-> {}]
    /\ joining = [c \in Client |-> NoPlayer]
    /\ me = [c \in Client |-> NoPlayer]
    /\ heard = [c \in Client |-> FALSE]
    /\ lastTick = [c \in Client |-> -1]
    /\ inArena = [c \in Client |-> FALSE]
    /\ remote = [c \in Client |-> {}]
    /\ figure = [c \in Client |-> [p \in Player |-> "none"]]
    /\ drawn = 0
    /\ seen = [c \in Client |-> 0]
    /\ goneAt = [p \in Player |-> 0]

-----------------------------------------------------------------------------
(* The two maps change (the steps behind this are in Sessions and Combat)  *)

\* The server inserts an entry.  The client of a legacy session has bound a
\* new UDP socket: what was sent to the old one is gone.  The bridge of a
\* WebTransport client goes on queueing what its earlier connections bring.
Join(p) ==
    LET c == Owner[p] IN
    /\ p \notin used
    /\ joining[c] = NoPlayer /\ me[c] = NoPlayer
    /\ used' = used \cup {p}
    /\ present' = present \cup {p}
    /\ alive' = alive \cup {p}
    /\ answered' = answered \cup ({p} \cap WtPlayer)
    /\ joining' = [joining EXCEPT ![c] = p]
    /\ net' = IF p \in WtPlayer THEN net ELSE [net EXCEPT ![c] = {}]
    /\ UNCHANGED <<tick, leaving, holding, udpVars, me, heard, lastTick,
                   inArena, remote, figure, historyVars>>

\* A legacy session inserts its route, too, and sends Connected.
AddRoute(p) ==
    /\ p \in present \ (routes \cup WtPlayer)
    /\ routes' = routes \cup {p}
    /\ answered' = answered \cup {p}
    /\ UNCHANGED <<present, alive, used, tick, leaving, holding, listed, addrs,
                   net, clientVars, historyVars>>

\* The client learns its id, at any time after Connected was sent.  Only over
\* WebTransport does that count as a packet heard.
Learn(c) ==
    /\ joining[c] \in answered
    /\ me' = [me EXCEPT ![c] = joining[c]]
    /\ heard' = [heard EXCEPT ![c] = joining[c] \in WtPlayer]
    /\ joining' = [joining EXCEPT ![c] = NoPlayer]
    /\ UNCHANGED <<serverVars, net, lastTick, inArena, remote, figure,
                   historyVars>>

Die(p) ==
    /\ p \in alive
    /\ alive' = alive \ {p}
    /\ UNCHANGED <<present, used, answered, tick, leaving, holding, udpVars, net,
                   clientVars, historyVars>>

Revive(p) ==
    /\ p \in present
    /\ alive' = alive \cup {p}
    /\ UNCHANGED <<present, used, answered, tick, leaving, holding, udpVars, net,
                   clientVars, historyVars>>

\* Faulty variant: a legacy task, too, would broadcast a last snapshot.
Remove_LegacyToo(p) ==
    /\ p \in present \cap (routes \cup WtPlayer)
    /\ present' = present \ {p}
    /\ alive' = alive \ {p}
    /\ leaving' = leaving \cup {p}
    /\ goneAt' = [goneAt EXCEPT ![p] = drawn]
    /\ UNCHANGED <<used, answered, tick, holding, udpVars, net, clientVars,
                   drawn, seen>>

\* The server removes the entry, because its client left it, because the
\* connection broke, or because Connected could not be sent; a WebTransport
\* task then broadcasts a last snapshot.
Remove(p) ==
    /\ p \in present \cap (routes \cup WtPlayer)
    /\ present' = present \ {p}
    /\ alive' = alive \ {p}
    /\ leaving' = leaving \cup ({p} \cap WtPlayer)
    /\ goneAt' = [goneAt EXCEPT ![p] = drawn]
    /\ UNCHANGED <<used, answered, tick, holding, udpVars, net, clientVars,
                   drawn, seen>>

\* A legacy task then removes the route.
RemoveRoute(p) ==
    /\ p \in routes \ present
    /\ routes' = routes \ {p}
    /\ UNCHANGED <<entryVars, tick, leaving, holding, listed, addrs, net,
                   clientVars, historyVars>>

\* The server process is restarted: WORLD_TICK starts again at 0.
Restart ==
    /\ Restarts
    /\ present' = {} /\ alive' = {} /\ leaving' = {}
    /\ routes' = {} /\ listed' = FALSE /\ addrs' = {}
    /\ tick' = 0
    /\ holding' = [b \in Caster |-> Nothing]
    /\ goneAt' = [p \in Player |-> IF p \in present THEN drawn ELSE goneAt[p]]
    /\ UNCHANGED <<used, answered, net, clientVars, drawn, seen>>

-----------------------------------------------------------------------------
(* Snapshots                                                               *)

\* snapshot_world: the tick is drawn while the lock on the map is held, so
\* that ticks and snapshots come in the same order.
Snapshot(b) ==
    /\ holding[b] = Nothing
    /\ b \in Loop \cup leaving
    /\ drawn < MaxSnapshots
    /\ drawn' = drawn + 1
    /\ holding' = [holding EXCEPT ![b] =
           [tick |-> tick, shown |-> alive, serial |-> drawn + 1]]
    /\ tick' = (tick + 1) % TickSpan
    /\ leaving' = leaving \ {b}
    /\ UNCHANGED <<entryVars, udpVars, net, clientVars, seen, goneAt>>

\* broadcast_loop and broadcast_player_left: one datagram per WebTransport
\* connection, all in another critical section of the map.
SendDatagrams(b) ==
    /\ b # "udp"
    /\ holding[b] # Nothing
    /\ LET reached == {Owner[p] : p \in present \cap WtPlayer} IN
       net' = [c \in Client |-> IF c \in reached \cap Watched
                               THEN net[c] \cup {holding[b]} ELSE net[c]]
    /\ holding' = [holding EXCEPT ![b] = Nothing]
    /\ UNCHANGED <<entryVars, tick, leaving, udpVars, clientVars, historyVars>>

\* The UDP broadcast takes the addresses, under the lock of udp_clients.
TakeAddrs ==
    /\ holding["udp"] # Nothing
    /\ ~ listed
    /\ listed' = TRUE
    /\ addrs' = routes
    /\ UNCHANGED <<entryVars, tick, leaving, holding, routes, net, clientVars,
                   historyVars>>

\* It sends to one after the other; there is a socket behind the address as
\* long as the client has not left that session.
SendUdp ==
    /\ holding["udp"] # Nothing
    /\ \E p \in addrs :
           /\ addrs' = addrs \ {p}
           /\ net' = IF p \in {joining[Owner[p]], me[Owner[p]]}
                          /\ Owner[p] \in Watched
                     THEN [net EXCEPT ![Owner[p]] = @ \cup {holding["udp"]}]
                     ELSE net
    /\ UNCHANGED <<entryVars, tick, leaving, holding, routes, listed,
                   clientVars, historyVars>>

EndUdp ==
    /\ listed
    /\ addrs = {}
    /\ listed' = FALSE
    /\ holding' = [holding EXCEPT !["udp"] = Nothing]
    /\ UNCHANGED <<entryVars, tick, leaving, routes, addrs, net, clientVars,
                   historyVars>>

-----------------------------------------------------------------------------
(* The client                                                              *)

\* The menu changes the scene once the connection is up, before or after the
\* server's Connected arrives.
LoadArena(c) ==
    /\ ~inArena[c]
    /\ inArena' = [inArena EXCEPT ![c] = TRUE]
    /\ UNCHANGED <<serverVars, net, joining, me, heard, lastTick, remote, figure,
                   historyVars>>

\* Who is spawned by player_joined: those not registered.  Nobody listens
\* before Main.tscn is loaded, and Main refuses an id whose node is valid,
\* which a node is until the end of the frame that doomed it.
Spawned(c, shown) ==
    IF inArena[c]
    THEN {p \in shown \ (remote[c] \cup {me[c]}) : figure[c][p] = "none"}
    ELSE {}

Show(c, packet) ==
    LET now == (remote[c] \cup Spawned(c, packet.shown)) \cap packet.shown
    IN  /\ heard' = [heard EXCEPT ![c] = TRUE]
        /\ lastTick' = [lastTick EXCEPT ![c] = packet.tick]
        /\ seen' = [seen EXCEPT ![c] = packet.serial]
        /\ remote' = [remote EXCEPT ![c] = now]
        /\ figure' = [figure EXCEPT ![c] = [p \in Player |->
               IF p \in now THEN "live"
               ELSE IF p \in remote[c] THEN "doomed"
               ELSE @[p]]]

\* Faulty variant: the tick is not looked at.
Receive_AnyTick(c) ==
    /\ me[c] # NoPlayer
    /\ \E packet \in net[c] : Show(c, packet)
    /\ UNCHANGED <<serverVars, net, joining, me, inArena, drawn, goneAt>>

\* Faulty variant: the key is erased, the node stays.
Receive_KeepsNode(c) ==
    /\ me[c] # NoPlayer
    /\ \E packet \in net[c] :
           /\ packet.tick > lastTick[c]
           /\ lastTick' = [lastTick EXCEPT ![c] = packet.tick]
           /\ seen' = [seen EXCEPT ![c] = packet.serial]
           /\ remote' = [remote EXCEPT ![c] =
                  (@ \cup Spawned(c, packet.shown)) \cap packet.shown]
           /\ figure' = [figure EXCEPT ![c] = [p \in Player |->
                  IF p \in Spawned(c, packet.shown) THEN "live" ELSE @[p]]]
    /\ heard' = [heard EXCEPT ![c] = TRUE]
    /\ UNCHANGED <<serverVars, net, joining, me, inArena, drawn, goneAt>>

\* _handle_world_state: apply a snapshot that is newer than the last one, and
\* despawn the remote players that are not in it.
Receive(c) ==
    /\ me[c] # NoPlayer
    /\ \E packet \in net[c] : packet.tick > lastTick[c] /\ Show(c, packet)
    /\ UNCHANGED <<serverVars, net, joining, me, inArena, drawn, goneAt>>

\* The tick is not newer: all the packet does is to keep the client from
\* timing out.
Ignore(c) ==
    /\ me[c] # NoPlayer
    /\ \E packet \in net[c] : packet.tick <= lastTick[c]
    /\ heard' = [heard EXCEPT ![c] = TRUE]
    /\ UNCHANGED <<serverVars, net, joining, me, lastTick, inArena, remote,
                   figure, historyVars>>

\* The frame ends and the engine frees the doomed nodes.
EndFrame(c) ==
    /\ \E p \in Player : figure[c][p] = "doomed"
    /\ figure' = [figure EXCEPT ![c] = [p \in Player |->
           IF @[p] = "doomed" THEN "none" ELSE @[p]]]
    /\ UNCHANGED <<serverVars, net, joining, me, heard, lastTick, inArena,
                   remote, historyVars>>

\* Faulty variant: the registered players are forgotten, the scene stays.
Timeout_KeepsScene(c) ==
    /\ me[c] # NoPlayer
    /\ heard[c]
    /\ me' = [me EXCEPT ![c] = NoPlayer]
    /\ heard' = [heard EXCEPT ![c] = FALSE]
    /\ remote' = [remote EXCEPT ![c] = {}]
    /\ UNCHANGED <<serverVars, net, joining, lastTick, inArena, figure,
                   historyVars>>

\* _check_timeout: nothing came for five seconds, though something had come
\* before.  Back to the menu; the arena goes with all its nodes.  The
\* connection is not closed, and _last_world_state_seq stays.
Timeout(c) ==
    /\ me[c] # NoPlayer
    /\ heard[c]
    /\ me' = [me EXCEPT ![c] = NoPlayer]
    /\ heard' = [heard EXCEPT ![c] = FALSE]
    /\ remote' = [remote EXCEPT ![c] = {}]
    /\ inArena' = [inArena EXCEPT ![c] = FALSE]
    /\ figure' = [figure EXCEPT ![c] = [p \in Player |-> "none"]]
    /\ UNCHANGED <<serverVars, net, joining, lastTick, historyVars>>
-----------------------------------------------------------------------------
Server ==
    \/ \E p \in Player :
           \/ Join(p) \/ AddRoute(p) \/ Die(p) \/ Revive(p) \/ Remove(p)
           \/ RemoveRoute(p)
    \/ \E b \in Caster : Snapshot(b) \/ SendDatagrams(b)
    \/ TakeAddrs \/ SendUdp \/ EndUdp \/ Restart

View(c) ==
    \/ LoadArena(c) \/ Receive(c) \/ Ignore(c) \/ EndFrame(c) \/ Timeout(c)

Next ==
    \/ Server
    \/ \E c \in Client : Learn(c)
    \/ \E c \in Watched : View(c)

Spec == Init /\ [][Next]_vars
-----------------------------------------------------------------------------
(* Properties                                                              *)

\* The server has not been restarted since the first snapshot was taken, and
\* its tick has not wrapped around.
OneLife == tick = drawn

\* As long as the server lives, what a client shows never goes back in time:
\* the snapshots it applies were taken in the order in which it applies them,
\* whichever tasks sent them and however they were delayed, doubled or lost,
\* over time-outs and joins (NetworkManager.gd, the test of tick against
\* _last_world_state_seq; game.rs, fetch_add under the lock).
ViewNeverGoesBack == [][OneLife => \A c \in Client : seen'[c] >= seen[c]]_vars

\* The client has applied a snapshot taken after p was removed.
ToldGone(c, p) == p \in used \ present /\ seen[c] > goneAt[p]

\* As long as the server lives, a player that has left the game and has been
\* despawned does not come back: no snapshot of another task, taken before and
\* sent after the last one, can spawn it again (game.rs, broadcast_player_left
\* against broadcast_loop).
GoneStaysGone ==
    [][OneLife => \A c \in Client, p \in Player :
           ToldGone(c, p) => p \notin remote'[c]]_vars

\* The nodes of the arena are those NetworkManager has registered.  A node
\* more would be a figure that stands there for ever, a node less a player
\* nobody can see (two maps, in Main.gd and in NetworkManager.gd, and a
\* deletion that is deferred to the end of the frame).
NodesAreRegistered ==
    \A c \in Client : {p \in Player : figure[c][p] = "live"} = remote[c]

\* No client has seen a tick that the server has still to draw: the next
\* snapshot is always news (NetworkManager.gd: "tracks monotonically
\* increasing world state ticks").
LastTickIsPast ==
    \A c \in Client : me[c] \in present => lastTick[c] < tick
=============================================================================
