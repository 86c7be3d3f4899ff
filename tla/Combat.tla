------------------------------- MODULE Combat -------------------------------
(***************************************************************************)
(* Swings, damage, death and respawn: the server's handle_swing and        *)
(* handle_respawn (server/src/game.rs), the per-connection tasks that call *)
(* them (server/src/wt.rs, server/src/legacy.rs), and the part of each     *)
(* client that reacts (LocalPlayer.gd and the dispatch of the reliable     *)
(* messages in NetworkManager.gd).                                         *)
(*                                                                         *)
(* The server runs one task per connection on a multi-threaded runtime.    *)
(* The players map is behind a mutex; every critical section of that mutex *)
(* is one action here, and everything between two critical sections of one *)
(* task may interleave with every other task.                              *)
(*                                                                         *)
(* A client that hears no datagrams for a while goes back to its menu and   *)
(* leaves the connection open: the server still hits its player, and the   *)
(* messages about it are taken off the connection without effect.          *)
(*                                                                         *)
(* A Player is one session of one client: how a session gets its id, its   *)
(* map entry and its UDP route, and loses them, is module Sessions.        *)
(***************************************************************************)
EXTENDS Integers, Sequences, FiniteSets, Functions

CONSTANTS
    Player,      \* the sessions
    WtPlayer,    \* those on WebTransport; the others are legacy TCP + UDP
    MaxHealth,   \* health of a fresh player: 100 in the code
    Damage,      \* what one hit takes: 25 in the code
    IntSpan,     \* 2^32: the values of the four bytes of a health field
    Place,       \* the positions told apart, points <<x, y, z>>
    Spawn,       \* where players appear: <<0, 0, 0>>
    QueueCap,    \* bound: no new swing while this many messages are unread
    Swinger,     \* bound: the players whose user swings
    Quitter,     \* bound: the players whose user quits
    Silent,      \* bound: the players that may stop hearing datagrams
    Cut,         \* bound: the legacy players whose messages TCP may cut
    NoPlayer     \* "no victim in hand"

ASSUME CombatConstants ==
    /\ IsFiniteSet(Player)
    /\ WtPlayer \subseteq Player
    /\ Swinger \subseteq Player
    /\ Quitter \subseteq Player
    /\ Silent \subseteq Player
    /\ Cut \subseteq Player \ WtPlayer
    /\ MaxHealth \in Nat \ {0}
    /\ Damage \in Nat \ {0}
    /\ IntSpan \in Nat \ {0}
    /\ MaxHealth < IntSpan
    /\ Place \subseteq Int \X Int \X Int
    /\ Spawn \in Place
    /\ QueueCap \in Nat
    /\ NoPlayer \notin Player

VARIABLES
    \* the players map, one HashMap entry per member of present
    present,    \* the ids that have an entry
    health,     \* Player.health
    alive,      \* Player.alive
    pos,        \* Player.pos
    \* the task of each connection, inside or outside handle_swing
    pc,         \* where it is
    victims,    \* victims not reached yet by the loop over the collected ids
    victim,     \* victim_id of the current iteration
    newHealth,  \* new_health, copied out under the lock
    handle,     \* whether a connection handle was found for the victim
    \* the reliable channels
    toServer,   \* requests the client sent and its task has not read
    toClient,   \* messages the server sent and the client has not read
    \* the client
    client,     \* "out", "playing", "dead" (death screen up), "menu" or "quit"
    cooling,    \* _swing_cooldown > 0
    hud,        \* LocalPlayer.health, what the HP label shows
    missed,     \* the kinds of message whose last one came in two pieces
    \* history
    contested   \* those that were the victims of two swings at one time

entryVars  == <<present, health, alive, pos>>
taskVars   == <<pc, victims, victim, newHealth, handle>>
clientVars == <<client, cooling, hud, missed>>
vars == <<entryVars, taskVars, toServer, toClient, clientVars, contested>>

HealthUpdate(h) == [type |-> "health", health |-> h]
YouDied         == [type |-> "died"]

ClientMessage == [type : {"health"}, health : Int] \cup [type : {"died"}]
Request       == {"swing", "respawn"}

TypeOK ==
    /\ present \subseteq Player
    /\ health \in [Player -> Int]
    /\ alive \in [Player -> BOOLEAN]
    /\ pos \in [Player -> Place]
    /\ pc \in [Player -> {"idle", "strike", "fetch", "tell", "mourn"}]
    /\ victims \in [Player -> SUBSET Player]
    /\ victim \in [Player -> Player \cup {NoPlayer}]
    /\ newHealth \in [Player -> Int]
    /\ handle \in [Player -> BOOLEAN]
    /\ toServer \in [Player -> Seq(Request)]
    /\ toClient \in [Player -> Seq(ClientMessage)]
    /\ client \in [Player -> {"out", "playing", "dead", "menu", "quit"}]
    /\ cooling \in [Player -> BOOLEAN]
    /\ hud \in [Player -> Int]
    /\ missed \in [Player -> SUBSET {"health", "died"}]
    /\ contested \subseteq Player

Init ==
    /\ present = {}
    /\ health = [p \in Player |-> MaxHealth]
    /\ alive = [p \in Player |-> TRUE]
    /\ pos = [p \in Player |-> Spawn]
    /\ pc = [p \in Player |-> "idle"]
    /\ victims = [p \in Player |-> {}]
    /\ victim = [p \in Player |-> NoPlayer]
    /\ newHealth = [p \in Player |-> 0]
    /\ handle = [p \in Player |-> FALSE]
    /\ toServer = [p \in Player |-> <<>>]
    /\ toClient = [p \in Player |-> <<>>]
    /\ client = [p \in Player |-> "out"]
    /\ cooling = [p \in Player |-> FALSE]
    /\ hud = [p \in Player |-> MaxHealth]
    /\ missed = [p \in Player |-> {}]
    /\ contested = {}

-----------------------------------------------------------------------------
(* The session begins and ends; the steps in between are in Sessions.      *)

\* The server inserts a fresh entry and answers Connected.  (The entry is there
\* a little earlier than the answer; the client, whose scene is loaded by then,
\* takes what is sent to it in between, and a user can do nothing yet.)
Join(p) ==
    /\ client[p] = "out"
    /\ present' = present \cup {p}
    /\ client' = [client EXCEPT ![p] = "playing"]
    /\ UNCHANGED <<health, alive, pos, taskVars, toServer, toClient,
                   cooling, hud, missed, contested>>

\* The user closes the game, or the connection is reset, or the menu's Join
\* replaces the TCP connection: either way the server finds out.
Quit(p) ==
    /\ p \in Quitter
    /\ client[p] \in {"playing", "dead", "menu"}
    /\ client' = [client EXCEPT ![p] = "quit"]
    /\ toClient' = [toClient EXCEPT ![p] = <<>>]
    /\ UNCHANGED <<entryVars, taskVars, toServer, cooling, hud, missed,
                   contested>>

\* Faulty variants.  The task would also leave when its client is still there,
\* or keep the entry of a player that is dead.
Leave_AnyTime(p) ==
    /\ p \in present
    /\ pc[p] = "idle"
    /\ present' = present \ {p}
    /\ toServer' = [toServer EXCEPT ![p] = <<>>]
    /\ UNCHANGED <<health, alive, pos, taskVars, toClient, clientVars,
                   contested>>

Leave_OnlyAlive(p) ==
    /\ client[p] = "quit"
    /\ alive[p]
    /\ Leave_AnyTime(p)

\* The task's next read fails and it removes its entry.  What the client had
\* sent before may have been read first, or be lost with the connection.
Leave(p) ==
    /\ p \in present
    /\ client[p] = "quit"
    /\ pc[p] = "idle"
    /\ present' = present \ {p}
    /\ toServer' = [toServer EXCEPT ![p] = <<>>]
    /\ UNCHANGED <<health, alive, pos, taskVars, toClient, clientVars,
                   contested>>

-----------------------------------------------------------------------------
(* The server                                                              *)

\* sqrt(dx^2 + dy^2 + dz^2) < 2
InRange(a, b) ==
    LET d(i) == a[i] - b[i]
    IN  d(1) * d(1) + d(2) * d(2) + d(3) * d(3) < 4

Serving(p, request) ==
    /\ p \in present
    /\ pc[p] = "idle"
    /\ toServer[p] # <<>>
    /\ Head(toServer[p]) = request
    /\ toServer' = [toServer EXCEPT ![p] = Tail(@)]

\* Whom the swing of task t still has to hit, or has hit and not told.
InHand(t) ==
    victims[t] \cup {v \in {victim[t]} : pc[t] \in {"fetch", "tell", "mourn"}}

\* The swing of p collects these victims.
Collect(p, collected) ==
    /\ Serving(p, "swing")
    /\ victims' = [victims EXCEPT ![p] = collected]
    /\ contested' = contested \cup
           (collected \cap UNION {InHand(t) : t \in Player \ {p}})
    /\ pc' = [pc EXCEPT ![p] = "strike"]
    /\ UNCHANGED <<entryVars, victim, newHealth, handle, toClient, clientVars>>

\* Faulty variant: the filter on alive is forgotten.
CollectVictims_Dead(p) ==
    Collect(p, {q \in present \ {p} : InRange(pos[q], pos[p])})

\* Read a Swing and collect the victims' ids under the lock.  Neither the
\* task nor handle_swing looks at whether the swinger itself is alive.
CollectVictims(p) ==
    Collect(p, {q \in present \ {p} : alive[q] /\ InRange(pos[q], pos[p])})

\* Faulty variant: a player dies below zero instead of at zero.
Strike_BelowZero(p) ==
    /\ pc[p] = "strike"
    /\ \E v \in victims[p] \cap present :
           LET h == health[v] - Damage IN
           /\ victims' = [victims EXCEPT ![p] = @ \ {v}]
           /\ health' = [health EXCEPT ![v] = h]
           /\ alive' = [alive EXCEPT ![v] = IF h < 0 THEN FALSE ELSE @]
           /\ victim' = [victim EXCEPT ![p] = v]
           /\ newHealth' = [newHealth EXCEPT ![p] = h]
    /\ pc' = [pc EXCEPT ![p] = "fetch"]
    /\ UNCHANGED <<present, pos, handle, toServer, toClient, clientVars,
                   contested>>

\* One iteration takes the next victim, in the map's arbitrary order, and
\* hits it whatever happened to it since it was collected.
Strike(p) ==
    /\ pc[p] = "strike"
    /\ \E v \in victims[p] \cap present :
           LET h == health[v] - Damage IN
           /\ victims' = [victims EXCEPT ![p] = @ \ {v}]
           /\ health' = [health EXCEPT ![v] = h]
           /\ alive' = [alive EXCEPT ![v] = IF h <= 0 THEN FALSE ELSE @]
           /\ victim' = [victim EXCEPT ![p] = v]
           /\ newHealth' = [newHealth EXCEPT ![p] = h]
    /\ pc' = [pc EXCEPT ![p] = "fetch"]
    /\ UNCHANGED <<present, pos, handle, toServer, toClient, clientVars,
                   contested>>

\* Faulty variant: a missing victim is tried again instead of skipped.
SkipDeparted_Retry(p) ==
    /\ pc[p] = "strike"
    /\ victims[p] \ present # {}
    /\ UNCHANGED vars

\* A collected id that has left the map meanwhile is skipped.
SkipDeparted(p) ==
    /\ pc[p] = "strike"
    /\ \E v \in victims[p] \ present :
           victims' = [victims EXCEPT ![p] = @ \ {v}]
    /\ UNCHANGED <<entryVars, pc, victim, newHealth, handle, toServer,
                   toClient, clientVars, contested>>

\* Lock again to clone the victim's connection handle, if it is still there.
FetchHandle(p) ==
    /\ pc[p] = "fetch"
    /\ handle' = [handle EXCEPT ![p] = victim[p] \in present]
    /\ pc' = [pc EXCEPT ![p] = "tell"]
    /\ UNCHANGED <<entryVars, victims, victim, newHealth, toServer, toClient,
                   clientVars, contested>>

\* What arrives at the handle of a client that is gone is lost.
Send(q, message) ==
    toClient' = IF client[q] = "quit" THEN toClient
                ELSE [toClient EXCEPT ![q] = Append(@, message)]

\* The iteration ends, and with it the life of its variables.
NextVictim(p) ==
    /\ pc' = [pc EXCEPT ![p] = "strike"]
    /\ victim' = [victim EXCEPT ![p] = NoPlayer]
    /\ newHealth' = [newHealth EXCEPT ![p] = 0]
    /\ handle' = [handle EXCEPT ![p] = FALSE]

\* HealthUpdate goes over TCP to a legacy victim.  To a WebTransport victim
\* it goes as a datagram, and the client's datagram dispatch has no case for
\* it (its stream dispatch has): it has no effect there, received or lost.
\* YouDied follows after a kill.
Tell(p, died) ==
    /\ pc[p] = "tell"
    /\ IF handle[p] /\ victim[p] \notin WtPlayer
       THEN Send(victim[p], HealthUpdate(newHealth[p]))
       ELSE UNCHANGED toClient
    /\ IF died
       THEN pc' = [pc EXCEPT ![p] = "mourn"] /\ UNCHANGED <<victim, newHealth, handle>>
       ELSE NextVictim(p)
    /\ UNCHANGED <<entryVars, victims, toServer, clientVars, contested>>

\* Faulty variant: YouDied follows when the next hit would kill.
TellHealth_Early(p) == Tell(p, newHealth[p] <= Damage)

TellHealth(p) == Tell(p, newHealth[p] <= 0)

\* Faulty variant: the notice goes out twice.
TellDeath_Twice(p) ==
    /\ pc[p] = "mourn"
    /\ IF handle[p] /\ client[victim[p]] # "quit"
       THEN toClient' = [toClient EXCEPT ![victim[p]] = @ \o <<YouDied, YouDied>>]
       ELSE UNCHANGED toClient
    /\ NextVictim(p)
    /\ UNCHANGED <<entryVars, victims, toServer, clientVars, contested>>

\* YouDied goes over TCP, or over a stream of its own, which the task awaits.
TellDeath(p) ==
    /\ pc[p] = "mourn"
    /\ IF handle[p] THEN Send(victim[p], YouDied) ELSE UNCHANGED toClient
    /\ NextVictim(p)
    /\ UNCHANGED <<entryVars, victims, toServer, clientVars, contested>>

\* No victim is left: broadcast SwingNotify, an animation that no state kept
\* here depends on, and go back to reading.
FinishSwing(p) ==
    /\ pc[p] = "strike"
    /\ victims[p] = {}
    /\ pc' = [pc EXCEPT ![p] = "idle"]
    /\ UNCHANGED <<entryVars, victims, victim, newHealth, handle, toServer,
                   toClient, clientVars, contested>>

\* Faulty variant: the alive flag is not reset.
Respawn_StillDead(p) ==
    /\ Serving(p, "respawn")
    /\ health' = [health EXCEPT ![p] = MaxHealth]
    /\ pos' = [pos EXCEPT ![p] = Spawn]
    /\ UNCHANGED <<present, alive, taskVars, toClient, clientVars, contested>>

\* handle_respawn resets the entry whatever state it is in.
Respawn(p) ==
    /\ Serving(p, "respawn")
    /\ health' = [health EXCEPT ![p] = MaxHealth]
    /\ alive' = [alive EXCEPT ![p] = TRUE]
    /\ pos' = [pos EXCEPT ![p] = Spawn]
    /\ UNCHANGED <<present, taskVars, toClient, clientVars, contested>>

\* Faulty variant: the position is not clamped to the arena.
Move_Unclamped(p) ==
    /\ p \in present
    /\ pos' = [pos EXCEPT ![p][1] = @ + 2]
    /\ UNCHANGED <<present, health, alive, taskVars, toServer, toClient,
                   clientVars, contested>>

\* A PlayerInput moves the player, dead or alive, within the arena; one that
\* was under way does so even when its client has gone.  WebTransport input is
\* read by the connection's own task, between two requests; legacy input by
\* the UDP task, at any time.
Move(p) ==
    /\ p \in present
    /\ p \in WtPlayer => pc[p] = "idle"
    /\ \E q \in Place \ {pos[p]} : pos' = [pos EXCEPT ![p] = q]
    /\ UNCHANGED <<present, health, alive, taskVars, toServer, toClient,
                   clientVars, contested>>

-----------------------------------------------------------------------------
(* The client                                                              *)

InGame(p) == client[p] \in {"playing", "dead"}

Unread(queues) == FoldFunction(LAMBDA queue, n : Len(queue) + n, 0, queues)

\* _unhandled_input is not gated by _dead, only by the cooldown.  (The bound
\* with QueueCap stands for the half second that the cooldown takes.)
Swing(p) ==
    /\ p \in Swinger
    /\ InGame(p)
    /\ ~cooling[p]
    /\ Unread(toServer) + Unread(toClient) < QueueCap
    /\ cooling' = [cooling EXCEPT ![p] = TRUE]
    /\ toServer' = [toServer EXCEPT ![p] = Append(@, "swing")]
    /\ UNCHANGED <<entryVars, taskVars, toClient, client, hud, missed, contested>>

\* _physics_process counts the cooldown down, except on the death screen.
CoolDown(p) ==
    /\ client[p] = "playing"
    /\ cooling[p]
    /\ cooling' = [cooling EXCEPT ![p] = FALSE]
    /\ UNCHANGED <<entryVars, taskVars, toServer, toClient, client, hud, missed,
                   contested>>

\* _check_timeout: no datagram for too long.  The id and the LocalPlayer go,
\* with them whatever countdown runs; the connection stays.
TimeOut(p) ==
    /\ p \in Silent
    /\ InGame(p)
    /\ client' = [client EXCEPT ![p] = "menu"]
    /\ UNCHANGED <<entryVars, taskVars, toServer, toClient, cooling, hud, missed,
                   contested>>

\* The client takes a message of this type off its connection.
Taking(p, type) ==
    /\ toClient[p] # <<>>
    /\ Head(toClient[p]).type = type
    /\ toClient' = [toClient EXCEPT ![p] = Tail(@)]

\* A message that arrives whole, while there is a LocalPlayer to handle it.
Receiving(p, type) ==
    /\ InGame(p)
    /\ Taking(p, type)
    /\ missed' = [missed EXCEPT ![p] = @ \ {type}]

\* _poll_tcp and the poll of the streams go on in the menu, without a
\* LocalPlayer to hand the message to.
Discard(p) ==
    /\ client[p] = "menu"
    /\ \E type \in {"health", "died"} : Taking(p, type)
    /\ UNCHANGED <<entryVars, taskVars, toServer, clientVars, contested>>

\* _poll_tcp has taken the type byte when it finds that the rest is not there,
\* and returns; the rest is skipped when it comes, as no type of message.
\* (What it may be taken for in an arena with other ids is in Framing.)
ReceiveTorn(p) ==
    /\ p \in Cut
    /\ InGame(p)
    /\ \E type \in {"health", "died"} :
           Taking(p, type) /\ missed' = [missed EXCEPT ![p] = @ \cup {type}]
    /\ UNCHANGED <<entryVars, taskVars, toServer, client, cooling, hud, contested>>

\* The four bytes become a GDScript integer without sign extension.
DecodeHealth(h) == h % IntSpan

ReceiveHealth(p) ==
    /\ Receiving(p, "health")
    /\ hud' = [hud EXCEPT ![p] = DecodeHealth(Head(toClient[p]).health)]
    /\ UNCHANGED <<entryVars, taskVars, toServer, client, cooling, contested>>

\* on_death raises the death screen and (re)starts the countdown.
ReceiveDeath(p) ==
    /\ Receiving(p, "died")
    /\ client' = [client EXCEPT ![p] = "dead"]
    /\ UNCHANGED <<entryVars, taskVars, toServer, cooling, hud, contested>>

\* Faulty variants: the label keeps the old health; the request is not sent,
\* or sent twice.
RespawnCountdown_OldHud(p) ==
    /\ client[p] = "dead"
    /\ client' = [client EXCEPT ![p] = "playing"]
    /\ missed' = [missed EXCEPT ![p] = @ \ {"health"}]
    /\ toServer' = [toServer EXCEPT ![p] = Append(@, "respawn")]
    /\ UNCHANGED <<entryVars, taskVars, toClient, cooling, hud, contested>>

RespawnCountdown_Silent(p) ==
    /\ client[p] = "dead"
    /\ client' = [client EXCEPT ![p] = "playing"]
    /\ hud' = [hud EXCEPT ![p] = MaxHealth]
    /\ UNCHANGED <<entryVars, taskVars, toServer, toClient, cooling, missed,
                   contested>>

RespawnCountdown_Twice(p) ==
    /\ client[p] = "dead"
    /\ client' = [client EXCEPT ![p] = "playing"]
    /\ hud' = [hud EXCEPT ![p] = MaxHealth]
    /\ missed' = [missed EXCEPT ![p] = @ \ {"health"}]
    /\ toServer' = [toServer EXCEPT ![p] = @ \o <<"respawn", "respawn">>]
    /\ UNCHANGED <<entryVars, taskVars, toClient, cooling, contested>>

\* The countdown ends: the client revives itself, sets its own label, and asks
\* the server to do the same.
RespawnCountdown(p) ==
    /\ client[p] = "dead"
    /\ client' = [client EXCEPT ![p] = "playing"]
    /\ hud' = [hud EXCEPT ![p] = MaxHealth]
    /\ missed' = [missed EXCEPT ![p] = @ \ {"health"}]
    /\ toServer' = [toServer EXCEPT ![p] = Append(@, "respawn")]
    /\ UNCHANGED <<entryVars, taskVars, toClient, cooling, contested>>

-----------------------------------------------------------------------------
\* The steps of the task of connection p that its runtime is bound to take.
Task(p) ==
    \/ CollectVictims(p) \/ Strike(p) \/ SkipDeparted(p) \/ FetchHandle(p)
    \/ TellHealth(p) \/ TellDeath(p) \/ FinishSwing(p)
    \/ Respawn(p) \/ Leave(p)

\* The steps of the client's frame loop.
Frame(p) ==
    ReceiveHealth(p) \/ ReceiveDeath(p) \/ RespawnCountdown(p) \/ Discard(p)

\* What only users and the network decide.
User(p) ==
    \/ Join(p) \/ Quit(p) \/ Move(p) \/ Swing(p) \/ CoolDown(p)
    \/ TimeOut(p) \/ ReceiveTorn(p)

Next == \E p \in Player : Task(p) \/ Frame(p) \/ User(p)

Spec == Init /\ [][Next]_vars

\* The runtime schedules every ready task, and the frame loop of a client
\* that is still there keeps running; nobody has to join, swing or quit.
Fairness == \A p \in Player : WF_vars(Task(p)) /\ WF_vars(Frame(p))

FairSpec == Spec /\ Fairness

-----------------------------------------------------------------------------
(* Properties of the server's map                                          *)

\* The alive flag and the health agree at every point another task can see:
\* a hit and a respawn change both in one critical section (game.rs, the
\* hit in handle_swing, handle_respawn), although nothing ties the two fields.
AliveIffHealthy == \A p \in Player : alive[p] <=> health[p] > 0

\* A player killed once can be hit again only by swings that had collected it
\* while it lived: its health stops above -Damage * (number of players - 1),
\* however many swings race and however long their tasks stall in between.
OverkillBounded ==
    \A p \in Player : health[p] > -Damage * (Cardinality(Player) - 1)

-----------------------------------------------------------------------------
(* Properties of server and client together                                *)

InFlight(message, queue) == \E i \in DOMAIN queue : queue[i] = message

\* Some task has hit p, found it dead, and has yet to send it YouDied.
NoticeDue(p) ==
    \E t \in Player :
        /\ victim[t] = p
        /\ newHealth[t] <= 0
        /\ pc[t] = "fetch" \/ (pc[t] \in {"tell", "mourn"} /\ handle[t])

Remembered(p) ==
    \/ NoticeDue(p)
    \/ InFlight(YouDied, toClient[p])
    \/ client[p] = "dead"
    \/ InFlight("respawn", toServer[p])

\* Nobody is left to bring p back: its client is gone or in the menu, or lost
\* the YouDied that was meant for it.
Lost(p) == client[p] \in {"menu", "quit"} \/ "died" \in missed[p]

\* A player that is dead on the server is never forgotten as long as its client
\* is in the game and hears of it: its killer still has to send YouDied, or
\* YouDied is on its way, or the client is on its death screen, or its respawn
\* request is on its way.  Without one of them the client would go on playing,
\* invisible to everyone.
DeathNotForgotten ==
    \A p \in present : ~alive[p] /\ ~Lost(p) => Remembered(p)

\* A client on its death screen is dead on the server, which keeps it out of
\* the world state and of everyone's victims until the countdown is over.
\* (game.rs, handle_swing: "send YouDied on kills".)  Two swings break it.
DeadClientIsDead ==
    \A p \in present : client[p] = "dead" => ~alive[p]

\* It is so of everyone who was never hit by two swings at one time, over
\* deaths, requests to respawn and swings from the death screen.
DeathScreenIsTrue ==
    \A p \in present \ contested : client[p] = "dead" => ~alive[p]

\* handle_respawn revives only the dead, though it does not look: one death
\* leads to one request, which arrives while the player is dead.  It heals
\* nobody, except whom two swings have killed at one time.
OnlyTheDeadRespawn ==
    [][\A p \in Player \ contested : health'[p] > health[p] => ~alive[p]]_vars

\* Nothing about p's health is on its way between server and client.
Settled(p) ==
    /\ client[p] = "playing"
    /\ toClient[p] = <<>>
    /\ ~InFlight("respawn", toServer[p])
    /\ \A t \in Player : victim[t] # p \/ pc[t] \notin {"fetch", "tell", "mourn"}

\* Once everything sent has arrived the HP label shows the player's health on
\* the server (README.md: "victim receives new HP").
HudAgrees == \A p \in present : Settled(p) => hud[p] = health[p]

\* It is so of legacy players whose last messages came in one piece, and who
\* were never hit by two swings at one time: the last update to arrive is the
\* last hit's, over any deaths and respawns in between.
LabelIsRight ==
    \A p \in present \ (WtPlayer \cup contested) :
        Settled(p) /\ missed[p] = {} => hud[p] = health[p]

-----------------------------------------------------------------------------
(* Liveness, under FairSpec                                                *)

\* A dead player comes back, leaves, or is lost: the chain of DeathNotForgotten
\* always moves on, through the killer's task, the victim's client and its own
\* task.
DeadComesBack ==
    \A p \in Player :
        (p \in present /\ ~alive[p]) ~> (alive[p] \/ p \notin present \/ Lost(p))

\* A task that began a swing goes back to reading its connection: no two
\* tasks wait for each other, and the loop over the victims is finite.
SwingEnds == \A p \in Player : (pc[p] # "idle") ~> (pc[p] = "idle")

\* A session whose client is gone leaves the map, even with requests unread.
GoneLeaves == \A p \in Player : (client[p] = "quit") ~> (p \notin present)
=============================================================================
