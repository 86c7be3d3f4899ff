------------------------------ MODULE Sessions ------------------------------
(***************************************************************************)
(* How a connection becomes a player and stops being one: the id counter,  *)
(* the players map, the map of UDP routes, and the tasks that share them   *)
(* (server/src/legacy.rs, server/src/wt.rs, server/src/state.rs).          *)
(*                                                                         *)
(* Each connection has a task of its own; legacy connections share one     *)
(* more task, which receives all their UDP datagrams.  The id counter is   *)
(* atomic and the two maps have a mutex each, taken one at a time: every   *)
(* access is one action, and a session takes several of them to set up and *)
(* to tear down.  What a session does in between is module Combat.         *)
(***************************************************************************)
EXTENDS Integers, FiniteSets

CONSTANTS
    Conn,      \* the connections, each opened at most once
    WtConn,    \* those on WebTransport; the others are legacy TCP + UDP
    Addr,      \* UDP socket addresses
    UdpAddr,   \* the address a legacy connection announces: IP and udp_port
    IdSpace,   \* 2^16: how many values an AtomicU16 has
    NoConn,    \* "no entry" in the players map
    NoId       \* "no entry" in the udp_clients map, "no id yet"

Legacy == Conn \ WtConn
Id     == 0 .. IdSpace - 1

ASSUME SessionsConstants ==
    /\ WtConn \subseteq Conn
    /\ UdpAddr \in [Legacy -> Addr]
    /\ IdSpace \in Nat
    /\ IdSpace > 1
    /\ NoConn \notin Conn
    /\ NoId \notin Id

VARIABLES
    nextId,      \* NEXT_PLAYER_ID
    usedUp,      \* history: whether every id has been drawn
    players,     \* the players map: the connection whose Player has the id
    udpClients,  \* the udp_clients map: the id an address stands for
    pc,          \* where the task of the connection is
    id,          \* its player_id
    link,        \* its client: not yet there, connected, closed, vanished
    told,        \* whether the client got Connected
    rx           \* the UDP task: a sender and the id found for its address

taskVars == <<pc, id>>
vars == <<nextId, usedUp, players, udpClients, taskVars, link, told, rx>>

NoInput == [from |-> NoConn, pid |-> NoId]

TypeOK ==
    /\ nextId \in Id
    /\ usedUp \in BOOLEAN
    /\ players \in [Id -> Conn \cup {NoConn}]
    /\ udpClients \in [Addr -> Id \cup {NoId}]
    /\ pc \in [Conn -> {"new", "insert", "map", "reply", "serving",
                        "leaving", "unmap", "done"}]
    /\ id \in [Conn -> Id \cup {NoId}]
    /\ link \in [Conn -> {"none", "open", "closed", "vanished"}]
    /\ told \in [Conn -> BOOLEAN]
    /\ rx \in [from : Legacy, pid : Id] \cup {NoInput}

Init ==
    /\ nextId = 1
    /\ usedUp = FALSE
    /\ players = [i \in Id |-> NoConn]
    /\ udpClients = [a \in Addr |-> NoId]
    /\ pc = [c \in Conn |-> "new"]
    /\ id = [c \in Conn |-> NoId]
    /\ link = [c \in Conn |-> "none"]
    /\ told = [c \in Conn |-> FALSE]
    /\ rx = NoInput

-----------------------------------------------------------------------------
(* The clients                                                             *)

Live(c) == link[c] = "open"

\* A client connects and sends Connect.  A legacy client binds its UDP socket
\* first: no other live client of the same host has that port, but one that
\* is gone, and whose session the server still keeps, may have had it.
Open(c) ==
    /\ link[c] = "none"
    /\ c \in Legacy =>
           \A d \in Legacy : Live(d) => UdpAddr[d] # UdpAddr[c]
    /\ link' = [link EXCEPT ![c] = "open"]
    /\ UNCHANGED <<nextId, usedUp, players, udpClients, taskVars, told, rx>>

\* The client closes the connection, or its host is gone without a word.
Hangup(c) ==
    /\ Live(c)
    /\ \E how \in {"closed", "vanished"} : link' = [link EXCEPT ![c] = how]
    /\ UNCHANGED <<nextId, usedUp, players, udpClients, taskVars, told, rx>>

-----------------------------------------------------------------------------
(* The task of a connection                                                *)

At(c, here, next) == pc[c] = here /\ pc' = [pc EXCEPT ![c] = next]

\* Faulty variants: the counter does not wrap; the id is the lowest free one.
DrawId_NoWrap(c) ==
    /\ link[c] # "none"
    /\ At(c, "new", "insert")
    /\ id' = [id EXCEPT ![c] = nextId]
    /\ nextId' = nextId + 1
    /\ UNCHANGED <<usedUp, players, udpClients, link, told, rx>>

DrawId_LowestFree(c) ==
    /\ link[c] # "none"
    /\ At(c, "new", "insert")
    /\ \E i \in Id :
           /\ players[i] = NoConn
           /\ \A j \in Id : j < i => players[j] # NoConn
           /\ id' = [id EXCEPT ![c] = i]
    /\ UNCHANGED <<nextId, usedUp, players, udpClients, link, told, rx>>

\* Read Connect and draw an id.  fetch_add wraps around.
DrawId(c) ==
    /\ link[c] # "none"
    /\ At(c, "new", "insert")
    /\ id' = [id EXCEPT ![c] = nextId]
    /\ nextId' = IF nextId = IdSpace - 1 THEN 0 ELSE nextId + 1
    /\ usedUp' = (usedUp \/ nextId = 0)
    /\ UNCHANGED <<players, udpClients, link, told, rx>>

\* The connection fails before Connect was read: nothing to undo.
GiveUp(c) ==
    /\ link[c] \in {"closed", "vanished"}
    /\ At(c, "new", "done")
    /\ UNCHANGED <<nextId, usedUp, players, udpClients, id, link, told, rx>>

\* Faulty variant: the route of a legacy session is never inserted.
InsertPlayer_NoRoute(c) ==
    /\ At(c, "insert", "reply")
    /\ players' = [players EXCEPT ![id[c]] = c]
    /\ UNCHANGED <<nextId, usedUp, udpClients, id, link, told, rx>>

\* An insert replaces the entry, if any, that the id had before.
InsertPlayer(c) ==
    /\ At(c, "insert", IF c \in WtConn THEN "reply" ELSE "map")
    /\ players' = [players EXCEPT ![id[c]] = c]
    /\ UNCHANGED <<nextId, usedUp, udpClients, id, link, told, rx>>

\* Legacy only; an insert replaces the route, if any, the address had before.
InsertRoute(c) ==
    /\ At(c, "map", "reply")
    /\ udpClients' = [udpClients EXCEPT ![UdpAddr[c]] = id[c]]
    /\ UNCHANGED <<nextId, usedUp, players, id, link, told, rx>>

\* Connected is written, and reaches a client that is still there.
Reply(c) ==
    /\ At(c, "reply", "serving")
    /\ told' = [told EXCEPT ![c] = Live(c)]
    /\ UNCHANGED <<nextId, usedUp, players, udpClients, id, link, rx>>

\* Faulty variants: the task ends without cleaning up, or without removing
\* its route.
ReplyFails_Leaks(c) ==
    /\ c \in Legacy
    /\ link[c] \in {"closed", "vanished"}
    /\ At(c, "reply", "done")
    /\ UNCHANGED <<nextId, usedUp, players, udpClients, id, link, told, rx>>

ReplyFails_LeaksRoute(c) ==
    /\ c \in Legacy
    /\ link[c] \in {"closed", "vanished"}
    /\ At(c, "reply", "done")
    /\ players' = [players EXCEPT ![id[c]] = NoConn]
    /\ UNCHANGED <<nextId, usedUp, udpClients, id, link, told, rx>>

\* A legacy task that cannot write Connected cleans up and ends.  A WebTransport
\* task only logs the error (its Reply with a client that is not there).
ReplyFails(c) ==
    /\ c \in Legacy
    /\ link[c] \in {"closed", "vanished"}
    /\ At(c, "reply", "leaving")
    /\ UNCHANGED <<nextId, usedUp, players, udpClients, id, link, told, rx>>

\* Faulty variants: any pause ends the session; a client that never got its
\* Connected is not missed.
NoticeGone_Impatient(c) ==
    /\ At(c, "serving", "leaving")
    /\ UNCHANGED <<nextId, usedUp, players, udpClients, id, link, told, rx>>

NoticeGone_OnlyTold(c) ==
    /\ told[c]
    /\ link[c] = "closed" \/ (link[c] = "vanished" /\ c \in WtConn)
    /\ At(c, "serving", "leaving")
    /\ UNCHANGED <<nextId, usedUp, players, udpClients, id, link, told, rx>>

\* A read fails because the client closed the connection, or because QUIC's
\* idle timer found out that it vanished.
NoticeGone(c) ==
    /\ link[c] = "closed" \/ (link[c] = "vanished" /\ c \in WtConn)
    /\ At(c, "serving", "leaving")
    /\ UNCHANGED <<nextId, usedUp, players, udpClients, id, link, told, rx>>

\* Nothing in legacy.rs looks for a TCP peer that vanished: the read fails only
\* if the kernel happens to, on something it has to retransmit.
KernelNotices(c) ==
    /\ link[c] = "vanished"
    /\ c \in Legacy
    /\ At(c, "serving", "leaving")
    /\ UNCHANGED <<nextId, usedUp, players, udpClients, id, link, told, rx>>

\* Remove whatever entry has the session's id.  (broadcast_player_left, which
\* follows for WebTransport, changes neither map.)
RemovePlayer(c) ==
    /\ At(c, "leaving", IF c \in WtConn THEN "done" ELSE "unmap")
    /\ players' = [players EXCEPT ![id[c]] = NoConn]
    /\ UNCHANGED <<nextId, usedUp, udpClients, id, link, told, rx>>

\* Remove whatever route the session's address has.
RemoveRoute(c) ==
    /\ At(c, "unmap", "done")
    /\ udpClients' = [udpClients EXCEPT ![UdpAddr[c]] = NoId]
    /\ UNCHANGED <<nextId, usedUp, players, id, link, told, rx>>

-----------------------------------------------------------------------------
(* The task that receives all UDP input                                    *)

\* A datagram arrives, from a client that has been given an id, possibly long
\* after it was sent.  The sender's address, not the player_id in the packet,
\* decides whose input it is.
LookUp(c) ==
    /\ rx = NoInput
    /\ c \in Legacy
    /\ told[c]
    /\ udpClients[UdpAddr[c]] # NoId
    /\ rx' = [from |-> c, pid |-> udpClients[UdpAddr[c]]]
    /\ UNCHANGED <<nextId, usedUp, players, udpClients, taskVars, link, told>>

\* Under the other lock, players[rx.pid] moves, if it has an entry.  (Where a
\* player is does not matter here: Combat.)
ApplyInput ==
    /\ rx # NoInput
    /\ rx' = NoInput
    /\ UNCHANGED <<nextId, usedUp, players, udpClients, taskVars, link, told>>

-----------------------------------------------------------------------------
Task(c) ==
    \/ DrawId(c) \/ GiveUp(c) \/ InsertPlayer(c) \/ InsertRoute(c)
    \/ Reply(c) \/ ReplyFails(c) \/ NoticeGone(c)
    \/ RemovePlayer(c) \/ RemoveRoute(c)

Next ==
    \/ \E c \in Conn :
           Open(c) \/ Hangup(c) \/ Task(c) \/ KernelNotices(c) \/ LookUp(c)
    \/ ApplyInput

Spec == Init /\ [][Next]_vars

\* The runtime schedules every ready task; closing a connection is noticed.
\* Nobody has to connect, to close, or to notice a vanished TCP peer.
Fairness == \A c \in Conn : WF_vars(Task(c))

FairSpec == Spec /\ Fairness
-----------------------------------------------------------------------------
(* Properties                                                              *)

\* The session has, or still has, its entry in the players map.
Registered(c) == pc[c] \in {"map", "reply", "serving", "leaving"}

\* As long as the counter has not gone through all its values, no two
\* connections ever get the same id, however their tasks interleave.
UniqueIds ==
    ~usedUp => \A c, d \in Conn : c # d /\ id[c] # NoId => id[c] # id[d]

\* From its insert to its removal the session's own Player is in the map under
\* its id, whatever other sessions insert and remove in between: swings and
\* respawns of a task that is being served find the right Player.
OwnEntry ==
    ~usedUp => \A c \in Conn : Registered(c) => players[id[c]] = c

\* No ghosts: every entry of the players map belongs to a task that will
\* remove it.  An entry without one would stand in the arena for ever.
NoGhost ==
    ~usedUp =>
        \A i \in Id : players[i] # NoConn =>
            Registered(players[i]) /\ id[players[i]] = i

\* A legacy client that is told its id can play: from the moment Connected is
\* written, and as long as the client is there, its address is routed to its
\* id, so that its input is accepted as its own and the world state is sent to
\* it (protocol/src/lib.rs: Connect "allows server to send UDP game updates
\* back").  It needs addresses of their own: of two sessions that follow each
\* other on one address the late InsertRoute of the first takes it over, and
\* its late RemoveRoute removes the route of the second.
Routed ==
    \A c \in Legacy :
        Live(c) /\ pc[c] \in {"reply", "serving"} =>
            udpClients[UdpAddr[c]] = id[c]

\* Every route belongs to a session that still exists: the broadcast does not
\* go on sending to addresses nobody will ever remove.
RouteHasOwner ==
    \A a \in Addr : udpClients[a] # NoId =>
        \E c \in Legacy :
            /\ UdpAddr[c] = a
            /\ id[c] # NoId
            /\ pc[c] \in {"reply", "serving", "leaving", "unmap"}

\* The UDP task holds an id across two critical sections of different locks.
\* When it comes to apply the input, the id still stands for the sender, or
\* for nobody.
InputReachesOwner ==
    (~usedUp /\ rx # NoInput) => players[rx.pid] \in {rx.from, NoConn}

\* The sessions with an entry, as module Roster sees them.
InMap(c) == id[c] # NoId /\ players[id[c]] = c

Member(c) ==
    IF InMap(c) THEN "in"
    ELSE IF pc[c] \in {"new", "insert"} THEN "out" ELSE "gone"

R == INSTANCE Roster WITH
    Session   <- Conn,
    member    <- [c \in Conn |-> Member(c)],
    connected <- {c \in Conn : link[c] \in {"none", "open"}}

\* The map is a Roster: sessions enter and leave it once and one at a time,
\* and none is removed, or pushed out by another, while its client is there.
ImplementsRoster == R!Spec

\* Under FairSpec: when the client closes its connection, or a WebTransport
\* client vanishes, entry and route are removed, wherever the set-up was.
Ended(c) == link[c] = "closed" \/ (link[c] = "vanished" /\ c \in WtConn)

CleanedUp ==
    \A c \in Conn : Ended(c) ~>
        /\ ~InMap(c)
        /\ c \in Legacy => udpClients[UdpAddr[c]] # id[c] \/ id[c] = NoId
=============================================================================
