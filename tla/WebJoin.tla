------------------------------ MODULE WebJoin ------------------------------
(***************************************************************************)
(* How a browser client joins, is thrown out, and joins again: the menu    *)
(* (main_menu.gd), NetworkManager.gd, the bridge between them and the      *)
(* browser (webtransport_bridge.js), and the server's connection task      *)
(* (wt.rs).                                                                *)
(*                                                                         *)
(* There is one bridge for the life of the page.  The n-th press of Join   *)
(* makes the n-th call of connect_to_server and the n-th WebTransport, but *)
(* the bridge's fields are shared by all of them, and neither the menu nor *)
(* a timeout waits for an earlier call or closes an earlier connection.    *)
(*                                                                         *)
(* An action is a callback of the browser, a step of a frame, or a step of *)
(* the server.                                                             *)
(***************************************************************************)
EXTENDS Integers, Sequences, FiniteSets

CONSTANT MaxJoins    \* bound: how often Join is pressed

ASSUME MaxJoinsIsNat == MaxJoins \in Nat

\* Calls of connect_to_server, transports, and the ids the server gives out
\* are numbered; 0 is "none".
Conn   == 1 .. MaxJoins
Id     == 1 .. MaxJoins
NoConn == 0
NoId   == 0

VARIABLES
    \* the game
    scene,        \* "menu" or "arena"
    call,         \* of each call: "none", "waiting" or "over"
    ready,        \* _webtransport_ready
    me,           \* my_player_id
    \* the bridge
    transport,    \* this.transport
    writer,       \* the transport this.writer belongs to
    connected,    \* this.connected
    error,        \* whether this.error is set
    queue,        \* whether this.queue holds datagrams
    streamQueue,  \* this.streamQueue: the ids in the Connected messages
    reading,      \* whether _readLoop runs, for each transport
    streaming,    \* whether _streamLoop does
    \* the browser and the network
    dial,         \* "none", "dialing", "open", "failed" or "lost"
    locked,       \* whether the datagram streams have a writer and a reader
    connects,     \* how many Connect messages are on their way
    replies,      \* the Connected messages on their way
    \* the server
    handler,      \* of each connection's task: "none", "running" or "over"
    mine,         \* my_id
    players,      \* the ids in the map that came over these connections
    owner,        \* Player.wt_conn
    \* history
    overlap       \* Join was pressed before an earlier join had ended

gameVars   == <<scene, call, ready, me>>
flags      == <<connected, error>>
queues     == <<queue, streamQueue>>
loops      == <<reading, streaming>>
bridgeVars == <<transport, writer, flags, queues, loops>>
netVars    == <<dial, locked, connects, replies>>
serverVars == <<handler, mine, players, owner>>
vars == <<gameVars, bridgeVars, netVars, serverVars, overlap>>

TypeOK ==
    /\ scene \in {"menu", "arena"}
    /\ call \in [Conn -> {"none", "waiting", "over"}]
    /\ ready \in BOOLEAN
    /\ me \in Id \cup {NoId}
    /\ transport \in Conn \cup {NoConn}
    /\ writer \in Conn \cup {NoConn}
    /\ connected \in BOOLEAN
    /\ error \in BOOLEAN
    /\ queue \in BOOLEAN
    /\ streamQueue \in Seq(Id)
    /\ reading \in [Conn -> BOOLEAN]
    /\ streaming \in [Conn -> BOOLEAN]
    /\ dial \in [Conn -> {"none", "dialing", "open", "failed", "lost"}]
    /\ locked \in [Conn -> BOOLEAN]
    /\ connects \in [Conn -> Nat]
    /\ replies \in [Conn -> SUBSET Id]
    /\ handler \in [Conn -> {"none", "running", "over"}]
    /\ mine \in [Conn -> Id \cup {NoId}]
    /\ players \subseteq Id
    /\ owner \in [Id -> Conn \cup {NoConn}]
    /\ overlap \in BOOLEAN
    /\ \A i \in Conn :
           reading[i] \/ streaming[i] =>
               locked[i] /\ dial[i] \in {"dialing", "open"}

Init ==
    /\ scene = "menu"
    /\ call = [i \in Conn |-> "none"]
    /\ ready = FALSE
    /\ me = NoId
    /\ transport = NoConn
    /\ writer = NoConn
    /\ connected = FALSE
    /\ error = FALSE
    /\ queue = FALSE
    /\ streamQueue = <<>>
    /\ reading = [i \in Conn |-> FALSE]
    /\ streaming = [i \in Conn |-> FALSE]
    /\ dial = [i \in Conn |-> "none"]
    /\ locked = [i \in Conn |-> FALSE]
    /\ connects = [i \in Conn |-> 0]
    /\ replies = [i \in Conn |-> {}]
    /\ handler = [i \in Conn |-> "none"]
    /\ mine = [i \in Conn |-> NoId]
    /\ players = {}
    /\ owner = [p \in Id |-> NoConn]
    /\ overlap = FALSE

-----------------------------------------------------------------------------
(* Joining                                                                 *)

\* sendStream: the message goes out on the transport of the moment, at once,
\* when that opens, or never.
SendConnect(i) ==
    connects' = IF dial'[i] \in {"dialing", "open"}
                THEN [connects EXCEPT ![i] = @ + 1] ELSE connects

\* connect_to_server returns after Connect was handed to the bridge, and the
\* menu, if it is still there, loads the arena.
Return(i) ==
    /\ call' = [call EXCEPT ![i] = "over"]
    /\ SendConnect(transport')
    /\ scene' = "arena"

\* Faulty variant: Connect is sent on pressing and once more on return.
Press_Eager ==
    LET i == transport + 1 IN
    /\ scene = "menu"
    /\ i \in Conn
    /\ transport' = i
    /\ dial' = [dial EXCEPT ![i] = "dialing"]
    /\ call' = [call EXCEPT ![i] = "waiting"]
    /\ SendConnect(i)
    /\ overlap' = (overlap \/ \E j \in Conn :
                       call[j] = "waiting" \/ dial[j] = "dialing")
    /\ UNCHANGED <<scene, ready, me, writer, flags, queues, loops, locked,
                   replies, serverVars>>

\* Join is pressed.  The bridge makes a new transport, and the first look at
\* its flags, in the same frame, still sees what earlier ones left there.
Press ==
    LET i == transport + 1 IN
    /\ scene = "menu"
    /\ i \in Conn
    /\ transport' = i
    /\ dial' = [dial EXCEPT ![i] = "dialing"]
    /\ IF error \/ connected
       THEN Return(i)
       ELSE /\ call' = [call EXCEPT ![i] = "waiting"]
            /\ UNCHANGED <<connects, scene>>
    /\ ready' = (ready \/ (connected /\ ~ error))
    /\ overlap' = (overlap \/ \E j \in Conn :
                       call[j] = "waiting" \/ dial[j] = "dialing")
    /\ UNCHANGED <<me, writer, flags, queues, loops, locked, replies,
                   serverVars>>

\* A later frame of _wait_webtransport_connected sees a flag.
Waited(i) ==
    /\ call[i] = "waiting"
    /\ error \/ connected
    /\ ready' = (ready \/ ~ error)
    /\ UNCHANGED <<transport, dial>>
    /\ Return(i)
    /\ UNCHANGED <<me, writer, flags, queues, loops, locked, replies,
                   serverVars, overlap>>

\* Faulty variant: whoever waited in vain sends nothing.
WaitedInVain_Silent(i) ==
    /\ call[i] = "waiting"
    /\ ~ error /\ ~ connected
    /\ call' = [call EXCEPT ![i] = "over"]
    /\ scene' = "arena"
    /\ UNCHANGED <<ready, me, bridgeVars, netVars, serverVars, overlap>>

\* Ten seconds have passed: an error is logged, and all else is the same.
WaitedInVain(i) ==
    /\ call[i] = "waiting"
    /\ ~ error /\ ~ connected
    /\ UNCHANGED <<transport, dial>>
    /\ Return(i)
    /\ UNCHANGED <<ready, me, writer, flags, queues, loops, locked, replies,
                   serverVars, overlap>>

-----------------------------------------------------------------------------
(* The bridge                                                              *)

\* transport.ready resolves, and connect() goes on with the transport of the
\* moment.  If that one has a writer already, getWriter throws.
Opens(i) ==
    /\ dial[i] = "dialing"
    /\ dial' = [dial EXCEPT ![i] = "open"]
    /\ handler' = [handler EXCEPT ![i] = "running"]
    /\ IF locked[transport]
       THEN /\ connected' = FALSE
            /\ error' = TRUE
            /\ UNCHANGED <<locked, writer, loops>>
       ELSE /\ connected' = TRUE
            /\ locked' = [locked EXCEPT ![transport] = TRUE]
            /\ writer' = transport
            /\ LET works == dial'[transport] \in {"dialing", "open"} IN
               /\ reading' = [reading EXCEPT ![transport] = works]
               /\ streaming' = [streaming EXCEPT ![transport] = works]
            /\ UNCHANGED error
    /\ UNCHANGED <<gameVars, transport, queues, connects, replies, mine,
                   players, owner, overlap>>

\* transport.ready rejects.  Loops on a transport that has failed end with it.
Fails(i) ==
    /\ dial[i] = "dialing"
    /\ dial' = [dial EXCEPT ![i] = "failed"]
    /\ connected' = FALSE
    /\ error' = TRUE
    /\ reading' = [reading EXCEPT ![i] = FALSE]
    /\ streaming' = [streaming EXCEPT ![i] = FALSE]
    /\ connects' = [connects EXCEPT ![i] = 0]
    /\ UNCHANGED <<gameVars, transport, writer, queues, locked, replies,
                   serverVars, overlap>>

\* Faulty variants: the loops go on after an error; a loop that ends on an
\* error clears connected.
Breaks_LoopsGoOn(i) ==
    /\ dial[i] = "open"
    /\ dial' = [dial EXCEPT ![i] = "lost"]
    /\ connects' = [connects EXCEPT ![i] = 0]
    /\ replies' = [replies EXCEPT ![i] = {}]
    /\ UNCHANGED <<gameVars, bridgeVars, locked, serverVars, overlap>>

Breaks_ClearsFlag(i) ==
    /\ dial[i] = "open"
    /\ dial' = [dial EXCEPT ![i] = "lost"]
    /\ reading' = [reading EXCEPT ![i] = FALSE]
    /\ streaming' = [streaming EXCEPT ![i] = FALSE]
    /\ connected' = (connected /\ ~ reading[i])
    /\ connects' = [connects EXCEPT ![i] = 0]
    /\ replies' = [replies EXCEPT ![i] = {}]
    /\ UNCHANGED <<gameVars, transport, writer, error, queues, locked,
                   serverVars, overlap>>

\* An open connection breaks: the loops see a rejection, and no flag changes.
Breaks(i) ==
    /\ dial[i] = "open"
    /\ dial' = [dial EXCEPT ![i] = "lost"]
    /\ reading' = [reading EXCEPT ![i] = FALSE]
    /\ streaming' = [streaming EXCEPT ![i] = FALSE]
    /\ connects' = [connects EXCEPT ![i] = 0]
    /\ replies' = [replies EXCEPT ![i] = {}]
    /\ UNCHANGED <<gameVars, transport, writer, flags, queues, locked,
                   serverVars, overlap>>

\* _readLoop: a world state for some entry of this connection; then the loop
\* looks at the flag, which may be about another connection.
ReadDatagram(i) ==
    /\ reading[i]
    /\ dial[i] = "open"
    /\ \E p \in players : owner[p] = i
    /\ queue' = TRUE
    /\ reading' = [reading EXCEPT ![i] = connected]
    /\ UNCHANGED <<gameVars, transport, writer, flags, streamQueue, streaming,
                   netVars, serverVars, overlap>>

\* _streamLoop, likewise.
ReadStream(i) ==
    /\ streaming[i]
    /\ \E p \in replies[i] :
           /\ replies' = [replies EXCEPT ![i] = @ \ {p}]
           /\ streamQueue' = Append(streamQueue, p)
    /\ streaming' = [streaming EXCEPT ![i] = connected]
    /\ UNCHANGED <<gameVars, transport, writer, flags, queue, reading, dial,
                   locked, connects, serverVars, overlap>>

-----------------------------------------------------------------------------
(* A frame of NetworkManager, in the menu as well as in the arena          *)

\* _poll_webtransport_streams empties the queue.
PollStreams ==
    /\ streamQueue # <<>>
    /\ me' = streamQueue[Len(streamQueue)]
    /\ streamQueue' = <<>>
    /\ UNCHANGED <<scene, call, ready, transport, writer, flags, queue, loops,
                   netVars, serverVars, overlap>>

\* _poll_udp empties the other.
PollDatagrams ==
    /\ me # NoId
    /\ queue
    /\ queue' = FALSE
    /\ UNCHANGED <<gameVars, transport, writer, flags, streamQueue, loops,
                   netVars, serverVars, overlap>>

\* Faulty variant: a client takes the bridge's word that all is well.
Timeout_IfDisconnected ==
    /\ me # NoId
    /\ ~ queue
    /\ ~ connected
    /\ me' = NoId
    /\ scene' = "menu"
    /\ UNCHANGED <<call, ready, bridgeVars, netVars, serverVars, overlap>>

\* _check_timeout: for five seconds there were no datagrams.  (A call that
\* still waited has seen a flag long before.)  Nothing is closed, and of the
\* bridge's state nothing is reset.
Timeout ==
    /\ me # NoId
    /\ ~ queue
    /\ \A i \in Conn : call[i] # "waiting"
    /\ me' = NoId
    /\ scene' = "menu"
    /\ UNCHANGED <<call, ready, bridgeVars, netVars, serverVars, overlap>>

-----------------------------------------------------------------------------
(* The server: handle_wt_client                                            *)

\* A Connect makes an entry, whether or not there is one for the connection.
AcceptConnect(i) ==
    /\ handler[i] = "running"
    /\ dial[i] = "open"
    /\ connects[i] > 0
    /\ connects' = [connects EXCEPT ![i] = @ - 1]
    /\ \E p \in Id :
           /\ owner[p] = NoConn
           /\ \A q \in Id : q < p => owner[q] # NoConn
           /\ mine' = [mine EXCEPT ![i] = p]
           /\ players' = players \cup {p}
           /\ owner' = [owner EXCEPT ![p] = i]
           /\ replies' = [replies EXCEPT ![i] = @ \cup {p}]
    /\ UNCHANGED <<gameVars, bridgeVars, dial, locked, handler, overlap>>

\* The task notices that the connection is closed, and cleans up.
CleanUp(i) ==
    /\ handler[i] = "running"
    /\ dial[i] = "lost"
    /\ handler' = [handler EXCEPT ![i] = "over"]
    /\ players' = players \ {mine[i]}
    /\ UNCHANGED <<gameVars, bridgeVars, netVars, mine, owner, overlap>>

-----------------------------------------------------------------------------
Wait(i)   == Waited(i) \/ WaitedInVain(i)
Dialed(i) == Opens(i) \/ Fails(i)
Serve(i)  == AcceptConnect(i) \/ CleanUp(i)

Next ==
    \/ Press \/ PollStreams \/ PollDatagrams \/ Timeout
    \/ \E i \in Conn :
           \/ Wait(i) \/ Dialed(i) \/ Breaks(i)
           \/ ReadDatagram(i) \/ ReadStream(i) \/ Serve(i)

Spec == Init /\ [][Next]_vars

\* Frames go on, a handshake ends one way or the other, the loops and the
\* server's tasks run.  Nobody has to press Join, no connection has to break,
\* and the network may drop every datagram.
Fairness ==
    /\ WF_vars(PollStreams)
    /\ WF_vars(PollDatagrams)
    /\ WF_vars(Timeout)
    /\ \A i \in Conn :
           /\ WF_vars(Wait(i))
           /\ WF_vars(Dialed(i))
           /\ WF_vars(ReadStream(i))
           /\ WF_vars(Serve(i))

FairSpec == Spec /\ Fairness
-----------------------------------------------------------------------------
(* Properties                                                              *)

\* Whatever earlier connections left in the shared fields: if the player
\* never pressed Join while an earlier join was under way, the transport that
\* is open now is written to and read from (webtransport_bridge.js, connect;
\* the two loops test a flag that is not their connection's).
BridgeServesCurrent ==
    (~ overlap /\ transport # NoConn /\ dial[transport] = "open") =>
        /\ connected
        /\ writer = transport
        /\ reading[transport] /\ streaming[transport]

\* On the same condition the server has at most one entry for a connection,
\* the one its task is going to remove (wt.rs, my_id is a single variable).
OneEntryEach ==
    ~ overlap =>
        \A p \in players : p = mine[owner[p]] /\ handler[owner[p]] = "running"

\* Under FairSpec: on the same condition whoever is connected is given an id,
\* though the wait may have ended in an error, an earlier one's or its own
\* (Connect is sent in any case).  Whether its inputs are sent is another
\* question, InputIsSent.
JoinIsAnswered ==
    \A i \in Conn :
        (scene = "arena" /\ transport = i /\ dial[i] = "open")
            ~> (me # NoId \/ transport # i \/ dial[i] # "open" \/ overlap)

\* A client in the arena that has its id over a working bridge sends its
\* inputs (README.md: NetworkManager.gd "sends `PlayerInput` each frame").  The
\* code breaks it: only a wait that sees `connected` in time, and no error of an
\* earlier connection, sets _webtransport_ready.
InputIsSent ==
    (/\ scene = "arena" /\ me # NoId
     /\ connected /\ writer = transport /\ dial[transport] = "open")
        => ready

\* Under FairSpec: when the last connection has broken the client goes back to
\* the menu, even if the bridge goes on saying that it is connected.
SilenceIsNoticed ==
    (me # NoId /\ \A i \in Conn : dial[i] # "open")
        ~> (me = NoId \/ \E i \in Conn : dial[i] = "open")
=============================================================================
