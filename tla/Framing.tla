------------------------------ MODULE Framing ------------------------------
(***************************************************************************)
(* The TCP connection of a legacy client: how it is made, with retries     *)
(* (_connect_tcp_with_retry in NetworkManager.gd), and how messages are    *)
(* cut out of its two byte streams, by the server (legacy.rs, read_exact)  *)
(* and by the client (_poll_tcp).                                          *)
(*                                                                         *)
(* TCP delivers bytes, in pieces that need not be messages.  The server    *)
(* waits for the bytes it needs.  The client looks whether they are there, *)
(* after it has taken the type byte off, and otherwise returns.            *)
(***************************************************************************)
EXTENDS Integers, Sequences

CONSTANTS
    Attempts,     \* max_attempts
    PlayerIds,    \* the ids the server may give to this client
    Healths,      \* the last bytes of the healths that are sent
    MaxDown,      \* bound: how many messages follow Connected
    MaxUp,        \* bound: how many messages follow Connect
    NoId          \* my_player_id = -1

Byte == 0 .. 255
U16  == {256 * a + b : a, b \in Byte}

ASSUME FramingConstants ==
    /\ Attempts \in Nat \ {0}
    /\ PlayerIds \subseteq Byte
    /\ Healths \subseteq Byte
    /\ MaxDown \in Nat
    /\ MaxUp \in Nat
    /\ NoId \notin Nat

\* Type bytes
MSG_CONNECT         == 1
MSG_SWING           == 3
MSG_CONNECTED       == 16
MSG_HEALTH_UPDATE   == 19
MSG_YOU_DIED        == 20
MSG_RESPAWN_REQUEST == 21

\* A message is its bytes.  Ids, ports and healths are big-endian.
Connect           == <<MSG_CONNECT, 200, 1>>
Swing(p)          == <<MSG_SWING, p \div 256, p % 256>>
RespawnRequest(p) == <<MSG_RESPAWN_REQUEST, p \div 256, p % 256>>
Connected(p)      == <<MSG_CONNECTED, 0, p>>
HealthUpdate(p, h) == <<MSG_HEALTH_UPDATE, 0, p, 0, 0, 0, h>>
YouDied(p)        == <<MSG_YOU_DIED, 0, p>>

VARIABLES
    \* making the connection
    phase,      \* "menu", "connecting", "pause", "arena"
    attempts,   \* in _connect_tcp_with_retry
    tcp,        \* status of the socket: "none", "connecting", "up" or "error"
    me,         \* my_player_id
    \* from the client to the server
    upSent,     \* messages sent
    upNet,      \* bytes under way
    upBuf,      \* bytes that have arrived
    server,     \* its task waits for "connect", "header" or "rest"; or "closed"
    header,     \* the type byte it has read
    upDone,     \* messages it has dispatched
    \* from the server to the client
    id,         \* the player_id the server has drawn
    downSent, downNet, downBuf, downDone,
    torn        \* history: _poll_tcp has met a message without its end

joinVars == <<phase, attempts, tcp>>
upVars   == <<upSent, upNet, upBuf, server, header, upDone>>
downVars == <<id, downSent, downNet, downBuf, downDone, torn>>
vars == <<joinVars, me, upVars, downVars>>

TypeOK ==
    /\ phase \in {"menu", "connecting", "pause", "arena"}
    /\ attempts \in 0 .. Attempts
    /\ tcp \in {"none", "connecting", "up", "error"}
    /\ me \in U16 \cup {NoId}
    /\ upSent \in Seq(Seq(Byte)) /\ upDone \in Seq(Seq(Byte))
    /\ upNet \in Seq(Byte) /\ upBuf \in Seq(Byte)
    /\ server \in {"connect", "header", "rest", "closed"}
    /\ header \in Byte
    /\ id \in PlayerIds \cup {NoId}
    /\ downSent \in Seq(Seq(Byte)) /\ downDone \in Seq(Seq(Byte))
    /\ downNet \in Seq(Byte) /\ downBuf \in Seq(Byte)
    /\ torn \in BOOLEAN

Init ==
    /\ phase = "menu" /\ attempts = 0 /\ tcp = "none"
    /\ me = NoId
    /\ upSent = <<>> /\ upNet = <<>> /\ upBuf = <<>>
    /\ server = "connect" /\ header = 0 /\ upDone = <<>>
    /\ id = NoId
    /\ downSent = <<>> /\ downNet = <<>> /\ downBuf = <<>> /\ downDone = <<>>
    /\ torn = FALSE

-----------------------------------------------------------------------------
(* Making the connection                                                   *)

\* Faulty variant: one attempt too many.
Attempt_OneMore ==
    /\ attempts <= Attempts
    /\ attempts' = attempts + 1
    /\ tcp' = "connecting"
    /\ phase' = "connecting"

\* The next turn of the loop: _connect_tcp.
Attempt ==
    /\ attempts < Attempts
    /\ attempts' = attempts + 1
    /\ tcp' = "connecting"
    /\ phase' = "connecting"

Join ==
    /\ phase = "menu"
    /\ attempts = 0
    /\ Attempt
    /\ UNCHANGED <<me, upVars, downVars>>

\* The server or the network refuses.
Refused ==
    /\ tcp = "connecting"
    /\ tcp' = "error"
    /\ UNCHANGED <<phase, attempts, me, upVars, downVars>>

Accepted ==
    /\ tcp = "connecting"
    /\ tcp' = "up"
    /\ UNCHANGED <<phase, attempts, me, upVars, downVars>>

ClientSends(m) ==
    /\ upSent' = Append(upSent, m)
    /\ upNet' = upNet \o m
    /\ UNCHANGED <<upBuf, server, header, upDone>>

\* _wait_tcp_connected has seen the connection: Connect is sent, and the menu
\* loads the arena.
Joined ==
    /\ phase = "connecting"
    /\ tcp = "up"
    /\ phase' = "arena"
    /\ ClientSends(Connect)
    /\ UNCHANGED <<attempts, tcp, me, downVars>>

\* It has seen an error, or waited for a second: the socket is dropped.
AttemptFails ==
    /\ phase = "connecting"
    /\ tcp \in {"connecting", "error"}
    /\ tcp' = "none"
    /\ phase' = "pause"
    /\ UNCHANGED <<attempts, me, upVars, downVars>>

PauseEnds ==
    /\ phase = "pause"
    /\ Attempt
    /\ UNCHANGED <<me, upVars, downVars>>

\* After the last pause the client changes to the menu, and the menu that has
\* waited changes to the arena.  Which of them has the last word depends on
\* whether the engine has taken that menu out of the tree by then.
GiveUp ==
    /\ phase = "pause"
    /\ attempts = Attempts
    /\ me' = NoId
    /\ phase' \in {"menu", "arena"}
    /\ UNCHANGED <<attempts, tcp, upVars, downVars>>

-----------------------------------------------------------------------------
(* From the client to the server                                           *)

SendRequest ==
    /\ phase = "arena"
    /\ me # NoId
    /\ Len(upSent) <= MaxUp
    /\ \E m \in {Swing(me), RespawnRequest(me)} : ClientSends(m)
    /\ UNCHANGED <<joinVars, me, downVars>>

\* A segment arrives.
ArriveUp ==
    /\ \E n \in 1 .. Len(upNet) :
           /\ upBuf' = upBuf \o SubSeq(upNet, 1, n)
           /\ upNet' = SubSeq(upNet, n + 1, Len(upNet))
    /\ UNCHANGED <<joinVars, me, upSent, server, header, upDone, downVars>>

\* read_exact: n bytes, once they are all there.
Taken(n) == SubSeq(upBuf, 1, n)

ReadExact(n) ==
    /\ Len(upBuf) >= n
    /\ upBuf' = SubSeq(upBuf, n + 1, Len(upBuf))

ServerSends(m) ==
    /\ downSent' = Append(downSent, m)
    /\ downNet' = downNet \o m
    /\ UNCHANGED <<downBuf, downDone, torn>>

\* The first three bytes; anything but a Connect ends the task.
ReadConnect ==
    /\ server = "connect"
    /\ ReadExact(3)
    /\ IF upBuf[1] = MSG_CONNECT
       THEN /\ upDone' = Append(upDone, Taken(3))
            /\ server' = "header"
            /\ id' \in PlayerIds
            /\ ServerSends(Connected(id'))
       ELSE /\ server' = "closed"
            /\ UNCHANGED <<upDone, downVars>>
    /\ UNCHANGED <<joinVars, me, upSent, upNet, header>>

ReadHeader ==
    /\ server = "header"
    /\ ReadExact(1)
    /\ header' = upBuf[1]
    /\ server' = IF upBuf[1] \in {MSG_SWING, MSG_RESPAWN_REQUEST}
                 THEN "rest" ELSE "closed"
    /\ UNCHANGED <<joinVars, me, upSent, upNet, upDone, downVars>>

\* Faulty variant: read() in place of read_exact() takes what is there.
ReadRest_Short ==
    /\ server = "rest"
    /\ Len(upBuf) >= 1
    /\ LET n == IF Len(upBuf) = 1 THEN 1 ELSE 2 IN
       /\ ReadExact(n)
       /\ upDone' = Append(upDone, <<header>> \o Taken(n))
    /\ server' = "header"
    /\ UNCHANGED <<joinVars, me, upSent, upNet, header, downVars>>

\* handle_swing or handle_respawn is called.
ReadRest ==
    /\ server = "rest"
    /\ ReadExact(2)
    /\ upDone' = Append(upDone, <<header>> \o Taken(2))
    /\ server' = "header"
    /\ UNCHANGED <<joinVars, me, upSent, upNet, header, downVars>>

-----------------------------------------------------------------------------
(* From the server to the client                                           *)

\* The write task drains the channel of the player.
Write ==
    /\ server \in {"header", "rest"}
    /\ Len(downSent) <= MaxDown
    /\ \E m \in {YouDied(id)} \cup {HealthUpdate(id, h) : h \in Healths} :
           ServerSends(m)
    /\ UNCHANGED <<joinVars, me, upVars, id>>

ArriveDown ==
    /\ \E n \in 1 .. Len(downNet) :
           /\ downBuf' = downBuf \o SubSeq(downNet, 1, n)
           /\ downNet' = SubSeq(downNet, n + 1, Len(downNet))
    /\ UNCHANGED <<joinVars, me, upVars, id, downSent, downDone, torn>>

\* Faulty variant: all messages have the layout of the first.
BodyLength_Same(type) == 2

\* How many bytes _poll_tcp expects after a type byte.
BodyLength(type) ==
    CASE type \in {MSG_CONNECTED, MSG_YOU_DIED} -> 2
      [] type = MSG_HEALTH_UPDATE -> 6

Known(type) == type \in {MSG_CONNECTED, MSG_HEALTH_UPDATE, MSG_YOU_DIED}

\* One turn of the loop in _poll_tcp, when a message is complete.
PollMessage ==
    /\ tcp = "up"
    /\ downBuf # <<>>
    /\ Known(downBuf[1])
    /\ LET n == 1 + BodyLength(downBuf[1]) IN
       /\ Len(downBuf) >= n
       /\ downDone' = Append(downDone, SubSeq(downBuf, 1, n))
       /\ downBuf' = SubSeq(downBuf, n + 1, Len(downBuf))
    /\ me' = IF downBuf[1] = MSG_CONNECTED
             THEN 256 * downBuf[2] + downBuf[3] ELSE me
    /\ UNCHANGED <<joinVars, upVars, id, downSent, downNet, torn>>

\* It is not complete: the loop returns, with the type byte gone.
PollTorn ==
    /\ tcp = "up"
    /\ downBuf # <<>>
    /\ Known(downBuf[1])
    /\ Len(downBuf) < 1 + BodyLength(downBuf[1])
    /\ downBuf' = Tail(downBuf)
    /\ torn' = TRUE
    /\ UNCHANGED <<joinVars, me, upVars, id, downSent, downNet, downDone>>

\* Any other byte is skipped.
PollUnknown ==
    /\ tcp = "up"
    /\ downBuf # <<>>
    /\ ~ Known(downBuf[1])
    /\ downBuf' = Tail(downBuf)
    /\ UNCHANGED <<joinVars, me, upVars, id, downSent, downNet, downDone, torn>>

-----------------------------------------------------------------------------
Dial   == Refused \/ Accepted
Retry  == Joined \/ AttemptFails \/ PauseEnds \/ GiveUp
Read   == ReadConnect \/ ReadHeader \/ ReadRest
Poll   == PollMessage \/ PollTorn \/ PollUnknown

Next ==
    \/ Join \/ Dial \/ Retry
    \/ SendRequest \/ ArriveUp \/ Read
    \/ Write \/ ArriveDown \/ Poll

Spec == Init /\ [][Next]_vars

\* The coroutine and the frames go on, TCP delivers, the server's task runs.
Fairness ==
    WF_vars(Retry) /\ WF_vars(ArriveUp) /\ WF_vars(Read)
        /\ WF_vars(ArriveDown) /\ WF_vars(Poll)

FairSpec == Spec /\ Fairness
-----------------------------------------------------------------------------
(* Properties                                                              *)

Up == INSTANCE Delivery WITH
    sent <- upSent,
    done <- upDone

\* Under FairSpec: whatever the pieces in which TCP brings the bytes, the
\* server dispatches every message of a client, whole and in the order of
\* sending (legacy.rs, read_exact).
ServerInStep == Up!FairSpec

\* The client handles what the server sent, whole and in that order, and it
\* plays under the id the server gave it, as long as no message reaches it in
\* two pieces (_poll_tcp returns with the type byte gone).
ClientInStep ==
    ~ torn =>
        /\ downDone = SubSeq(downSent, 1, Len(downDone))
        /\ me \in {NoId, id}
        /\ (downNet = <<>> /\ downBuf = <<>>) => downDone = downSent
=============================================================================
