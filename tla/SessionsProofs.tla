--------------------------- MODULE SessionsProofs ---------------------------
(***************************************************************************)
(* Theorems about Sessions, for any number of connections on either        *)
(* transport and any width of the id counter.                              *)
(*                                                                         *)
(* Everything about ids holds until the counter has gone through all its   *)
(* values (usedUp).  What is said of routes needs every legacy connection  *)
(* to have an address of its own (OwnAddresses), except that no route is   *)
(* ever left behind, which holds with shared addresses too.                *)
(***************************************************************************)
EXTENDS Sessions, TLAPS

\* A task has drawn its id exactly if it has got past reading Connect, and it
\* ends only after its client has gone.
Stage(c) ==
    /\ pc[c] = "new" => id[c] = NoId
    /\ pc[c] \notin {"new", "done"} => id[c] # NoId
    /\ pc[c] # "new" => link[c] # "none"
    /\ pc[c] \in {"leaving", "unmap"} => link[c] \in {"closed", "vanished"}
    /\ pc[c] \in {"map", "unmap"} => c \in Legacy

\* The counter is ahead of every id drawn in its first round.
Drawn(c) ==
    id[c] # NoId => id[c] # 0 /\ (nextId # 0 => id[c] < nextId)

IdInv ==
    /\ \A c \in Conn : Stage(c)
    /\ ~usedUp => \A c \in Conn : Drawn(c)
    /\ UniqueIds
    /\ OwnEntry
    /\ NoGhost

Inv == TypeOK /\ IdInv

-----------------------------------------------------------------------------
LEMMA TypeInit == Init => TypeOK
<1> SUFFICES ASSUME Init PROVE TypeOK
  OBVIOUS
<1>1. nextId \in Id
  BY SessionsConstants DEF Init, Id
<1>2. rx \in [from : Legacy, pid : Id] \cup {NoInput}
  BY DEF Init
<1> QED
  BY <1>1, <1>2 DEF Init, TypeOK

LEMMA TypeStep == TypeOK /\ [Next]_vars => TypeOK'
<1> SUFFICES ASSUME TypeOK, [Next]_vars PROVE TypeOK'
  OBVIOUS
<1> USE SessionsConstants DEF TypeOK, taskVars, At
<1>1. ASSUME NEW c \in Conn, Open(c) \/ Hangup(c) PROVE TypeOK'
  BY <1>1 DEF Open, Hangup
<1>2. ASSUME NEW c \in Conn, DrawId(c) PROVE TypeOK'
  BY <1>2 DEF DrawId, Id
<1>3. ASSUME NEW c \in Conn,
             GiveUp(c) \/ Reply(c) \/ ReplyFails(c) \/ NoticeGone(c)
                 \/ KernelNotices(c)
      PROVE  TypeOK'
  BY <1>3 DEF GiveUp, Reply, ReplyFails, NoticeGone, KernelNotices, Live
<1>4. ASSUME NEW c \in Conn, InsertPlayer(c) \/ RemovePlayer(c) PROVE TypeOK'
  BY <1>4 DEF InsertPlayer, RemovePlayer
<1>5. ASSUME NEW c \in Conn, InsertRoute(c) \/ RemoveRoute(c) PROVE TypeOK'
  BY <1>5 DEF InsertRoute, RemoveRoute
<1>6. ASSUME NEW c \in Conn, LookUp(c) PROVE TypeOK'
  <2>1. udpClients[UdpAddr[c]] \in Id
    BY <1>6 DEF LookUp
  <2> QED
    BY <1>6, <2>1 DEF LookUp
<1>7. CASE ApplyInput
  BY <1>7 DEF ApplyInput
<1>8. CASE UNCHANGED vars
  BY <1>8 DEF vars
<1> QED
  BY <1>1, <1>2, <1>3, <1>4, <1>5, <1>6, <1>7, <1>8 DEF Next, Task

\* Every variable keeps its type; the id counter stays within its width.
THEOREM SessionsTypeCorrect == Spec => []TypeOK
BY TypeInit, TypeStep, PTL DEF Spec

-----------------------------------------------------------------------------
LEMMA InvInit == Init => Inv
<1> SUFFICES ASSUME Init PROVE Inv
  OBVIOUS
<1>1. TypeOK
  BY TypeInit
<1> QED
  BY <1>1, SessionsConstants
     DEF Init, Inv, IdInv, Stage, Drawn, UniqueIds, OwnEntry, NoGhost,
         Registered

LEMMA StageStep ==
    ASSUME Inv, [Next]_vars, NEW d \in Conn
    PROVE  Stage(d)'
<1>a. TypeOK /\ Stage(d) /\ TypeOK'
  BY TypeStep DEF Inv, IdInv
<1> USE <1>a, SessionsConstants DEF TypeOK, taskVars, At, Stage, Live
<1>1. ASSUME NEW c \in Conn, Open(c) \/ Hangup(c) PROVE Stage(d)'
  BY <1>1 DEF Open, Hangup
<1>2. ASSUME NEW c \in Conn, DrawId(c) PROVE Stage(d)'
  BY <1>2 DEF DrawId
<1>3. ASSUME NEW c \in Conn,
             GiveUp(c) \/ Reply(c) \/ ReplyFails(c) \/ NoticeGone(c)
                 \/ KernelNotices(c)
      PROVE  Stage(d)'
  BY <1>3 DEF GiveUp, Reply, ReplyFails, NoticeGone, KernelNotices
<1>4. ASSUME NEW c \in Conn, InsertPlayer(c) \/ RemovePlayer(c)
      PROVE  Stage(d)'
  BY <1>4 DEF InsertPlayer, RemovePlayer, Legacy
<1>5. ASSUME NEW c \in Conn, InsertRoute(c) \/ RemoveRoute(c)
      PROVE  Stage(d)'
  BY <1>5 DEF InsertRoute, RemoveRoute
<1>6. CASE UNCHANGED <<taskVars, link>>
  BY <1>6
<1> QED
  BY <1>1, <1>2, <1>3, <1>4, <1>5, <1>6
     DEF Next, Task, LookUp, ApplyInput, vars

\* A step of a task that draws no id and changes no entry keeps what is said
\* about ids, if the task neither gains nor loses its place in the map.
LEMMA KeepIds ==
    ASSUME Inv, [Next]_vars, UNCHANGED <<nextId, usedUp, players, id>>,
           \A d \in Conn : Registered(d)' <=> Registered(d)
    PROVE  IdInv'
<1>1. \A d \in Conn : Stage(d)'
  BY StageStep
<1> QED
  BY <1>1, SessionsConstants
     DEF Inv, IdInv, Drawn, UniqueIds, OwnEntry, NoGhost, TypeOK

LEMMA InvStep == Inv /\ [Next]_vars => Inv'
<1> SUFFICES ASSUME Inv, [Next]_vars PROVE IdInv'
  BY TypeStep DEF Inv
<1>a. TypeOK /\ TypeOK' /\ IdInv /\ \A d \in Conn : Stage(d)'
  BY TypeStep, StageStep DEF Inv
<1> USE DEF taskVars, At
<1>1. ASSUME NEW c \in Conn, Open(c) \/ Hangup(c) PROVE IdInv'
  BY <1>1, KeepIds DEF Open, Hangup, Registered
<1>2. ASSUME NEW c \in Conn, DrawId(c) PROVE IdInv'
  <2>1. SUFFICES ASSUME ~usedUp'
                 PROVE  /\ \A d \in Conn : Drawn(d)'
                        /\ UniqueIds' /\ OwnEntry' /\ NoGhost'
    BY <1>a DEF IdInv, UniqueIds, OwnEntry, NoGhost
  <2>2. /\ ~usedUp /\ nextId # 0 /\ nextId \in Id
        /\ nextId' = IF nextId = IdSpace - 1 THEN 0 ELSE nextId + 1
        /\ id' = [id EXCEPT ![c] = nextId]
        /\ pc[c] = "new" /\ pc' = [pc EXCEPT ![c] = "insert"]
        /\ players' = players
    BY <1>2, <1>a, <2>1 DEF DrawId, TypeOK
  <2>3. \A d \in Conn \ {c} : id'[d] = id[d] /\ id[d] # nextId
    BY <1>a, <2>2, SessionsConstants DEF TypeOK, IdInv, Drawn, Id
  <2>4. id'[c] = nextId /\ id[c] = NoId
    BY <1>a, <2>2 DEF TypeOK, IdInv, Stage
  <2>5. \A d \in Conn : Drawn(d)'
    BY <1>a, <2>2, <2>3, <2>4, SessionsConstants DEF TypeOK, IdInv, Drawn, Id
  <2>6. UniqueIds'
    BY <1>a, <2>2, <2>3, <2>4 DEF IdInv, UniqueIds
  <2>7. \A d \in Conn : /\ Registered(d)' <=> Registered(d)
                        /\ Registered(d) => d # c
    BY <1>a, <2>2 DEF TypeOK, Registered
  <2>8. OwnEntry'
    BY <1>a, <2>2, <2>3, <2>7 DEF IdInv, OwnEntry
  <2>9. NoGhost'
    BY <1>a, <2>2, <2>3, <2>7 DEF TypeOK, IdInv, NoGhost
  <2> QED
    BY <2>5, <2>6, <2>8, <2>9
<1>3. ASSUME NEW c \in Conn,
             GiveUp(c) \/ Reply(c) \/ ReplyFails(c) \/ NoticeGone(c)
                 \/ KernelNotices(c) \/ InsertRoute(c) \/ RemoveRoute(c)
      PROVE  IdInv'
  <2>1. \A d \in Conn : Registered(d)' <=> Registered(d)
    BY <1>3, <1>a
       DEF GiveUp, Reply, ReplyFails, NoticeGone, KernelNotices, InsertRoute,
           RemoveRoute, Registered, TypeOK
  <2>2. UNCHANGED <<nextId, usedUp, players, id>>
    BY <1>3
       DEF GiveUp, Reply, ReplyFails, NoticeGone, KernelNotices, InsertRoute,
           RemoveRoute
  <2> QED
    BY <2>1, <2>2, KeepIds
<1>4. ASSUME NEW c \in Conn, InsertPlayer(c) PROVE IdInv'
  <2>1. /\ UNCHANGED <<nextId, usedUp, id>>
        /\ players' = [players EXCEPT ![id[c]] = c]
        /\ id[c] \in Id
        /\ \A d \in Conn : Registered(d)' <=> Registered(d) \/ d = c
    BY <1>4, <1>a DEF InsertPlayer, TypeOK, IdInv, Stage, Registered
  <2>2. OwnEntry' /\ NoGhost'
    BY <1>a, <2>1, SessionsConstants
       DEF TypeOK, IdInv, UniqueIds, OwnEntry, NoGhost
  <2> QED
    BY <1>a, <2>1, <2>2 DEF IdInv, Drawn, UniqueIds
<1>5. ASSUME NEW c \in Conn, RemovePlayer(c) PROVE IdInv'
  <2>1. /\ UNCHANGED <<nextId, usedUp, id>>
        /\ players' = [players EXCEPT ![id[c]] = NoConn]
        /\ id[c] \in Id
        /\ \A d \in Conn : Registered(d)' <=> Registered(d) /\ d # c
    BY <1>5, <1>a DEF RemovePlayer, TypeOK, IdInv, Stage, Registered
  <2>2. OwnEntry' /\ NoGhost'
    BY <1>a, <2>1, SessionsConstants
       DEF TypeOK, IdInv, UniqueIds, OwnEntry, NoGhost
  <2> QED
    BY <1>a, <2>1, <2>2 DEF IdInv, Drawn, UniqueIds
<1>6. CASE UNCHANGED <<nextId, usedUp, players, taskVars>>
  BY <1>6, KeepIds DEF Registered
<1> QED
  BY <1>1, <1>2, <1>3, <1>4, <1>5, <1>6
     DEF Next, Task, LookUp, ApplyInput, vars

LEMMA Inductive == Spec => []Inv
BY InvInit, InvStep, PTL DEF Spec

-----------------------------------------------------------------------------
\* Ids do not repeat before the counter has used them all up.
THEOREM IdsAreUnique == Spec => []UniqueIds
<1>1. Inv => UniqueIds
  BY DEF Inv, IdInv
<1> QED
  BY <1>1, Inductive, PTL

\* A session that is served finds its own Player under its id.
THEOREM EntriesAreOwn == Spec => []OwnEntry
<1>1. Inv => OwnEntry
  BY DEF Inv, IdInv
<1> QED
  BY <1>1, Inductive, PTL

\* Every Player in the map belongs to a task that will remove it.
THEOREM NoGhosts == Spec => []NoGhost
<1>1. Inv => NoGhost
  BY DEF Inv, IdInv
<1> QED
  BY <1>1, Inductive, PTL
-----------------------------------------------------------------------------
(* Routes                                                                  *)

\* No route outlives its session, with shared addresses too: every session
\* that inserted one clears the address on its way out.
LEMMA RouteStep == Inv /\ RouteHasOwner /\ [Next]_vars => RouteHasOwner'
<1> SUFFICES ASSUME Inv, RouteHasOwner, [Next]_vars,
                    NEW a \in Addr, udpClients'[a] # NoId
             PROVE  \E d \in Legacy :
                        /\ UdpAddr[d] = a
                        /\ id'[d] # NoId
                        /\ pc'[d] \in {"reply", "serving", "leaving", "unmap"}
  BY DEF RouteHasOwner
<1> DEFINE Owner(d) == /\ UdpAddr[d] = a
                       /\ id[d] # NoId
                       /\ pc[d] \in {"reply", "serving", "leaving", "unmap"}
<1>a. TypeOK /\ \A d \in Conn : Stage(d)
  BY DEF Inv, IdInv
<1>b. Legacy \subseteq Conn /\ UdpAddr \in [Legacy -> Addr]
  BY SessionsConstants DEF Legacy
<1>c. udpClients[a] # NoId => \E d \in Legacy : Owner(d)
  BY DEF RouteHasOwner
<1> USE DEF taskVars, At
<1>1. ASSUME NEW c \in Conn, InsertRoute(c)
      PROVE  \E d \in Legacy : Owner(d)'
  <2>1. (c \in Legacy /\ Owner(c)') \/ a # UdpAddr[c]
    BY <1>1, <1>a DEF InsertRoute, TypeOK, Stage
  <2>2. ASSUME a # UdpAddr[c] PROVE \E d \in Legacy : Owner(d)'
    <3>1. udpClients'[a] = udpClients[a]
      BY <1>1, <1>a, <2>2 DEF InsertRoute, TypeOK
    <3>2. PICK d \in Legacy : Owner(d)
      BY <1>c, <3>1
    <3> QED
      BY <1>1, <1>a, <1>b, <2>2, <3>2 DEF InsertRoute, TypeOK
  <2> QED
    BY <2>1, <2>2
<1>2. ASSUME NEW c \in Conn, RemoveRoute(c)
      PROVE  \E d \in Legacy : Owner(d)'
  <2>1. a # UdpAddr[c] /\ udpClients'[a] = udpClients[a]
    BY <1>2, <1>a DEF RemoveRoute, TypeOK
  <2>2. PICK d \in Legacy : Owner(d)
    BY <1>c, <2>1
  <2>3. d # c
    BY <2>1, <2>2
  <2> QED
    BY <1>2, <1>a, <1>b, <2>2, <2>3 DEF RemoveRoute, TypeOK
<1>3. ASSUME UNCHANGED udpClients,
             \A d \in Legacy : Owner(d) => Owner(d)'
      PROVE  \E d \in Legacy : Owner(d)'
  BY <1>c, <1>3
<1>4. ASSUME NEW c \in Conn, DrawId(c)
      PROVE  \A d \in Legacy : Owner(d) => Owner(d)'
  BY <1>4, <1>a, <1>b DEF DrawId, TypeOK
<1>5. ASSUME NEW c \in Conn,
             GiveUp(c) \/ InsertPlayer(c) \/ Reply(c) \/ ReplyFails(c)
                 \/ NoticeGone(c) \/ KernelNotices(c) \/ RemovePlayer(c)
      PROVE  \A d \in Legacy : Owner(d) => Owner(d)'
  BY <1>5, <1>a, <1>b
     DEF GiveUp, InsertPlayer, Reply, ReplyFails, NoticeGone, KernelNotices,
         RemovePlayer, TypeOK, Legacy
<1> QED
  BY <1>1, <1>2, <1>3, <1>4, <1>5
     DEF Next, Task, Open, Hangup, LookUp, ApplyInput, vars, DrawId, GiveUp,
         InsertPlayer, Reply, ReplyFails, NoticeGone, KernelNotices,
         RemovePlayer

\* The broadcast never goes on sending to an address nobody will remove.
THEOREM RoutesHaveOwners == Spec => []RouteHasOwner
<1>1. Init => RouteHasOwner
  BY DEF Init, RouteHasOwner
<1> QED
  BY <1>1, RouteStep, Inductive, PTL DEF Spec
-----------------------------------------------------------------------------
(* With an address of its own a legacy session keeps its route.            *)

OwnAddresses ==
    \A c, d \in Legacy : UdpAddr[c] = UdpAddr[d] => c = d

\* From its insert to its removal, and the UDP task holds the sender's id.
RouteKept ==
    /\ \A c \in Legacy : pc[c] \in {"reply", "serving", "leaving", "unmap"} =>
           udpClients[UdpAddr[c]] = id[c]
    /\ rx # NoInput => rx.pid = id[rx.from]

LEMMA RouteKeptStep ==
    ASSUME OwnAddresses, Inv, RouteHasOwner, RouteKept, [Next]_vars
    PROVE  RouteKept'
<1>a. TypeOK /\ \A d \in Conn : Stage(d)
  BY DEF Inv, IdInv
<1>b. Legacy \subseteq Conn /\ UdpAddr \in [Legacy -> Addr]
  BY SessionsConstants DEF Legacy
<1>c. rx # NoInput => rx.from \in Legacy /\ rx.pid \in Id
  BY <1>a DEF TypeOK
<1>d. NoId \notin Id
  BY SessionsConstants
<1> USE DEF taskVars, At
<1>1. ASSUME NEW c \in Conn, DrawId(c) PROVE RouteKept'
  <2>1. /\ id[c] = NoId /\ pc'[c] = "insert" /\ UNCHANGED <<udpClients, rx>>
        /\ \A d \in Conn \ {c} : id'[d] = id[d] /\ pc'[d] = pc[d]
    BY <1>1, <1>a DEF DrawId, TypeOK, Stage
  <2>2. rx # NoInput => rx.from # c
    BY <1>c, <1>d, <2>1 DEF RouteKept
  <2> QED
    BY <1>b, <1>c, <2>1, <2>2 DEF RouteKept
<1>2. ASSUME NEW c \in Conn, InsertRoute(c) PROVE RouteKept'
  <2>1. /\ c \in Legacy /\ UNCHANGED <<id, rx>>
        /\ udpClients' = [udpClients EXCEPT ![UdpAddr[c]] = id[c]]
        /\ \A d \in Conn \ {c} : pc'[d] = pc[d]
    BY <1>2, <1>a DEF InsertRoute, TypeOK, Stage
  <2> QED
    BY <1>a, <1>b, <2>1 DEF RouteKept, OwnAddresses, TypeOK
<1>3. ASSUME NEW c \in Conn, RemoveRoute(c) PROVE RouteKept'
  <2>1. /\ c \in Legacy /\ UNCHANGED <<id, rx>> /\ pc'[c] = "done"
        /\ udpClients' = [udpClients EXCEPT ![UdpAddr[c]] = NoId]
        /\ \A d \in Conn \ {c} : pc'[d] = pc[d]
    BY <1>3, <1>a DEF RemoveRoute, TypeOK, Stage
  <2> QED
    BY <1>a, <1>b, <2>1 DEF RouteKept, OwnAddresses, TypeOK
<1>4. ASSUME NEW c \in Conn,
             GiveUp(c) \/ InsertPlayer(c) \/ Reply(c) \/ ReplyFails(c)
                 \/ NoticeGone(c) \/ KernelNotices(c) \/ RemovePlayer(c)
      PROVE  RouteKept'
  BY <1>4, <1>a, <1>b
     DEF GiveUp, InsertPlayer, Reply, ReplyFails, NoticeGone, KernelNotices,
         RemovePlayer, TypeOK, Legacy, RouteKept
<1>5. ASSUME NEW c \in Conn, LookUp(c) PROVE RouteKept'
  <2>1. /\ c \in Legacy /\ udpClients[UdpAddr[c]] # NoId
        /\ rx' = [from |-> c, pid |-> udpClients[UdpAddr[c]]]
        /\ UNCHANGED <<udpClients, id, pc>>
    BY <1>5 DEF LookUp
  <2>2. PICK d \in Legacy :
            UdpAddr[d] = UdpAddr[c]
            /\ pc[d] \in {"reply", "serving", "leaving", "unmap"}
    BY <1>b, <2>1 DEF RouteHasOwner
  <2>3. udpClients[UdpAddr[c]] = id[c]
    BY <2>1, <2>2 DEF OwnAddresses, RouteKept
  <2> QED
    BY <2>1, <2>3 DEF RouteKept
<1>6. CASE ApplyInput
  BY <1>6 DEF ApplyInput, RouteKept
<1>7. CASE UNCHANGED <<udpClients, pc, id, rx>>
  BY <1>7 DEF RouteKept
<1> QED
  BY <1>1, <1>2, <1>3, <1>4, <1>5, <1>6, <1>7
     DEF Next, Task, Open, Hangup, vars

LEMMA RouteKeptAlways ==
    ASSUME OwnAddresses
    PROVE  Spec => [](Inv /\ RouteKept)
<1>1. Init => RouteKept
  BY SessionsConstants DEF Init, RouteKept, Legacy
<1>2. Inv /\ RouteHasOwner /\ RouteKept /\ [Next]_vars => RouteKept'
  BY RouteKeptStep
<1> QED
  BY <1>1, <1>2, Inductive, RoutesHaveOwners, PTL DEF Spec

\* A legacy client with an address of its own can play as long as it is there.
THEOREM RoutedIfOwnAddresses ==
    ASSUME OwnAddresses
    PROVE  Spec => []Routed
<1>1. Inv /\ RouteKept => Routed
  BY DEF RouteKept, Routed
<1> QED
  BY <1>1, RouteKeptAlways, PTL

\* Input is applied to the sender's Player or to nobody's, although its id was
\* looked up under another lock than it is used under.
THEOREM InputIsOwn ==
    ASSUME OwnAddresses
    PROVE  Spec => []InputReachesOwner
<1>1. Inv /\ RouteKept => InputReachesOwner
  <2> SUFFICES ASSUME Inv, RouteKept, ~usedUp, rx # NoInput,
                      players[rx.pid] # NoConn
               PROVE  players[rx.pid] = rx.from
    BY DEF InputReachesOwner
  <2>1. rx.from \in Conn /\ rx.pid \in Id /\ rx.pid = id[rx.from]
    BY SessionsConstants DEF Inv, TypeOK, RouteKept, Legacy
  <2>2. players[rx.pid] \in Conn /\ id[players[rx.pid]] = rx.pid
    BY <2>1 DEF Inv, IdInv, TypeOK, NoGhost
  <2> QED
    BY <2>1, <2>2, SessionsConstants DEF Inv, IdInv, UniqueIds
<1> QED
  BY <1>1, RouteKeptAlways, PTL

-----------------------------------------------------------------------------
(* Sessions implements Roster.                                             *)

\* As long as ids are unique, who is in the map can be read off the tasks.
ByTask ==
    \A c \in Conn :
        Member(c) = IF Registered(c) THEN "in"
                    ELSE IF pc[c] \in {"new", "insert"} THEN "out" ELSE "gone"

LEMMA MemberByTask == Inv /\ ~usedUp => ByTask
<1> SUFFICES ASSUME Inv, ~usedUp, NEW c \in Conn
             PROVE  /\ Registered(c) => InMap(c)
                    /\ InMap(c) => Registered(c)
  BY DEF ByTask, Member
<1>1. Registered(c) => InMap(c)
  BY DEF Inv, IdInv, Stage, OwnEntry, Registered, InMap
<1>2. InMap(c) => Registered(c)
  <2> SUFFICES ASSUME InMap(c) PROVE Registered(c)
    OBVIOUS
  <2>1. id[c] \in Id /\ players[id[c]] = c
    BY DEF InMap, Inv, TypeOK
  <2> QED
    BY <2>1, SessionsConstants DEF Inv, IdInv, NoGhost
<1> QED
  BY <1>1, <1>2

\* As long as the ids last, the players map keeps the promise of Roster.
THEOREM SessionsImplementRoster == Spec /\ []~usedUp => ImplementsRoster
<1>1. Init => R!Init
  BY DEF Init, R!Init, Member, InMap
<1>2. ASSUME Inv, ~usedUp, ByTask', [Next]_vars
      PROVE  [R!Next]_(R!vars)
  <2> DEFINE Stays(c) == Member(c)' = Member(c)
  <2>a. TypeOK /\ \A c \in Conn : Stage(c)
    BY <1>2 DEF Inv, IdInv
  <2>b. \A c \in Conn :
            Member(c) = IF Registered(c) THEN "in"
                        ELSE IF pc[c] \in {"new", "insert"} THEN "out"
                        ELSE "gone"
    BY <1>2, MemberByTask DEF ByTask
  <2>c. \A c \in Conn :
            Member(c)' = IF Registered(c)' THEN "in"
                         ELSE IF pc'[c] \in {"new", "insert"} THEN "out"
                         ELSE "gone"
    BY <1>2 DEF ByTask
  <2> USE DEF taskVars, At, Registered
  <2>1. ASSUME NEW c \in Conn, Open(c) PROVE UNCHANGED R!vars
    <3>1. \A d \in Conn : Stays(d)
      BY <2>1, <2>b, <2>c DEF Open
    <3>2. \A d \in Conn : link'[d] \in {"none", "open"} <=> link[d] \in {"none", "open"}
      BY <2>1, <2>a DEF Open, TypeOK
    <3> QED
      BY <3>1, <3>2 DEF R!vars
  <2>2. ASSUME NEW c \in Conn, Hangup(c) PROVE R!Disconnect(c)
    <3>1. \A d \in Conn : Stays(d)
      BY <2>2, <2>b, <2>c DEF Hangup
    <3>2. /\ link[c] = "open" /\ link'[c] \notin {"none", "open"}
          /\ \A d \in Conn \ {c} : link'[d] = link[d]
      BY <2>2, <2>a DEF Hangup, Live, TypeOK
    <3>3. UNCHANGED [d \in Conn |-> Member(d)]
      BY <3>1
    <3> QED
      BY <3>2, <3>3 DEF R!Disconnect
  <2>3. ASSUME NEW c \in Conn, InsertPlayer(c) PROVE R!Enter(c)
    <3>1. /\ Member(c) = "out" /\ Member(c)' = "in" /\ link' = link
          /\ \A d \in Conn \ {c} : Stays(d)
      BY <2>3, <2>a, <2>b, <2>c DEF InsertPlayer, TypeOK
    <3> QED
      BY <3>1 DEF R!Enter
  <2>4. ASSUME NEW c \in Conn, RemovePlayer(c) PROVE R!Exit(c)
    <3>1. /\ Member(c) = "in" /\ Member(c)' = "gone" /\ link' = link
          /\ link[c] \in {"closed", "vanished"}
          /\ \A d \in Conn \ {c} : Stays(d)
      BY <2>4, <2>a, <2>b, <2>c DEF RemovePlayer, TypeOK, Stage
    <3> QED
      BY <3>1 DEF R!Exit
  <2>5. ASSUME NEW c \in Conn, GiveUp(c) PROVE R!Refuse(c)
    <3>1. /\ Member(c) = "out" /\ Member(c)' = "gone" /\ link' = link
          /\ link[c] \in {"closed", "vanished"}
          /\ \A d \in Conn \ {c} : Stays(d)
      BY <2>5, <2>a, <2>b, <2>c DEF GiveUp, TypeOK
    <3> QED
      BY <3>1 DEF R!Refuse
  <2>6. ASSUME NEW c \in Conn,
               DrawId(c) \/ InsertRoute(c) \/ Reply(c) \/ ReplyFails(c)
                   \/ NoticeGone(c) \/ KernelNotices(c) \/ RemoveRoute(c)
        PROVE  UNCHANGED R!vars
    <3>1. link' = link /\ \A d \in Conn : Stays(d)
      BY <2>6, <2>a, <2>b, <2>c
         DEF DrawId, InsertRoute, Reply, ReplyFails, NoticeGone,
             KernelNotices, RemoveRoute, TypeOK
    <3> QED
      BY <3>1 DEF R!vars
  <2>7. ASSUME UNCHANGED <<pc, link>> PROVE UNCHANGED R!vars
    <3>1. \A d \in Conn : Stays(d)
      BY <2>7, <2>b, <2>c
    <3> QED
      BY <2>7, <3>1 DEF R!vars
  <2> QED
    BY <1>2, <2>1, <2>2, <2>3, <2>4, <2>5, <2>6, <2>7
       DEF Next, Task, LookUp, ApplyInput, vars, R!Next
<1> QED
  BY <1>1, <1>2, MemberByTask, Inductive, PTL DEF Spec, R!Spec, ImplementsRoster
=============================================================================
