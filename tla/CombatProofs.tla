---------------------------- MODULE CombatProofs ----------------------------
(***************************************************************************)
(* Theorems about Combat, for any number of players on either transport,   *)
(* any health, damage and arena.                                           *)
(*                                                                         *)
(* The inductive invariant is IInv: the types, the two safety properties,  *)
(* and that a client that has not joined has no entry and was never hurt.  *)
(***************************************************************************)
EXTENDS Combat, FiniteSetTheorems, TLAPS

NotYetHurt == \A p \in Player : client[p] = "out" => p \notin present /\ alive[p]

IInv == TypeOK /\ NotYetHurt /\ AliveIffHealthy /\ DeathNotForgotten

-----------------------------------------------------------------------------
\* What Append does to the messages of a queue: one more is in flight.
LEMMA InFlightAppend ==
    ASSUME NEW S, NEW q \in Seq(S), NEW m \in S, NEW n
    PROVE  InFlight(n, Append(q, m)) <=> InFlight(n, q) \/ n = m
<1>1. /\ Len(Append(q, m)) = Len(q) + 1
      /\ \A i \in 1 .. Len(q) : Append(q, m)[i] = q[i]
      /\ Append(q, m)[Len(q) + 1] = m
  OBVIOUS
<1>2. /\ DOMAIN q = 1 .. Len(q)
      /\ DOMAIN Append(q, m) = 1 .. Len(q) + 1
      /\ Len(q) \in Nat
  OBVIOUS
<1> QED
  BY <1>1, <1>2 DEF InFlight

\* So nothing that is in flight is lost by an Append.
LEMMA InFlightKept ==
    ASSUME NEW S, NEW q \in Seq(S), NEW m \in S, NEW n, InFlight(n, q),
           NEW r, r = q \/ r = Append(q, m)
    PROVE  InFlight(n, r)
<1>1. CASE r = q
  BY <1>1
<1>2. CASE r = Append(q, m)
  <2>1. InFlight(n, Append(q, m))
    BY InFlightAppend
  <2> QED
    BY <1>2, <2>1
<1> QED
  BY <1>1, <1>2

\* What Tail does: only the head is no longer in flight.
LEMMA InFlightTail ==
    ASSUME NEW S, NEW q \in Seq(S), q # <<>>, NEW n,
           InFlight(n, q), n # Head(q)
    PROVE  InFlight(n, Tail(q))
<1>1. /\ Len(Tail(q)) = Len(q) - 1
      /\ \A i \in 1 .. Len(q) - 1 : Tail(q)[i] = q[i + 1]
      /\ Head(q) = q[1]
  OBVIOUS
<1>2. /\ DOMAIN q = 1 .. Len(q)
      /\ Len(q) \in Nat
      /\ DOMAIN Tail(q) = 1 .. Len(q) - 1
  OBVIOUS
<1>3. PICK i \in 1 .. Len(q) : q[i] = n
  BY <1>2 DEF InFlight
<1>4. i # 1 /\ i - 1 \in 1 .. Len(q) - 1
  BY <1>1, <1>2, <1>3
<1>5. Tail(q)[i - 1] = n
  BY <1>1, <1>3, <1>4
<1> QED
  BY <1>2, <1>4, <1>5 DEF InFlight

LEMMA TypeInit == Init => TypeOK
BY CombatConstants DEF Init, TypeOK

\* Send keeps the type of the queues, whoever it sends to.
LEMMA SendType ==
    ASSUME TypeOK, NEW q, NEW m \in ClientMessage, Send(q, m)
    PROVE  toClient' \in [Player -> Seq(ClientMessage)]
<1> USE DEF TypeOK
<1>1. CASE q \in Player
  <2>1. Append(toClient[q], m) \in Seq(ClientMessage)
    BY <1>1
  <2> QED
    BY <1>1, <2>1 DEF Send
<1>2. CASE q \notin Player
  BY <1>2 DEF Send
<1> QED
  BY <1>1, <1>2

\* Send adds at most its message to any queue.
LEMMA SendOne ==
    ASSUME TypeOK, NEW q \in Player, NEW v, NEW m,
           Send(v, m) \/ UNCHANGED toClient
    PROVE  toClient'[q] = toClient[q] \/ toClient'[q] = Append(toClient[q], m)
<1>1. CASE UNCHANGED toClient
  BY <1>1
<1>2. CASE toClient' = [toClient EXCEPT ![v] = Append(@, m)]
  <2>1. CASE v = q
    BY <1>2, <2>1 DEF TypeOK
  <2>2. CASE v # q
    BY <1>2, <2>2 DEF TypeOK
  <2> QED
    BY <2>1, <2>2
<1> QED
  BY <1>1, <1>2 DEF Send

LEMMA TypeStep == TypeOK /\ [Next]_vars => TypeOK'
<1> SUFFICES ASSUME TypeOK, [Next]_vars PROVE TypeOK'
  OBVIOUS
<1> USE CombatConstants DEF TypeOK, entryVars, taskVars, clientVars
<1>1. ASSUME NEW p \in Player, Join(p) PROVE TypeOK'
  BY <1>1 DEF Join
<1>2. ASSUME NEW p \in Player, Quit(p) PROVE TypeOK'
  BY <1>2 DEF Quit
<1>3. ASSUME NEW p \in Player, Leave(p) PROVE TypeOK'
  <2>1. present' \subseteq Player /\ toServer' \in [Player -> Seq(Request)]
    BY <1>3 DEF Leave
  <2>2. UNCHANGED <<health, alive, pos, taskVars, toClient, clientVars, contested>>
    BY <1>3 DEF Leave
  <2> QED
    BY <2>1, <2>2
<1>4. ASSUME NEW p \in Player, CollectVictims(p) PROVE TypeOK'
  BY <1>4 DEF CollectVictims, Collect, Serving
<1>5. ASSUME NEW p \in Player, Strike(p) PROVE TypeOK'
  <2>1. PICK v \in victims[p] \cap present :
               /\ victims' = [victims EXCEPT ![p] = @ \ {v}]
               /\ health' = [health EXCEPT ![v] = health[v] - Damage]
               /\ alive' = [alive EXCEPT ![v] =
                               IF health[v] - Damage <= 0 THEN FALSE ELSE @]
               /\ victim' = [victim EXCEPT ![p] = v]
               /\ newHealth' = [newHealth EXCEPT ![p] = health[v] - Damage]
    BY <1>5 DEF Strike
  <2>2. v \in Player /\ health[v] - Damage \in Int
    OBVIOUS
  <2>3. /\ victims' \in [Player -> SUBSET Player]
        /\ health' \in [Player -> Int]
        /\ alive' \in [Player -> BOOLEAN]
        /\ victim' \in [Player -> Player \cup {NoPlayer}]
        /\ newHealth' \in [Player -> Int]
    BY <2>1, <2>2
  <2> QED
    BY <1>5, <2>3 DEF Strike
<1>6. ASSUME NEW p \in Player, SkipDeparted(p) PROVE TypeOK'
  <2>1. PICK v \in victims[p] : victims' = [victims EXCEPT ![p] = @ \ {v}]
    BY <1>6 DEF SkipDeparted
  <2> QED
    BY <1>6, <2>1 DEF SkipDeparted
<1>7. ASSUME NEW p \in Player, FetchHandle(p) PROVE TypeOK'
  BY <1>7 DEF FetchHandle
<1>8. ASSUME NEW p \in Player, TellHealth(p) PROVE TypeOK'
  <2>1. HealthUpdate(newHealth[p]) \in ClientMessage
    BY DEF HealthUpdate, ClientMessage
  <2>2. toClient' \in [Player -> Seq(ClientMessage)]
    BY <1>8, <2>1, SendType DEF TellHealth, Tell
  <2>3. /\ pc' \in [Player -> {"idle", "strike", "fetch", "tell", "mourn"}]
        /\ victim' \in [Player -> Player \cup {NoPlayer}]
        /\ newHealth' \in [Player -> Int]
        /\ handle' \in [Player -> BOOLEAN]
    <3>1. CASE newHealth[p] <= 0
      BY <1>8, <3>1 DEF TellHealth, Tell
    <3>2. CASE ~ (newHealth[p] <= 0)
      <4>1. NextVictim(p)
        BY <1>8, <3>2 DEF TellHealth, Tell
      <4> QED
        BY <4>1 DEF NextVictim
    <3> QED
      BY <3>1, <3>2
  <2>4. UNCHANGED <<entryVars, victims, toServer, clientVars, contested>>
    BY <1>8 DEF TellHealth, Tell
  <2> QED
    BY <2>2, <2>3, <2>4
<1>9. ASSUME NEW p \in Player, TellDeath(p) PROVE TypeOK'
  <2>1. YouDied \in ClientMessage
    BY DEF YouDied, ClientMessage
  <2>2. toClient' \in [Player -> Seq(ClientMessage)]
    BY <1>9, <2>1, SendType DEF TellDeath
  <2>3. NextVictim(p) /\ UNCHANGED <<entryVars, victims, toServer, clientVars, contested>>
    BY <1>9 DEF TellDeath
  <2> QED
    BY <2>2, <2>3 DEF NextVictim
<1>10. ASSUME NEW p \in Player, FinishSwing(p) PROVE TypeOK'
  BY <1>10 DEF FinishSwing
<1>11. ASSUME NEW p \in Player, Respawn(p) PROVE TypeOK'
  BY <1>11 DEF Respawn, Serving
<1>12. ASSUME NEW p \in Player, Move(p) PROVE TypeOK'
  BY <1>12 DEF Move
<1>13. ASSUME NEW p \in Player, Swing(p) PROVE TypeOK'
  <2>1. toServer' \in [Player -> Seq(Request)]
    BY <1>13 DEF Swing, Request
  <2> QED
    BY <1>13, <2>1 DEF Swing
<1>14. ASSUME NEW p \in Player, CoolDown(p) PROVE TypeOK'
  BY <1>14 DEF CoolDown
<1>15. ASSUME NEW p \in Player, ReceiveHealth(p) PROVE TypeOK'
  <2>1. Head(toClient[p]) \in ClientMessage /\ Head(toClient[p]).type = "health"
    BY <1>15 DEF ReceiveHealth, Receiving, Taking
  <2>2. DecodeHealth(Head(toClient[p]).health) \in Int
    BY <2>1 DEF ClientMessage, DecodeHealth
  <2>3. hud' \in [Player -> Int]
    BY <1>15, <2>2 DEF ReceiveHealth
  <2>4. missed' \in [Player -> SUBSET {"health", "died"}]
    BY <1>15 DEF ReceiveHealth, Receiving
  <2>5. toClient' \in [Player -> Seq(ClientMessage)]
    BY <1>15 DEF ReceiveHealth, Receiving, Taking
  <2>6. UNCHANGED <<entryVars, taskVars, toServer, client, cooling, contested>>
    BY <1>15 DEF ReceiveHealth
  <2> QED
    BY <2>3, <2>4, <2>5, <2>6
<1>16. ASSUME NEW p \in Player, ReceiveDeath(p) PROVE TypeOK'
  <2>1. client' \in [Player -> {"out", "playing", "dead", "menu", "quit"}]
    BY <1>16 DEF ReceiveDeath
  <2>2. missed' \in [Player -> SUBSET {"health", "died"}]
    BY <1>16 DEF ReceiveDeath, Receiving
  <2>3. toClient' \in [Player -> Seq(ClientMessage)]
    BY <1>16 DEF ReceiveDeath, Receiving, Taking
  <2>4. UNCHANGED <<entryVars, taskVars, toServer, cooling, hud, contested>>
    BY <1>16 DEF ReceiveDeath
  <2> QED
    BY <2>1, <2>2, <2>3, <2>4
<1>17. ASSUME NEW p \in Player, RespawnCountdown(p) PROVE TypeOK'
  <2>1. toServer' \in [Player -> Seq(Request)]
    BY <1>17 DEF RespawnCountdown, Request
  <2> QED
    BY <1>17, <2>1 DEF RespawnCountdown
<1>18. ASSUME NEW p \in Player, TimeOut(p) PROVE TypeOK'
  BY <1>18 DEF TimeOut
<1>19. ASSUME NEW p \in Player, Discard(p) PROVE TypeOK'
  BY <1>19 DEF Discard, Taking
<1>20. ASSUME NEW p \in Player, ReceiveTorn(p) PROVE TypeOK'
  <2>1. PICK type \in {"health", "died"} :
            Taking(p, type) /\ missed' = [missed EXCEPT ![p] = @ \cup {type}]
    BY <1>20 DEF ReceiveTorn
  <2>2. missed' \in [Player -> SUBSET {"health", "died"}]
    BY <2>1
  <2>3. toClient' \in [Player -> Seq(ClientMessage)]
    BY <2>1 DEF Taking
  <2> QED
    BY <1>20, <2>2, <2>3 DEF ReceiveTorn
<1>21. CASE UNCHANGED vars
  BY <1>21 DEF vars
<1> QED
  BY <1>1, <1>2, <1>3, <1>4, <1>5, <1>6, <1>7, <1>8, <1>9, <1>10, <1>11,
     <1>12, <1>13, <1>14, <1>15, <1>16, <1>17, <1>18, <1>19, <1>20, <1>21
     DEF Next, Task, Frame, User

\* Every variable keeps its type: in particular a player stays in the arena,
\* and a queue holds only messages of its direction.
THEOREM TypeCorrect == Spec => []TypeOK
BY TypeInit, TypeStep, PTL DEF Spec

-----------------------------------------------------------------------------
LEMMA IInvInit == Init => IInv
<1> SUFFICES ASSUME Init PROVE IInv
  OBVIOUS
<1>1. TypeOK
  BY TypeInit
<1> QED
  BY <1>1, CombatConstants
     DEF Init, IInv, NotYetHurt, AliveIffHealthy, DeathNotForgotten

\* Nobody is hurt before joining: only those that have an entry are hit.
LEMMA NotYetHurtStep == IInv /\ [Next]_vars => NotYetHurt'
<1> SUFFICES ASSUME IInv, [Next]_vars, NEW q \in Player, client'[q] = "out"
             PROVE  q \notin present' /\ alive'[q]
  BY DEF NotYetHurt
<1>1. TypeOK
  BY DEF IInv
<1>2. client[q] = "out" => q \notin present /\ alive[q]
  BY DEF IInv, NotYetHurt
<1> USE DEF entryVars, taskVars, clientVars
<1>3. ASSUME NEW p \in Player,
             \/ Join(p) \/ Quit(p) \/ ReceiveDeath(p) \/ RespawnCountdown(p)
             \/ TimeOut(p)
      PROVE  q \notin present' /\ alive'[q]
  BY <1>1, <1>2, <1>3
     DEF TypeOK, Join, Quit, ReceiveDeath, RespawnCountdown, TimeOut
<1>4. ASSUME NEW p \in Player, Strike(p)
      PROVE  q \notin present' /\ alive'[q]
  BY <1>1, <1>2, <1>4 DEF TypeOK, Strike
<1>5. ASSUME NEW p \in Player, Respawn(p) \/ Leave(p)
      PROVE  q \notin present' /\ alive'[q]
  BY <1>1, <1>2, <1>5 DEF TypeOK, Respawn, Leave
<1>6. ASSUME UNCHANGED <<present, alive, client>>
      PROVE  q \notin present' /\ alive'[q]
  BY <1>2, <1>6
<1> QED
  BY <1>3, <1>4, <1>5, <1>6
     DEF Next, Task, Frame, User, vars, CollectVictims, Collect, SkipDeparted,
         FetchHandle, TellHealth, Tell, TellDeath, FinishSwing, Move, Swing,
         CoolDown, ReceiveHealth, Discard, ReceiveTorn

\* A hit and a respawn are the only steps that change alive or health, and
\* both change them together.
LEMMA AliveIffHealthyStep == IInv /\ [Next]_vars => AliveIffHealthy'
<1> SUFFICES ASSUME IInv, [Next]_vars PROVE AliveIffHealthy'
  OBVIOUS
<1>1. TypeOK /\ AliveIffHealthy
  BY DEF IInv
<1> USE DEF entryVars, taskVars, clientVars
<1>2. ASSUME NEW p \in Player, Strike(p)
      PROVE  AliveIffHealthy'
  <2>1. PICK v \in victims[p] \cap present :
               /\ health' = [health EXCEPT ![v] = health[v] - Damage]
               /\ alive' = [alive EXCEPT ![v] =
                               IF health[v] - Damage <= 0 THEN FALSE ELSE @]
    BY <1>2 DEF Strike
  <2>2. v \in Player /\ health[v] \in Int /\ Damage \in Nat
    BY <1>1, CombatConstants DEF TypeOK
  <2>3. alive'[v] <=> health'[v] > 0
    <3>1. CASE health[v] - Damage <= 0
      BY <1>1, <2>1, <2>2, <3>1 DEF TypeOK
    <3>2. CASE health[v] - Damage > 0
      BY <1>1, <2>1, <2>2, <3>2 DEF TypeOK, AliveIffHealthy
    <3> QED
      BY <2>2, <3>1, <3>2
  <2>4. \A q \in Player \ {v} : alive'[q] = alive[q] /\ health'[q] = health[q]
    BY <1>1, <2>1, <2>2 DEF TypeOK
  <2> QED
    BY <1>1, <2>3, <2>4 DEF AliveIffHealthy
<1>3. ASSUME NEW p \in Player, Respawn(p)
      PROVE  AliveIffHealthy'
  BY <1>1, <1>3, CombatConstants DEF TypeOK, AliveIffHealthy, Respawn
<1>4. ASSUME UNCHANGED <<alive, health>>
      PROVE  AliveIffHealthy'
  BY <1>1, <1>4 DEF AliveIffHealthy
<1> QED
  BY <1>2, <1>3, <1>4
     DEF Next, Task, Frame, User, vars, Join, Quit, Leave, CollectVictims,
         Collect, SkipDeparted, FetchHandle, TellHealth, Tell, TellDeath,
         FinishSwing, Move, Swing, CoolDown, ReceiveHealth, ReceiveDeath,
         RespawnCountdown, TimeOut, Discard, ReceiveTorn

\* Task t is the one NoticeDue speaks of.
DueFrom(t, q) ==
    /\ victim[t] = q
    /\ newHealth[t] <= 0
    /\ pc[t] = "fetch" \/ (pc[t] \in {"tell", "mourn"} /\ handle[t])

\* What is enough for a dead player to be remembered after a step that hurts
\* nobody: its entry, its client and its two queues lose nothing, and the task
\* that owes it YouDied still does.
LEMMA StillRemembered ==
    ASSUME NEW q \in Player, Remembered(q),
           \A t \in Player : DueFrom(t, q) => DueFrom(t, q)',
           InFlight(YouDied, toClient[q]) => InFlight(YouDied, toClient'[q]),
           InFlight("respawn", toServer[q]) => InFlight("respawn", toServer'[q]),
           client[q] = "dead" => client'[q] = "dead"
    PROVE  Remembered(q)'
BY DEF Remembered, NoticeDue, DueFrom

\* A task that tells its victim changes nothing of what another owes.
LEMMA OthersKept ==
    ASSUME TypeOK, NEW p \in Player, TellHealth(p) \/ TellDeath(p),
           NEW t \in Player, t # p, NEW q, DueFrom(t, q)
    PROVE  DueFrom(t, q)'
<1>1. \/ pc' = [pc EXCEPT ![p] = "mourn"] /\ UNCHANGED <<victim, newHealth, handle>>
      \/ NextVictim(p)
  BY DEF TellHealth, Tell, TellDeath
<1>2. /\ pc'[t] = pc[t] /\ victim'[t] = victim[t]
      /\ newHealth'[t] = newHealth[t] /\ handle'[t] = handle[t]
  BY <1>1 DEF NextVictim, TypeOK
<1> QED
  BY <1>2 DEF DueFrom

\* The invariant of the chain from the killing hit to the respawn request.
LEMMA DeathNotForgottenStep == IInv /\ [Next]_vars => DeathNotForgotten'
<1> SUFFICES ASSUME IInv, [Next]_vars,
                    NEW q \in present', ~alive'[q], ~Lost(q)'
             PROVE  Remembered(q)'
  BY DEF DeathNotForgotten
<1>a. TypeOK /\ NotYetHurt /\ AliveIffHealthy /\ TypeOK'
  BY TypeStep DEF IInv
<1>b. q \in Player
  BY <1>a DEF TypeOK
<1>c. ASSUME q \in present, ~alive[q], ~Lost(q)
      PROVE  Remembered(q)
  BY <1>c DEF IInv, DeathNotForgotten
<1>d. /\ toClient[q] \in Seq(ClientMessage) /\ YouDied \in ClientMessage
      /\ toServer[q] \in Seq(Request)
      /\ "swing" \in Request /\ "respawn" \in Request
  BY <1>a, <1>b DEF TypeOK, YouDied, ClientMessage, Request
<1> USE DEF entryVars, taskVars, clientVars, Lost
<1>1. ASSUME NEW p \in Player, Join(p) PROVE Remembered(q)'
  <2>1. q # p
    BY <1>1, <1>a, <1>b DEF Join, NotYetHurt, TypeOK
  <2>2. Remembered(q)
    BY <1>1, <2>1, <1>a, <1>b, <1>c DEF Join, TypeOK
  <2> QED
    BY <1>1, <2>1, <2>2, <1>a, <1>b
       DEF Join, TypeOK, Remembered, NoticeDue, InFlight
<1>2. ASSUME NEW p \in Player, Quit(p) PROVE Remembered(q)'
  <2>1. q # p
    BY <1>2, <1>a, <1>b DEF Quit, TypeOK
  <2>2. Remembered(q)
    BY <1>2, <2>1, <1>a, <1>b, <1>c DEF Quit, TypeOK
  <2> QED
    BY <1>2, <2>1, <2>2, <1>a, <1>b
       DEF Quit, TypeOK, Remembered, NoticeDue, InFlight
<1>3. ASSUME NEW p \in Player, Leave(p) PROVE Remembered(q)'
  <2>1. q # p /\ Remembered(q)
    BY <1>3, <1>a, <1>b, <1>c DEF Leave, TypeOK
  <2> QED
    BY <1>3, <2>1, <1>a, <1>b
       DEF Leave, TypeOK, Remembered, NoticeDue, InFlight
<1>4. ASSUME NEW p \in Player, CollectVictims(p) PROVE Remembered(q)'
  <2>1. Remembered(q)
    BY <1>4, <1>c DEF CollectVictims, Collect
  <2>2. \A t \in Player : DueFrom(t, q) => DueFrom(t, q)'
    BY <1>4, <1>a DEF CollectVictims, Collect, Serving, TypeOK, DueFrom
  <2>3. InFlight("respawn", toServer[q]) => InFlight("respawn", toServer'[q])
    <3>1. CASE q = p
      <4>1. /\ toServer[q] # <<>> /\ "respawn" # Head(toServer[q])
            /\ toServer'[q] = Tail(toServer[q])
        BY <1>4, <1>a, <3>1 DEF CollectVictims, Collect, Serving, TypeOK
      <4> QED
        BY <4>1, <1>d, InFlightTail
    <3>2. CASE q # p
      BY <1>4, <1>a, <1>b, <3>2 DEF CollectVictims, Collect, Serving, TypeOK
    <3> QED
      BY <3>1, <3>2
  <2> QED
    BY <1>4, <1>b, <2>1, <2>2, <2>3, StillRemembered
       DEF CollectVictims, Collect
<1>5. ASSUME NEW p \in Player, Strike(p) PROVE Remembered(q)'
  <2>1. PICK v \in victims[p] \cap present :
               /\ alive' = [alive EXCEPT ![v] =
                               IF health[v] - Damage <= 0 THEN FALSE ELSE @]
               /\ victim' = [victim EXCEPT ![p] = v]
               /\ newHealth' = [newHealth EXCEPT ![p] = health[v] - Damage]
    BY <1>5 DEF Strike
  <2>2. v \in Player /\ health[v] \in Int /\ Damage \in Nat
    BY <1>a, CombatConstants DEF TypeOK
  <2>3. CASE q = v
    <3>1. health[v] - Damage <= 0
      <4>1. SUFFICES ASSUME health[v] - Damage > 0 PROVE alive'[q]
        BY <2>2
      <4>2. alive[v]
        BY <1>a, <2>2, <4>1 DEF AliveIffHealthy
      <4> QED
        BY <1>a, <2>1, <2>2, <2>3, <4>1, <4>2 DEF TypeOK
    <3>2. DueFrom(p, q)'
      BY <1>5, <1>a, <2>1, <2>2, <2>3, <3>1 DEF DueFrom, Strike, TypeOK
    <3> QED
      BY <3>2 DEF Remembered, NoticeDue, DueFrom
  <2>4. CASE q # v
    <3>1. Remembered(q)
      BY <1>5, <1>a, <1>b, <1>c, <2>1, <2>2, <2>4 DEF Strike, TypeOK
    <3>2. ASSUME NEW t \in Player, DueFrom(t, q) PROVE DueFrom(t, q)'
      <4>1. t # p
        BY <1>5, <3>2 DEF Strike, DueFrom
      <4> QED
        BY <1>5, <1>a, <2>1, <3>2, <4>1 DEF Strike, TypeOK, DueFrom
    <3> QED
      BY <1>5, <1>b, <3>1, <3>2, StillRemembered DEF Strike
  <2> QED
    BY <2>3, <2>4
<1>6. ASSUME NEW p \in Player, SkipDeparted(p) PROVE Remembered(q)'
  BY <1>6, <1>b, <1>c, StillRemembered DEF SkipDeparted, DueFrom
<1>7. ASSUME NEW p \in Player, FetchHandle(p) PROVE Remembered(q)'
  <2>0. q \in present
    BY <1>7 DEF FetchHandle
  <2>1. ASSUME NEW t \in Player, DueFrom(t, q) PROVE DueFrom(t, q)'
    <3>1. CASE t = p
      <4>1. victim[p] \in present
        BY <2>0, <2>1, <3>1 DEF DueFrom
      <4>2. handle' = [handle EXCEPT ![p] = TRUE] /\ pc' = [pc EXCEPT ![p] = "tell"]
        BY <1>7, <4>1 DEF FetchHandle
      <4>3. pc'[t] = "tell" /\ handle'[t]
        BY <1>a, <3>1, <4>2 DEF TypeOK
      <4> QED
        BY <1>7, <2>1, <4>3 DEF FetchHandle, DueFrom
    <3>2. CASE t # p
      BY <1>7, <1>a, <2>1, <3>2 DEF FetchHandle, TypeOK, DueFrom
    <3> QED
      BY <3>1, <3>2
  <2> QED
    BY <1>7, <1>b, <1>c, <2>1, StillRemembered DEF FetchHandle
<1>8. ASSUME NEW p \in Player, TellHealth(p) PROVE Remembered(q)'
  <2>1. ASSUME NEW t \in Player, DueFrom(t, q) PROVE DueFrom(t, q)'
    <3>1. CASE t # p
      BY <1>a, <1>8, <2>1, <3>1, OthersKept
    <3>2. CASE t = p
      <4>1. pc[p] = "tell" /\ newHealth[p] <= 0
        BY <1>8, <2>1, <3>2 DEF TellHealth, Tell, DueFrom
      <4>2. UNCHANGED <<victim, newHealth, handle>> /\ pc' = [pc EXCEPT ![p] = "mourn"]
        BY <1>8, <4>1 DEF TellHealth, Tell
      <4>3. pc'[p] = "mourn"
        BY <1>a, <4>2 DEF TypeOK
      <4> QED
        BY <2>1, <3>2, <4>1, <4>2, <4>3 DEF DueFrom
    <3> QED
      BY <3>1, <3>2
  <2>2. HealthUpdate(newHealth[p]) \in ClientMessage
    BY <1>a DEF TypeOK, HealthUpdate, ClientMessage
  <2>3. \/ toClient'[q] = toClient[q]
        \/ toClient'[q] = Append(toClient[q], HealthUpdate(newHealth[p]))
    <3>1. Send(victim[p], HealthUpdate(newHealth[p])) \/ UNCHANGED toClient
      BY <1>8 DEF TellHealth, Tell
    <3> QED
      BY <3>1, <1>a, <1>b, SendOne
  <2>4. InFlight(YouDied, toClient[q]) => InFlight(YouDied, toClient'[q])
    BY <1>d, <2>2, <2>3, InFlightKept
  <2> QED
    BY <1>8, <1>b, <1>c, <2>1, <2>4, StillRemembered DEF TellHealth, Tell
<1>9. ASSUME NEW p \in Player, TellDeath(p) PROVE Remembered(q)'
  <2>1. Remembered(q)
    BY <1>9, <1>c DEF TellDeath
  <2>2. CASE DueFrom(p, q)
    <3>1. toClient'[q] = Append(toClient[q], YouDied)
      BY <1>9, <1>a, <1>b, <2>2 DEF TellDeath, Send, TypeOK, DueFrom
    <3>2. InFlight(YouDied, toClient'[q])
      BY <1>d, <3>1, InFlightAppend
    <3> QED
      BY <3>2 DEF Remembered
  <2>3. CASE ~DueFrom(p, q)
    <3>1. ASSUME NEW t \in Player, DueFrom(t, q) PROVE DueFrom(t, q)'
      <4>1. t # p
        BY <2>3, <3>1
      <4> QED
        BY <1>a, <1>9, <3>1, <4>1, OthersKept
    <3>2. \/ toClient'[q] = toClient[q]
          \/ toClient'[q] = Append(toClient[q], YouDied)
      <4>1. Send(victim[p], YouDied) \/ UNCHANGED toClient
        BY <1>9 DEF TellDeath
      <4> QED
        BY <4>1, <1>a, <1>b, SendOne
    <3>3. InFlight(YouDied, toClient[q]) => InFlight(YouDied, toClient'[q])
      BY <1>d, <3>2, InFlightKept
    <3> QED
      BY <1>9, <1>b, <2>1, <3>1, <3>3, StillRemembered DEF TellDeath
  <2> QED
    BY <2>2, <2>3
<1>10. ASSUME NEW p \in Player, FinishSwing(p) PROVE Remembered(q)'
  <2>1. \A t \in Player : DueFrom(t, q) => DueFrom(t, q)'
    BY <1>10, <1>a DEF FinishSwing, TypeOK, DueFrom
  <2> QED
    BY <1>10, <1>b, <1>c, <2>1, StillRemembered DEF FinishSwing
<1>11. ASSUME NEW p \in Player, Respawn(p) PROVE Remembered(q)'
  <2>1. q # p
    BY <1>11, <1>a, <1>b DEF Respawn, TypeOK
  <2>2. Remembered(q) /\ toServer'[q] = toServer[q]
    BY <1>11, <1>a, <1>b, <1>c, <2>1 DEF Respawn, Serving, TypeOK
  <2> QED
    BY <1>11, <1>b, <2>2, StillRemembered DEF Respawn, DueFrom
<1>12. ASSUME NEW p \in Player, Move(p) \/ CoolDown(p) PROVE Remembered(q)'
  BY <1>12, <1>b, <1>c, StillRemembered DEF Move, CoolDown, DueFrom
<1>13. ASSUME NEW p \in Player, Swing(p) PROVE Remembered(q)'
  <2>1. \/ toServer'[q] = toServer[q]
        \/ toServer'[q] = Append(toServer[q], "swing")
    BY <1>13, <1>a, <1>b DEF Swing, TypeOK
  <2>2. InFlight("respawn", toServer[q]) => InFlight("respawn", toServer'[q])
    BY <1>d, <2>1, InFlightKept
  <2> QED
    BY <1>13, <1>b, <1>c, <2>2, StillRemembered DEF Swing, DueFrom
<1>14. ASSUME NEW p \in Player, ReceiveHealth(p) PROVE Remembered(q)'
  <2>1. InFlight(YouDied, toClient[q]) => InFlight(YouDied, toClient'[q])
    <3>1. CASE q = p
      <4>1. /\ toClient[q] # <<>> /\ YouDied # Head(toClient[q])
            /\ toClient'[q] = Tail(toClient[q])
        BY <1>14, <1>a, <3>1 DEF ReceiveHealth, Receiving, Taking, TypeOK, YouDied
      <4> QED
        BY <4>1, <1>d, InFlightTail
    <3>2. CASE q # p
      BY <1>14, <1>a, <1>b, <3>2 DEF ReceiveHealth, Receiving, Taking, TypeOK
    <3> QED
      BY <3>1, <3>2
  <2>2. Remembered(q)
    BY <1>14, <1>a, <1>b, <1>c DEF ReceiveHealth, Receiving, TypeOK
  <2> QED
    BY <1>14, <1>b, <2>1, <2>2, StillRemembered DEF ReceiveHealth, DueFrom
<1>15. ASSUME NEW p \in Player, ReceiveDeath(p) PROVE Remembered(q)'
  <2>1. CASE q = p
    <3>1. client'[q] = "dead"
      BY <1>15, <1>a, <2>1 DEF ReceiveDeath, TypeOK
    <3> QED
      BY <3>1 DEF Remembered
  <2>2. CASE q # p
    <3>1. /\ client'[q] = client[q] /\ toClient'[q] = toClient[q]
          /\ missed'[q] = missed[q]
      BY <1>15, <1>a, <1>b, <2>2 DEF ReceiveDeath, Receiving, Taking, TypeOK
    <3> QED
      BY <1>15, <1>b, <1>c, <3>1, StillRemembered DEF ReceiveDeath, DueFrom
  <2> QED
    BY <2>1, <2>2
<1>16. ASSUME NEW p \in Player, RespawnCountdown(p) PROVE Remembered(q)'
  <2>1. CASE q = p
    <3>1. toServer'[q] = Append(toServer[q], "respawn")
      BY <1>16, <1>a, <2>1 DEF RespawnCountdown, TypeOK
    <3>2. InFlight("respawn", toServer'[q])
      BY <1>d, <3>1, InFlightAppend
    <3> QED
      BY <3>2 DEF Remembered
  <2>2. CASE q # p
    <3>1. /\ client'[q] = client[q] /\ toServer'[q] = toServer[q]
          /\ missed'[q] = missed[q]
      BY <1>16, <1>a, <1>b, <2>2 DEF RespawnCountdown, TypeOK
    <3> QED
      BY <1>16, <1>b, <1>c, <3>1, StillRemembered DEF RespawnCountdown, DueFrom
  <2> QED
    BY <2>1, <2>2
<1>17. ASSUME NEW p \in Player, TimeOut(p) PROVE Remembered(q)'
  <2>1. client'[q] = client[q]
    BY <1>17, <1>a, <1>b DEF TimeOut, TypeOK
  <2> QED
    BY <1>17, <1>b, <1>c, <2>1, StillRemembered DEF TimeOut, DueFrom
<1>18. ASSUME NEW p \in Player, Discard(p) PROVE Remembered(q)'
  <2>1. q # p
    BY <1>18, <1>a, <1>b DEF Discard
  <2>2. toClient'[q] = toClient[q]
    BY <1>18, <2>1, <1>a, <1>b DEF Discard, Taking, TypeOK
  <2> QED
    BY <1>18, <1>b, <1>c, <2>2, StillRemembered DEF Discard, DueFrom
<1>19. ASSUME NEW p \in Player, ReceiveTorn(p) PROVE Remembered(q)'
  <2>1. PICK type \in {"health", "died"} :
            /\ Taking(p, type)
            /\ missed' = [missed EXCEPT ![p] = @ \cup {type}]
    BY <1>19 DEF ReceiveTorn
  <2>2. Remembered(q)
    BY <1>19, <2>1, <1>a, <1>b, <1>c DEF ReceiveTorn, TypeOK
  <2>3. InFlight(YouDied, toClient[q]) => InFlight(YouDied, toClient'[q])
    <3>1. CASE q = p
      <4>1. type = "health"
        BY <2>1, <3>1, <1>a, <1>b DEF TypeOK
      <4>2. /\ toClient[q] # <<>> /\ YouDied # Head(toClient[q])
            /\ toClient'[q] = Tail(toClient[q])
        BY <2>1, <4>1, <1>a, <3>1 DEF Taking, TypeOK, YouDied
      <4> QED
        BY <4>2, <1>d, InFlightTail
    <3>2. CASE q # p
      BY <2>1, <1>a, <1>b, <3>2 DEF Taking, TypeOK
    <3> QED
      BY <3>1, <3>2
  <2> QED
    BY <1>19, <1>b, <2>2, <2>3, StillRemembered DEF ReceiveTorn, DueFrom
<1>20. CASE UNCHANGED vars
  BY <1>20, <1>b, <1>c, StillRemembered DEF vars, DueFrom
<1> QED
  BY <1>1, <1>2, <1>3, <1>4, <1>5, <1>6, <1>7, <1>8, <1>9, <1>10, <1>11,
     <1>12, <1>13, <1>14, <1>15, <1>16, <1>17, <1>18, <1>19, <1>20
     DEF Next, Task, Frame, User

LEMMA Inductive == Spec => []IInv
<1>1. IInv /\ [Next]_vars => IInv'
  BY TypeStep, NotYetHurtStep, AliveIffHealthyStep, DeathNotForgottenStep
     DEF IInv
<1> QED
  BY <1>1, IInvInit, PTL DEF Spec

-----------------------------------------------------------------------------
\* At every step of every task a player is alive exactly if it has health left.
THEOREM AliveIffHealthyAlways == Spec => []AliveIffHealthy
<1>1. IInv => AliveIffHealthy
  BY DEF IInv
<1> QED
  BY <1>1, Inductive, PTL

\* No death is forgotten, in any fight of any number: unless its client is gone,
\* back in the menu or has lost YouDied, there is between the killing hit and the
\* respawn always a task, a message or a countdown that brings the player back.
THEOREM DeathNeverForgotten == Spec => []DeathNotForgotten
<1>1. IInv => DeathNotForgotten
  BY DEF IInv
<1> QED
  BY <1>1, Inductive, PTL

-----------------------------------------------------------------------------
(* The bound on overkill.  A dead player can only be hit by the swings that *)
(* still hold it as a victim, and each of them hits it once.                *)

Holders(p) == {t \in Player : p \in victims[t]}

\* How many more hits than the killing one p can have taken so far.
Spare(p) == Cardinality(Player) - 1 - Cardinality(Holders(p))

OwnVictims ==
    \A p \in Player : p \notin victims[p] /\ (pc[p] = "idle" => victims[p] = {})

DeadBounded ==
    \A p \in Player : ~alive[p] => health[p] > -(Damage * Spare(p))

OInv == OwnVictims /\ DeadBounded

\* The holders of p are players other than p.
LEMMA HoldersFinite ==
    ASSUME TypeOK, OwnVictims, NEW p \in Player
    PROVE  /\ IsFiniteSet(Holders(p))
           /\ Cardinality(Holders(p)) \in Nat
           /\ Cardinality(Player) \in Nat
           /\ Spare(p) \in Nat
<1>1. IsFiniteSet(Player) /\ Cardinality(Player) \in Nat
  BY CombatConstants, FS_CardinalityType
<1>2. IsFiniteSet(Player \ {p}) /\ Cardinality(Player \ {p}) = Cardinality(Player) - 1
  BY <1>1, FS_RemoveElement
<1>3. Holders(p) \subseteq Player \ {p}
  BY DEF Holders, OwnVictims
<1>4. IsFiniteSet(Holders(p)) /\ Cardinality(Holders(p)) <= Cardinality(Player \ {p})
  BY <1>2, <1>3, FS_Subset
<1>5. Cardinality(Holders(p)) \in Nat
  BY <1>4, FS_CardinalityType
<1> QED
  BY <1>1, <1>2, <1>4, <1>5 DEF Spare

\* A dead player that is not hit and has no new holder stays within bounds.
LEMMA NotHit ==
    ASSUME TypeOK, OwnVictims, TypeOK', OwnVictims', NEW p \in Player,
           ~alive[p] => health[p] > -(Damage * Spare(p)),
           ~alive'[p] => ~alive[p] /\ health'[p] = health[p]
                                   /\ Holders(p)' \subseteq Holders(p)
    PROVE  ~alive'[p] => health'[p] > -(Damage * Spare(p)')
<1> SUFFICES ASSUME ~alive'[p] PROVE health'[p] > -(Damage * Spare(p)')
  OBVIOUS
<1>1. /\ IsFiniteSet(Holders(p)) /\ Cardinality(Holders(p)) \in Nat
      /\ Cardinality(Player) \in Nat /\ Spare(p) \in Nat
  BY HoldersFinite
<1>2. Cardinality(Holders(p)') <= Cardinality(Holders(p))
  BY <1>1, FS_Subset
<1>3. Cardinality(Holders(p)') \in Nat
  BY <1>1, FS_Subset, FS_CardinalityType
<1>4. Spare(p)' \in Nat /\ Spare(p) <= Spare(p)'
  BY <1>1, <1>2, <1>3 DEF Spare
<1>5. Damage \in Nat /\ health'[p] \in Int
  BY CombatConstants DEF TypeOK
<1>6. Damage * Spare(p) <= Damage * Spare(p)'
  BY <1>1, <1>4, <1>5, SMTT(30)
<1>7. Damage * Spare(p) \in Nat /\ Damage * Spare(p)' \in Nat
  BY <1>1, <1>4, <1>5
<1> QED
  BY <1>5, <1>6, <1>7

LEMMA OwnVictimsStep == IInv /\ OInv /\ [Next]_vars => OwnVictims'
<1> SUFFICES ASSUME IInv, OInv, [Next]_vars PROVE OwnVictims'
  OBVIOUS
<1>1. TypeOK /\ OwnVictims
  BY DEF IInv, OInv
<1> USE <1>1 DEF OwnVictims, TypeOK, entryVars, taskVars, clientVars
<1>2. ASSUME NEW p \in Player, CollectVictims(p) PROVE OwnVictims'
  BY <1>2 DEF CollectVictims, Collect
<1>3. ASSUME NEW p \in Player, Strike(p) PROVE OwnVictims'
  <2>1. PICK v \in victims[p] : victims' = [victims EXCEPT ![p] = @ \ {v}]
    BY <1>3 DEF Strike
  <2>2. pc'[p] = "fetch" /\ \A t \in Player \ {p} : pc'[t] = pc[t]
    BY <1>3 DEF Strike
  <2> QED
    BY <2>1, <2>2
<1>4. ASSUME NEW p \in Player, SkipDeparted(p) PROVE OwnVictims'
  <2>1. PICK v \in victims[p] : victims' = [victims EXCEPT ![p] = @ \ {v}]
    BY <1>4 DEF SkipDeparted
  <2>2. pc[p] = "strike" /\ pc' = pc
    BY <1>4 DEF SkipDeparted
  <2> QED
    BY <2>1, <2>2
<1>5. ASSUME NEW p \in Player,
             FetchHandle(p) \/ TellHealth(p) \/ TellDeath(p) \/ FinishSwing(p)
      PROVE  OwnVictims'
  BY <1>5 DEF FetchHandle, TellHealth, Tell, TellDeath, NextVictim, FinishSwing
<1>6. ASSUME UNCHANGED <<pc, victims>> PROVE OwnVictims'
  BY <1>6
<1> QED
  BY <1>2, <1>3, <1>4, <1>5, <1>6
     DEF Next, Task, Frame, User, vars, Join, Quit, Leave, Respawn, Move,
         Swing, CoolDown, ReceiveHealth, ReceiveDeath, RespawnCountdown,
         TimeOut, Discard, ReceiveTorn

LEMMA DeadBoundedStep == IInv /\ OInv /\ [Next]_vars => DeadBounded'
<1> SUFFICES ASSUME IInv, OInv, [Next]_vars, NEW q \in Player
             PROVE  ~alive'[q] => health'[q] > -(Damage * Spare(q)')
  BY DEF DeadBounded, Spare, Holders
<1>a. /\ TypeOK /\ OwnVictims /\ AliveIffHealthy /\ TypeOK' /\ OwnVictims'
      /\ ~alive[q] => health[q] > -(Damage * Spare(q))
  BY TypeStep, OwnVictimsStep DEF IInv, OInv, DeadBounded
<1>b. Damage \in Nat /\ health[q] \in Int
  BY <1>a, CombatConstants DEF TypeOK
<1> USE DEF entryVars, taskVars, clientVars
<1>1. ASSUME NEW p \in Player, CollectVictims(p)
      PROVE  ~alive'[q] => health'[q] > -(Damage * Spare(q)')
  <2>1. ~alive[q] => Holders(q)' \subseteq Holders(q)
    BY <1>a, <1>1 DEF CollectVictims, Collect, Holders, TypeOK
  <2> QED
    BY <1>a, <1>1, <2>1, NotHit DEF CollectVictims, Collect
<1>2. ASSUME NEW p \in Player, Strike(p)
      PROVE  ~alive'[q] => health'[q] > -(Damage * Spare(q)')
  <2>1. PICK v \in victims[p] \cap present :
               /\ victims' = [victims EXCEPT ![p] = @ \ {v}]
               /\ health' = [health EXCEPT ![v] = health[v] - Damage]
               /\ alive' = [alive EXCEPT ![v] =
                               IF health[v] - Damage <= 0 THEN FALSE ELSE @]
    BY <1>2 DEF Strike
  <2>2. v \in Player
    BY <1>a DEF TypeOK
  <2>3. CASE q # v
    <3>1. alive'[q] = alive[q] /\ health'[q] = health[q]
      BY <1>a, <2>1, <2>3 DEF TypeOK
    <3>2. Holders(q)' \subseteq Holders(q)
      BY <1>a, <2>1 DEF Holders, TypeOK
    <3> QED
      BY <1>a, <3>1, <3>2, NotHit
  <2>4. CASE q = v
    <3>1. Holders(q)' = Holders(q) \ {p} /\ p \in Holders(q)
      BY <1>a, <2>1, <2>4 DEF Holders, TypeOK
    <3>2. /\ IsFiniteSet(Holders(q)) /\ Cardinality(Holders(q)) \in Nat
          /\ Cardinality(Player) \in Nat /\ Spare(q) \in Nat
      BY <1>a, HoldersFinite
    <3>3. Cardinality(Holders(q)') = Cardinality(Holders(q)) - 1
      BY <3>1, <3>2, FS_RemoveElement
    <3>4. Spare(q)' = Spare(q) + 1
      BY <3>2, <3>3 DEF Spare
    <3>5. health'[q] = health[q] - Damage
      BY <1>a, <2>1, <2>4 DEF TypeOK
    <3>6. /\ Damage * (Spare(q) + 1) = Damage * Spare(q) + Damage
          /\ Damage * Spare(q) \in Nat
      BY <1>b, <3>2
    <3>7. health[q] > -(Damage * Spare(q))
      BY <1>a, <1>b, <3>2, <3>6 DEF AliveIffHealthy
    <3> QED
      BY <1>b, <3>4, <3>5, <3>6, <3>7
  <2> QED
    BY <2>3, <2>4
<1>3. ASSUME NEW p \in Player, SkipDeparted(p)
      PROVE  ~alive'[q] => health'[q] > -(Damage * Spare(q)')
  <2>1. PICK v \in victims[p] : victims' = [victims EXCEPT ![p] = @ \ {v}]
    BY <1>3 DEF SkipDeparted
  <2>2. Holders(q)' \subseteq Holders(q)
    BY <1>a, <2>1 DEF Holders, TypeOK
  <2> QED
    BY <1>a, <1>3, <2>2, NotHit DEF SkipDeparted
<1>4. ASSUME NEW p \in Player, Respawn(p)
      PROVE  ~alive'[q] => health'[q] > -(Damage * Spare(q)')
  <2>1. Holders(q)' = Holders(q)
    BY <1>4 DEF Respawn, Holders
  <2>2. ~alive'[q] => ~alive[q] /\ health'[q] = health[q]
    BY <1>a, <1>4 DEF Respawn, TypeOK
  <2> QED
    BY <1>a, <2>1, <2>2, NotHit
<1>5. ASSUME UNCHANGED <<alive, health, victims>>
      PROVE  ~alive'[q] => health'[q] > -(Damage * Spare(q)')
  BY <1>a, <1>5, NotHit DEF Holders
<1> QED
  BY <1>1, <1>2, <1>3, <1>4, <1>5
     DEF Next, Task, Frame, User, vars, Join, Quit, Leave, FetchHandle,
         TellHealth, Tell, TellDeath, FinishSwing, Move, Swing, CoolDown,
         ReceiveHealth, ReceiveDeath, RespawnCountdown, TimeOut, Discard,
         ReceiveTorn

\* However many swings race, each of the other players takes at most one hit
\* more out of a player that is already dead.
THEOREM OverkillIsBounded == Spec => []OverkillBounded
<1>1. Init => OInv
  BY DEF Init, OInv, OwnVictims, DeadBounded
<1>2. IInv /\ OInv /\ [Next]_vars => OInv'
  BY OwnVictimsStep, DeadBoundedStep DEF OInv
<1>3. IInv /\ OInv => OverkillBounded
  <2> SUFFICES ASSUME IInv, OInv, NEW p \in Player
               PROVE  health[p] > -Damage * (Cardinality(Player) - 1)
    BY DEF OverkillBounded
  <2>1. /\ Cardinality(Holders(p)) \in Nat
        /\ Cardinality(Player) \in Nat /\ Spare(p) \in Nat
    BY HoldersFinite DEF IInv, OInv
  <2>2. Damage \in Nat /\ health[p] \in Int
    BY CombatConstants DEF IInv, TypeOK
  <2> DEFINE n == Cardinality(Player) - 1
  <2>3. n \in Nat /\ Spare(p) <= n
    BY <2>1 DEF Spare
  <2>4. /\ Damage * Spare(p) <= Damage * n
        /\ Damage * Spare(p) \in Nat /\ Damage * n \in Nat
    BY <2>1, <2>2, <2>3, SMTT(30)
  <2>5. health[p] > -(Damage * Spare(p))
    BY <2>1, <2>2, <2>4 DEF IInv, OInv, DeadBounded, AliveIffHealthy
  <2> QED
    BY <2>2, <2>3, <2>4, <2>5
<1> QED
  BY <1>1, <1>2, <1>3, Inductive, PTL DEF Spec
=============================================================================
