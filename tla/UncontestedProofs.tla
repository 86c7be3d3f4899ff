-------------------------- MODULE UncontestedProofs --------------------------
(***************************************************************************)
(* What Combat promises to a player that never was the victim of two       *)
(* swings at one time, whatever the others do to each other.               *)
(*                                                                         *)
(* The messages to such a player come from one task at a time, in the      *)
(* order of its hits, and its death is in one place at a time: with the    *)
(* killer's task, in YouDied, on the death screen or in the request to     *)
(* respawn.  UncontestedInv is that, strengthened until it is inductive;   *)
(* the runs of Combat show what becomes of the others.                     *)
(***************************************************************************)
EXTENDS CombatProofs, SequenceTheorems

\* Task t has hit p and has not told p everything yet.
Telling(t, p) == pc[t] \in {"fetch", "tell", "mourn"} /\ victim[t] = p

Told(p) == \A t \in Player : ~ Telling(t, p)

\* Task t has p in its hand, hit or not yet.
Holds(t, p) == p \in victims[t] \/ Telling(t, p)

\* Of a player that has not joined: it is fresh, and in nobody's hand.
FreshOK(p) ==
    client[p] = "out" =>
        /\ p \notin present
        /\ health[p] = MaxHealth
        /\ hud[p] = MaxHealth
        /\ toServer[p] = <<>>
        /\ toClient[p] = <<>>
        /\ \A t \in Player : ~ Holds(t, p)

\* Of the tasks: one at most has p in its hand; if it has p still to hit, p is
\* alive, and if it has hit p, then p has the health that it will report.
TasksOK(p) ==
    /\ \A t, u \in Player : Holds(t, p) /\ Holds(u, p) => t = u
    /\ \A t \in Player :
           /\ p \in victims[t] => alive[p]
           /\ Telling(t, p) =>
                  /\ newHealth[t] = health[p]
                  /\ pc[t] = "mourn" => ~alive[p]
                  /\ pc[t] # "fetch" /\ p \in present => handle[t]

\* Of a death: it is in one place at a time.
DeathOK(p) ==
    /\ health[p] <= MaxHealth
    /\ InFlight(YouDied, toClient[p]) =>
           /\ ~alive[p] /\ Told(p) /\ client[p] # "dead"
           /\ ~ InFlight("respawn", toServer[p])
           /\ \A i \in 1 .. Len(toClient[p]) - 1 : toClient[p][i] # YouDied
    /\ client[p] = "dead" =>
           /\ ~alive[p] /\ Told(p) /\ toClient[p] = <<>>
           /\ ~ InFlight("respawn", toServer[p])
    /\ InFlight("respawn", toServer[p]) =>
           /\ ~alive[p] /\ Told(p) /\ toClient[p] = <<>>
           /\ hud[p] = MaxHealth
           /\ \A i, j \in DOMAIN toServer[p] :
                  toServer[p][i] = "respawn" /\ toServer[p][j] = "respawn" => i = j

\* Of the label: what is sent last is the health on the server.
LabelOK(p) ==
    /\ p \in present /\ p \notin WtPlayer
    /\ alive[p] /\ Told(p)
    /\ client[p] \notin {"menu", "quit"}
    => IF toClient[p] = <<>> THEN "health" \notin missed[p] => hud[p] = health[p]
       ELSE toClient[p][Len(toClient[p])] = HealthUpdate(health[p])

UncontestedInv ==
    /\ \A p \in Player : FreshOK(p)
    /\ \A p \in Player \ contested : TasksOK(p) /\ DeathOK(p) /\ LabelOK(p)

-----------------------------------------------------------------------------
(* Consequences                                                            *)

\* The three places in which a death can be besides its killer's task exclude
\* that the killer is still telling it, and that the victim lives.
LEMMA OnePlace ==
    ASSUME NEW p \in Player, DeathOK(p),
           alive[p] \/ \E t \in Player : Telling(t, p)
    PROVE  /\ ~ InFlight(YouDied, toClient[p])
           /\ client[p] # "dead"
           /\ ~ InFlight("respawn", toServer[p])
BY DEF DeathOK, Told

\* A request that is read was in flight, and what is in flight after that was
\* in flight before.
LEMMA TailOf ==
    ASSUME NEW S, NEW q \in Seq(S), q # <<>>
    PROVE  /\ InFlight(Head(q), q)
           /\ \A n : InFlight(n, Tail(q)) => InFlight(n, q)
           /\ Len(Tail(q)) = Len(q) - 1
           /\ \A i \in 1 .. Len(q) - 1 : Tail(q)[i] = q[i + 1]
           /\ Head(q) = q[1]
           /\ DOMAIN q = 1 .. Len(q) /\ Len(q) \in Nat \ {0}
           /\ DOMAIN Tail(q) = 1 .. Len(q) - 1
           /\ Tail(q) \in Seq(S)
<1>1. /\ Len(Tail(q)) = Len(q) - 1
      /\ \A i \in 1 .. Len(q) - 1 : Tail(q)[i] = q[i + 1]
      /\ Head(q) = q[1]
      /\ DOMAIN q = 1 .. Len(q) /\ Len(q) \in Nat \ {0}
      /\ DOMAIN Tail(q) = 1 .. Len(q) - 1
      /\ Tail(q) \in Seq(S)
  OBVIOUS
<1>2. InFlight(Head(q), q)
  BY <1>1 DEF InFlight
<1>3. ASSUME NEW n, InFlight(n, Tail(q)) PROVE InFlight(n, q)
  <2>1. PICK i \in 1 .. Len(q) - 1 : Tail(q)[i] = n
    BY <1>1, <1>3 DEF InFlight
  <2>2. i + 1 \in 1 .. Len(q) /\ q[i + 1] = n
    BY <1>1, <2>1
  <2> QED
    BY <1>1, <2>2 DEF InFlight
<1> QED
  BY <1>1, <1>2, <1>3

LEMMA OneLess ==
    ASSUME NEW n \in Nat \ {0}
    PROVE  /\ n - 1 = 0 => n = 1
           /\ n - 1 # 0 => n - 1 \in 1 .. n - 1 /\ n - 1 + 1 = n
OBVIOUS

LEMMA SmallRemainder ==
    ASSUME NEW m \in Nat \ {0}, NEW n \in Int, 0 <= n, n < m
    PROVE  n % m = n
OBVIOUS

LEMMA NoneBefore ==
    ASSUME NEW n \in Nat \ {0}, 1 \notin 1 .. n - 1
    PROVE  n = 1
OBVIOUS

LEMMA NothingInFlight == \A n : ~ InFlight(n, <<>>)
BY DEF InFlight


\* The last message of a queue stays the last, or is the one that is read.
LEMMA LastOfTail ==
    ASSUME NEW S, NEW q \in Seq(S), q # <<>>
    PROVE  /\ Tail(q) = <<>> => Head(q) = q[Len(q)]
           /\ Tail(q) # <<>> => Tail(q)[Len(Tail(q))] = q[Len(q)]
<1>1. /\ Len(Tail(q)) = Len(q) - 1
      /\ \A i \in 1 .. Len(q) - 1 : Tail(q)[i] = q[i + 1]
      /\ Head(q) = q[1]
      /\ Len(q) \in Nat \ {0}
      /\ Tail(q) \in Seq(S)
  BY TailOf
<1>2. CASE Tail(q) = <<>>
  <2>1. Len(q) - 1 = 0
    BY <1>1, <1>2, EmptySeq
  <2>2. Len(q) = 1
    BY <1>1, <2>1, OneLess
  <2> QED
    BY <1>1, <1>2, <2>2
<1>3. CASE Tail(q) # <<>>
  <2>1. Len(q) - 1 # 0
    BY <1>1, <1>3, EmptySeq
  <2>2. /\ Len(q) - 1 \in 1 .. Len(q) - 1
        /\ Len(q) - 1 + 1 = Len(q)
    BY <1>1, <2>1, OneLess
  <2>3. Tail(q)[Len(q) - 1] = q[Len(q)]
    BY <1>1, <2>2
  <2> QED
    BY <1>1, <1>3, <2>3
<1> QED
  BY <1>2, <1>3

LEMMA UncontestedInit == Init => UncontestedInv
<1> SUFFICES ASSUME Init, NEW p \in Player
             PROVE  FreshOK(p) /\ TasksOK(p) /\ DeathOK(p) /\ LabelOK(p)
  BY DEF UncontestedInv
<1>1. \A n : ~ InFlight(n, <<>>)
  BY NothingInFlight
<1>2. \A t \in Player : ~ Holds(t, p) /\ ~ Telling(t, p)
  BY DEF Init, Holds, Telling
<1> QED
  BY <1>1, <1>2, CombatConstants
     DEF Init, FreshOK, TasksOK, DeathOK, LabelOK, Holds, Told

-----------------------------------------------------------------------------
(* Who has whom in hand                                                    *)

\* Only a swing that collects p takes it in hand, and if another has p then,
\* p is contested from then on.
LEMMA HandStep ==
    ASSUME TypeOK, [Next]_vars, NEW q \in Player
    PROVE  /\ q \in contested => q \in contested'
           /\ \A t \in Player : Holds(t, q)' =>
                  \/ Holds(t, q)
                  \/ /\ q \in present /\ alive[q] /\ pc'[t] = "strike"
                     /\ \A u \in Player \ {t} :
                            /\ Holds(u, q)' => Holds(u, q)
                            /\ Holds(u, q) => q \in contested'
<1> DEFINE Kept == /\ q \in contested => q \in contested'
                   /\ \A t \in Player : Holds(t, q)' => Holds(t, q)
<1> USE DEF entryVars, taskVars, clientVars
<1>1. ASSUME NEW p \in Player, CollectVictims(p)
      PROVE  /\ q \in contested => q \in contested'
             /\ \A t \in Player : Holds(t, q)' =>
                    \/ Holds(t, q)
                    \/ /\ q \in present /\ alive[q] /\ pc'[t] = "strike"
                       /\ \A u \in Player \ {t} :
                              /\ Holds(u, q)' => Holds(u, q)
                              /\ Holds(u, q) => q \in contested'
  <2> DEFINE c == {r \in present \ {p} : alive[r] /\ InRange(pos[r], pos[p])}
  <2>1. /\ victims' = [victims EXCEPT ![p] = c]
        /\ contested' = contested \cup
               (c \cap UNION {InHand(t) : t \in Player \ {p}})
        /\ pc' = [pc EXCEPT ![p] = "strike"]
        /\ victim' = victim
    BY <1>1 DEF CollectVictims, Collect
  <2>2. \A u \in Player \ {p} : Holds(u, q)' <=> Holds(u, q)
    BY <2>1 DEF Holds, Telling, TypeOK
  <2>3. Holds(p, q)' => q \in c /\ pc'[p] = "strike"
    BY <2>1 DEF Holds, Telling, TypeOK
  <2>4. \A u \in Player \ {p} : q \in c /\ Holds(u, q) => q \in contested'
    <3>1. \A u \in Player \ {p} : Holds(u, q) => q \in InHand(u)
      BY DEF Holds, Telling, InHand
    <3> HIDE DEF c
    <3> QED
      BY <2>1, <3>1
  <2>5. q \in c => q \in present /\ alive[q]
    OBVIOUS
  <2> HIDE DEF c
  <2>6. q \in contested => q \in contested'
    BY <2>1
  <2>7. ASSUME NEW t \in Player, Holds(t, q)'
        PROVE  \/ Holds(t, q)
               \/ /\ q \in present /\ alive[q] /\ pc'[t] = "strike"
                  /\ \A u \in Player \ {t} :
                         /\ Holds(u, q)' => Holds(u, q)
                         /\ Holds(u, q) => q \in contested'
    BY <2>2, <2>3, <2>4, <2>5, <2>7, Zenon
  <2> QED
    BY <2>6, <2>7
<1>2. ASSUME NEW p \in Player, Strike(p) PROVE Kept
  <2>1. PICK v \in victims[p] :
               /\ victims' = [victims EXCEPT ![p] = @ \ {v}]
               /\ victim' = [victim EXCEPT ![p] = v]
    BY <1>2 DEF Strike
  <2>2. pc' = [pc EXCEPT ![p] = "fetch"] /\ contested' = contested
    BY <1>2 DEF Strike
  <2>3. Holds(p, q)' => Holds(p, q)
    BY <2>1, <2>2 DEF Holds, Telling, TypeOK
  <2>4. \A t \in Player \ {p} : Holds(t, q)' => Holds(t, q)
    BY <2>1, <2>2 DEF Holds, Telling, TypeOK
  <2> QED
    BY <2>2, <2>3, <2>4
<1>3. ASSUME NEW p \in Player, SkipDeparted(p) PROVE Kept
  <2>1. PICK v \in victims[p] : victims' = [victims EXCEPT ![p] = @ \ {v}]
    BY <1>3 DEF SkipDeparted
  <2>2. UNCHANGED <<pc, victim, contested>>
    BY <1>3 DEF SkipDeparted
  <2> QED
    BY <2>1, <2>2 DEF Holds, Telling, TypeOK
<1>4. ASSUME NEW p \in Player, FetchHandle(p) \/ FinishSwing(p) PROVE Kept
  <2>1. /\ UNCHANGED <<victims, victim, contested>>
        /\ \A t \in Player : pc'[t] = pc[t] \/ pc'[t] = "idle" \/ pc[t] = "fetch"
    BY <1>4 DEF FetchHandle, FinishSwing, TypeOK
  <2> QED
    BY <2>1 DEF Holds, Telling
<1>5. ASSUME NEW p \in Player, TellHealth(p) \/ TellDeath(p) PROVE Kept
  <2>1. /\ UNCHANGED <<victims, contested>>
        /\ pc[p] \in {"tell", "mourn"}
        /\ \/ pc' = [pc EXCEPT ![p] = "mourn"] /\ UNCHANGED victim
           \/ NextVictim(p)
    BY <1>5 DEF TellHealth, Tell, TellDeath
  <2>2. /\ \A t \in Player \ {p} : pc'[t] = pc[t] /\ victim'[t] = victim[t]
        /\ pc'[p] = "strike" \/ victim'[p] = victim[p]
    BY <2>1 DEF NextVictim, TypeOK
  <2> QED
    BY <2>1, <2>2 DEF Holds, Telling
<1>6. ASSUME UNCHANGED <<pc, victims, victim, contested>> PROVE Kept
  BY <1>6 DEF Holds, Telling
<1> QED
  BY <1>1, <1>2, <1>3, <1>4, <1>5, <1>6
     DEF Next, Task, Frame, User, vars, Join, Quit, Leave, Respawn, Move, Swing,
         CoolDown, ReceiveHealth, ReceiveDeath, RespawnCountdown, TimeOut,
         Discard, ReceiveTorn

\* Nobody is ever again as before joining.
LEMMA NobodyUnjoins ==
    ASSUME TypeOK, [Next]_vars, NEW q \in Player, client'[q] = "out"
    PROVE  client[q] = "out"
<1> USE DEF TypeOK, entryVars, taskVars, clientVars
<1>1. ASSUME NEW p \in Player, NEW c \in {"playing", "dead", "menu", "quit"},
             client' = [client EXCEPT ![p] = c]
      PROVE  client[q] = "out"
  <2>1. p # q
    BY <1>1
  <2> QED
    BY <1>1, <2>1
<1>2. ASSUME NEW p \in Player,
             \/ Join(p) \/ Quit(p) \/ ReceiveDeath(p) \/ RespawnCountdown(p)
             \/ TimeOut(p)
      PROVE  client[q] = "out"
  <2>1. \E c \in {"playing", "dead", "menu", "quit"} :
            client' = [client EXCEPT ![p] = c]
    BY <1>2 DEF Join, Quit, ReceiveDeath, RespawnCountdown, TimeOut
  <2> QED
    BY <1>1, <2>1
<1>3. CASE UNCHANGED client
  BY <1>3
<1> QED
  BY <1>2, <1>3
     DEF Next, Task, Frame, User, vars, Leave, CollectVictims, Collect, Strike,
         SkipDeparted, FetchHandle, TellHealth, Tell, TellDeath, FinishSwing,
         Respawn, Move, Swing, CoolDown, ReceiveHealth, Discard, ReceiveTorn

LEMMA FreshStep ==
    ASSUME IInv, UncontestedInv, [Next]_vars, NEW q \in Player
    PROVE  FreshOK(q)'
<1> DEFINE Fresh == /\ q \notin present'
                    /\ health'[q] = MaxHealth
                    /\ hud'[q] = MaxHealth
                    /\ toServer'[q] = <<>>
                    /\ toClient'[q] = <<>>
<1>a. TypeOK /\ NotYetHurt
  BY DEF IInv
<1>b. FreshOK(q)
  BY DEF UncontestedInv
<1> USE DEF entryVars, taskVars, clientVars
\* What holds of it before the step.
<1>c. SUFFICES ASSUME client'[q] = "out", client[q] = "out",
                      q \notin present, health[q] = MaxHealth,
                      hud[q] = MaxHealth, toServer[q] = <<>>, toClient[q] = <<>>,
                      \A t \in Player : ~ Holds(t, q)
               PROVE  Fresh
  <2>1. client'[q] = "out" => client[q] = "out"
    BY <1>a, NobodyUnjoins
  <2>2. ASSUME q \notin present, \A t \in Player : ~ Holds(t, q)
        PROVE  \A t \in Player : ~ Holds(t, q)'
    BY <1>a, <2>2, HandStep
  <2>3. ASSUME Fresh, \A t \in Player : ~ Holds(t, q)' PROVE FreshOK(q)'
    BY <2>3 DEF FreshOK, Holds, Telling
  <2> HIDE DEF Fresh
  <2>4. CASE client'[q] # "out"
    BY <2>4 DEF FreshOK
  <2>5. CASE client'[q] = "out"
    BY <1>b, <2>1, <2>2, <2>3, <2>5 DEF FreshOK
  <2> QED
    BY <2>4, <2>5
<1>1. ASSUME NEW p \in Player, Join(p) \/ Quit(p) \/ Leave(p) PROVE Fresh
  BY <1>1, <1>a, <1>c DEF Join, Quit, Leave, TypeOK
<1>2. ASSUME NEW p \in Player, CollectVictims(p) \/ Respawn(p) PROVE Fresh
  <2>1. p # q
    BY <1>2, <1>c DEF CollectVictims, Collect, Respawn, Serving
  <2> QED
    BY <1>2, <2>1, <1>a, <1>c
       DEF CollectVictims, Collect, Respawn, Serving, TypeOK
<1>3. ASSUME NEW p \in Player, Strike(p) PROVE Fresh
  <2>1. PICK v \in victims[p] \cap present :
            health' = [health EXCEPT ![v] = health[v] - Damage]
    BY <1>3 DEF Strike
  <2>2. v \in Player /\ v # q
    BY <1>a, <1>c DEF TypeOK
  <2> QED
    BY <1>3, <2>1, <2>2, <1>a, <1>c DEF Strike, TypeOK
<1>4. ASSUME NEW p \in Player, TellHealth(p) \/ TellDeath(p) PROVE Fresh
  <2>1. UNCHANGED <<entryVars, toServer, hud>>
    BY <1>4 DEF TellHealth, Tell, TellDeath
  <2>2. victim[p] # q
    BY <1>4, <1>c DEF TellHealth, Tell, TellDeath, Holds, Telling
  <2>3. \/ UNCHANGED toClient
        \/ \E m : toClient' = [toClient EXCEPT ![victim[p]] = Append(@, m)]
    BY <1>4 DEF TellHealth, Tell, TellDeath, Send
  <2>4. toClient'[q] = toClient[q]
    BY <2>2, <2>3, <1>a DEF TypeOK
  <2> QED
    BY <2>1, <2>4, <1>c
<1>5. ASSUME NEW p \in Player,
             Swing(p) \/ ReceiveHealth(p) \/ ReceiveDeath(p) \/ Discard(p)
                 \/ ReceiveTorn(p) \/ RespawnCountdown(p)
      PROVE  Fresh
  <2>1. p # q
    BY <1>5, <1>c
       DEF Swing, ReceiveHealth, ReceiveDeath, Receiving, Discard, ReceiveTorn,
           RespawnCountdown, InGame
  <2>2. UNCHANGED <<present, health>>
    BY <1>5 DEF Swing, ReceiveHealth, ReceiveDeath, Receiving, Discard,
                ReceiveTorn, RespawnCountdown
  <2>3. hud'[q] = hud[q] /\ toServer'[q] = toServer[q]
    BY <1>5, <2>1, <1>a
       DEF Swing, ReceiveHealth, ReceiveDeath, Receiving, Discard, ReceiveTorn,
           RespawnCountdown, TypeOK
  <2>4. UNCHANGED toClient \/ toClient' = [toClient EXCEPT ![p] = Tail(@)]
    BY <1>5 DEF Swing, ReceiveHealth, ReceiveDeath, Receiving, Taking, Discard,
                ReceiveTorn, RespawnCountdown
  <2>5. toClient'[q] = toClient[q]
    BY <2>1, <2>4, <1>a DEF TypeOK
  <2> QED
    BY <2>2, <2>3, <2>5, <1>c
<1>6. ASSUME UNCHANGED <<present, health, hud, toServer, toClient>>
      PROVE  Fresh
  BY <1>6, <1>c
<1> QED
  BY <1>1, <1>2, <1>3, <1>4, <1>5, <1>6
     DEF Next, Task, Frame, User, vars, SkipDeparted, FetchHandle, FinishSwing,
         Move, CoolDown, TimeOut

LEMMA TasksStep ==
    ASSUME IInv, UncontestedInv, [Next]_vars, NEW q \in Player,
           q \notin contested'
    PROVE  TasksOK(q)'
<1>a. TypeOK /\ AliveIffHealthy /\ TypeOK'
  BY TypeStep DEF IInv
<1>b. q \notin contested
  BY <1>a, HandStep
<1>c. TasksOK(q) /\ DeathOK(q)
  BY <1>b DEF UncontestedInv
<1> USE DEF entryVars, taskVars, clientVars
\* The first part: nobody takes q in hand whom another has.
<1>d. \A t, u \in Player : Holds(t, q)' /\ Holds(u, q)' => t = u
  <2>1. \A t, u \in Player : Holds(t, q) /\ Holds(u, q) => t = u
    BY <1>c DEF TasksOK
  <2>2. \A t \in Player : Holds(t, q)' =>
            \/ Holds(t, q)
            \/ \A u \in Player \ {t} :
                   (Holds(u, q)' => Holds(u, q)) /\ ~ Holds(u, q)
    BY <1>a, HandStep
  <2> QED
    BY <2>1, <2>2, Zenon
\* The second part, of one task.
<1> SUFFICES ASSUME NEW t \in Player
             PROVE  /\ q \in victims'[t] => alive'[q]
                    /\ Telling(t, q)' =>
                           /\ newHealth'[t] = health'[q]
                           /\ pc'[t] = "mourn" => ~alive'[q]
                           /\ pc'[t] # "fetch" /\ q \in present' => handle'[t]
  BY <1>d DEF TasksOK, Holds, Telling
<1> DEFINE Good == /\ q \in victims'[t] => alive'[q]
                   /\ Telling(t, q)' =>
                          /\ newHealth'[t] = health'[q]
                          /\ pc'[t] = "mourn" => ~alive'[q]
                          /\ pc'[t] # "fetch" /\ q \in present' => handle'[t]
<1>e. /\ q \in victims[t] => alive[q]
      /\ Telling(t, q) =>
             /\ newHealth[t] = health[q]
             /\ pc[t] = "mourn" => ~alive[q]
             /\ pc[t] # "fetch" /\ q \in present => handle[t]
  BY <1>c DEF TasksOK
<1>1. ASSUME NEW p \in Player, Join(p) PROVE Good
  <2>1. p = q => ~ Holds(t, q)
    BY <1>1 DEF Join, UncontestedInv, FreshOK
  <2>2. /\ UNCHANGED <<alive, health, taskVars>>
        /\ p # q /\ q \in present' => q \in present
    BY <1>1 DEF Join
  <2> QED
    BY <1>e, <2>1, <2>2 DEF Holds, Telling
<1>2. ASSUME NEW p \in Player, Leave(p) PROVE Good
  BY <1>2, <1>e DEF Leave, Telling
<1>3. ASSUME NEW p \in Player, CollectVictims(p) PROVE Good
  <2>1. CASE p = t
    <3>1. pc'[t] = "strike" /\ \A r \in victims'[t] : alive[r]
      BY <1>3, <2>1, <1>a DEF CollectVictims, Collect, TypeOK
    <3> QED
      BY <1>3, <3>1 DEF CollectVictims, Collect, Telling
  <2>2. CASE p # t
    BY <1>3, <2>2, <1>a, <1>e DEF CollectVictims, Collect, Telling, TypeOK
  <2> QED
    BY <2>1, <2>2
<1>4. ASSUME NEW p \in Player, Strike(p) PROVE Good
  <2>1. PICK v \in victims[p] \cap present :
               /\ victims' = [victims EXCEPT ![p] = @ \ {v}]
               /\ health' = [health EXCEPT ![v] = health[v] - Damage]
               /\ alive' = [alive EXCEPT ![v] =
                               IF health[v] - Damage <= 0 THEN FALSE ELSE @]
               /\ victim' = [victim EXCEPT ![p] = v]
               /\ newHealth' = [newHealth EXCEPT ![p] = health[v] - Damage]
    BY <1>4 DEF Strike
  <2>2. /\ v \in Player
        /\ pc' = [pc EXCEPT ![p] = "fetch"]
        /\ UNCHANGED <<present, handle>>
    BY <1>4, <1>a DEF Strike, TypeOK
  <2>3. CASE q = v /\ t = p
    <3>1. /\ q \notin victims'[t]
          /\ pc'[t] = "fetch" /\ newHealth'[t] = health'[q]
      BY <2>1, <2>2, <2>3, <1>a DEF TypeOK
    <3> QED
      BY <3>1
  <2>4. CASE q = v /\ t # p
    <3>1. ~ Holds(t, q)
      BY <2>1, <2>4, <1>c DEF TasksOK, Holds
    <3>2. /\ victims'[t] = victims[t] /\ pc'[t] = pc[t] /\ victim'[t] = victim[t]
      BY <2>1, <2>2, <2>4, <1>a DEF TypeOK
    <3> QED
      BY <3>1, <3>2 DEF Holds, Telling
  <2>5. CASE q # v
    <3>1. health'[q] = health[q] /\ alive'[q] = alive[q]
      BY <2>1, <2>5, <1>a DEF TypeOK
    <3>2. q \in victims'[t] => q \in victims[t]
      BY <2>1, <1>a DEF TypeOK
    <3>3. CASE t = p
      <4>1. victim'[t] = v
        BY <2>1, <3>3, <1>a DEF TypeOK
      <4> QED
        BY <4>1, <2>5, <3>1, <3>2, <1>e DEF Telling
    <3>4. CASE t # p
      <4>1. /\ pc'[t] = pc[t] /\ victim'[t] = victim[t]
            /\ newHealth'[t] = newHealth[t]
        BY <2>1, <2>2, <3>4, <1>a DEF TypeOK
      <4> QED
        BY <4>1, <2>2, <3>1, <3>2, <1>e DEF Telling
    <3> QED
      BY <3>3, <3>4
  <2> QED
    BY <2>3, <2>4, <2>5
<1>5. ASSUME NEW p \in Player, SkipDeparted(p) PROVE Good
  <2>1. PICK v \in victims[p] : victims' = [victims EXCEPT ![p] = @ \ {v}]
    BY <1>5 DEF SkipDeparted
  <2>2. q \in victims'[t] => q \in victims[t]
    BY <2>1, <1>a DEF TypeOK
  <2> QED
    BY <1>5, <2>2, <1>e DEF SkipDeparted, Telling
<1>6. ASSUME NEW p \in Player, FetchHandle(p) PROVE Good
  <2>1. CASE t = p
    <3>1. /\ pc'[t] = "tell" /\ pc[t] = "fetch"
          /\ UNCHANGED <<present, health, alive, victims, victim, newHealth>>
      BY <1>6, <2>1, <1>a DEF FetchHandle, TypeOK
    <3>2. ASSUME victim[p] = q, q \in present PROVE handle'[t]
      <4>1. handle' = [handle EXCEPT ![p] = TRUE]
        BY <1>6, <3>2 DEF FetchHandle
      <4> QED
        BY <4>1, <2>1, <1>a DEF TypeOK
    <3> QED
      BY <2>1, <3>1, <3>2, <1>e DEF Telling
  <2>2. CASE t # p
    BY <1>6, <2>2, <1>a, <1>e DEF FetchHandle, Telling, TypeOK
  <2> QED
    BY <2>1, <2>2
<1>7. ASSUME NEW p \in Player, TellHealth(p) PROVE Good
  <2>1. UNCHANGED <<present, health, alive, victims>>
    BY <1>7 DEF TellHealth, Tell
  <2>2. CASE newHealth[p] <= 0
    <3>1. /\ pc' = [pc EXCEPT ![p] = "mourn"] /\ pc[p] = "tell"
          /\ UNCHANGED <<victim, newHealth, handle>>
      BY <1>7, <2>2 DEF TellHealth, Tell
    <3>2. CASE t = p
      <4>1. pc'[t] = "mourn"
        BY <3>1, <3>2, <1>a DEF TypeOK
      <4>2. Telling(t, q) => newHealth[p] = health[q]
        BY <1>e, <3>2
      <4>3. Telling(t, q) => ~alive[q]
        <5>1. health[q] \in Int /\ (alive[q] <=> health[q] > 0)
          BY <1>a DEF AliveIffHealthy, TypeOK
        <5> QED
          BY <4>2, <2>2, <5>1
      <4> QED
        BY <2>1, <3>1, <3>2, <4>1, <4>3, <1>e DEF Telling
    <3>3. CASE t # p
      <4>1. pc'[t] = pc[t]
        BY <3>1, <3>3, <1>a DEF TypeOK
      <4> QED
        BY <2>1, <3>1, <4>1, <1>e DEF Telling
    <3> QED
      BY <3>2, <3>3
  <2>3. CASE ~ (newHealth[p] <= 0)
    <3>1. NextVictim(p)
      BY <1>7, <2>3 DEF TellHealth, Tell
    <3> QED
      BY <2>1, <3>1, <1>a, <1>e DEF NextVictim, Telling, TypeOK
  <2> QED
    BY <2>2, <2>3
<1>8. ASSUME NEW p \in Player, TellDeath(p) PROVE Good
  <2>1. UNCHANGED <<present, health, alive, victims>> /\ NextVictim(p)
    BY <1>8 DEF TellDeath
  <2> QED
    BY <2>1, <1>a, <1>e DEF NextVictim, Telling, TypeOK
<1>9. ASSUME NEW p \in Player, FinishSwing(p) PROVE Good
  <2>1. CASE t = p
    BY <1>9, <2>1, <1>a, <1>e DEF FinishSwing, Telling, TypeOK
  <2>2. CASE t # p
    BY <1>9, <2>2, <1>a, <1>e DEF FinishSwing, Telling, TypeOK
  <2> QED
    BY <2>1, <2>2
<1>10. ASSUME NEW p \in Player, Respawn(p) PROVE Good
  <2>1. /\ toServer[p] # <<>> /\ Head(toServer[p]) = "respawn"
        /\ alive' = [alive EXCEPT ![p] = TRUE]
        /\ health' = [health EXCEPT ![p] = MaxHealth]
        /\ UNCHANGED <<present, taskVars>>
    BY <1>10 DEF Respawn, Serving
  <2>2. CASE p = q
    <3>1. InFlight("respawn", toServer[q])
      BY <2>1, <2>2, <1>a, TailOf DEF TypeOK
    <3>2. ~ Telling(t, q)
      BY <3>1, <1>c DEF DeathOK, Told
    <3>3. alive'[q]
      BY <2>1, <2>2, <1>a DEF TypeOK
    <3> QED
      BY <2>1, <3>2, <3>3 DEF Telling
  <2>3. CASE p # q
    <3>1. alive'[q] = alive[q] /\ health'[q] = health[q]
      BY <2>1, <2>3, <1>a DEF TypeOK
    <3> QED
      BY <2>1, <3>1, <1>e DEF Telling
  <2> QED
    BY <2>2, <2>3
<1>11. ASSUME UNCHANGED <<present, health, alive, taskVars>> PROVE Good
  BY <1>11, <1>e DEF Telling
<1> QED
  BY <1>1, <1>2, <1>3, <1>4, <1>5, <1>6, <1>7, <1>8, <1>9, <1>10, <1>11
     DEF Next, Task, Frame, User, vars, Quit, Move, Swing, CoolDown,
         ReceiveHealth, ReceiveDeath, RespawnCountdown, TimeOut, Discard,
         ReceiveTorn

-----------------------------------------------------------------------------
(* The players                                                             *)

LEMMA Messages == YouDied \in ClientMessage
                  /\ \A h \in Int : HealthUpdate(h) \in ClientMessage
                                    /\ HealthUpdate(h) # YouDied
BY DEF YouDied, HealthUpdate, ClientMessage

\* What keeps a death in its place: the victim's entry, client and queues lose
\* nothing and no task begins to tell it anything.
LEMMA DeathKept ==
    ASSUME NEW q \in Player, DeathOK(q),
           health'[q] = health[q], alive'[q] = alive[q], hud'[q] = hud[q],
           client'[q] = "dead" => client[q] = "dead",
           toClient'[q] \in {toClient[q], <<>>},
           toServer'[q] \in {toServer[q], <<>>},
           \A t \in Player : Telling(t, q)' => Telling(t, q)
    PROVE  DeathOK(q)'
BY NothingInFlight DEF DeathOK, Told

\* A client that takes a message off its queue, and is not yet on its death
\* screen, keeps its death in place.
LEMMA DeathKeptTaking ==
    ASSUME TypeOK, NEW q \in Player, DeathOK(q), NEW type, Taking(q, type),
           health'[q] = health[q], alive'[q] = alive[q],
           client'[q] = client[q], toServer'[q] = toServer[q],
           \A t \in Player : Telling(t, q)' => Telling(t, q)
    PROVE  DeathOK(q)'
<1>1. toClient[q] # <<>> /\ toClient'[q] = Tail(toClient[q])
  BY DEF Taking, TypeOK
<1>2. ~ InFlight("respawn", toServer[q]) /\ client[q] # "dead"
  BY <1>1 DEF DeathOK
<1>c. toClient[q] \in Seq(ClientMessage)
  BY DEF TypeOK
<1>3. InFlight(YouDied, toClient'[q]) => InFlight(YouDied, toClient[q])
  BY <1>1, <1>c, TailOf
<1>4. ASSUME InFlight(YouDied, toClient[q]),
             NEW i \in 1 .. Len(toClient'[q]) - 1
      PROVE  toClient'[q][i] # YouDied
  <2>1. /\ i + 1 \in 1 .. Len(toClient[q]) - 1
        /\ toClient'[q][i] = toClient[q][i + 1]
    BY <1>1, <1>4, <1>c, TailOf
  <2> QED
    BY <1>4, <2>1 DEF DeathOK
<1> QED
  BY <1>2, <1>3, <1>4 DEF DeathOK, Told

\* A task that tells its victim something takes nobody new in hand.
LEMMA ToldMore ==
    ASSUME TypeOK, NEW p \in Player, TellHealth(p), NEW q
    PROVE  \A t \in Player : Telling(t, q)' => Telling(t, q)
<1>1. /\ pc[p] = "tell"
      /\ \/ pc' = [pc EXCEPT ![p] = "mourn"] /\ UNCHANGED victim
         \/ NextVictim(p)
  BY DEF TellHealth, Tell
<1>2. /\ \A t \in Player \ {p} : pc'[t] = pc[t] /\ victim'[t] = victim[t]
      /\ pc'[p] = "strike" \/ victim'[p] = victim[p]
  BY <1>1 DEF NextVictim, TypeOK
<1> QED
  BY <1>1, <1>2 DEF Telling

\* A task that tells its victim something disturbs no other task.
LEMMA TellsAlone ==
    ASSUME TypeOK, NEW p \in Player, TellHealth(p) \/ TellDeath(p)
    PROVE  \A t \in Player \ {p} : pc'[t] = pc[t] /\ victim'[t] = victim[t]
<1>1. CASE pc' = [pc EXCEPT ![p] = "mourn"] /\ UNCHANGED victim
  BY <1>1 DEF TypeOK
<1>2. CASE NextVictim(p)
  BY <1>2 DEF NextVictim, TypeOK
<1> QED
  BY <1>1, <1>2 DEF TellHealth, Tell, TellDeath

\* What is sent to one player is nothing to another.
LEMMA SendOther ==
    ASSUME TypeOK, NEW q \in Player, NEW v, v # q, NEW m,
           Send(v, m) \/ UNCHANGED toClient
    PROVE  toClient'[q] = toClient[q]
<1>1. UNCHANGED toClient \/ toClient' = [toClient EXCEPT ![v] = Append(@, m)]
  BY DEF Send
<1> QED
  BY <1>1 DEF TypeOK

LEMMA DeathStep ==
    ASSUME IInv, UncontestedInv, [Next]_vars, NEW q \in Player,
           q \notin contested'
    PROVE  DeathOK(q)'
<1>a. TypeOK /\ NotYetHurt /\ AliveIffHealthy /\ TypeOK'
  BY TypeStep DEF IInv
<1>d. q \notin contested
  BY <1>a, HandStep
<1>b. DeathOK(q) /\ TasksOK(q)
  BY <1>d DEF UncontestedInv
<1>c. /\ toServer[q] \in Seq(Request)
      /\ "swing" \in Request /\ "respawn" \in Request
      /\ toClient[q] \in Seq(ClientMessage)
      /\ health[q] \in Int /\ MaxHealth \in Nat /\ Damage \in Nat
  BY <1>a, CombatConstants DEF TypeOK, Request
<1> USE DEF entryVars, taskVars, clientVars
\* Steps of one player that have nothing to do with another's death.
<1>1. ASSUME NEW p \in Player, Join(p) \/ Quit(p) \/ Leave(p) \/ TimeOut(p)
      PROVE  DeathOK(q)'
  BY <1>1, <1>a, <1>b, DeathKept DEF Join, Quit, Leave, TimeOut, Telling, TypeOK
<1>2. ASSUME NEW p \in Player, CollectVictims(p) PROVE DeathOK(q)'
  <2>1. /\ UNCHANGED <<health, alive, hud, client, toClient>>
        /\ \A t \in Player : Telling(t, q)' => Telling(t, q)
    BY <1>2, <1>a DEF CollectVictims, Collect, Serving, Telling, TypeOK
  <2>2. CASE p # q
    BY <1>2, <2>1, <2>2, <1>a, <1>b, DeathKept
       DEF CollectVictims, Collect, Serving, TypeOK
  <2>3. CASE p = q
    <3>1. toServer[q] # <<>> /\ toServer'[q] = Tail(toServer[q])
      BY <1>2, <2>3, <1>a DEF CollectVictims, Collect, Serving, TypeOK
    <3>2. InFlight("respawn", toServer'[q]) => InFlight("respawn", toServer[q])
      BY <3>1, <1>c, TailOf
    <3>3. ASSUME InFlight("respawn", toServer[q]),
                 NEW i \in DOMAIN toServer'[q], NEW j \in DOMAIN toServer'[q],
                 toServer'[q][i] = "respawn", toServer'[q][j] = "respawn"
          PROVE  i = j
      <4>1. /\ i + 1 \in DOMAIN toServer[q] /\ j + 1 \in DOMAIN toServer[q]
            /\ toServer[q][i + 1] = "respawn" /\ toServer[q][j + 1] = "respawn"
            /\ i \in Int /\ j \in Int
        BY <3>1, <3>3, <1>c, TailOf
      <4>2. i + 1 = j + 1
        BY <3>3, <4>1, <1>b DEF DeathOK
      <4> QED
        BY <4>1, <4>2
    <3> QED
      BY <2>1, <3>2, <3>3, <1>b DEF DeathOK, Told
  <2> QED
    BY <2>2, <2>3
<1>3. ASSUME NEW p \in Player, Strike(p) PROVE DeathOK(q)'
  <2>1. PICK v \in victims[p] \cap present :
               /\ health' = [health EXCEPT ![v] = health[v] - Damage]
               /\ alive' = [alive EXCEPT ![v] =
                               IF health[v] - Damage <= 0 THEN FALSE ELSE @]
               /\ victim' = [victim EXCEPT ![p] = v]
    BY <1>3 DEF Strike
  <2>2. /\ v \in Player
        /\ UNCHANGED <<toServer, toClient, client, hud>>
    BY <1>3, <1>a DEF Strike, TypeOK
  <2>3. CASE q # v
    <3>1. \A t \in Player : Telling(t, q)' => Telling(t, q)
      BY <1>3, <2>1, <2>3, <1>a DEF Strike, Telling, TypeOK
    <3>2. health'[q] = health[q] /\ alive'[q] = alive[q]
      BY <2>1, <2>3, <1>a DEF TypeOK
    <3> QED
      BY <2>2, <3>1, <3>2, <1>b, DeathKept
  <2>4. CASE q = v
    <3>1. /\ ~ InFlight(YouDied, toClient[q])
          /\ client[q] # "dead"
          /\ ~ InFlight("respawn", toServer[q])
      <4>1. alive[q]
        BY <2>1, <2>4, <1>b DEF TasksOK
      <4> QED
        BY <4>1, <1>b, OnePlace
    <3>2. health'[q] = health[q] - Damage
      BY <2>1, <2>4, <1>a DEF TypeOK
    <3>3. health[q] <= MaxHealth
      BY <1>b DEF DeathOK
    <3>4. health'[q] <= MaxHealth
      BY <3>2, <3>3, <1>c
    <3> QED
      BY <2>2, <3>1, <3>4 DEF DeathOK
  <2> QED
    BY <2>3, <2>4
<1>4. ASSUME NEW p \in Player, SkipDeparted(p) \/ FetchHandle(p) \/ FinishSwing(p)
      PROVE  DeathOK(q)'
  <2>1. UNCHANGED <<health, alive, hud, client, toClient, toServer>>
    BY <1>4 DEF SkipDeparted, FetchHandle, FinishSwing
  <2>2. CASE FinishSwing(p)
    <3>1. \A t \in Player : Telling(t, q)' => t # p /\ Telling(t, q)
      BY <2>2, <1>a DEF FinishSwing, Telling, TypeOK
    <3> QED
      BY <2>1, <3>1, <1>b, DeathKept
  <2>3. CASE FetchHandle(p)
    <3>1. \A t \in Player : Telling(t, q)' => Telling(t, q)
      BY <2>3, <1>a DEF FetchHandle, Telling, TypeOK
    <3> QED
      BY <2>1, <3>1, <1>b, DeathKept
  <2>4. CASE SkipDeparted(p)
    BY <2>1, <2>4, <1>b, DeathKept DEF SkipDeparted, Telling
  <2> QED
    BY <1>4, <2>2, <2>3, <2>4
<1>5. ASSUME NEW p \in Player, TellHealth(p) PROVE DeathOK(q)'
  <2>1. UNCHANGED <<health, alive, hud, client, toServer>>
    BY <1>5 DEF TellHealth, Tell
  <2>2. \A t \in Player : Telling(t, q)' => Telling(t, q)
    BY <1>5, <1>a, ToldMore
  <2>0. Send(victim[p], HealthUpdate(newHealth[p])) \/ UNCHANGED toClient
    BY <1>5 DEF TellHealth, Tell
  <2>3. CASE victim[p] # q
    <3>1. toClient'[q] = toClient[q]
      BY <2>0, <2>3, <1>a, SendOther
    <3> QED
      BY <2>1, <2>2, <3>1, <1>b, DeathKept
  <2>4. CASE victim[p] = q
    <3> DEFINE m == HealthUpdate(newHealth[p])
    <3>1. /\ ~ InFlight(YouDied, toClient[q])
          /\ client[q] # "dead"
          /\ ~ InFlight("respawn", toServer[q])
      <4>1. Telling(p, q)
        BY <1>5, <2>4 DEF TellHealth, Tell, Telling
      <4> QED
        BY <4>1, <1>b, OnePlace
    <3>2. m \in ClientMessage /\ m # YouDied
      BY <1>a, Messages DEF TypeOK
    <3>3. toClient'[q] \in {toClient[q], Append(toClient[q], m)}
      BY <2>0, <1>a, SendOne
    <3> HIDE DEF m
    <3>4. ~ InFlight(YouDied, Append(toClient[q], m))
      BY <3>1, <3>2, <1>c, InFlightAppend
    <3>5. ~ InFlight(YouDied, toClient'[q])
      BY <3>1, <3>3, <3>4
    <3> QED
      BY <2>1, <3>1, <3>5, <1>b DEF DeathOK
  <2> QED
    BY <2>3, <2>4
<1>6. ASSUME NEW p \in Player, TellDeath(p) PROVE DeathOK(q)'
  <2>1. UNCHANGED <<health, alive, hud, client, toServer>>
    BY <1>6 DEF TellDeath
  <2>2. \A t \in Player : Telling(t, q)' => t # p /\ Telling(t, q)
    <3>1. NextVictim(p)
      BY <1>6 DEF TellDeath
    <3> QED
      BY <3>1, <1>a DEF NextVictim, Telling, TypeOK
  <2>0. Send(victim[p], YouDied) \/ UNCHANGED toClient
    BY <1>6 DEF TellDeath
  <2>3. CASE victim[p] # q
    <3>1. toClient'[q] = toClient[q]
      BY <2>0, <2>3, <1>a, SendOther
    <3> QED
      BY <2>1, <2>2, <3>1, <1>b, DeathKept
  <2>4. CASE victim[p] = q
    <3>0. Telling(p, q) /\ ~alive[q]
      <4>1. Telling(p, q) /\ pc[p] = "mourn"
        BY <1>6, <2>4 DEF TellDeath, Telling
      <4> QED
        BY <4>1, <1>b DEF TasksOK
    <3>1. /\ ~ InFlight(YouDied, toClient[q])
          /\ client[q] # "dead"
          /\ ~ InFlight("respawn", toServer[q])
      BY <3>0, <1>b, OnePlace
    <3>2. YouDied \in ClientMessage
      BY Messages
    <3>3. toClient'[q] \in {toClient[q], Append(toClient[q], YouDied)}
      BY <2>0, <1>a, SendOne
    <3>4. Told(q)'
      <4>1. \A t \in Player : Telling(t, q) => t = p
        BY <3>0, <1>b DEF TasksOK, Holds
      <4> QED
        BY <4>1, <2>2 DEF Told, Telling
    <3>5. \A i \in 1 .. Len(toClient'[q]) - 1 : toClient'[q][i] # YouDied
      <4>1. \A i \in 1 .. Len(toClient[q]) : toClient[q][i] # YouDied
        BY <3>1, <1>c DEF InFlight
      <4>2. CASE toClient'[q] = toClient[q]
        BY <4>1, <4>2, <1>c
      <4>3. CASE toClient'[q] = Append(toClient[q], YouDied)
        BY <4>1, <4>3, <3>2, <1>c
      <4> QED
        BY <3>3, <4>2, <4>3
    <3> QED
      BY <2>1, <3>0, <3>1, <3>4, <3>5, <1>b DEF DeathOK
  <2> QED
    BY <2>3, <2>4
<1>7. ASSUME NEW p \in Player, Respawn(p) PROVE DeathOK(q)'
  <2>1. /\ UNCHANGED <<hud, client, toClient>>
        /\ \A t \in Player : Telling(t, q)' => Telling(t, q)
    BY <1>7 DEF Respawn, Telling
  <2>2. CASE p # q
    <3>1. /\ health'[q] = health[q] /\ alive'[q] = alive[q]
          /\ toServer'[q] = toServer[q]
      BY <1>7, <2>2, <1>a DEF Respawn, Serving, TypeOK
    <3> QED
      BY <2>1, <3>1, <1>b, DeathKept
  <2>3. CASE p = q
    <3>1. /\ toServer[q] # <<>> /\ toServer'[q] = Tail(toServer[q])
          /\ Head(toServer[q]) = "respawn" /\ health'[q] = MaxHealth
      BY <1>7, <2>3, <1>a DEF Respawn, Serving, TypeOK
    <3>2. InFlight("respawn", toServer[q])
      BY <3>1, <1>c, TailOf
    <3>3. ~ InFlight("respawn", toServer'[q])
      <4>1. SUFFICES ASSUME NEW i \in DOMAIN toServer'[q],
                            toServer'[q][i] = "respawn"
                     PROVE  FALSE
        BY DEF InFlight
      <4>2. /\ i \in Int /\ i >= 1 /\ i + 1 \in DOMAIN toServer[q]
            /\ toServer[q][i + 1] = "respawn"
            /\ 1 \in DOMAIN toServer[q] /\ toServer[q][1] = "respawn"
        BY <3>1, <4>1, <1>c, TailOf
      <4>3. i + 1 = 1
        BY <3>2, <4>2, <1>b DEF DeathOK
      <4> QED
        BY <4>2, <4>3
    <3>4. /\ ~ InFlight(YouDied, toClient[q])
          /\ client[q] # "dead"
      BY <3>2, <1>b DEF DeathOK
    <3> QED
      BY <2>1, <3>1, <3>3, <3>4, <1>c DEF DeathOK
  <2> QED
    BY <2>2, <2>3
<1>8. ASSUME NEW p \in Player, Swing(p) PROVE DeathOK(q)'
  <2>1. /\ UNCHANGED <<health, alive, hud, client, toClient>>
        /\ \A t \in Player : Telling(t, q)' => Telling(t, q)
    BY <1>8 DEF Swing, Telling
  <2>2. CASE p # q
    BY <1>8, <2>1, <2>2, <1>a, <1>b, DeathKept DEF Swing, TypeOK
  <2>3. CASE p = q
    <3>1. toServer'[q] = Append(toServer[q], "swing")
      BY <1>8, <2>3, <1>a DEF Swing, TypeOK
    <3>2. InFlight("respawn", toServer'[q]) => InFlight("respawn", toServer[q])
      BY <3>1, <1>c, InFlightAppend
    <3>3. \A i \in DOMAIN toServer'[q] :
              toServer'[q][i] = "respawn" =>
                  i \in DOMAIN toServer[q] /\ toServer[q][i] = "respawn"
      BY <3>1, <1>c
    <3> QED
      BY <2>1, <3>2, <3>3, <1>b DEF DeathOK, Told
  <2> QED
    BY <2>2, <2>3
<1>9. ASSUME NEW p \in Player, ReceiveHealth(p) \/ Discard(p) \/ ReceiveTorn(p)
      PROVE  DeathOK(q)'
  <2>1. /\ UNCHANGED <<health, alive, client, toServer>>
        /\ \A t \in Player : Telling(t, q)' => Telling(t, q)
    BY <1>9 DEF ReceiveHealth, Discard, ReceiveTorn, Telling
  <2>0. \E type \in {"health", "died"} : Taking(p, type)
    BY <1>9 DEF ReceiveHealth, Receiving, Discard, ReceiveTorn
  <2>2. CASE p # q
    <3>1. toClient'[q] = toClient[q]
      BY <2>0, <2>2, <1>a DEF Taking, TypeOK
    <3>2. hud'[q] = hud[q]
      BY <1>9, <2>2, <1>a DEF ReceiveHealth, Discard, ReceiveTorn, TypeOK
    <3> QED
      BY <2>1, <3>1, <3>2, <1>b, DeathKept
  <2>3. CASE p = q
    BY <2>0, <2>1, <2>3, <1>a, <1>b, DeathKeptTaking
  <2> QED
    BY <2>2, <2>3
<1>10. ASSUME NEW p \in Player, ReceiveDeath(p) PROVE DeathOK(q)'
  <2>1. /\ UNCHANGED <<health, alive, hud, toServer>>
        /\ \A t \in Player : Telling(t, q)' => Telling(t, q)
    BY <1>10 DEF ReceiveDeath, Telling
  <2>2. CASE p # q
    BY <1>10, <2>1, <2>2, <1>a, <1>b, DeathKept
       DEF ReceiveDeath, Receiving, Taking, TypeOK
  <2>3. CASE p = q
    <3>1. /\ toClient[q] # <<>> /\ toClient'[q] = Tail(toClient[q])
          /\ Head(toClient[q]).type = "died"
      BY <1>10, <2>3, <1>a DEF ReceiveDeath, Receiving, Taking, TypeOK
    <3>2. Head(toClient[q]) = YouDied
      BY <3>1, <1>c DEF ClientMessage, YouDied
    <3>3. InFlight(YouDied, toClient[q]) /\ toClient[q][1] = YouDied
      BY <3>1, <3>2, <1>c, TailOf
    <3>4. Len(toClient[q]) = 1
      <4>1. \A i \in 1 .. Len(toClient[q]) - 1 : toClient[q][i] # YouDied
        BY <3>3, <1>b DEF DeathOK
      <4>2. Len(toClient[q]) \in Nat \ {0}
        BY <3>1, <1>c, TailOf
      <4>3. 1 \notin 1 .. Len(toClient[q]) - 1
        BY <4>1, <3>3
      <4> QED
        BY <4>2, <4>3, NoneBefore
    <3>5. toClient'[q] = <<>>
      <4>1. Tail(toClient[q]) \in Seq(ClientMessage) /\ Len(Tail(toClient[q])) = 0
        BY <3>1, <3>4, <1>c, TailOf
      <4> QED
        BY <3>1, <4>1, EmptySeq
    <3> QED
      BY <2>1, <3>3, <3>5, <1>b, NothingInFlight DEF DeathOK, Told
  <2> QED
    BY <2>2, <2>3
<1>11. ASSUME NEW p \in Player, RespawnCountdown(p) PROVE DeathOK(q)'
  <2>1. /\ UNCHANGED <<health, alive, toClient>>
        /\ \A t \in Player : Telling(t, q)' => Telling(t, q)
    BY <1>11 DEF RespawnCountdown, Telling
  <2>2. CASE p # q
    BY <1>11, <2>1, <2>2, <1>a, <1>b, DeathKept DEF RespawnCountdown, TypeOK
  <2>3. CASE p = q
    <3>1. /\ client[q] = "dead" /\ client'[q] = "playing" /\ hud'[q] = MaxHealth
          /\ toServer'[q] = Append(toServer[q], "respawn")
      BY <1>11, <2>3, <1>a DEF RespawnCountdown, TypeOK
    <3>2. /\ ~alive[q] /\ Told(q) /\ toClient[q] = <<>>
          /\ ~ InFlight("respawn", toServer[q])
      BY <3>1, <1>b DEF DeathOK
    <3>3. \A i \in DOMAIN toServer'[q] :
              toServer'[q][i] = "respawn" => i = Len(toServer[q]) + 1
      BY <3>1, <3>2, <1>c DEF InFlight
    <3> QED
      BY <2>1, <3>1, <3>2, <3>3, <1>b, NothingInFlight DEF DeathOK, Told
  <2> QED
    BY <2>2, <2>3
<1>12. ASSUME UNCHANGED <<entryVars, taskVars, toServer, toClient, client, hud>>
              \/ UNCHANGED <<health, alive, taskVars, toServer, toClient, client,
                             hud>>
       PROVE  DeathOK(q)'
  BY <1>12, <1>b, DeathKept DEF Telling
<1> QED
  BY <1>1, <1>2, <1>3, <1>4, <1>5, <1>6, <1>7, <1>8, <1>9, <1>10, <1>11, <1>12
     DEF Next, Task, Frame, User, vars, Move, CoolDown

-----------------------------------------------------------------------------
(* The label                                                               *)

\* What a label speaks of is still so after a step that changes none of it.
LEMMA LabelKept ==
    ASSUME NEW q \in Player, LabelOK(q),
           q \in present' => q \in present,
           client[q] \in {"menu", "quit"} => client'[q] \in {"menu", "quit"},
           health'[q] = health[q], alive'[q] = alive[q], hud'[q] = hud[q],
           missed'[q] = missed[q], toClient'[q] = toClient[q],
           \A t \in Player : Telling(t, q) => Telling(t, q)'
    PROVE  LabelOK(q)'
BY DEF LabelOK, Told

LEMMA LabelStep ==
    ASSUME IInv, UncontestedInv, [Next]_vars, NEW q \in Player,
           q \notin contested'
    PROVE  LabelOK(q)'
<1>a. TypeOK /\ NotYetHurt /\ AliveIffHealthy /\ TypeOK'
  BY TypeStep DEF IInv
<1>d. q \notin contested
  BY <1>a, HandStep
<1>b. LabelOK(q) /\ DeathOK(q) /\ TasksOK(q)
  BY <1>d DEF UncontestedInv
<1>c. /\ toClient[q] \in Seq(ClientMessage)
      /\ toServer[q] \in Seq(Request)
      /\ health[q] \in Int
  BY <1>a DEF TypeOK
<1> USE DEF entryVars, taskVars, clientVars
<1>1. ASSUME NEW p \in Player, Join(p) PROVE LabelOK(q)'
  <2>1. CASE p = q
    <3>1. /\ health'[q] = MaxHealth /\ hud'[q] = MaxHealth
          /\ toClient'[q] = <<>>
      BY <1>1, <2>1 DEF Join, UncontestedInv, FreshOK
    <3> QED
      BY <3>1 DEF LabelOK
  <2>2. CASE p # q
    BY <1>1, <2>2, <1>a, <1>b, LabelKept DEF Join, Telling, TypeOK
  <2> QED
    BY <2>1, <2>2
<1>2. ASSUME NEW p \in Player, Quit(p) \/ TimeOut(p) PROVE LabelOK(q)'
  <2>1. CASE p = q
    BY <1>2, <2>1, <1>a DEF Quit, TimeOut, LabelOK, TypeOK
  <2>2. CASE p # q
    BY <1>2, <2>2, <1>a, <1>b, LabelKept DEF Quit, TimeOut, Telling, TypeOK
  <2> QED
    BY <2>1, <2>2
<1>3. ASSUME NEW p \in Player,
             Leave(p) \/ SkipDeparted(p) \/ Move(p) \/ CoolDown(p) \/ Swing(p)
      PROVE  LabelOK(q)'
  BY <1>3, <1>b, LabelKept
     DEF Leave, SkipDeparted, Move, CoolDown, Swing, Telling
<1>4. ASSUME NEW p \in Player,
             CollectVictims(p) \/ FetchHandle(p) \/ FinishSwing(p)
      PROVE  LabelOK(q)'
  <2>1. UNCHANGED <<present, client, health, alive, hud, missed, toClient>>
    BY <1>4 DEF CollectVictims, Collect, FetchHandle, FinishSwing
  <2>2. CASE CollectVictims(p)
    <3>1. \A t \in Player : Telling(t, q) => Telling(t, q)'
      BY <2>2, <1>a DEF CollectVictims, Collect, Serving, Telling, TypeOK
    <3> QED
      BY <2>1, <3>1, <1>b, LabelKept
  <2>3. CASE FetchHandle(p)
    <3>1. \A t \in Player : Telling(t, q) => Telling(t, q)'
      BY <2>3, <1>a DEF FetchHandle, Telling, TypeOK
    <3> QED
      BY <2>1, <3>1, <1>b, LabelKept
  <2>4. CASE FinishSwing(p)
    <3>1. \A t \in Player : Telling(t, q) => Telling(t, q)'
      BY <2>4, <1>a DEF FinishSwing, Telling, TypeOK
    <3> QED
      BY <2>1, <3>1, <1>b, LabelKept
  <2> QED
    BY <1>4, <2>2, <2>3, <2>4
<1>5. ASSUME NEW p \in Player, Strike(p) PROVE LabelOK(q)'
  <2>1. PICK v \in victims[p] \cap present :
               /\ health' = [health EXCEPT ![v] = health[v] - Damage]
               /\ alive' = [alive EXCEPT ![v] =
                               IF health[v] - Damage <= 0 THEN FALSE ELSE @]
               /\ victim' = [victim EXCEPT ![p] = v]
    BY <1>5 DEF Strike
  <2>2. /\ v \in Player /\ pc[p] = "strike" /\ pc' = [pc EXCEPT ![p] = "fetch"]
        /\ UNCHANGED <<present, toClient, client, hud, missed>>
    BY <1>5, <1>a DEF Strike, TypeOK
  <2>3. CASE q = v
    <3>1. Telling(p, q)'
      BY <2>1, <2>2, <2>3, <1>a DEF Telling, TypeOK
    <3> QED
      BY <3>1 DEF LabelOK, Told
  <2>4. CASE q # v
    <3>1. \A t \in Player \ {p} : pc'[t] = pc[t] /\ victim'[t] = victim[t]
      BY <2>1, <2>2, <1>a DEF TypeOK
    <3>2. \A t \in Player : Telling(t, q) => t # p /\ Telling(t, q)'
      BY <2>2, <3>1 DEF Telling
    <3>3. health'[q] = health[q] /\ alive'[q] = alive[q]
      BY <2>1, <2>4, <1>a DEF TypeOK
    <3> QED
      BY <2>2, <3>2, <3>3, <1>b, LabelKept
  <2> QED
    BY <2>3, <2>4
<1>6. ASSUME NEW p \in Player, TellHealth(p) PROVE LabelOK(q)'
  <2>1. UNCHANGED <<entryVars, hud, client, missed>> /\ pc[p] = "tell"
    BY <1>6 DEF TellHealth, Tell
  <2>2. CASE victim[p] # q
    <3>1. Send(victim[p], HealthUpdate(newHealth[p])) \/ UNCHANGED toClient
      BY <1>6 DEF TellHealth, Tell
    <3>2. toClient'[q] = toClient[q]
      BY <3>1, <2>2, <1>a, SendOther
    <3>4. \A t \in Player \ {p} : pc'[t] = pc[t] /\ victim'[t] = victim[t]
      BY <1>6, <1>a, TellsAlone
    <3>5. \A t \in Player : Telling(t, q) => Telling(t, q)'
      BY <3>4, <2>2 DEF Telling
    <3> QED
      BY <2>1, <3>2, <3>5, <1>b, LabelKept
  <2>3. CASE victim[p] = q
    <3>1. Telling(p, q) /\ pc[p] = "tell"
      BY <2>1, <2>3 DEF Telling
    <3>2. /\ newHealth[p] = health[q]
          /\ q \in present => handle[p]
      BY <3>1, <1>b DEF TasksOK
    <3>3. CASE q \in present /\ q \notin WtPlayer /\ client[q] # "quit"
      <4>0. Send(q, HealthUpdate(health[q]))
        BY <1>6, <2>3, <3>2, <3>3 DEF TellHealth, Tell
      <4>1. toClient'[q] = Append(toClient[q], HealthUpdate(health[q]))
        BY <4>0, <3>3, <1>a DEF Send, TypeOK
      <4>2. /\ toClient'[q] # <<>>
            /\ toClient'[q][Len(toClient'[q])] = HealthUpdate(health[q])
        BY <4>1, <1>c, <1>a, Messages, AppendProperties
      <4> QED
        BY <2>1, <4>2 DEF LabelOK
    <3>4. CASE ~ (q \in present /\ q \notin WtPlayer /\ client[q] # "quit")
      BY <2>1, <3>4 DEF LabelOK
    <3> QED
      BY <3>3, <3>4
  <2> QED
    BY <2>2, <2>3
<1>7. ASSUME NEW p \in Player, TellDeath(p) PROVE LabelOK(q)'
  <2>1. UNCHANGED <<entryVars, hud, client, missed>> /\ NextVictim(p)
    BY <1>7 DEF TellDeath
  <2>2. CASE victim[p] # q
    <3>1. Send(victim[p], YouDied) \/ UNCHANGED toClient
      BY <1>7 DEF TellDeath
    <3>2. toClient'[q] = toClient[q]
      BY <3>1, <2>2, <1>a, SendOther
    <3>4. \A t \in Player \ {p} : pc'[t] = pc[t] /\ victim'[t] = victim[t]
      BY <1>7, <1>a, TellsAlone
    <3>5. \A t \in Player : Telling(t, q) => Telling(t, q)'
      BY <3>4, <2>2 DEF Telling
    <3> QED
      BY <2>1, <3>2, <3>5, <1>b, LabelKept
  <2>3. CASE victim[p] = q
    <3>1. Telling(p, q) /\ pc[p] = "mourn"
      BY <1>7, <2>3 DEF TellDeath, Telling
    <3>2. ~alive[q]
      BY <3>1, <1>b DEF TasksOK
    <3> QED
      BY <2>1, <3>2 DEF LabelOK
  <2> QED
    BY <2>2, <2>3
<1>8. ASSUME NEW p \in Player, Respawn(p) PROVE LabelOK(q)'
  <2>1. /\ UNCHANGED <<present, hud, client, missed, toClient>>
        /\ \A t \in Player : Telling(t, q) => Telling(t, q)'
    BY <1>8 DEF Respawn, Telling
  <2>2. CASE p # q
    <3>1. health'[q] = health[q] /\ alive'[q] = alive[q]
      BY <1>8, <2>2, <1>a DEF Respawn, TypeOK
    <3> QED
      BY <2>1, <3>1, <1>b, LabelKept
  <2>3. CASE p = q
    <3>1. /\ toServer[q] # <<>> /\ Head(toServer[q]) = "respawn"
          /\ health'[q] = MaxHealth
      BY <1>8, <2>3, <1>a DEF Respawn, Serving, TypeOK
    <3>2. InFlight("respawn", toServer[q])
      BY <3>1, <1>c, TailOf
    <3>3. toClient[q] = <<>> /\ hud[q] = MaxHealth
      BY <3>2, <1>b DEF DeathOK
    <3> QED
      BY <2>1, <3>1, <3>3 DEF LabelOK
  <2> QED
    BY <2>2, <2>3
<1>9. ASSUME NEW p \in Player, ReceiveHealth(p) PROVE LabelOK(q)'
  <2>1. /\ UNCHANGED <<entryVars, client>>
        /\ \A t \in Player : Telling(t, q) <=> Telling(t, q)'
    BY <1>9 DEF ReceiveHealth, Telling
  <2>2. CASE p # q
    BY <1>9, <2>1, <2>2, <1>a, <1>b, LabelKept
       DEF ReceiveHealth, Receiving, Taking, TypeOK
  <2>3. CASE p = q
    <3>1. /\ toClient[q] # <<>> /\ toClient'[q] = Tail(toClient[q])
          /\ hud'[q] = DecodeHealth(Head(toClient[q]).health)
      BY <1>9, <2>3, <1>a DEF ReceiveHealth, Receiving, Taking, TypeOK
    <3> SUFFICES ASSUME q \in present, q \notin WtPlayer, alive[q], Told(q),
                        client[q] \notin {"menu", "quit"}
                 PROVE  IF toClient'[q] = <<>> THEN hud'[q] = health[q]
                        ELSE toClient'[q][Len(toClient'[q])]
                                 = HealthUpdate(health[q])
      BY <2>1 DEF LabelOK, Told
    <3>2. toClient[q][Len(toClient[q])] = HealthUpdate(health[q])
      BY <3>1, <1>b DEF LabelOK
    <3>3. CASE toClient'[q] = <<>>
      <4>1. Head(toClient[q]) = HealthUpdate(health[q])
        BY <3>1, <3>2, <3>3, <1>c, LastOfTail
      <4>2. hud'[q] = health[q] % IntSpan
        BY <3>1, <4>1 DEF HealthUpdate, DecodeHealth
      <4>3. health[q] > 0 /\ health[q] <= MaxHealth
        BY <1>a, <1>b DEF AliveIffHealthy, DeathOK
      <4>4. health[q] % IntSpan = health[q]
        <5>1. 0 <= health[q] /\ health[q] < IntSpan
          BY <4>3, <1>c, CombatConstants
        <5> QED
          BY <5>1, <1>c, CombatConstants, SmallRemainder
      <4> QED
        BY <3>3, <4>2, <4>4
    <3>4. CASE toClient'[q] # <<>>
      BY <3>1, <3>2, <3>4, <1>c, LastOfTail
    <3> QED
      BY <3>3, <3>4
  <2> QED
    BY <2>2, <2>3
<1>13. ASSUME NEW p \in Player, Discard(p) PROVE LabelOK(q)'
  <2>1. UNCHANGED <<entryVars, taskVars, clientVars>> /\ client[p] = "menu"
    BY <1>13 DEF Discard
  <2>2. CASE p = q
    BY <2>1, <2>2 DEF LabelOK
  <2>3. CASE p # q
    <3>1. toClient'[q] = toClient[q]
      BY <1>13, <2>3, <1>a DEF Discard, Taking, TypeOK
    <3> QED
      BY <2>1, <3>1, <1>b, LabelKept DEF Telling
  <2> QED
    BY <2>2, <2>3
<1>14. ASSUME NEW p \in Player, ReceiveTorn(p) PROVE LabelOK(q)'
  <2>1. UNCHANGED <<entryVars, taskVars, client, hud>>
    BY <1>14 DEF ReceiveTorn
  <2>2. PICK type \in {"health", "died"} :
            Taking(p, type) /\ missed' = [missed EXCEPT ![p] = @ \cup {type}]
    BY <1>14 DEF ReceiveTorn
  <2>3. CASE p # q
    <3>1. toClient'[q] = toClient[q] /\ missed'[q] = missed[q]
      BY <2>2, <2>3, <1>a DEF Taking, TypeOK
    <3> QED
      BY <2>1, <3>1, <1>b, LabelKept DEF Telling
  <2>4. CASE p = q
    <3>1. /\ toClient[q] # <<>> /\ toClient'[q] = Tail(toClient[q])
          /\ Head(toClient[q]).type = type
          /\ missed'[q] = missed[q] \cup {type}
      BY <2>2, <2>4, <1>a DEF Taking, TypeOK
    <3> SUFFICES ASSUME q \in present, q \notin WtPlayer, alive[q], Told(q),
                        client[q] \notin {"menu", "quit"}
                 PROVE  IF toClient'[q] = <<>> THEN "health" \in missed'[q]
                        ELSE toClient'[q][Len(toClient'[q])]
                                 = HealthUpdate(health[q])
      BY <2>1 DEF LabelOK, Told, Telling
    <3>2. toClient[q][Len(toClient[q])] = HealthUpdate(health[q])
      BY <3>1, <1>b DEF LabelOK
    <3>3. CASE toClient'[q] = <<>>
      <4>1. Head(toClient[q]) = HealthUpdate(health[q])
        BY <3>1, <3>2, <3>3, <1>c, LastOfTail
      <4>2. type = "health"
        BY <3>1, <4>1 DEF HealthUpdate
      <4> QED
        BY <3>1, <3>3, <4>2
    <3>4. CASE toClient'[q] # <<>>
      BY <3>1, <3>2, <3>4, <1>c, LastOfTail
    <3> QED
      BY <3>3, <3>4
  <2> QED
    BY <2>3, <2>4
<1>10. ASSUME NEW p \in Player, ReceiveDeath(p) PROVE LabelOK(q)'
  <2>1. UNCHANGED <<entryVars, hud, taskVars>>
    BY <1>10 DEF ReceiveDeath
  <2>2. CASE p # q
    BY <1>10, <2>1, <2>2, <1>a, <1>b, LabelKept
       DEF ReceiveDeath, Receiving, Taking, Telling, TypeOK
  <2>3. CASE p = q
    <3>1. toClient[q] # <<>> /\ Head(toClient[q]).type = "died"
      BY <1>10, <2>3 DEF ReceiveDeath, Receiving, Taking
    <3>2. Head(toClient[q]) = YouDied
      BY <3>1, <1>c DEF ClientMessage, YouDied
    <3>3. InFlight(YouDied, toClient[q])
      BY <3>1, <3>2, <1>c, TailOf
    <3>4. ~alive[q]
      BY <3>3, <1>b DEF DeathOK
    <3> QED
      BY <2>1, <3>4 DEF LabelOK
  <2> QED
    BY <2>2, <2>3
<1>11. ASSUME NEW p \in Player, RespawnCountdown(p) PROVE LabelOK(q)'
  <2>1. UNCHANGED <<entryVars, taskVars, toClient>>
    BY <1>11 DEF RespawnCountdown
  <2>2. CASE p # q
    BY <1>11, <2>1, <2>2, <1>a, <1>b, LabelKept
       DEF RespawnCountdown, Telling, TypeOK
  <2>3. CASE p = q
    <3>1. ~alive[q]
      BY <1>11, <2>3, <1>b DEF RespawnCountdown, DeathOK
    <3> QED
      BY <2>1, <3>1 DEF LabelOK
  <2> QED
    BY <2>2, <2>3
<1>12. CASE UNCHANGED vars
  BY <1>12, <1>b, LabelKept DEF vars, Telling
<1> QED
  BY <1>1, <1>2, <1>3, <1>4, <1>5, <1>6, <1>7, <1>8, <1>9, <1>10, <1>11, <1>12,
     <1>13, <1>14
     DEF Next, Task, Frame, User

-----------------------------------------------------------------------------
LEMMA UncontestedHolds == Spec => [](IInv /\ UncontestedInv)
<1>1. ASSUME IInv, UncontestedInv, [Next]_vars PROVE UncontestedInv'
  <2>1. \A q \in Player : FreshOK(q)'
    BY <1>1, FreshStep
  <2>2. ASSUME NEW q \in Player, q \notin contested'
        PROVE  TasksOK(q)' /\ DeathOK(q)' /\ LabelOK(q)'
    BY <1>1, <2>2, TasksStep, DeathStep, LabelStep
  <2> QED
    BY <2>1, <2>2 DEF UncontestedInv
<1> QED
  BY <1>1, UncontestedInit, Inductive, PTL DEF Spec

\* A death screen is truthful for everyone who never was the victim of two
\* swings at one time: the player is dead on the server, out of reach and out
\* of the world state, until its own request revives it.
THEOREM DeathScreensAreTrue == Spec => []DeathScreenIsTrue
<1>1. IInv /\ UncontestedInv => DeathScreenIsTrue
  BY DEF IInv, TypeOK, UncontestedInv, DeathOK, DeathScreenIsTrue
<1> QED
  BY <1>1, UncontestedHolds, PTL

\* The label of such a player, on TCP, agrees with the server as soon as nothing
\* is on its way, unless a message came in pieces (_poll_tcp).
THEOREM LabelsAreRight == Spec => []LabelIsRight
<1>1. ASSUME IInv, UncontestedInv,
             NEW p \in present \ (WtPlayer \cup contested),
             Settled(p), missed[p] = {}
      PROVE  hud[p] = health[p]
  <2>1. p \in Player /\ p \in present /\ p \notin WtPlayer
    BY <1>1 DEF IInv, TypeOK
  <2>2. LabelOK(p)
    BY <1>1, <2>1 DEF UncontestedInv
  <2>3. /\ Told(p) /\ client[p] = "playing" /\ toClient[p] = <<>>
        /\ ~ InFlight("respawn", toServer[p])
    BY <1>1 DEF Settled, Told, Telling
  <2>4. ~ Remembered(p) /\ ~ Lost(p)
    BY <1>1, <2>3, NothingInFlight DEF Remembered, NoticeDue, Told, Telling, Lost
  <2>5. alive[p]
    BY <1>1, <2>1, <2>4 DEF IInv, DeathNotForgotten
  <2> QED
    BY <1>1, <2>1, <2>2, <2>3, <2>5 DEF LabelOK
<1>2. IInv /\ UncontestedInv => LabelIsRight
  BY <1>1 DEF LabelIsRight
<1> QED
  BY <1>2, UncontestedHolds, PTL

\* handle_respawn, which looks at nothing, revives such a player only from the
\* dead: each of its deaths leads to one request at most.
THEOREM OnlyTheDeadAreRevived == Spec => OnlyTheDeadRespawn
<1>1. ASSUME IInv, UncontestedInv, [Next]_vars, NEW p \in Player \ contested,
             health'[p] > health[p]
      PROVE  ~alive[p]
  <2>a. TypeOK /\ DeathOK(p)
    BY <1>1 DEF IInv, UncontestedInv
  <2>1. ASSUME NEW t \in Player, Strike(t) PROVE FALSE
    <3>1. PICK v \in victims[t] :
              health' = [health EXCEPT ![v] = health[v] - Damage]
      BY <2>1 DEF Strike
    <3>2. health'[p] = health[p] \/ health'[p] = health[p] - Damage
      BY <3>1, <2>a DEF TypeOK
    <3>3. health[p] \in Int /\ Damage \in Nat
      BY <2>a, CombatConstants DEF TypeOK
    <3> QED
      BY <3>2, <3>3, <1>1
  <2>2. ASSUME NEW t \in Player, Respawn(t) PROVE ~alive[p]
    <3>1. /\ health' = [health EXCEPT ![t] = MaxHealth]
          /\ toServer[t] # <<>> /\ Head(toServer[t]) = "respawn"
      BY <2>2 DEF Respawn, Serving
    <3>2. t = p
      <4>1. SUFFICES ASSUME t # p PROVE FALSE
        OBVIOUS
      <4>2. health'[p] = health[p] /\ health[p] \in Int
        BY <3>1, <4>1, <2>a DEF TypeOK
      <4> QED
        BY <4>2, <1>1
    <3>3. InFlight("respawn", toServer[p])
      BY <3>1, <3>2, <2>a, TailOf DEF TypeOK
    <3> QED
      BY <3>3, <2>a DEF DeathOK
  <2>3. health' # health
    BY <1>1, <2>a DEF TypeOK
  <2> QED
    BY <1>1, <2>1, <2>2, <2>3
       DEF Next, Task, Frame, User, vars, entryVars, taskVars, clientVars, Join,
           Quit, Leave, CollectVictims, Collect, SkipDeparted, FetchHandle,
           TellHealth, Tell, TellDeath, FinishSwing, Move, Swing, CoolDown,
           ReceiveHealth, ReceiveDeath, RespawnCountdown, TimeOut, Discard,
           ReceiveTorn
<1>2. IInv /\ UncontestedInv /\ [Next]_vars =>
          [\A p \in Player \ contested : health'[p] > health[p] => ~alive[p]]_vars
  BY <1>1
<1> QED
  BY <1>2, UncontestedHolds, PTL DEF Spec, OnlyTheDeadRespawn
=============================================================================
