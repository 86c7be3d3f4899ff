------------------------------- MODULE Roster -------------------------------
(***************************************************************************)
(* What the players map promises, seen from outside: who is in the game.   *)
(* A session enters at most once and leaves at most once, one session at a *)
(* time, and nobody is put out while its client is still connected.        *)
(*                                                                         *)
(* Sessions (ids, map entries and UDP routes) and Combat (hits, deaths and *)
(* respawns) both implement it.                                            *)
(***************************************************************************)
CONSTANT Session

VARIABLES
    member,     \* "out" (not yet), "in" or "gone"
    connected   \* the sessions whose client has not gone away

vars == <<member, connected>>

TypeOK ==
    /\ member \in [Session -> {"out", "in", "gone"}]
    /\ connected \subseteq Session

Init ==
    /\ member = [s \in Session |-> "out"]
    /\ connected = Session

\* The session gets its entry in the map (even if its client has just gone).
Enter(s) ==
    /\ member[s] = "out"
    /\ member' = [member EXCEPT ![s] = "in"]
    /\ UNCHANGED connected

\* The client goes away.
Disconnect(s) ==
    /\ s \in connected
    /\ connected' = connected \ {s}
    /\ UNCHANGED member

\* The entry is removed.
Exit(s) ==
    /\ s \notin connected
    /\ member[s] = "in"
    /\ member' = [member EXCEPT ![s] = "gone"]
    /\ UNCHANGED connected

\* The client goes away before it was let in.
Refuse(s) ==
    /\ s \notin connected
    /\ member[s] = "out"
    /\ member' = [member EXCEPT ![s] = "gone"]
    /\ UNCHANGED connected

Next == \E s \in Session : Enter(s) \/ Disconnect(s) \/ Exit(s) \/ Refuse(s)

Spec == Init /\ [][Next]_vars
=============================================================================
