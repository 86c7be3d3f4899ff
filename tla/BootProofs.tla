----------------------------- MODULE BootProofs -----------------------------
(***************************************************************************)
(* What Boot promises for any number of attempts and any file sizes.       *)
(***************************************************************************)
EXTENDS Boot, TLAPS

\* Of a file: how far its download is, and what that says of the counters.
FetchInv(f) ==
    /\ fetch[f] = "none" => requests[f] = 0 /\ left[f] = Attempts
    /\ fetch[f] # "none" => requests[f] = Attempts + 1 - left[f]
    /\ left[f] >= 1
    /\ fetch[f] = "waiting" => left[f] > 1
    /\ fetch[f] = "lost" => left[f] = 1
    /\ fetch[f] \in {"none", "asked", "waiting", "lost"}
           => status[f].loaded = 0
    /\ status[f].done <=> fetch[f] \in {"ended", "buffered"}
    /\ status[f].done => status[f].loaded = Size(f)

\* Of the whole: in which order things come about.
StartInv ==
    /\ page = "blank" => \A f \in File : fetch[f] = "none"
    /\ page = "notice" =>
           fetch["pck"] \in {"none", "lost"} \/ game = "thrown"
    /\ page = "hidden" => game \in {"running", "over"}
    /\ game = "no" => (fetch["pck"] = "buffered" => preloaded = {"pck"})
    /\ game # "no" => fetch["pck"] = "buffered" /\ files = {"pck"}
    /\ game # "no" => module = "up"
    /\ game \in {"running", "over"} => page = "hidden"
    /\ initPromise = "resolved" => module = "up"
    /\ module \in {"filesystem", "up"} => fetch["wasm"] = "ended"
    /\ fetch["wasm"] # "buffered"
    /\ bar.loaded <= Loaded

Inv == TypeOK /\ (\A f \in File : FetchInv(f)) /\ StartInv

\* The initial states.
LEMMA InvInit == Init => Inv
<1> SUFFICES ASSUME Init PROVE Inv
  OBVIOUS
<1> USE BootConstants DEF File
<1>1. \A f \in File : FetchInv(f)
  BY DEF Init, FetchInv
<1>2. StartInv
  BY DEF Init, StartInv, Loaded
<1>3. TypeOK
  <2>1. [loaded |-> 0, done |-> FALSE]
            \in [loaded : 0 .. WasmSize + PckSize, done : BOOLEAN]
    OBVIOUS
  <2>2. status \in [File -> [loaded : 0 .. WasmSize + PckSize, done : BOOLEAN]]
    BY <2>1 DEF Init
  <2>3. bar \in [loaded : 0 .. Total, total : {0, Total}]
    BY DEF Init, Total
  <2>4. \A f \in File : status[f].loaded <= Size(f)
    BY DEF Init, Size
  <2>5. /\ left \in [File -> 0 .. Attempts]
        /\ requests \in [File -> 0 .. Attempts]
        /\ fetch \in [File -> FetchState]
    BY DEF Init, FetchState
  <2> QED
    BY <2>2, <2>3, <2>4, <2>5 DEF Init, TypeOK
<1> QED BY <1>1, <1>2, <1>3 DEF Inv

\* The actions of a download leave the other file's download alone.
LEMMA DownloadStep ==
    ASSUME Inv, NEW f \in File, Download(f)
    PROVE  Inv'
<1> USE BootConstants DEF File, FetchState, Size
<1>1. CASE Respond(f)
  BY <1>1 DEF Respond, Inv, TypeOK, FetchInv, StartInv, Loaded, Total,
              barVars, startVars
<1>2. CASE Refuse(f)
  BY <1>2, SMTT(60) DEF Refuse, Reject, SetStatusMode, Initializing, Inv, TypeOK,
              FetchInv, StartInv, Loaded, Total, barVars, startVars
<1>3. CASE Retry(f)
  BY <1>3 DEF Retry, Inv, TypeOK, FetchInv, StartInv, Loaded, Total,
              barVars, initVars, startVars
<1>4. CASE Read(f)
  <2>1. PICK n \in 1 .. Size(f) - status[f].loaded :
            status' = [status EXCEPT
                ![f] = [loaded |-> status[f].loaded + n, done |-> FALSE]]
    BY <1>4 DEF Read
  <2>2. TypeOK'
    BY <1>4, <2>1 DEF Read, Inv, TypeOK, Total, barVars, initVars, startVars
  <2>3. \A g \in File : FetchInv(g)'
    BY <1>4, <2>1 DEF Read, Inv, TypeOK, FetchInv
  <2>4. StartInv'
    BY <1>4, <2>1 DEF Read, Inv, TypeOK, StartInv, Loaded, barVars, initVars,
                      startVars
  <2> QED BY <2>2, <2>3, <2>4 DEF Inv
<1>5. CASE ReadEnd(f)
  BY <1>5 DEF ReadEnd, Inv, TypeOK, FetchInv, StartInv, Loaded, Total,
              barVars, initVars, startVars
<1>6. CASE Cut(f)
  BY <1>6 DEF Cut, Inv, TypeOK, FetchInv, StartInv, Loaded, Total,
              barVars, initVars, startVars
<1> QED BY <1>1, <1>2, <1>3, <1>4, <1>5, <1>6 DEF Download

LEMMA InvStep == Inv /\ [Next]_vars => Inv'
<1> SUFFICES ASSUME Inv, [Next]_vars PROVE Inv'
  OBVIOUS
<1> USE BootConstants DEF File, FetchState, Size
<1>1. CASE ShowMissing
  BY <1>1 DEF ShowMissing, SetStatusMode, Initializing, Inv, TypeOK, FetchInv,
              StartInv, Loaded, Total, netVars, barVars, initVars, startVars
<1>2. CASE StartGame
  BY <1>2 DEF StartGame, SetStatusMode, Initializing, Load, Inv, TypeOK,
              FetchInv, StartInv, Loaded, Total, startVars
<1>3. ASSUME NEW f \in File, Download(f) PROVE Inv'
  BY <1>3, DownloadStep
<1>4. CASE Preload
  <2>1. TypeOK'
    BY <1>4 DEF Preload, Inv, TypeOK, Total, barVars, initVars
  <2>2. \A g \in File : FetchInv(g)'
    BY <1>4 DEF Preload, Inv, TypeOK, FetchInv
  <2>3. StartInv'
    BY <1>4 DEF Preload, Inv, TypeOK, FetchInv, StartInv, Loaded, barVars,
                initVars
  <2> QED BY <2>1, <2>2, <2>3 DEF Inv
<1>5. CASE Animate
  BY <1>5 DEF Animate, Inv, TypeOK, FetchInv, StartInv, Loaded, Total,
              netVars, initVars, startVars
<1>6. CASE Instantiate
  BY <1>6 DEF Instantiate, Inv, TypeOK, FetchInv, StartInv, Loaded, Total,
              netVars, barVars, startVars
<1>7. CASE InstantiateFails
  BY <1>7 DEF InstantiateFails, Inv, TypeOK, FetchInv, StartInv, Loaded, Total,
              netVars, barVars, startVars
<1>8. CASE InitFS
  BY <1>8 DEF InitFS, Inv, TypeOK, FetchInv, StartInv, Loaded, Total,
              netVars, barVars, startVars
<1>9. CASE Start
  BY <1>9 DEF Start, BothReady, SetStatusMode, Initializing, Inv, TypeOK,
              FetchInv, StartInv, Loaded, Total, netVars, barVars
<1>10. CASE Exit
  BY <1>10 DEF Exit, Inv, TypeOK, FetchInv, StartInv, Loaded, Total,
               netVars, barVars
<1>11. CASE UNCHANGED vars
  BY <1>11 DEF vars, netVars, barVars, initVars, startVars, Inv, TypeOK,
               FetchInv, StartInv, Loaded, Total
<1> QED
  BY <1>1, <1>2, <1>3, <1>4, <1>5, <1>6, <1>7, <1>8, <1>9, <1>10, <1>11
  DEF Next, Engine

\* The invariant holds in every state Boot can reach.
LEMMA InvHolds == Spec => []Inv
BY InvInit, InvStep, PTL DEF Spec

\* Types: no download makes more requests than it has attempts, no file has
\* more loaded than its size (loadFetch, retry, getTrackedResponse).
THEOREM BootTypes == Spec => []TypeOK
<1>1. Inv => TypeOK
  BY DEF Inv
<1> QED BY <1>1, InvHolds, PTL

\* A download is given up after exactly as many requests as there are
\* attempts (retry).
THEOREM GivenUpOnlyAfterAll == Spec => []GivenUpAfterAll
<1>1. Inv => GivenUpAfterAll
  BY BootConstants DEF Inv, TypeOK, FetchInv, GivenUpAfterAll
<1> QED BY <1>1, InvHolds, PTL

\* A game that runs has all of its files and an engine, and no notice hides
\* it (startGame, start).
THEOREM GamesAreComplete == Spec => []GameIsComplete
<1>1. Inv => GameIsComplete
  BY DEF Inv, FetchInv, StartInv, GameIsComplete, File
<1> QED BY <1>1, InvHolds, PTL

\* A frame shows no less than the last one, for nothing that was counted is
\* taken back.
LEMMA BarStep ==
    Inv /\ [Next]_vars =>
        [/\ bar'.loaded >= bar.loaded
         /\ (frame /\ ~ frame') => bar' = [loaded |-> Total, total |-> Total]]_vars
<1> SUFFICES ASSUME Inv, [Next]_vars
             PROVE  \/ UNCHANGED vars
                    \/ /\ bar'.loaded >= bar.loaded
                       /\ (frame /\ ~ frame') =>
                              bar' = [loaded |-> Total, total |-> Total]
  OBVIOUS
<1>1. bar.loaded \in Int
  BY BootConstants DEF Inv, TypeOK, Total
<1>2. CASE Animate
  <2>1. bar' = [loaded |-> Loaded, total |-> Total]
    BY <1>2 DEF Animate
  <2>2. bar'.loaded >= bar.loaded
    BY <2>1 DEF Inv, StartInv
  <2>3. ASSUME ~ frame' PROVE Loaded = Total
    BY <1>2, <2>3 DEF Animate, ProgressIsFinal, Inv, FetchInv, File, Loaded,
                      Total, Size
  <2> QED BY <2>1, <2>2, <2>3
<1>3. CASE StartGame
  BY <1>1, <1>3 DEF StartGame, Load
<1>4. CASE UNCHANGED barVars
  BY <1>1, <1>4 DEF barVars
<1>5. CASE \E f \in File : Download(f)
  BY <1>4, <1>5 DEF Download, Respond, Refuse, Retry, Read, ReadEnd, Cut
<1> QED
  BY <1>2, <1>3, <1>4, <1>5
  DEF Next, ShowMissing, Preload, Engine, Instantiate, InstantiateFails,
      InitFS, Start, Exit, vars

\* No step makes the bar go back, and its last frame shows all of it
\* (animateProgress, with the entries a retry replaces).
THEOREM BarsNeverGoBack == Spec => BarNeverGoesBack
BY InvHolds, BarStep, PTL DEF Spec, BarNeverGoesBack
=============================================================================
