-------------------------------- MODULE Boot --------------------------------
(***************************************************************************)
(* How the web page starts the game: "FPS Networking Demo.html" and the    *)
(* loader in "FPS Networking Demo.js" (Features, Preloader, Engine).       *)
(*                                                                         *)
(* Two files are fetched side by side, the engine (wasm) and the game      *)
(* (pck).  A fetch that fails is tried again; the engine is compiled while *)
(* its body still streams in; the game is started when both are there; and *)
(* an animation shows how much has been loaded.                            *)
(*                                                                         *)
(* An action is one task of the page's event loop, with the promise        *)
(* reactions it sets off.                                                  *)
(***************************************************************************)
EXTENDS Integers

CONSTANTS
    Attempts,     \* DOWNLOAD_ATTEMPTS_MAX
    WasmSize,     \* fileSizes, in pieces
    PckSize

ASSUME BootConstants ==
    /\ Attempts \in Nat \ {0}
    /\ WasmSize \in Nat \ {0}
    /\ PckSize \in Nat \ {0}

File    == {"wasm", "pck"}
Size(f) == IF f = "wasm" THEN WasmSize ELSE PckSize
Total   == WasmSize + PckSize

\* What the page requires of the browser and of the server's headers.
Feature == {"WebGL2", "Fetch", "Secure Context", "Cross-Origin Isolation",
            "SharedArrayBuffer"}

VARIABLES
    features,     \* what is available
    page,         \* statusMode: "blank", "progress", "notice" or "hidden"
    fetch,        \* of each file: where its download is
    left,         \* attempts that retry() has left
    requests,     \* history: requests that were sent
    status,       \* loadingFiles: pieces loaded, and whether that is all
    frame,        \* an animation frame is requested
    bar,          \* lastProgress: what the bar shows
    loadPromise,  \* "null", "pending", "resolved" or "rejected"
    initPromise,  \* "null", "pending" or "resolved": it never rejects
    module,       \* "none", "building", "filesystem", "up" or "broken"
    rtenv,        \* whether me.rtenv is set
    preloaded,    \* preloader.preloadedFiles
    files,        \* what is in the module's file system
    game          \* "no", "running", "thrown" or "over"

netVars   == <<fetch, left, requests, status>>
barVars   == <<frame, bar>>
initVars  == <<loadPromise, initPromise, module, rtenv>>
startVars == <<preloaded, files, game>>
vars == <<features, page, netVars, barVars, initVars, startVars>>

FetchState ==
    {"none",      \* not asked for yet
     "asked",     \* request sent, no answer
     "waiting",   \* failed, to be tried again in a second
     "lost",      \* failed for the last time
     "body",      \* answered, body under way
     "cut",       \* the connection broke within the body
     "ended",     \* body complete
     "buffered"}  \* body collected in a buffer (pck)

TypeOK ==
    /\ features \subseteq Feature
    /\ page \in {"blank", "progress", "notice", "hidden"}
    /\ fetch \in [File -> FetchState]
    /\ left \in [File -> 0 .. Attempts]
    /\ requests \in [File -> 0 .. Attempts]
    /\ status \in [File -> [loaded : 0 .. WasmSize + PckSize, done : BOOLEAN]]
    /\ \A f \in File : status[f].loaded <= Size(f)
    /\ frame \in BOOLEAN
    /\ bar \in [loaded : 0 .. Total, total : {0, Total}]
    /\ loadPromise \in {"null", "pending", "resolved", "rejected"}
    /\ initPromise \in {"null", "pending", "resolved"}
    /\ module \in {"none", "building", "filesystem", "up", "broken"}
    /\ rtenv \in BOOLEAN
    /\ preloaded \subseteq {"pck"}
    /\ files \subseteq {"pck"}
    /\ game \in {"no", "running", "thrown", "over"}

Init ==
    /\ features \in SUBSET Feature
    /\ page = "blank"
    /\ fetch = [f \in File |-> "none"]
    /\ left = [f \in File |-> Attempts]
    /\ requests = [f \in File |-> 0]
    /\ status = [f \in File |-> [loaded |-> 0, done |-> FALSE]]
    /\ frame = FALSE
    /\ bar = [loaded |-> 0, total |-> 0]
    /\ loadPromise = "null"
    /\ initPromise = "null"
    /\ module = "none"
    /\ rtenv = FALSE
    /\ preloaded = {}
    /\ files = {}
    /\ game = "no"

-----------------------------------------------------------------------------
(* The page                                                                *)

\* The game is exported with threads, so that all of them are required.
GetMissingFeatures == Feature \ features

\* setStatusMode: nothing is shown any more after "notice" or "hidden".
Initializing == page \in {"blank", "progress"}

SetStatusMode(mode) == page' = IF Initializing THEN mode ELSE page

\* The export names no service worker that could supply what is missing.
ShowMissing ==
    /\ page = "blank"
    /\ GetMissingFeatures # {}
    /\ SetStatusMode("notice")
    /\ UNCHANGED <<features, netVars, barVars, initVars, startVars>>

\* Engine.load and the first part of init(): the engine is asked for, and the
\* animation starts.
Load ==
    /\ loadPromise' = IF loadPromise = "null" THEN "pending" ELSE loadPromise
    /\ frame' = TRUE

\* startGame, up to its first await: init() and preloadFile().
StartGame ==
    /\ page = "blank"
    /\ GetMissingFeatures = {}
    /\ SetStatusMode("progress")
    /\ Load
    /\ initPromise' = "pending"
    /\ fetch' = [f \in File |-> "asked"]
    /\ requests' = [f \in File |-> 1]
    /\ UNCHANGED <<features, left, status, bar, module, rtenv, startVars>>

-----------------------------------------------------------------------------
(* The preloader                                                           *)

\* fetch() resolves when the headers are there.  For the engine that resolves
\* loadPromise, and doInit goes on to build the module from the body to come.
Respond(f) ==
    /\ fetch[f] = "asked"
    /\ fetch' = [fetch EXCEPT ![f] = "body"]
    /\ IF f = "wasm"
       THEN loadPromise' = "resolved" /\ module' = "building"
       ELSE UNCHANGED <<loadPromise, module>>
    /\ UNCHANGED <<features, page, left, requests, status, barVars,
                   initPromise, rtenv, startVars>>

\* What is rejected after the last attempt: for the game Promise.all, so that
\* a notice is shown; for the engine loadPromise, which doInit does not catch.
Reject(f) ==
    IF f = "pck"
    THEN SetStatusMode("notice") /\ UNCHANGED loadPromise
    ELSE loadPromise' = "rejected" /\ UNCHANGED page

\* Faulty variant: one attempt more than there are.
Refuse_OneMore(f) ==
    /\ fetch[f] = "asked"
    /\ fetch' = [fetch EXCEPT ![f] = IF left[f] < 1 THEN "lost" ELSE "waiting"]
    /\ IF left[f] < 1 THEN Reject(f) ELSE UNCHANGED <<loadPromise, page>>
    /\ UNCHANGED <<features, left, requests, status, barVars, initPromise,
                   module, rtenv, startVars>>

\* Faulty variant: the last failure leaves the promise pending.
Refuse_Silent(f) ==
    /\ fetch[f] = "asked"
    /\ fetch' = [fetch EXCEPT ![f] = IF left[f] <= 1 THEN "lost" ELSE "waiting"]
    /\ UNCHANGED <<features, page, left, requests, status, barVars, initVars,
                   startVars>>

\* The request fails, or its answer is not ok: onerror.
Refuse(f) ==
    /\ fetch[f] = "asked"
    /\ fetch' = [fetch EXCEPT ![f] = IF left[f] <= 1 THEN "lost" ELSE "waiting"]
    /\ IF left[f] <= 1 THEN Reject(f) ELSE UNCHANGED <<loadPromise, page>>
    /\ UNCHANGED <<features, left, requests, status, barVars, initPromise,
                   module, rtenv, startVars>>

\* Faulty variant: the recursion has as many attempts as before.
Retry_Undiminished(f) ==
    /\ fetch[f] = "waiting"
    /\ fetch' = [fetch EXCEPT ![f] = "asked"]
    /\ requests' = [requests EXCEPT ![f] = @ + 1]
    /\ status' = [status EXCEPT ![f] = [loaded |-> 0, done |-> FALSE]]
    /\ UNCHANGED <<features, page, left, barVars, initVars, startVars>>

\* A second later: loadFetch, with a new entry in loadingFiles.
Retry(f) ==
    /\ fetch[f] = "waiting"
    /\ fetch' = [fetch EXCEPT ![f] = "asked"]
    /\ left' = [left EXCEPT ![f] = @ - 1]
    /\ requests' = [requests EXCEPT ![f] = @ + 1]
    /\ status' = [status EXCEPT ![f] = [loaded |-> 0, done |-> FALSE]]
    /\ UNCHANGED <<features, page, barVars, initVars, startVars>>

\* onloadprogress: some pieces are handed on, and counted.
Read(f) ==
    /\ fetch[f] = "body"
    /\ \E n \in 1 .. Size(f) - status[f].loaded :
           status' = [status EXCEPT
               ![f] = [loaded |-> @.loaded + n, done |-> FALSE]]
    /\ UNCHANGED <<features, page, fetch, left, requests, barVars, initVars,
                   startVars>>

\* The stream is closed.
ReadEnd(f) ==
    /\ fetch[f] = "body"
    /\ status[f].loaded = Size(f)
    /\ status' = [status EXCEPT ![f] = [loaded |-> @.loaded, done |-> TRUE]]
    /\ fetch' = [fetch EXCEPT ![f] = "ended"]
    /\ UNCHANGED <<features, page, left, requests, barVars, initVars, startVars>>

\* Faulty variant: a body that breaks off is fetched again.
Cut_Retries(f) ==
    /\ fetch[f] = "body"
    /\ left[f] > 1
    /\ fetch' = [fetch EXCEPT ![f] = "waiting"]
    /\ UNCHANGED <<features, page, left, requests, status, barVars, initVars,
                   startVars>>

\* reader.read() rejects.  Nobody has a handler for that: the stream is never
\* closed, and whoever reads it waits for ever.
Cut(f) ==
    /\ fetch[f] = "body"
    /\ fetch' = [fetch EXCEPT ![f] = "cut"]
    /\ UNCHANGED <<features, page, left, requests, status, barVars, initVars,
                   startVars>>

\* preload: the game's bytes are kept for start().
Preload ==
    /\ fetch["pck"] = "ended"
    /\ fetch' = [fetch EXCEPT !["pck"] = "buffered"]
    /\ preloaded' = preloaded \cup {"pck"}
    /\ UNCHANGED <<features, page, left, requests, status, barVars, initVars,
                   files, game>>

-----------------------------------------------------------------------------
(* animateProgress                                                         *)

Loaded == status["wasm"].loaded + status["pck"].loaded

ProgressIsFinal == \A f \in File : status[f].done

Animate ==
    /\ frame
    /\ bar' = [loaded |-> Loaded, total |-> Total]
    /\ frame' = ~ ProgressIsFinal
    /\ UNCHANGED <<features, page, netVars, initVars, startVars>>

-----------------------------------------------------------------------------
(* The engine                                                              *)

\* instantiateStreaming needs all of the body; the page has no handler for its
\* failure.
Instantiate ==
    /\ module = "building"
    /\ fetch["wasm"] = "ended"
    /\ module' = "filesystem"
    /\ UNCHANGED <<features, page, netVars, barVars, loadPromise, initPromise,
                   rtenv, startVars>>

InstantiateFails ==
    /\ module = "building"
    /\ module' = "broken"
    /\ UNCHANGED <<features, page, netVars, barVars, loadPromise, initPromise,
                   rtenv, startVars>>

\* The end of doInit, with unloadAfterInit: initPromise resolves.
InitFS ==
    /\ module = "filesystem"
    /\ module' = "up"
    /\ rtenv' = TRUE
    /\ loadPromise' = "null"
    /\ initPromise' = "resolved"
    /\ UNCHANGED <<features, page, netVars, barVars, startVars>>

\* Promise.all of startGame.
BothReady == initPromise = "resolved" /\ fetch["pck"] = "buffered"

\* Faulty variants of Start: the preloaded files are dropped before they are
\* copied; the game is started once both promises have settled.
Start_ClearFirst ==
    /\ BothReady
    /\ game = "no"
    /\ rtenv
    /\ preloaded' = {}
    /\ files' = files
    /\ game' = "running"
    /\ initPromise' = "null"
    /\ SetStatusMode("hidden")
    /\ UNCHANGED <<features, netVars, barVars, loadPromise, module, rtenv>>

Start_AllSettled ==
    /\ initPromise = "resolved"
    /\ fetch["pck"] \in {"buffered", "lost"}
    /\ game = "no"
    /\ rtenv
    /\ files' = files \cup preloaded
    /\ preloaded' = {}
    /\ game' = "running"
    /\ initPromise' = "null"
    /\ SetStatusMode("hidden")
    /\ UNCHANGED <<features, netVars, barVars, loadPromise, module, rtenv>>

\* start(): the files are copied and main is called, which may throw.
Start ==
    /\ BothReady
    /\ game = "no"
    /\ rtenv
    /\ files' = files \cup preloaded
    /\ preloaded' = {}
    /\ \/ /\ game' = "running"
          /\ initPromise' = "null"
          /\ SetStatusMode("hidden")
       \/ /\ game' = "thrown"
          /\ UNCHANGED initPromise
          /\ SetStatusMode("notice")
    /\ UNCHANGED <<features, netVars, barVars, loadPromise, module, rtenv>>

\* onExit, with the cleanup of start().
Exit ==
    /\ game = "running"
    /\ game' = "over"
    /\ rtenv' = FALSE
    /\ UNCHANGED <<features, page, netVars, barVars, loadPromise, initPromise,
                   module, preloaded, files>>

-----------------------------------------------------------------------------
Download(f) ==
    Respond(f) \/ Refuse(f) \/ Retry(f) \/ Read(f) \/ ReadEnd(f) \/ Cut(f)

Engine == Instantiate \/ InitFS \/ Start

Next ==
    \/ ShowMissing \/ StartGame
    \/ \E f \in File : Download(f)
    \/ Preload \/ Animate \/ Engine \/ InstantiateFails \/ Exit

Spec == Init /\ [][Next]_vars

\* The page's script runs; every request is answered or fails, and a body
\* arrives or breaks; timers fire, and frames are drawn; promises settle.
Fairness ==
    /\ WF_vars(ShowMissing \/ StartGame)
    /\ \A f \in File : WF_vars(Download(f))
    /\ WF_vars(Preload)
    /\ WF_vars(Animate)
    /\ WF_vars(Engine)

FairSpec == Spec /\ Fairness
-----------------------------------------------------------------------------
(* Properties                                                              *)

\* A download is given up after exactly Attempts requests: neither sooner, nor
\* does a timer that is still pending send one more (retry, loadFetch).
GivenUpAfterAll ==
    \A f \in File :
        /\ fetch[f] = "lost" => requests[f] = Attempts
        /\ fetch[f] = "waiting" => requests[f] < Attempts

\* The game never runs without its files, however the two downloads, the
\* compilation and the file system interleave; and what the user is told is
\* true: a notice is never followed by a game, though the engine's download
\* goes on after the game's has failed (startGame, start, Promise.all,
\* displayFailureNotice).
GameIsComplete ==
    game \in {"running", "over"} =>
        /\ files = {"pck"}
        /\ \A f \in File : status[f].done
        /\ module = "up"
        /\ page # "notice"

\* The bar never goes back: an entry of loadingFiles is replaced by a retry
\* only before anything of its body has been counted.  And it ends full: the
\* last frame comes when everything is there (animateProgress).
BarNeverGoesBack ==
    [][/\ bar'.loaded >= bar.loaded
       /\ (frame /\ ~ frame') => bar' = [loaded |-> Total, total |-> Total]]_vars

\* Under FairSpec: starting ends in the game or in a notice, except for three
\* failures that nobody handles: the engine's last attempt, a body that breaks
\* off, a module that does not compile.
Stuck ==
    \/ fetch["wasm"] = "lost"
    \/ \E f \in File : fetch[f] = "cut"
    \/ module = "broken"

LaunchEnds == (page = "progress") ~> (page \in {"notice", "hidden"} \/ Stuck)
=============================================================================
