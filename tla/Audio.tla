-------------------------------- MODULE Audio -------------------------------
(***************************************************************************)
(* How the exported game gets its sound to the browser: the ring buffers   *)
(* and the processor in "FPS Networking Demo.audio.worklet.js", and the    *)
(* engine's audio thread that feeds them.                                  *)
(*                                                                         *)
(* The rings lie in shared memory.  The browser's audio thread (the        *)
(* worklet) and the engine's copy samples in and out without a lock; a     *)
(* counter of samples for each ring, changed atomically, tells each of     *)
(* them what it may touch.  The worklet also has code for an engine        *)
(* without threads ("start_nothreads", "chunk"): the exported engine never *)
(* sends these, and they are not modelled.                                 *)
(*                                                                         *)
(* A copy is two actions: while it is going on the cells that are written  *)
(* hold NoSample, and what is read is what is there at its end.            *)
(***************************************************************************)
EXTENDS Integers, Sequences

CONSTANTS
    OutSize,      \* how many samples the output ring holds
    OutChunk,     \* how many of them one call of process() plays
    InSize,       \* how many samples the input ring holds
    InChunk,      \* how many samples of the microphone process() is given
    MaxSamples,   \* bound: how many samples are produced at either end
    NoSample      \* what is in a cell that is being written

ASSUME AudioConstants ==
    /\ OutSize \in Nat \ {0} /\ OutChunk \in 1 .. OutSize
    /\ InSize \in Nat \ {0}  /\ InChunk \in 1 .. InSize
    /\ MaxSamples \in Nat
    /\ NoSample \notin Nat

Cells(s) == 0 .. s - 1
Sample   == Nat \cup {NoSample}

VARIABLES
    \* the worklet
    running,     \* this.running
    ready,       \* whether this.output and this.input are there
    step,        \* where process() is: "idle", "recording", "output", "reading"
    outRpos,     \* output.rpos
    inWpos,      \* input.wpos
    out,         \* output_buffer: the chunk that was played last
    \* the memory both ends see
    outBuf, outAvail,   \* the output ring and its counter
    inBuf, inAvail,     \* the input ring and its counter
    \* the engine's audio thread
    pc,                 \* "off", "capture", "capturing", "mix", "mixing", "wait", "peek"
    wpos, toWrite,      \* its place in the output ring, what it is to write
    rpos, toRead,       \* its place in the input ring, what it is to read
    captured,           \* the samples of the microphone it read last
    \* the page
    asked,       \* "no", "start" or "stop": sent last
    toWorklet,   \* messages to the worklet's port
    \* history
    mixed,       \* samples the engine has put into the output ring
    played,      \* samples that were taken from it
    spoken       \* samples the microphone has produced

workletVars == <<running, ready, step, outRpos, inWpos, out>>
outRing     == <<outBuf, outAvail>>
inRing      == <<inBuf, inAvail>>
engineVars  == <<pc, wpos, toWrite, rpos, toRead, captured>>
pageVars    == <<asked, toWorklet>>
historyVars == <<mixed, played, spoken>>
vars == <<workletVars, outRing, inRing, engineVars, pageVars, historyVars>>

TypeOK ==
    /\ running \in BOOLEAN
    /\ ready \in BOOLEAN
    /\ step \in {"idle", "recording", "output", "reading"}
    /\ outRpos \in 0 .. OutSize
    /\ inWpos \in Cells(InSize)
    /\ out \in Seq(Sample)
    /\ outBuf \in [Cells(OutSize) -> Sample]
    /\ outAvail \in 0 .. OutSize
    /\ inBuf \in [Cells(InSize) -> Sample]
    /\ inAvail \in 0 .. InSize
    /\ pc \in {"off", "capture", "capturing", "mix", "mixing", "wait", "peek"}
    /\ wpos \in Cells(OutSize)
    /\ toWrite \in 0 .. OutSize
    /\ rpos \in Cells(InSize)
    /\ toRead \in 0 .. InSize
    /\ captured \in Seq(Sample)
    /\ asked \in {"no", "start", "stop"}
    /\ toWorklet \in Seq({"start", "stop"})
    /\ mixed \in Nat
    /\ played \in Nat
    /\ spoken \in Nat

Init ==
    /\ running = TRUE
    /\ ready = FALSE
    /\ step = "idle"
    /\ outRpos = 0 /\ inWpos = 0
    /\ out = <<>>
    /\ outBuf = [c \in Cells(OutSize) |-> 0] /\ outAvail = 0
    /\ inBuf = [c \in Cells(InSize) |-> 0] /\ inAvail = 0
    /\ pc = "off"
    /\ wpos = 0 /\ toWrite = OutSize
    /\ rpos = 0 /\ toRead = 0
    /\ captured = <<>>
    /\ asked = "no"
    /\ toWorklet = <<>>
    /\ mixed = 0 /\ played = 0 /\ spoken = 0

-----------------------------------------------------------------------------
(* Rings of s cells                                                        *)

\* The i-th cell from position p on, i = 0, 1, ...
At(s, p, i) == (p + i) % s

\* n cells from p on, as RingBuffer.read copies them: up to the end of the
\* buffer, then the rest from its beginning.
Copy(s, buf, p, n) == [i \in 1 .. n |-> buf[At(s, p, i - 1)]]

\* How far cell c is from p.
Offset(s, p, c) == IF c >= p THEN c - p ELSE c - p + s

\* n cells from p on get the samples after number k, or are being written.
Filled(s, buf, p, n, k) ==
    [c \in Cells(s) |-> IF Offset(s, p, c) < n THEN k + Offset(s, p, c) + 1
                                              ELSE buf[c]]

Blurred(s, buf, p, n) ==
    [c \in Cells(s) |-> IF Offset(s, p, c) < n THEN NoSample ELSE buf[c]]

\* Where RingBuffer.read leaves rpos: at the end of the buffer rather than at
\* its beginning if the chunk just fits.
AfterRead(s, p, n) == IF p + n > s THEN n - (s - p) ELSE p + n

\* Faulty variant: the same for writing.
AfterWrite_Late(s, p, n) == IF p + n > s THEN n - (s - p) ELSE p + n

\* Where RingBuffer.write, and the engine's thread, leave their position.
AfterWrite(s, p, n) == IF p + n >= s THEN p + n - s ELSE p + n

-----------------------------------------------------------------------------
(* The page                                                                *)

\* The audio driver starts: it shares its buffers and starts a thread.
Start ==
    /\ asked = "no"
    /\ asked' = "start"
    /\ toWorklet' = Append(toWorklet, "start")
    /\ pc' = "mix"
    /\ UNCHANGED <<workletVars, outRing, inRing, wpos, toWrite, rpos, toRead,
                   captured, historyVars>>

\* The driver is closed.
Stop ==
    /\ asked = "start"
    /\ asked' = "stop"
    /\ toWorklet' = Append(toWorklet, "stop")
    /\ UNCHANGED <<workletVars, outRing, inRing, engineVars, historyVars>>

-----------------------------------------------------------------------------
(* The worklet: messages, which are handled between calls of process()     *)

Handle(cmd) ==
    /\ step = "idle"
    /\ toWorklet # <<>>
    /\ Head(toWorklet) = cmd
    /\ toWorklet' = Tail(toWorklet)

\* The rings are views on the engine's memory: nothing in them changes.
ParseStart ==
    /\ Handle("start")
    /\ ready' = TRUE
    /\ UNCHANGED <<running, step, outRpos, inWpos, out, outRing,
                   inRing, engineVars, asked, historyVars>>

ParseStop ==
    /\ Handle("stop")
    /\ running' = FALSE
    /\ ready' = FALSE
    /\ UNCHANGED <<step, outRpos, inWpos, out, outRing, inRing,
                   engineVars, asked, historyVars>>

-----------------------------------------------------------------------------
(* The worklet: process()                                                  *)

\* Faulty variant: the room in the ring is not looked up.
BeginRecord_NoRoom ==
    /\ running
    /\ ready
    /\ step = "idle"
    /\ spoken + InChunk <= MaxSamples
    /\ inBuf' = Blurred(InSize, inBuf, inWpos, InChunk)
    /\ step' = "recording"
    /\ UNCHANGED <<running, ready, outRpos, inWpos, out, outRing,
                   inAvail, engineVars, pageVars, historyVars>>

\* The microphone has a chunk, and there is room for it.
BeginRecord ==
    /\ running
    /\ ready
    /\ step = "idle"
    /\ InSize - inAvail >= InChunk
    /\ spoken + InChunk <= MaxSamples
    /\ inBuf' = Blurred(InSize, inBuf, inWpos, InChunk)
    /\ step' = "recording"
    /\ UNCHANGED <<running, ready, outRpos, inWpos, out, outRing,
                   inAvail, engineVars, pageVars, historyVars>>

EndRecord ==
    /\ step = "recording"
    /\ inBuf' = Filled(InSize, inBuf, inWpos, InChunk, spoken)
    /\ inWpos' = AfterWrite(InSize, inWpos, InChunk)
    /\ inAvail' = inAvail + InChunk
    /\ spoken' = spoken + InChunk
    /\ step' = "output"
    /\ UNCHANGED <<running, ready, outRpos, out, outRing, engineVars,
                   pageVars, mixed, played>>

\* Faulty variant: process() returns if there is nothing to record.
SkipRecord_Returns ==
    /\ running
    /\ ready
    /\ step = "idle"
    /\ UNCHANGED vars

\* There is no input, or no room for it: that chunk of it is dropped.
SkipRecord ==
    /\ running
    /\ ready
    /\ step = "idle"
    /\ step' = "output"
    /\ UNCHANGED <<running, ready, outRpos, inWpos, out, outRing,
                   inRing, engineVars, pageVars, historyVars>>

\* Faulty variant: the chunk need not be complete.
BeginRead_Hasty ==
    /\ step = "output"
    /\ outAvail >= 1
    /\ step' = "reading"
    /\ UNCHANGED <<running, ready, outRpos, inWpos, out, outRing,
                   inRing, engineVars, pageVars, historyVars>>

BeginRead ==
    /\ step = "output"
    /\ outAvail >= OutChunk
    /\ step' = "reading"
    /\ UNCHANGED <<running, ready, outRpos, inWpos, out, outRing,
                   inRing, engineVars, pageVars, historyVars>>

\* Not enough samples: this output frame stays silent.
SkipRead ==
    /\ step = "output"
    /\ outAvail < OutChunk
    /\ step' = "idle"
    /\ UNCHANGED <<running, ready, outRpos, inWpos, out, outRing,
                   inRing, engineVars, pageVars, historyVars>>

\* The copy is complete and the counter goes down.
EndRead ==
    /\ step = "reading"
    /\ out' = Copy(OutSize, outBuf, outRpos, OutChunk)
    /\ outRpos' = AfterRead(OutSize, outRpos, OutChunk)
    /\ outAvail' = outAvail - OutChunk
    /\ played' = played + OutChunk
    /\ step' = "idle"
    /\ UNCHANGED <<running, ready, inWpos, outBuf, inRing, engineVars,
                   pageVars, mixed, spoken>>

-----------------------------------------------------------------------------
(* The engine's audio thread (in the wasm module, seen through the         *)
(* functions that change and await its counters)                           *)

\* What is to be captured was counted in Peek.
BeginCapture ==
    /\ pc = "capture"
    /\ pc' = IF toRead > 0 THEN "capturing" ELSE "mix"
    /\ UNCHANGED <<workletVars, outRing, inRing, wpos, toWrite, rpos, toRead,
                   captured, pageVars, historyVars>>

EndCapture ==
    /\ pc = "capturing"
    /\ captured' = Copy(InSize, inBuf, rpos, toRead)
    /\ inAvail' = inAvail - toRead
    /\ rpos' = AfterWrite(InSize, rpos, toRead)
    /\ pc' = "mix"
    /\ UNCHANGED <<workletVars, outRing, inBuf, wpos, toWrite, toRead,
                   pageVars, historyVars>>

\* Mix as much as there was room for when it was looked up.
BeginMix ==
    /\ pc = "mix"
    /\ mixed + toWrite <= MaxSamples
    /\ outBuf' = Blurred(OutSize, outBuf, wpos, toWrite)
    /\ pc' = IF toWrite > 0 THEN "mixing" ELSE "wait"
    /\ UNCHANGED <<workletVars, outAvail, inRing, wpos, toWrite, rpos, toRead,
                   captured, pageVars, historyVars>>

EndMix ==
    /\ pc = "mixing"
    /\ outBuf' = Filled(OutSize, outBuf, wpos, toWrite, mixed)
    /\ outAvail' = outAvail + toWrite
    /\ wpos' = AfterWrite(OutSize, wpos, toWrite)
    /\ mixed' = mixed + toWrite
    /\ pc' = "wait"
    /\ UNCHANGED <<workletVars, inRing, toWrite, rpos, toRead, captured,
                   pageVars, played, spoken>>

\* The wait ends when the worklet notifies, and at the latest after 1 ms.
Wait ==
    /\ pc = "wait"
    /\ toWrite' = OutSize - outAvail
    /\ pc' = "peek"
    /\ UNCHANGED <<workletVars, outRing, inRing, wpos, rpos, toRead, captured,
                   pageVars, historyVars>>

Peek ==
    /\ pc = "peek"
    /\ toRead' = inAvail
    /\ pc' = "capture"
    /\ UNCHANGED <<workletVars, outRing, inRing, wpos, toWrite, rpos, captured,
                   pageVars, historyVars>>

-----------------------------------------------------------------------------
Worklet ==
    \/ ParseStart \/ ParseStop
    \/ BeginRecord \/ EndRecord \/ SkipRecord
    \/ BeginRead \/ SkipRead \/ EndRead

Engine ==
    BeginCapture \/ EndCapture \/ BeginMix \/ EndMix \/ Wait \/ Peek

Next == Start \/ Stop \/ Worklet \/ Engine

Spec == Init /\ [][Next]_vars

\* The browser keeps calling process(), delivers messages between the calls,
\* and schedules the engine's thread.
Fairness ==
    /\ WF_vars(Worklet)
    /\ WF_vars(Engine)

FairSpec == Spec /\ Fairness
-----------------------------------------------------------------------------
(* Properties                                                              *)

\* What the output ring holds for the worklet.
Queue == Copy(OutSize, outBuf, outRpos, outAvail)

P == INSTANCE Playout WITH
    Capacity <- OutSize,
    Chunk    <- OutChunk,
    queue    <- Queue,
    put      <- mixed

\* What is played is what was mixed, in that order, without a sample lost,
\* doubled or torn, though neither thread ever waits for the other.
ImplementsPlayout == P!Spec

\* What the engine read last of the microphone is the run of samples before
\* those that are still in the ring: none is half written, and none is lost or
\* doubled between one read and the next.
CaptureIsWhole ==
    \A i \in DOMAIN captured :
        captured[i] = spoken - inAvail - Len(captured) + i

\* Under FairSpec: a sample that was mixed is played, as soon as there are
\* enough of them for a chunk, or the sound is switched off.
Heard ==
    \A k \in 1 .. MaxSamples :
        (ready /\ mixed = k)
            ~> (played + OutChunk > k \/ asked = "stop")
=============================================================================
