--------------------------- MODULE SpeakPlayback ---------------------------
(***************************************************************************)
(* The read-aloud engine of `speak mcp`                                    *)
(* (src/services/speak/internal/playback/engine.go).                       *)
(*                                                                         *)
(* Every MCP server process holds one Engine.  A tool call runs on a       *)
(* goroutine of its own, playback on a worker goroutine per session, and   *)
(* the speakers are shared by all processes through an flock on            *)
(* playback.lock.  A step is one critical section of Engine.mu, one        *)
(* operation on startMu, one operation on the flock, or one event of an    *)
(* afplay child.  Code between two of these touches no shared state.       *)
(***************************************************************************)
EXTENDS Naturals, FiniteSets

CONSTANTS
  Engines,      \* the speak mcp processes of one machine
  Calls,        \* tool handler goroutines, over all processes
  Workers,      \* playback goroutines, over all processes
  Home,         \* the process a call or a worker belongs to
  Parts,        \* parts in every session's queue
  MaxSessions,  \* bound: sessions one engine mints
  MaxCrashes,   \* bound: process deaths
  Tools,        \* the tools the clients use: speak, pause, resume, stop
  None

ASSUME PlaybackAssumption ==
  /\ Parts \in Nat \ {0}
  /\ MaxSessions \in Nat
  /\ MaxCrashes \in Nat
  /\ Calls \intersect Workers = {}
  /\ Engines \intersect (Calls \union Workers) = {}
  /\ Home \in [Calls \union Workers -> Engines]
  /\ Tools \subseteq {"speak", "pause", "resume", "stop"}
  /\ None \notin Engines \union Calls \union Workers

VARIABLES
  lockHolder,   \* the process whose descriptor holds the flock, or None
  eLock,        \* Engine.lock # nil
  startMu,      \* the call that holds Engine.startMu, or None
  session,      \* Engine.sessionID: 0 before the first session
  minted,       \* sessions minted so far
  currentIndex, \* Engine.currentIndex, 1-based
  paused, stopped, running, starting,   \* the Engine's flags
  playCmd,      \* the worker whose afplay Engine.playCmd points to, or None
  cancel,       \* the session context Engine.cancel ends, or None
  doneCh,       \* the worker whose exit Engine.doneCh signals, or None
  ctxDone,      \* the session context of a worker is cancelled
  pc, part, proc,               \* worker: step, part, state of its afplay
  cpc, ret, from, want, ctx,    \* call: step, where a release returns to,
                                \* start index, session named, context made
  orphan,       \* afplay children whose process died
  crashes

engineVars == <<session, minted, currentIndex, paused, stopped, running,
                starting, playCmd, cancel, doneCh>>
workerVars == <<ctxDone, pc, part, proc>>
callVars   == <<cpc, ret, from, want, ctx>>
lockVars   == <<lockHolder, eLock, startMu>>
crashVars  == <<orphan, crashes>>
vars == <<lockVars, engineVars, workerVars, callVars, crashVars>>

WorkerSteps == {"free", "reserved", "advance", "condwait", "fetch", "spawn",
                "register", "wait", "finish", "release", "unlock", "close"}
CallSteps   == {"idle", "lockStart", "fullStop", "awaitDone", "acquire",
                "setLock", "setQueue", "synth", "notStarted", "stopDone",
                "release", "unlock", "tryResume", "setResumeLock", "cont"}

TypeOK ==
  /\ lockHolder \in Engines \union {None}
  /\ eLock \in [Engines -> BOOLEAN]
  /\ startMu \in [Engines -> Calls \union {None}]
  /\ session \in [Engines -> 0..MaxSessions]
  /\ minted \in [Engines -> 0..MaxSessions]
  /\ currentIndex \in [Engines -> 1..Parts]
  /\ paused \in [Engines -> BOOLEAN]
  /\ stopped \in [Engines -> BOOLEAN]
  /\ running \in [Engines -> BOOLEAN]
  /\ starting \in [Engines -> BOOLEAN]
  /\ playCmd \in [Engines -> Workers \union {None}]
  /\ cancel \in [Engines -> Workers \union {None}]
  /\ doneCh \in [Engines -> Workers \union {None}]
  /\ ctxDone \in [Workers -> BOOLEAN]
  /\ pc \in [Workers -> WorkerSteps]
  /\ part \in [Workers -> 1..Parts]
  /\ proc \in [Workers -> {"none", "playing", "suspended", "exited"}]
  /\ cpc \in [Calls -> CallSteps]
  /\ ret \in [Calls -> {"idle", "acquire", "stopDone", "notStarted"}]
  /\ from \in [Calls -> 1..Parts]
  /\ want \in [Calls -> 0..MaxSessions]
  /\ ctx \in [Calls -> Workers \union {None}]
  /\ orphan \in [Engines -> BOOLEAN]
  /\ crashes \in 0..MaxCrashes

Init ==
  /\ lockHolder = None
  /\ eLock = [e \in Engines |-> FALSE]
  /\ startMu = [e \in Engines |-> None]
  /\ session = [e \in Engines |-> 0]
  /\ minted = [e \in Engines |-> 0]
  /\ currentIndex = [e \in Engines |-> 1]
  /\ paused = [e \in Engines |-> FALSE]
  /\ stopped = [e \in Engines |-> FALSE]
  /\ running = [e \in Engines |-> FALSE]
  /\ starting = [e \in Engines |-> FALSE]
  /\ playCmd = [e \in Engines |-> None]
  /\ cancel = [e \in Engines |-> None]
  /\ doneCh = [e \in Engines |-> None]
  /\ ctxDone = [w \in Workers |-> FALSE]
  /\ pc = [w \in Workers |-> "free"]
  /\ part = [w \in Workers |-> 1]
  /\ proc = [w \in Workers |-> "none"]
  /\ cpc = [c \in Calls |-> "idle"]
  /\ ret = [c \in Calls |-> "idle"]
  /\ from = [c \in Calls |-> 1]
  /\ want = [c \in Calls |-> 0]
  /\ ctx = [c \in Calls |-> None]
  /\ orphan = [e \in Engines |-> FALSE]
  /\ crashes = 0

-----------------------------------------------------------------------------
(* Helpers.                                                                *)

Go(c, step) == cpc' = [cpc EXCEPT ![c] = step]

\* Signal or Broadcast on Engine.cond: the waiting worker runs again.
Wake(e, steps) ==
  [w \in Workers |-> IF Home[w] = e /\ steps[w] = "condwait"
                     THEN "advance" ELSE steps[w]]

\* Context cancellation: closing a context twice is harmless.
Cancelled(w) == IF w = None THEN ctxDone ELSE [ctxDone EXCEPT ![w] = TRUE]

\* A call at rest holds nothing of the call before it.
Return(c) ==
  /\ cpc' = [cpc EXCEPT ![c] = "idle"]
  /\ ret' = [ret EXCEPT ![c] = "idle"]
  /\ from' = [from EXCEPT ![c] = 1]
  /\ want' = [want EXCEPT ![c] = 0]
  /\ ctx' = [ctx EXCEPT ![c] = None]

-----------------------------------------------------------------------------
(* SpeakText and SpeakFile: a new session from part 1.                     *)

Speak(c) ==
  LET e == Home[c]
  IN  /\ "speak" \in Tools /\ cpc[c] = "idle"
      /\ minted[e] < MaxSessions
      /\ minted' = [minted EXCEPT ![e] = @ + 1]
      /\ want' = [want EXCEPT ![c] = minted[e] + 1]
      /\ cpc' = [cpc EXCEPT ![c] = "lockStart"]
      /\ ret' = [ret EXCEPT ![c] = "acquire"]
      /\ UNCHANGED <<from, ctx, lockVars, session, currentIndex, paused,
                     stopped, running, starting, playCmd, cancel, doneCh,
                     workerVars, crashVars>>

(***************************************************************************)
(* Pause.  Without a running afplay, or paused already, it changes         *)
(* nothing.  The playback lock is given back after Engine.mu is.           *)
(***************************************************************************)
Pause(c) ==
  LET e == Home[c]
      w == playCmd[e]
  IN  /\ "pause" \in Tools /\ cpc[c] = "idle"
      /\ ~paused[e] /\ w # None
      /\ proc' = [proc EXCEPT ![w] = IF @ = "playing" THEN "suspended" ELSE @]
      /\ paused' = [paused EXCEPT ![e] = TRUE]
      /\ Go(c, "release")
      /\ UNCHANGED <<ret, from, want, ctx, lockVars, session, minted,
                     currentIndex, stopped, running, starting, playCmd, cancel,
                     doneCh, ctxDone, pc, part, crashVars>>

(***************************************************************************)
(* Resume reads the engine under Engine.mu and acts on what it read later. *)
(* A starting session, a playing one and an empty queue are left alone.    *)
(***************************************************************************)
ResumePaused(c) ==
  LET e == Home[c]
  IN  /\ "resume" \in Tools /\ cpc[c] = "idle"
      /\ ~starting[e] /\ running[e] /\ paused[e]
      /\ Go(c, "tryResume")
      /\ UNCHANGED <<ret, from, want, ctx, lockVars, engineVars, workerVars,
                     crashVars>>

ResumeStopped(c) ==
  LET e == Home[c]
  IN  /\ "resume" \in Tools /\ cpc[c] = "idle"
      /\ ~starting[e] /\ ~running[e] /\ session[e] # 0
      /\ cpc' = [cpc EXCEPT ![c] = "lockStart"]
      /\ ret' = [ret EXCEPT ![c] = "acquire"]
      /\ from' = [from EXCEPT ![c] = currentIndex[e]]
      /\ want' = [want EXCEPT ![c] = session[e]]
      /\ UNCHANGED <<ctx, lockVars, engineVars, workerVars, crashVars>>

TryResume(c) ==
  /\ cpc[c] = "tryResume"
  /\ \/ /\ lockHolder = None
        /\ lockHolder' = Home[c]
        /\ Go(c, "setResumeLock")
        /\ UNCHANGED <<ret, from, want, ctx>>
     \/ /\ Return(c)
        /\ UNCHANGED lockHolder
  /\ UNCHANGED <<eLock, startMu, engineVars, workerVars, crashVars>>

SetResumeLock(c) ==
  /\ cpc[c] = "setResumeLock"
  /\ eLock' = [eLock EXCEPT ![Home[c]] = TRUE]
  /\ Go(c, "cont")
  /\ UNCHANGED <<ret, from, want, ctx, lockHolder, startMu, engineVars,
                 workerVars, crashVars>>

\* Mutant: resume does not signal Engine.cond.
ContinueUnsignalled(c) ==
  LET e == Home[c]
  IN  /\ cpc[c] = "cont"
      /\ proc' = [w \in Workers |->
                    IF w = playCmd[e] /\ proc[w] = "suspended"
                    THEN "playing" ELSE proc[w]]
      /\ paused' = [paused EXCEPT ![e] = FALSE]
      /\ UNCHANGED pc
      /\ Return(c)
      /\ UNCHANGED <<lockVars, session, minted, currentIndex, stopped,
                     running, starting, playCmd, cancel, doneCh, ctxDone, part,
                     crashVars>>

Continue(c) ==
  LET e == Home[c]
  IN  /\ cpc[c] = "cont"
      /\ proc' = [w \in Workers |->
                    IF w = playCmd[e] /\ proc[w] = "suspended"
                    THEN "playing" ELSE proc[w]]
      /\ paused' = [paused EXCEPT ![e] = FALSE]
      /\ pc' = Wake(e, pc)
      /\ Return(c)
      /\ UNCHANGED <<lockVars, session, minted, currentIndex, stopped,
                     running, starting, playCmd, cancel, doneCh, ctxDone, part,
                     crashVars>>

(***************************************************************************)
(* Stop.  The session context is cancelled before startMu is asked for, so *)
(* a start that synthesizes its first part gives startMu up.               *)
(***************************************************************************)
Stop(c) ==
  LET e == Home[c]
  IN  /\ "stop" \in Tools /\ cpc[c] = "idle"
      /\ ctxDone' = Cancelled(cancel[e])
      /\ cpc' = [cpc EXCEPT ![c] = "lockStart"]
      /\ ret' = [ret EXCEPT ![c] = "stopDone"]
      /\ want' = [want EXCEPT ![c] = session[e]]
      /\ UNCHANGED <<from, ctx, lockVars, engineVars, pc, part, proc,
                     crashVars>>

StopDone(c) ==
  /\ cpc[c] = "stopDone"
  /\ startMu' = [startMu EXCEPT ![Home[c]] = None]
  /\ Return(c)
  /\ UNCHANGED <<lockHolder, eLock, engineVars, workerVars, crashVars>>

-----------------------------------------------------------------------------
(* startPlayback and fullStop.                                             *)

\* Mutant: starts do not take turns on startMu.
LockStartUnserialized(c) ==
  /\ cpc[c] = "lockStart"
  /\ startMu' = [startMu EXCEPT ![Home[c]] = c]
  /\ Go(c, "fullStop")
  /\ UNCHANGED <<ret, from, want, ctx, lockHolder, eLock, engineVars,
                 workerVars, crashVars>>

LockStart(c) ==
  /\ cpc[c] = "lockStart"
  /\ startMu[Home[c]] = None
  /\ startMu' = [startMu EXCEPT ![Home[c]] = c]
  /\ Go(c, "fullStop")
  /\ UNCHANGED <<ret, from, want, ctx, lockHolder, eLock, engineVars,
                 workerVars, crashVars>>

\* fullStop with no worker: only the pause flag and the lock are left over.
FullStopIdle(c) ==
  LET e == Home[c]
  IN  /\ cpc[c] = "fullStop" /\ ~running[e]
      /\ ctxDone' = Cancelled(cancel[e])
      /\ cancel' = [cancel EXCEPT ![e] = None]
      /\ paused' = [paused EXCEPT ![e] = FALSE]
      /\ Go(c, "release")
      /\ UNCHANGED <<ret, from, want, ctx, lockVars, session, minted,
                     currentIndex, stopped, running, starting, playCmd, doneCh,
                     pc, part, proc, crashVars>>

\* Mutant: fullStop leaves the paused afplay alone.
FullStopNoKill(c) ==
  LET e == Home[c]
  IN  /\ cpc[c] = "fullStop" /\ running[e]
      /\ ctxDone' = Cancelled(cancel[e])
      /\ cancel' = [cancel EXCEPT ![e] = None]
      /\ stopped' = [stopped EXCEPT ![e] = TRUE]
      /\ UNCHANGED proc
      /\ paused' = [paused EXCEPT ![e] = FALSE]
      /\ pc' = Wake(e, pc)
      /\ Go(c, "awaitDone")
      /\ UNCHANGED <<ret, from, want, ctx, lockVars, session, minted,
                     currentIndex, running, starting, playCmd, doneCh, part,
                     crashVars>>

\* fullStop with a worker: kill its afplay, wake it, and wait for its exit.
FullStopRunning(c) ==
  LET e == Home[c]
  IN  /\ cpc[c] = "fullStop" /\ running[e]
      /\ ctxDone' = Cancelled(cancel[e])
      /\ cancel' = [cancel EXCEPT ![e] = None]
      /\ stopped' = [stopped EXCEPT ![e] = TRUE]
      /\ proc' = [w \in Workers |-> IF w = playCmd[e] THEN "exited" ELSE proc[w]]
      /\ paused' = [paused EXCEPT ![e] = FALSE]
      /\ pc' = Wake(e, pc)
      /\ Go(c, "awaitDone")
      /\ UNCHANGED <<ret, from, want, ctx, lockVars, session, minted,
                     currentIndex, running, starting, playCmd, doneCh, part,
                     crashVars>>

AwaitDone(c) ==
  /\ cpc[c] = "awaitDone"
  /\ pc[doneCh[Home[c]]] = "free"
  /\ Go(c, "release")
  /\ UNCHANGED <<ret, from, want, ctx, lockVars, engineVars, workerVars,
                 crashVars>>

\* acquireLock's TryLock: a lock that is busy, or whose file cannot be opened,
\* ends the start.
Acquire(c) ==
  /\ cpc[c] = "acquire"
  /\ \/ /\ lockHolder = None
        /\ lockHolder' = Home[c]
        /\ Go(c, "setLock")
        /\ UNCHANGED <<ret, from, want, ctx, startMu>>
     \/ /\ startMu' = [startMu EXCEPT ![Home[c]] = None]
        /\ Return(c)
        /\ UNCHANGED lockHolder
  /\ UNCHANGED <<eLock, engineVars, workerVars, crashVars>>

SetLock(c) ==
  /\ cpc[c] = "setLock"
  /\ eLock' = [eLock EXCEPT ![Home[c]] = TRUE]
  /\ Go(c, "setQueue")
  /\ UNCHANGED <<ret, from, want, ctx, lockHolder, startMu, engineVars,
                 workerVars, crashVars>>

\* The queue is recorded with a fresh context, before the first synthesis.
SetQueue(c) ==
  LET e == Home[c]
  IN  /\ cpc[c] = "setQueue"
      /\ session' = [session EXCEPT ![e] = want[c]]
      /\ currentIndex' = [currentIndex EXCEPT ![e] = from[c]]
      /\ starting' = [starting EXCEPT ![e] = TRUE]
      /\ \E w \in Workers :
            /\ Home[w] = e /\ pc[w] = "free"
            /\ pc' = [pc EXCEPT ![w] = "reserved"]
            /\ ctxDone' = [ctxDone EXCEPT ![w] = FALSE]
            /\ cancel' = [cancel EXCEPT ![e] = w]
            /\ ctx' = [ctx EXCEPT ![c] = w]
      /\ Go(c, "synth")
      /\ UNCHANGED <<ret, from, want, lockVars, minted, paused, stopped,
                     running, playCmd, doneCh, part, proc, crashVars>>

\* The first part is on disk and nobody cancelled: the worker takes over.
SynthOk(c) ==
  LET e == Home[c]
      w == ctx[c]
  IN  /\ cpc[c] = "synth" /\ ~ctxDone[w]
      /\ paused' = [paused EXCEPT ![e] = FALSE]
      /\ stopped' = [stopped EXCEPT ![e] = FALSE]
      /\ running' = [running EXCEPT ![e] = TRUE]
      /\ starting' = [starting EXCEPT ![e] = FALSE]
      /\ doneCh' = [doneCh EXCEPT ![e] = w]
      /\ pc' = [pc EXCEPT ![w] = "advance"]
      /\ part' = [part EXCEPT ![w] = from[c]]
      /\ startMu' = [startMu EXCEPT ![e] = None]
      /\ Return(c)
      /\ UNCHANGED <<lockHolder, eLock, session, minted, currentIndex, playCmd,
                     cancel, ctxDone, proc, crashVars>>

\* The provider failed the first part.
SynthError(c) ==
  /\ cpc[c] = "synth"
  /\ cpc' = [cpc EXCEPT ![c] = "release"]
  /\ ret' = [ret EXCEPT ![c] = "notStarted"]
  /\ UNCHANGED <<from, want, ctx, lockVars, engineVars, workerVars, crashVars>>

\* Stop cancelled the context: a synthesis returns, finished or not.
SynthCancelled(c) == cpc[c] = "synth" /\ ctxDone[ctx[c]] /\ SynthError(c)

NotStarted(c) ==
  LET e == Home[c]
  IN  /\ cpc[c] = "notStarted"
      /\ starting' = [starting EXCEPT ![e] = FALSE]
      /\ ctxDone' = Cancelled(cancel[e])
      /\ cancel' = [cancel EXCEPT ![e] = None]
      /\ pc' = [pc EXCEPT ![ctx[c]] = "free"]
      /\ startMu' = [startMu EXCEPT ![e] = None]
      /\ Return(c)
      /\ UNCHANGED <<lockHolder, eLock, session, minted, currentIndex, paused,
                     stopped, running, playCmd, doneCh, part, proc, crashVars>>

(***************************************************************************)
(* releaseLock, as Pause, fullStop, notStarted and finish call it: take    *)
(* Engine.lock under Engine.mu, then unlock the file it was.               *)
(***************************************************************************)
After(c) == IF ret[c] = "idle" THEN Return(c)
            ELSE Go(c, ret[c]) /\ UNCHANGED <<ret, from, want, ctx>>

\* Mutant: releaseLock forgets to clear Engine.lock.
CallReleaseKept(c) ==
  LET e == Home[c]
  IN  /\ cpc[c] = "release"
      /\ \/ /\ eLock[e]
            /\ UNCHANGED eLock
            /\ Go(c, "unlock")
            /\ UNCHANGED <<ret, from, want, ctx>>
         \/ /\ ~eLock[e]
            /\ After(c)
            /\ UNCHANGED eLock
      /\ UNCHANGED <<lockHolder, startMu, engineVars, workerVars, crashVars>>

CallRelease(c) ==
  LET e == Home[c]
  IN  /\ cpc[c] = "release"
      /\ \/ /\ eLock[e]
            /\ eLock' = [eLock EXCEPT ![e] = FALSE]
            /\ Go(c, "unlock")
            /\ UNCHANGED <<ret, from, want, ctx>>
         \/ /\ ~eLock[e]
            /\ After(c)
            /\ UNCHANGED eLock
      /\ UNCHANGED <<lockHolder, startMu, engineVars, workerVars, crashVars>>

CallUnlock(c) ==
  /\ cpc[c] = "unlock"
  /\ lockHolder' = None
  /\ After(c)
  /\ UNCHANGED <<eLock, startMu, engineVars, workerVars, crashVars>>

-----------------------------------------------------------------------------
(* The worker: one playback goroutine per started session.                 *)

Step(w, step) == pc' = [pc EXCEPT ![w] = step]

\* advance waits out a pause on Engine.cond.
AdvanceWait(w) ==
  /\ pc[w] = "advance"
  /\ paused[Home[w]] /\ ~stopped[Home[w]]
  /\ Step(w, "condwait")
  /\ UNCHANGED <<lockVars, engineVars, ctxDone, part, proc, callVars, crashVars>>

\* Mutant: a worker starts its next part while paused.
AdvanceUnpaused(w) ==
  LET e == Home[w]
  IN  /\ pc[w] = "advance"
      /\ \/ /\ stopped[e]
            /\ Step(w, "finish")
            /\ UNCHANGED currentIndex
         \/ /\ ~stopped[e]
            /\ currentIndex' = [currentIndex EXCEPT ![e] = part[w]]
            /\ Step(w, "fetch")
      /\ UNCHANGED <<lockVars, session, minted, paused, stopped, running,
                     starting, playCmd, cancel, doneCh, ctxDone, part, proc,
                     callVars, crashVars>>

Advance(w) ==
  LET e == Home[w]
  IN  /\ pc[w] = "advance"
      /\ \/ /\ stopped[e]
            /\ Step(w, "finish")
            /\ UNCHANGED currentIndex
         \/ /\ ~stopped[e] /\ ~paused[e]
            /\ currentIndex' = [currentIndex EXCEPT ![e] = part[w]]
            /\ Step(w, "fetch")
      /\ UNCHANGED <<lockVars, session, minted, paused, stopped, running,
                     starting, playCmd, cancel, doneCh, ctxDone, part, proc,
                     callVars, crashVars>>

\* A clip arrives.  A failed one ends the session.  (The clip of the first
\* part never fails here; its synthesis did that before the worker existed.)
Fetched(w) ==
  /\ pc[w] = "fetch" /\ ~ctxDone[w]
  /\ \/ Step(w, "spawn")
     \/ Step(w, "finish")
  /\ UNCHANGED <<lockVars, engineVars, ctxDone, part, proc, callVars, crashVars>>

\* wait gives up on a clip in flight once the context is cancelled.
FetchCancelled(w) ==
  /\ pc[w] = "fetch" /\ ctxDone[w]
  /\ Step(w, "finish")
  /\ UNCHANGED <<lockVars, engineVars, ctxDone, part, proc, callVars, crashVars>>

\* cmd.Start: afplay makes sound before Engine.playCmd knows of it.
Spawn(w) ==
  /\ pc[w] = "spawn"
  /\ \/ /\ proc' = [proc EXCEPT ![w] = "playing"]
        /\ Step(w, "register")
     \/ /\ Step(w, "finish")
        /\ UNCHANGED proc
  /\ UNCHANGED <<lockVars, engineVars, ctxDone, part, callVars, crashVars>>

\* A fullStop that ran before playCmd was set had nothing to kill.
Register(w) ==
  LET e == Home[w]
  IN  /\ pc[w] = "register"
      /\ playCmd' = [playCmd EXCEPT ![e] = w]
      /\ proc' = [proc EXCEPT ![w] = IF stopped[e] THEN "exited" ELSE @]
      /\ Step(w, "wait")
      /\ UNCHANGED <<lockVars, session, minted, currentIndex, paused, stopped,
                     running, starting, cancel, doneCh, ctxDone, part,
                     callVars, crashVars>>

\* afplay reaches the end of the clip.  A suspended one does not.
ClipEnds(w) ==
  /\ proc[w] = "playing"
  /\ proc' = [proc EXCEPT ![w] = "exited"]
  /\ UNCHANGED <<lockVars, engineVars, ctxDone, pc, part, callVars, crashVars>>

\* cmd.Wait returned: forget the child, go on to the next part or finish.
Reap(w) ==
  LET e == Home[w]
      more == ~stopped[e] /\ part[w] < Parts
  IN  /\ pc[w] = "wait" /\ proc[w] = "exited"
      /\ proc' = [proc EXCEPT ![w] = "none"]
      /\ playCmd' = [playCmd EXCEPT ![e] = None]
      /\ part' = [part EXCEPT ![w] = IF more THEN @ + 1 ELSE @]
      /\ Step(w, IF more THEN "advance" ELSE "finish")
      /\ UNCHANGED <<lockVars, session, minted, currentIndex, paused, stopped,
                     running, starting, cancel, doneCh, ctxDone, callVars,
                     crashVars>>

\* finish: after a Stop, fullStop owns the release.
Finish(w) ==
  LET e == Home[w]
  IN  /\ pc[w] = "finish"
      /\ running' = [running EXCEPT ![e] = FALSE]
      /\ playCmd' = [playCmd EXCEPT ![e] = None]
      /\ Step(w, IF stopped[e] THEN "close" ELSE "release")
      /\ UNCHANGED <<lockVars, session, minted, currentIndex, paused, stopped,
                     starting, cancel, doneCh, ctxDone, part, proc, callVars,
                     crashVars>>

WorkerRelease(w) ==
  LET e == Home[w]
  IN  /\ pc[w] = "release"
      /\ eLock' = [eLock EXCEPT ![e] = FALSE]
      /\ Step(w, IF eLock[e] THEN "unlock" ELSE "close")
      /\ UNCHANGED <<lockHolder, startMu, engineVars, ctxDone, part, proc,
                     callVars, crashVars>>

WorkerUnlock(w) ==
  /\ pc[w] = "unlock"
  /\ lockHolder' = None
  /\ Step(w, "close")
  /\ UNCHANGED <<eLock, startMu, engineVars, ctxDone, part, proc, callVars,
                 crashVars>>

\* close(done): the goroutine is gone.  Its context, which nothing waits on
\* any more, is forgotten, so the slot can stand for a later session.
CloseDone(w) ==
  /\ pc[w] = "close"
  /\ Step(w, "free")
  /\ part' = [part EXCEPT ![w] = 1]
  /\ ctxDone' = [ctxDone EXCEPT ![w] = FALSE]
  /\ cancel' = [e \in Engines |-> IF cancel[e] = w THEN None ELSE cancel[e]]
  /\ UNCHANGED <<lockVars, session, minted, currentIndex, paused, stopped,
                 running, starting, playCmd, doneCh, proc, callVars, crashVars>>

-----------------------------------------------------------------------------
(***************************************************************************)
(* The process dies: its client closed stdin, or it was killed.  The       *)
(* kernel frees the flock; nothing ends the afplay child.                  *)
(***************************************************************************)
Reset(f, S, e, v) == [x \in S |-> IF x = e THEN v ELSE f[x]]
ResetHome(f, S, e, v) == [x \in S |-> IF Home[x] = e THEN v ELSE f[x]]

Crash(e) ==
  /\ crashes < MaxCrashes
  /\ crashes' = crashes + 1
  /\ orphan' = [orphan EXCEPT ![e] =
                  @ \/ \E w \in Workers : Home[w] = e /\ proc[w] = "playing"]
  /\ lockHolder' = IF lockHolder = e THEN None ELSE lockHolder
  /\ eLock' = Reset(eLock, Engines, e, FALSE)
  /\ startMu' = Reset(startMu, Engines, e, None)
  /\ session' = Reset(session, Engines, e, 0)
  /\ currentIndex' = Reset(currentIndex, Engines, e, 1)
  /\ paused' = Reset(paused, Engines, e, FALSE)
  /\ stopped' = Reset(stopped, Engines, e, FALSE)
  /\ running' = Reset(running, Engines, e, FALSE)
  /\ starting' = Reset(starting, Engines, e, FALSE)
  /\ playCmd' = Reset(playCmd, Engines, e, None)
  /\ cancel' = Reset(cancel, Engines, e, None)
  /\ doneCh' = Reset(doneCh, Engines, e, None)
  /\ ctxDone' = ResetHome(ctxDone, Workers, e, FALSE)
  /\ pc' = ResetHome(pc, Workers, e, "free")
  /\ part' = ResetHome(part, Workers, e, 1)
  /\ proc' = ResetHome(proc, Workers, e, "none")
  /\ cpc' = ResetHome(cpc, Calls, e, "idle")
  /\ ret' = ResetHome(ret, Calls, e, "idle")
  /\ from' = ResetHome(from, Calls, e, 1)
  /\ want' = ResetHome(want, Calls, e, 0)
  /\ ctx' = ResetHome(ctx, Calls, e, None)
  /\ UNCHANGED minted

OrphanEnds(e) ==
  /\ orphan[e]
  /\ orphan' = [orphan EXCEPT ![e] = FALSE]
  /\ UNCHANGED <<lockVars, engineVars, workerVars, callVars, crashes>>

-----------------------------------------------------------------------------
\* What a call does once a tool was invoked, whatever the provider does.
CallStep(c) ==
  \/ TryResume(c) \/ SetResumeLock(c) \/ Continue(c)
  \/ FullStopIdle(c) \/ FullStopRunning(c) \/ AwaitDone(c)
  \/ Acquire(c) \/ SetLock(c) \/ SetQueue(c) \/ SynthCancelled(c)
  \/ NotStarted(c) \/ CallRelease(c) \/ CallUnlock(c) \/ StopDone(c)

\* The provider answers the first part.
Answer(c) == SynthOk(c) \/ SynthError(c)

Invoke(c) == Speak(c) \/ Pause(c) \/ ResumePaused(c) \/ ResumeStopped(c) \/ Stop(c)

WorkerStep(w) ==
  \/ AdvanceWait(w) \/ Advance(w) \/ FetchCancelled(w) \/ Spawn(w)
  \/ Register(w) \/ ClipEnds(w) \/ Reap(w) \/ Finish(w)
  \/ WorkerRelease(w) \/ WorkerUnlock(w) \/ CloseDone(w)

Next ==
  \/ \E c \in Calls : Invoke(c) \/ LockStart(c) \/ CallStep(c) \/ Answer(c)
  \/ \E w \in Workers : WorkerStep(w) \/ Fetched(w)
  \/ \E e \in Engines : Crash(e) \/ OrphanEnds(e)

\* Safety only.
Spec == Init /\ [][Next]_vars

(***************************************************************************)
(* Goroutines run, afplay ends, and a Go mutex does not starve a waiter.   *)
(* Nothing is assumed of the provider (a synthesis may never answer) or of *)
(* the clients (no tool has to be called).                                 *)
(***************************************************************************)
Fairness ==
  /\ \A c \in Calls : WF_vars(CallStep(c)) /\ SF_vars(LockStart(c))
  /\ \A w \in Workers : WF_vars(WorkerStep(w))

LiveSpec == Spec /\ Fairness

-----------------------------------------------------------------------------
(* Properties.                                                             *)

\* An engine runs at most one afplay at a time: the child of a session that
\* is over is dead before the next session's first child starts.
OneVoice ==
  \A v, w \in Workers :
    Home[v] = Home[w] /\ proc[v] # "none" /\ proc[w] # "none" => v = w

\* The flock is never lost track of: the process that holds it has exactly
\* one reference to the descriptor, in Engine.lock or on a goroutine that is
\* about to record or unlock it, and a process that does not hold it has none.
References(e) ==
  (IF eLock[e] THEN {e} ELSE {})
  \union {c \in Calls : Home[c] = e /\ cpc[c] \in {"setLock", "setResumeLock", "unlock"}}
  \union {w \in Workers : Home[w] = e /\ pc[w] = "unlock"}

LockAccounted ==
  \A e \in Engines : Cardinality(References(e)) = IF lockHolder = e THEN 1 ELSE 0

\* Pause silences: while an engine is paused none of its afplay children makes
\* a sound, and a suspended child is never left behind by an engine that is
\* not paused.
PauseSilences ==
  \A w \in Workers :
    /\ paused[Home[w]] => proc[w] # "playing"
    /\ proc[w] = "suspended" => paused[Home[w]]

\* No lost wakeup: a worker that waits on Engine.cond has reason to.
NoLostWakeup ==
  \A w \in Workers : pc[w] = "condwait" => paused[Home[w]] /\ ~stopped[Home[w]]

\* Exactly the engine that is running has a worker that has not finished, so
\* a start, which waits out the running worker, never overlaps two of them.
OneWorker ==
  \A e \in Engines :
    Cardinality({w \in Workers : Home[w] = e /\
        pc[w] \notin {"free", "reserved", "release", "unlock", "close"}})
      = IF running[e] THEN 1 ELSE 0

\* Only one process is heard at a time, as the service's README says: a second caller
\* gets BUSY instead of talking over the first.  (It is not so: finish clears running
\* and releases the lock in two critical sections, and a session that starts in
\* between loses its lock to the old worker.)
Audible(e) == orphan[e] \/ \E w \in Workers : Home[w] = e /\ proc[w] = "playing"

NobodyTalksOver == \A d, e \in Engines : Audible(d) /\ Audible(e) => d = e

\* A Stop that was called returns: whatever the worker waits for (its condition,
\* a clip, its child), fullStop gets it to its end.
StopReturns == \A c \in Calls : ret[c] = "stopDone" ~> ret[c] # "stopDone"
=============================================================================
