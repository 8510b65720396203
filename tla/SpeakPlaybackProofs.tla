------------------------ MODULE SpeakPlaybackProofs ------------------------
(***************************************************************************)
(* The safety invariants of the playback engine hold for every number of   *)
(* processes, calls, workers, parts, sessions and crashes.                 *)
(***************************************************************************)
EXTENDS SpeakPlayback, FiniteSetTheorems, TLAPS

-----------------------------------------------------------------------------
(* The inductive invariant.                                                *)

\* A call that has a session under way and not yet handed to a worker holds a
\* reserved slot of its own process, and no two calls hold the same one.
Reserves(c) == cpc[c] = "synth" \/ ret[c] = "notStarted"

SlotInv ==
  /\ \A c \in Calls : cpc[c] = "notStarted" => ret[c] = "notStarted"
  /\ \A c \in Calls : Reserves(c) =>
       /\ ctx[c] \in Workers /\ Home[ctx[c]] = Home[c]
       /\ pc[ctx[c]] = "reserved"
  /\ \A c, d \in Calls : Reserves(c) /\ Reserves(d) /\ ctx[c] = ctx[d] => c = d

\* LockAccounted without counting: the file a call or a worker has in hand, or
\* Engine.lock, is the locked one, and there is one of them.
InHand(c) == cpc[c] \in {"setLock", "setResumeLock", "unlock"}

LockInv ==
  /\ \A e \in Engines : eLock[e] => lockHolder = e
  /\ \A c \in Calls : InHand(c) => lockHolder = Home[c] /\ ~eLock[Home[c]]
  /\ \A w \in Workers : pc[w] = "unlock" => lockHolder = Home[w] /\ ~eLock[Home[w]]
  /\ \A c, d \in Calls : InHand(c) /\ InHand(d) => c = d
  /\ \A v, w \in Workers : pc[v] = "unlock" /\ pc[w] = "unlock" => v = w
  /\ \A c \in Calls, w \in Workers : ~(InHand(c) /\ pc[w] = "unlock")
  /\ lockHolder # None =>
       \/ eLock[lockHolder]
       \/ \E c \in Calls : InHand(c) /\ Home[c] = lockHolder
       \/ \E w \in Workers : pc[w] = "unlock" /\ Home[w] = lockHolder

\* startMu is held from LockStart to the end of a start or a Stop.
Owns(c) ==
  \/ cpc[c] \in {"fullStop", "awaitDone", "acquire", "setLock", "setQueue",
                 "synth", "notStarted", "stopDone"}
  \/ cpc[c] \in {"release", "unlock"} /\ ret[c] # "idle"

StartInv ==
  /\ \A c \in Calls : cpc[c] \in {"idle", "tryResume", "setResumeLock", "cont"}
                        => ret[c] = "idle"
  /\ \A c \in Calls : Owns(c) => startMu[Home[c]] = c

\* After fullStop, and until the start or the Stop ends, nothing runs.
QuietInv ==
  \A c \in Calls :
    Owns(c) /\ cpc[c] \notin {"fullStop", "awaitDone"} => ~running[Home[c]]

\* The running engine's worker is the one doneCh belongs to, and the only one.
ActiveSteps == {"advance", "condwait", "fetch", "spawn", "register", "wait", "finish"}

RunInv ==
  /\ \A e \in Engines : running[e] =>
       doneCh[e] \in Workers /\ Home[doneCh[e]] = e /\ pc[doneCh[e]] \in ActiveSteps
  /\ \A w \in Workers : pc[w] \in ActiveSteps =>
       running[Home[w]] /\ doneCh[Home[w]] = w

\* The afplay of a worker, and what Pause and Resume can reach of it.
ProcInv ==
  /\ \A w \in Workers : proc[w] # "none" => pc[w] \in {"register", "wait"}
  /\ \A w \in Workers : pc[w] = "wait" => playCmd[Home[w]] = w
  /\ \A e \in Engines : playCmd[e] # None =>
       playCmd[e] \in Workers /\ Home[playCmd[e]] = e /\ pc[playCmd[e]] = "wait"
  /\ \A w \in Workers : pc[w] \in {"fetch", "spawn", "register"} => ~paused[Home[w]]
  /\ \A w \in Workers : proc[w] = "suspended" => pc[w] = "wait"

-----------------------------------------------------------------------------
(* Types.                                                                  *)

\* A call at rest keeps the types of what it holds.
LEMMA ReturnTypes ==
  ASSUME TypeOK, NEW c \in Calls, Return(c)
  PROVE  /\ cpc' \in [Calls -> CallSteps]
         /\ ret' \in [Calls -> {"idle", "acquire", "stopDone", "notStarted"}]
         /\ from' \in [Calls -> 1..Parts]
         /\ want' \in [Calls -> 0..MaxSessions]
         /\ ctx' \in [Calls -> Workers \union {None}]
  BY PlaybackAssumption DEF TypeOK, Return, CallSteps

\* Wiping one process's entries keeps a function's type.
LEMMA ResetTypes ==
  ASSUME NEW S, NEW T, NEW f \in [S -> T], NEW e, NEW v \in T
  PROVE  Reset(f, S, e, v) \in [S -> T] /\ ResetHome(f, S, e, v) \in [S -> T]
  BY DEF Reset, ResetHome

\* Every variable keeps its type.
THEOREM TypeCorrect == Spec => []TypeOK
<1>1. Init => TypeOK
  BY PlaybackAssumption DEF Init, TypeOK, WorkerSteps, CallSteps
<1>2. TypeOK /\ [Next]_vars => TypeOK'
  <2> SUFFICES ASSUME TypeOK, [Next]_vars PROVE TypeOK'
    OBVIOUS
  <2> USE PlaybackAssumption DEF TypeOK, WorkerSteps, CallSteps, lockVars, engineVars,
          workerVars, callVars, crashVars
  <2>1. ASSUME NEW c \in Calls, Speak(c) PROVE TypeOK'
    BY <2>1 DEF Speak
  <2>2. ASSUME NEW c \in Calls, Pause(c) PROVE TypeOK'
    BY <2>2 DEF Pause, Go
  <2>3. ASSUME NEW c \in Calls, ResumePaused(c) PROVE TypeOK'
    BY <2>3 DEF ResumePaused, Go
  <2>4. ASSUME NEW c \in Calls, ResumeStopped(c) PROVE TypeOK'
    BY <2>4 DEF ResumeStopped
  <2>5. ASSUME NEW c \in Calls, Stop(c) PROVE TypeOK'
    BY <2>5 DEF Stop, Cancelled
  <2>6. ASSUME NEW c \in Calls, LockStart(c) PROVE TypeOK'
    BY <2>6 DEF LockStart, Go
  <2>7. ASSUME NEW c \in Calls, TryResume(c) PROVE TypeOK'
    BY <2>7, ReturnTypes DEF TryResume, Go
  <2>8. ASSUME NEW c \in Calls, SetResumeLock(c) PROVE TypeOK'
    BY <2>8 DEF SetResumeLock, Go
  <2>9. ASSUME NEW c \in Calls, Continue(c) PROVE TypeOK'
    BY <2>9, ReturnTypes DEF Continue, Wake
  <2>10. ASSUME NEW c \in Calls, FullStopIdle(c) PROVE TypeOK'
    BY <2>10 DEF FullStopIdle, Cancelled, Go
  <2>11. ASSUME NEW c \in Calls, FullStopRunning(c) PROVE TypeOK'
    BY <2>11 DEF FullStopRunning, Cancelled, Go, Wake
  <2>12. ASSUME NEW c \in Calls, AwaitDone(c) PROVE TypeOK'
    BY <2>12 DEF AwaitDone, Go
  <2>13. ASSUME NEW c \in Calls, Acquire(c) PROVE TypeOK'
    <3>1. /\ cpc' \in [Calls -> CallSteps]
          /\ ret' \in [Calls -> {"idle", "acquire", "stopDone", "notStarted"}]
          /\ from' \in [Calls -> 1..Parts]
          /\ want' \in [Calls -> 0..MaxSessions]
          /\ ctx' \in [Calls -> Workers \union {None}]
      BY <2>13, ReturnTypes, SMTT(30) DEF Acquire, Go
    <3>2. /\ lockHolder' \in Engines \union {None}
          /\ startMu' \in [Engines -> Calls \union {None}]
      BY <2>13 DEF Acquire
    <3>3. QED
      BY <2>13, <3>1, <3>2 DEF Acquire
  <2>14. ASSUME NEW c \in Calls, SetLock(c) PROVE TypeOK'
    BY <2>14 DEF SetLock, Go
  <2>15. ASSUME NEW c \in Calls, SetQueue(c) PROVE TypeOK'
    BY <2>15 DEF SetQueue, Go
  <2>16. ASSUME NEW c \in Calls, SynthCancelled(c) PROVE TypeOK'
    BY <2>16 DEF SynthCancelled, SynthError
  <2>17. ASSUME NEW c \in Calls, NotStarted(c) PROVE TypeOK'
    BY <2>17, ReturnTypes DEF NotStarted, Cancelled
  <2>18. ASSUME NEW c \in Calls, CallRelease(c) PROVE TypeOK'
    <3>1. /\ cpc' \in [Calls -> CallSteps]
          /\ ret' \in [Calls -> {"idle", "acquire", "stopDone", "notStarted"}]
          /\ from' \in [Calls -> 1..Parts]
          /\ want' \in [Calls -> 0..MaxSessions]
          /\ ctx' \in [Calls -> Workers \union {None}]
      BY <2>18, ReturnTypes DEF CallRelease, After, Go
    <3>2. eLock' \in [Engines -> BOOLEAN]
      BY <2>18 DEF CallRelease
    <3>3. QED
      BY <2>18, <3>1, <3>2 DEF CallRelease
  <2>19. ASSUME NEW c \in Calls, CallUnlock(c) PROVE TypeOK'
    BY <2>19, ReturnTypes DEF CallUnlock, After, Go
  <2>20. ASSUME NEW c \in Calls, StopDone(c) PROVE TypeOK'
    BY <2>20 DEF StopDone, Return
  <2>21. ASSUME NEW c \in Calls, SynthOk(c) PROVE TypeOK'
    BY <2>21, ReturnTypes DEF SynthOk
  <2>22. ASSUME NEW c \in Calls, SynthError(c) PROVE TypeOK'
    BY <2>22 DEF SynthError
  <2>23. ASSUME NEW w \in Workers, AdvanceWait(w) PROVE TypeOK'
    BY <2>23 DEF AdvanceWait, Step
  <2>24. ASSUME NEW w \in Workers, Advance(w) PROVE TypeOK'
    BY <2>24, SMTT(30) DEF Advance, Step
  <2>25. ASSUME NEW w \in Workers, FetchCancelled(w) PROVE TypeOK'
    BY <2>25 DEF FetchCancelled, Step
  <2>26. ASSUME NEW w \in Workers, Spawn(w) PROVE TypeOK'
    BY <2>26 DEF Spawn, Step
  <2>27. ASSUME NEW w \in Workers, Register(w) PROVE TypeOK'
    BY <2>27 DEF Register, Step
  <2>28. ASSUME NEW w \in Workers, ClipEnds(w) PROVE TypeOK'
    BY <2>28 DEF ClipEnds
  <2>29. ASSUME NEW w \in Workers, Reap(w) PROVE TypeOK'
    BY <2>29 DEF Reap, Step
  <2>30. ASSUME NEW w \in Workers, Finish(w) PROVE TypeOK'
    BY <2>30 DEF Finish, Step
  <2>31. ASSUME NEW w \in Workers, WorkerRelease(w) PROVE TypeOK'
    BY <2>31 DEF WorkerRelease, Step
  <2>32. ASSUME NEW w \in Workers, WorkerUnlock(w) PROVE TypeOK'
    BY <2>32 DEF WorkerUnlock, Step
  <2>33. ASSUME NEW w \in Workers, CloseDone(w) PROVE TypeOK'
    BY <2>33 DEF CloseDone, Step
  <2>34. ASSUME NEW w \in Workers, Fetched(w) PROVE TypeOK'
    BY <2>34 DEF Fetched, Step
  <2>35. ASSUME NEW e \in Engines, Crash(e) PROVE TypeOK'
    <3>1. /\ eLock' \in [Engines -> BOOLEAN] /\ orphan' \in [Engines -> BOOLEAN]
          /\ startMu' \in [Engines -> Calls \union {None}]
          /\ paused' \in [Engines -> BOOLEAN] /\ stopped' \in [Engines -> BOOLEAN]
          /\ running' \in [Engines -> BOOLEAN] /\ starting' \in [Engines -> BOOLEAN]
          /\ playCmd' \in [Engines -> Workers \union {None}]
          /\ cancel' \in [Engines -> Workers \union {None}]
          /\ doneCh' \in [Engines -> Workers \union {None}]
      BY <2>35, ResetTypes DEF Crash
    <3>2. /\ session' \in [Engines -> 0..MaxSessions]
          /\ currentIndex' \in [Engines -> 1..Parts]
          /\ part' \in [Workers -> 1..Parts]
          /\ from' \in [Calls -> 1..Parts]
          /\ want' \in [Calls -> 0..MaxSessions]
      BY <2>35 DEF Crash, Reset, ResetHome
    <3>3. /\ ctxDone' \in [Workers -> BOOLEAN]
          /\ pc' \in [Workers -> WorkerSteps]
          /\ proc' \in [Workers -> {"none", "playing", "suspended", "exited"}]
          /\ cpc' \in [Calls -> CallSteps]
          /\ ret' \in [Calls -> {"idle", "acquire", "stopDone", "notStarted"}]
          /\ ctx' \in [Calls -> Workers \union {None}]
      BY <2>35, ResetTypes DEF Crash
    <3>4. /\ lockHolder' \in Engines \union {None}
          /\ minted' \in [Engines -> 0..MaxSessions]
          /\ crashes' \in 0..MaxCrashes
      BY <2>35 DEF Crash
    <3>5. QED
      BY <3>1, <3>2, <3>3, <3>4
  <2>36. ASSUME NEW e \in Engines, OrphanEnds(e) PROVE TypeOK'
    BY <2>36 DEF OrphanEnds
  <2>37. CASE UNCHANGED vars
    BY <2>37 DEF vars
  <2>38. QED
    BY <2>1, <2>2, <2>3, <2>4, <2>5, <2>6, <2>7, <2>8, <2>9, <2>10, <2>11, <2>12, <2>13, <2>14, <2>15, <2>16, <2>17, <2>18, <2>19, <2>20, <2>21, <2>22, <2>23, <2>24, <2>25, <2>26, <2>27, <2>28, <2>29, <2>30, <2>31, <2>32, <2>33, <2>34, <2>35, <2>36, <2>37 DEF Next, CallStep, Answer, Invoke, WorkerStep
<1>3. QED
  BY <1>1, <1>2, PTL DEF Spec

-----------------------------------------------------------------------------
(* What one step preserves.                                                *)

\* Reserved slots stay reserved and are never shared.
LEMMA SlotStep ==
  ASSUME TypeOK, SlotInv, [Next]_vars
  PROVE  SlotInv'
<1> USE PlaybackAssumption DEF TypeOK, lockVars, engineVars, workerVars,
      callVars, crashVars, SlotInv, Reserves
<1>1. CASE UNCHANGED <<cpc, ctx, pc, ret>>
  BY <1>1
<1>2. ASSUME NEW w \in Workers, ClipEnds(w)
      PROVE  UNCHANGED <<cpc, ctx, pc, ret>>
  BY <1>2 DEF ClipEnds
<1>3. ASSUME UNCHANGED vars \/ \E e \in Engines : OrphanEnds(e)
      PROVE  UNCHANGED <<cpc, ctx, pc, ret>>
  BY <1>3 DEF vars, OrphanEnds
<1>4. ASSUME NEW c \in Calls, Speak(c) PROVE SlotInv'
  BY <1>4 DEF Speak
<1>5. ASSUME NEW c \in Calls, Pause(c) PROVE SlotInv'
  BY <1>5 DEF Pause, Go
<1>6. ASSUME NEW c \in Calls, ResumePaused(c) PROVE SlotInv'
  BY <1>6 DEF ResumePaused, Go
<1>7. ASSUME NEW c \in Calls, ResumeStopped(c) PROVE SlotInv'
  BY <1>7 DEF ResumeStopped
<1>8. ASSUME NEW c \in Calls, Stop(c) PROVE SlotInv'
  BY <1>8 DEF Stop, Cancelled
<1>9. ASSUME NEW c \in Calls, LockStart(c) PROVE SlotInv'
  BY <1>9 DEF LockStart, Go
<1>10. ASSUME NEW c \in Calls, TryResume(c) PROVE SlotInv'
  <2>1. CASE Go(c, "setResumeLock")
    BY <1>10, <2>1 DEF TryResume, Go, Return
  <2>2. CASE Return(c)
    BY <1>10, <2>2 DEF TryResume, Return
  <2>3. QED
    BY <1>10, <2>1, <2>2 DEF TryResume
<1>11. ASSUME NEW c \in Calls, SetResumeLock(c) PROVE SlotInv'
  BY <1>11 DEF SetResumeLock, Go
<1>12. ASSUME NEW c \in Calls, Continue(c) PROVE SlotInv'
  BY <1>12 DEF Continue, Wake, Return
<1>13. ASSUME NEW c \in Calls, FullStopIdle(c) PROVE SlotInv'
  BY <1>13 DEF FullStopIdle, Cancelled, Go
<1>14. ASSUME NEW c \in Calls, FullStopRunning(c) PROVE SlotInv'
  BY <1>14 DEF FullStopRunning, Cancelled, Go, Wake
<1>15. ASSUME NEW c \in Calls, AwaitDone(c) PROVE SlotInv'
  BY <1>15 DEF AwaitDone, Go
<1>16. ASSUME NEW c \in Calls, Acquire(c) PROVE SlotInv'
  <2>1. CASE Go(c, "setLock")
    BY <1>16, <2>1 DEF Acquire, Go, Return
  <2>2. CASE Return(c)
    BY <1>16, <2>2 DEF Acquire, Return
  <2>3. QED
    BY <1>16, <2>1, <2>2 DEF Acquire
<1>17. ASSUME NEW c \in Calls, SetLock(c) PROVE SlotInv'
  BY <1>17 DEF SetLock, Go
<1>18. ASSUME NEW c \in Calls, SetQueue(c) PROVE SlotInv'
  BY <1>18 DEF SetQueue, Go
<1>19. ASSUME NEW c \in Calls, SynthCancelled(c) PROVE SlotInv'
  BY <1>19 DEF SynthCancelled, SynthError
<1>20. ASSUME NEW c \in Calls, NotStarted(c) PROVE SlotInv'
  BY <1>20 DEF NotStarted, Cancelled, Return
<1>21. ASSUME NEW c \in Calls, CallRelease(c) PROVE SlotInv'
  <2>1. CASE Go(c, "unlock") /\ UNCHANGED <<ret, from, want, ctx>>
    BY <1>21, <2>1 DEF CallRelease, Go
  <2>2. CASE ret[c] = "idle" /\ Return(c)
    BY <1>21, <2>2 DEF CallRelease, Return
  <2>3. CASE ret[c] # "idle" /\ Go(c, ret[c]) /\ UNCHANGED <<ret, from, want, ctx>>
    BY <1>21, <2>3, SMTT(30) DEF CallRelease, Go
  <2>4. QED
    BY <1>21, <2>1, <2>2, <2>3 DEF CallRelease, After
<1>22. ASSUME NEW c \in Calls, CallUnlock(c) PROVE SlotInv'
  <2>1. CASE ret[c] = "idle" /\ Return(c)
    BY <1>22, <2>1 DEF CallUnlock, Return
  <2>2. CASE ret[c] # "idle" /\ Go(c, ret[c]) /\ UNCHANGED <<ret, from, want, ctx>>
    BY <1>22, <2>2, SMTT(30) DEF CallUnlock, Go
  <2>3. QED
    BY <1>22, <2>1, <2>2 DEF CallUnlock, After
<1>23. ASSUME NEW c \in Calls, StopDone(c) PROVE SlotInv'
  BY <1>23 DEF StopDone, Return
<1>24. ASSUME NEW c \in Calls, SynthOk(c) PROVE SlotInv'
  BY <1>24 DEF SynthOk, Return
<1>25. ASSUME NEW c \in Calls, SynthError(c) PROVE SlotInv'
  BY <1>25 DEF SynthError
<1>26. ASSUME NEW w \in Workers, AdvanceWait(w) PROVE SlotInv'
  BY <1>26 DEF AdvanceWait, Step
<1>27. ASSUME NEW w \in Workers, Advance(w) PROVE SlotInv'
  BY <1>27 DEF Advance, Step
<1>28. ASSUME NEW w \in Workers, FetchCancelled(w) PROVE SlotInv'
  BY <1>28 DEF FetchCancelled, Step
<1>29. ASSUME NEW w \in Workers, Spawn(w) PROVE SlotInv'
  BY <1>29 DEF Spawn, Step
<1>30. ASSUME NEW w \in Workers, Register(w) PROVE SlotInv'
  BY <1>30 DEF Register, Step
<1>31. ASSUME NEW w \in Workers, Reap(w) PROVE SlotInv'
  BY <1>31 DEF Reap, Step
<1>32. ASSUME NEW w \in Workers, Finish(w) PROVE SlotInv'
  BY <1>32 DEF Finish, Step
<1>33. ASSUME NEW w \in Workers, WorkerRelease(w) PROVE SlotInv'
  BY <1>33 DEF WorkerRelease, Step
<1>34. ASSUME NEW w \in Workers, WorkerUnlock(w) PROVE SlotInv'
  BY <1>34 DEF WorkerUnlock, Step
<1>35. ASSUME NEW w \in Workers, CloseDone(w) PROVE SlotInv'
  BY <1>35 DEF CloseDone, Step
<1>36. ASSUME NEW w \in Workers, Fetched(w) PROVE SlotInv'
  BY <1>36 DEF Fetched, Step
<1>37. ASSUME NEW e \in Engines, Crash(e) PROVE SlotInv'
  BY <1>37 DEF Crash, Reset, ResetHome
<1>38. QED
  BY <1>1, <1>2, <1>3, <1>4, <1>5, <1>6, <1>7, <1>8, <1>9, <1>10, <1>11,
     <1>12, <1>13, <1>14, <1>15, <1>16, <1>17, <1>18, <1>19, <1>20, <1>21,
     <1>22, <1>23, <1>24, <1>25, <1>26, <1>27, <1>28, <1>29, <1>30, <1>31,
     <1>32, <1>33, <1>34, <1>35, <1>36, <1>37
     DEF Next, CallStep, Answer, Invoke, WorkerStep

\* The references to the flock follow its holder.
LEMMA LockStep ==
  ASSUME TypeOK, SlotInv, LockInv, [Next]_vars
  PROVE  LockInv'
<1> USE PlaybackAssumption DEF TypeOK, lockVars, engineVars, workerVars,
      callVars, crashVars, SlotInv, Reserves, LockInv, InHand
<1>1. CASE UNCHANGED <<cpc, eLock, lockHolder, pc>>
  BY <1>1
<1>2. ASSUME NEW w \in Workers, ClipEnds(w)
      PROVE  UNCHANGED <<cpc, eLock, lockHolder, pc>>
  BY <1>2 DEF ClipEnds
<1>3. ASSUME UNCHANGED vars \/ \E e \in Engines : OrphanEnds(e)
      PROVE  UNCHANGED <<cpc, eLock, lockHolder, pc>>
  BY <1>3 DEF vars, OrphanEnds
<1>4. ASSUME NEW c \in Calls, Speak(c) PROVE LockInv'
  BY <1>4 DEF Speak
<1>5. ASSUME NEW c \in Calls, Pause(c) PROVE LockInv'
  BY <1>5 DEF Pause, Go
<1>6. ASSUME NEW c \in Calls, ResumePaused(c) PROVE LockInv'
  BY <1>6 DEF ResumePaused, Go
<1>7. ASSUME NEW c \in Calls, ResumeStopped(c) PROVE LockInv'
  BY <1>7 DEF ResumeStopped
<1>8. ASSUME NEW c \in Calls, Stop(c) PROVE LockInv'
  BY <1>8 DEF Stop, Cancelled
<1>9. ASSUME NEW c \in Calls, LockStart(c) PROVE LockInv'
  BY <1>9 DEF LockStart, Go
<1>10. ASSUME NEW c \in Calls, TryResume(c) PROVE LockInv'
  <2>1. CASE Go(c, "setResumeLock") /\ lockHolder = None /\ lockHolder' = Home[c]
    BY <1>10, <2>1 DEF TryResume, Go
  <2>2. CASE Return(c) /\ UNCHANGED lockHolder
    BY <1>10, <2>2 DEF TryResume, Return
  <2>3. QED
    BY <1>10, <2>1, <2>2 DEF TryResume
<1>11. ASSUME NEW c \in Calls, SetResumeLock(c) PROVE LockInv'
  BY <1>11 DEF SetResumeLock, Go
<1>12. ASSUME NEW c \in Calls, Continue(c) PROVE LockInv'
  BY <1>12 DEF Continue, Wake, Return
<1>13. ASSUME NEW c \in Calls, FullStopIdle(c) PROVE LockInv'
  BY <1>13 DEF FullStopIdle, Cancelled, Go
<1>14. ASSUME NEW c \in Calls, FullStopRunning(c) PROVE LockInv'
  BY <1>14 DEF FullStopRunning, Cancelled, Go, Wake
<1>15. ASSUME NEW c \in Calls, AwaitDone(c) PROVE LockInv'
  BY <1>15 DEF AwaitDone, Go
<1>16. ASSUME NEW c \in Calls, Acquire(c) PROVE LockInv'
  <2>1. CASE Go(c, "setLock") /\ lockHolder = None /\ lockHolder' = Home[c]
    BY <1>16, <2>1 DEF Acquire, Go
  <2>2. CASE Return(c) /\ UNCHANGED lockHolder
    BY <1>16, <2>2 DEF Acquire, Return
  <2>3. QED
    BY <1>16, <2>1, <2>2 DEF Acquire
<1>17. ASSUME NEW c \in Calls, SetLock(c) PROVE LockInv'
  BY <1>17 DEF SetLock, Go
<1>18. ASSUME NEW c \in Calls, SetQueue(c) PROVE LockInv'
  BY <1>18 DEF SetQueue, Go
<1>19. ASSUME NEW c \in Calls, SynthCancelled(c) PROVE LockInv'
  BY <1>19 DEF SynthCancelled, SynthError
<1>20. ASSUME NEW c \in Calls, NotStarted(c) PROVE LockInv'
  BY <1>20 DEF NotStarted, Cancelled, Return
<1>21. ASSUME NEW c \in Calls, CallRelease(c) PROVE LockInv'
  <2>1. CASE /\ eLock[Home[c]] /\ eLock' = [eLock EXCEPT ![Home[c]] = FALSE]
             /\ Go(c, "unlock")
    BY <1>21, <2>1 DEF CallRelease, Go
  <2>2. CASE ret[c] = "idle" /\ Return(c) /\ UNCHANGED eLock
    BY <1>21, <2>2 DEF CallRelease, Return
  <2>3. CASE ret[c] # "idle" /\ Go(c, ret[c]) /\ UNCHANGED eLock
    BY <1>21, <2>3, SMTT(30) DEF CallRelease, Go
  <2>4. QED
    BY <1>21, <2>1, <2>2, <2>3 DEF CallRelease, After
<1>22. ASSUME NEW c \in Calls, CallUnlock(c) PROVE LockInv'
  <2>1. CASE ret[c] = "idle" /\ Return(c)
    BY <1>22, <2>1 DEF CallUnlock, Return
  <2>2. CASE ret[c] # "idle" /\ Go(c, ret[c]) /\ UNCHANGED <<ret, from, want, ctx>>
    BY <1>22, <2>2, SMTT(30) DEF CallUnlock, Go
  <2>3. QED
    BY <1>22, <2>1, <2>2 DEF CallUnlock, After
<1>23. ASSUME NEW c \in Calls, StopDone(c) PROVE LockInv'
  BY <1>23 DEF StopDone, Return
<1>24. ASSUME NEW c \in Calls, SynthOk(c) PROVE LockInv'
  BY <1>24 DEF SynthOk, Return
<1>25. ASSUME NEW c \in Calls, SynthError(c) PROVE LockInv'
  BY <1>25 DEF SynthError
<1>26. ASSUME NEW w \in Workers, AdvanceWait(w) PROVE LockInv'
  BY <1>26 DEF AdvanceWait, Step
<1>27. ASSUME NEW w \in Workers, Advance(w) PROVE LockInv'
  <2>1. /\ pc[w] = "advance"
        /\ pc' = [pc EXCEPT ![w] = "finish"] \/ pc' = [pc EXCEPT ![w] = "fetch"]
        /\ UNCHANGED <<lockHolder, eLock, cpc>>
    BY <1>27 DEF Advance, Step
  <2>2. QED
    BY <2>1
<1>28. ASSUME NEW w \in Workers, FetchCancelled(w) PROVE LockInv'
  BY <1>28 DEF FetchCancelled, Step
<1>29. ASSUME NEW w \in Workers, Spawn(w) PROVE LockInv'
  <2>1. CASE Step(w, "register")
    BY <1>29, <2>1 DEF Spawn, Step
  <2>2. CASE Step(w, "finish")
    BY <1>29, <2>2 DEF Spawn, Step
  <2>3. QED
    BY <1>29, <2>1, <2>2 DEF Spawn
<1>30. ASSUME NEW w \in Workers, Register(w) PROVE LockInv'
  BY <1>30 DEF Register, Step
<1>31. ASSUME NEW w \in Workers, Reap(w) PROVE LockInv'
  BY <1>31 DEF Reap, Step
<1>32. ASSUME NEW w \in Workers, Finish(w) PROVE LockInv'
  BY <1>32 DEF Finish, Step
<1>33. ASSUME NEW w \in Workers, WorkerRelease(w) PROVE LockInv'
  BY <1>33 DEF WorkerRelease, Step
<1>34. ASSUME NEW w \in Workers, WorkerUnlock(w) PROVE LockInv'
  BY <1>34 DEF WorkerUnlock, Step
<1>35. ASSUME NEW w \in Workers, CloseDone(w) PROVE LockInv'
  BY <1>35 DEF CloseDone, Step
<1>36. ASSUME NEW w \in Workers, Fetched(w) PROVE LockInv'
  <2>1. CASE Step(w, "spawn")
    BY <1>36, <2>1 DEF Fetched, Step
  <2>2. CASE Step(w, "finish")
    BY <1>36, <2>2 DEF Fetched, Step
  <2>3. QED
    BY <1>36, <2>1, <2>2 DEF Fetched
<1>37. ASSUME NEW e \in Engines, Crash(e) PROVE LockInv'
  <2>1. /\ \A d \in Calls : cpc'[d] = IF Home[d] = e THEN "idle" ELSE cpc[d]
        /\ \A w \in Workers : pc'[w] = IF Home[w] = e THEN "free" ELSE pc[w]
    BY <1>37 DEF Crash, ResetHome
  <2>2. /\ \A x \in Engines : eLock'[x] => x # e /\ eLock[x]
        /\ \A x \in Engines : x # e => eLock'[x] = eLock[x]
        /\ lockHolder' = IF lockHolder = e THEN None ELSE lockHolder
    BY <1>37 DEF Crash, Reset
  <2>3. /\ \A d \in Calls : InHand(d)' <=> Home[d] # e /\ InHand(d)
        /\ \A w \in Workers : pc'[w] = "unlock" <=> Home[w] # e /\ pc[w] = "unlock"
    BY <2>1 DEF InHand
  <2>4. /\ \A x \in Engines : eLock'[x] => lockHolder' = x
        /\ \A d \in Calls : InHand(d)' => lockHolder' = Home[d] /\ ~eLock'[Home[d]]
        /\ \A w \in Workers : pc'[w] = "unlock" =>
             lockHolder' = Home[w] /\ ~eLock'[Home[w]]
    BY <2>2, <2>3
  <2>5. /\ \A d, f \in Calls : InHand(d)' /\ InHand(f)' => d = f
        /\ \A v, w \in Workers : pc'[v] = "unlock" /\ pc'[w] = "unlock" => v = w
        /\ \A d \in Calls, w \in Workers : ~(InHand(d)' /\ pc'[w] = "unlock")
    BY <2>3
  <2>6. lockHolder' # None =>
          \/ eLock'[lockHolder']
          \/ \E d \in Calls : InHand(d)' /\ Home[d] = lockHolder'
          \/ \E w \in Workers : pc'[w] = "unlock" /\ Home[w] = lockHolder'
    BY <2>2, <2>3
  <2>7. QED
    BY <2>4, <2>5, <2>6
<1>38. QED
  BY <1>1, <1>2, <1>3, <1>4, <1>5, <1>6, <1>7, <1>8, <1>9, <1>10, <1>11,
     <1>12, <1>13, <1>14, <1>15, <1>16, <1>17, <1>18, <1>19, <1>20, <1>21,
     <1>22, <1>23, <1>24, <1>25, <1>26, <1>27, <1>28, <1>29, <1>30, <1>31,
     <1>32, <1>33, <1>34, <1>35, <1>36, <1>37
     DEF Next, CallStep, Answer, Invoke, WorkerStep

\* Starts and Stops take turns.
LEMMA StartStep ==
  ASSUME TypeOK, StartInv, [Next]_vars
  PROVE  StartInv'
<1> USE PlaybackAssumption DEF TypeOK, lockVars, engineVars, workerVars,
      callVars, crashVars, StartInv, Owns
<1>1. CASE UNCHANGED <<cpc, ret, startMu>>
  BY <1>1
<1>2. ASSUME NEW w \in Workers, AdvanceWait(w) \/ Advance(w)
                                \/ FetchCancelled(w) \/ Spawn(w)
                                \/ Register(w) \/ ClipEnds(w) \/ Reap(w)
                                \/ Finish(w) \/ WorkerRelease(w)
                                \/ WorkerUnlock(w) \/ CloseDone(w)
                                \/ Fetched(w)
      PROVE  UNCHANGED <<cpc, ret, startMu>>
  BY <1>2 DEF AdvanceWait, Advance, FetchCancelled, Spawn, Register, ClipEnds,
              Reap, Finish, WorkerRelease, WorkerUnlock, CloseDone, Fetched,
              Step
<1>3. ASSUME UNCHANGED vars \/ \E e \in Engines : OrphanEnds(e)
      PROVE  UNCHANGED <<cpc, ret, startMu>>
  BY <1>3 DEF vars, OrphanEnds
<1>4. ASSUME NEW c \in Calls, Speak(c) PROVE StartInv'
  BY <1>4 DEF Speak
<1>5. ASSUME NEW c \in Calls, Pause(c) PROVE StartInv'
  BY <1>5 DEF Pause, Go
<1>6. ASSUME NEW c \in Calls, ResumePaused(c) PROVE StartInv'
  BY <1>6 DEF ResumePaused, Go
<1>7. ASSUME NEW c \in Calls, ResumeStopped(c) PROVE StartInv'
  BY <1>7 DEF ResumeStopped
<1>8. ASSUME NEW c \in Calls, Stop(c) PROVE StartInv'
  BY <1>8 DEF Stop, Cancelled
<1>9. ASSUME NEW c \in Calls, LockStart(c) PROVE StartInv'
  BY <1>9 DEF LockStart, Go
<1>10. ASSUME NEW c \in Calls, TryResume(c) PROVE StartInv'
  BY <1>10 DEF TryResume, Go, Return
<1>11. ASSUME NEW c \in Calls, SetResumeLock(c) PROVE StartInv'
  BY <1>11 DEF SetResumeLock, Go
<1>12. ASSUME NEW c \in Calls, Continue(c) PROVE StartInv'
  BY <1>12 DEF Continue, Wake, Return
<1>13. ASSUME NEW c \in Calls, FullStopIdle(c) PROVE StartInv'
  BY <1>13 DEF FullStopIdle, Cancelled, Go
<1>14. ASSUME NEW c \in Calls, FullStopRunning(c) PROVE StartInv'
  BY <1>14 DEF FullStopRunning, Cancelled, Go, Wake
<1>15. ASSUME NEW c \in Calls, AwaitDone(c) PROVE StartInv'
  BY <1>15 DEF AwaitDone, Go
<1>16. ASSUME NEW c \in Calls, Acquire(c) PROVE StartInv'
  BY <1>16, SMTT(30) DEF Acquire, Go, Return
<1>17. ASSUME NEW c \in Calls, SetLock(c) PROVE StartInv'
  BY <1>17 DEF SetLock, Go
<1>18. ASSUME NEW c \in Calls, SetQueue(c) PROVE StartInv'
  BY <1>18 DEF SetQueue, Go
<1>19. ASSUME NEW c \in Calls, SynthCancelled(c) PROVE StartInv'
  BY <1>19 DEF SynthCancelled, SynthError
<1>20. ASSUME NEW c \in Calls, NotStarted(c) PROVE StartInv'
  BY <1>20 DEF NotStarted, Cancelled, Return
<1>21. ASSUME NEW c \in Calls, CallRelease(c) PROVE StartInv'
  BY <1>21 DEF CallRelease, Go, After, Return
<1>22. ASSUME NEW c \in Calls, CallUnlock(c) PROVE StartInv'
  BY <1>22 DEF CallUnlock, After, Go, Return
<1>23. ASSUME NEW c \in Calls, StopDone(c) PROVE StartInv'
  BY <1>23 DEF StopDone, Return
<1>24. ASSUME NEW c \in Calls, SynthOk(c) PROVE StartInv'
  BY <1>24 DEF SynthOk, Return
<1>25. ASSUME NEW c \in Calls, SynthError(c) PROVE StartInv'
  BY <1>25 DEF SynthError
<1>26. ASSUME NEW e \in Engines, Crash(e) PROVE StartInv'
  BY <1>26 DEF Crash, Reset, ResetHome
<1>27. QED
  BY <1>1, <1>2, <1>3, <1>4, <1>5, <1>6, <1>7, <1>8, <1>9, <1>10, <1>11,
     <1>12, <1>13, <1>14, <1>15, <1>16, <1>17, <1>18, <1>19, <1>20, <1>21,
     <1>22, <1>23, <1>24, <1>25, <1>26
     DEF Next, CallStep, Answer, Invoke, WorkerStep

\* Nothing runs once fullStop is through.
LEMMA QuietStep ==
  ASSUME TypeOK, StartInv, RunInv, QuietInv, [Next]_vars
  PROVE  QuietInv'
<1> USE PlaybackAssumption DEF TypeOK, lockVars, engineVars, workerVars,
      callVars, crashVars, StartInv, Owns, RunInv, QuietInv, ActiveSteps
<1>1. CASE UNCHANGED <<cpc, ret, running>>
  BY <1>1
<1>2. ASSUME NEW w \in Workers, AdvanceWait(w) \/ Advance(w)
                                \/ FetchCancelled(w) \/ Spawn(w)
                                \/ Register(w) \/ ClipEnds(w) \/ Reap(w)
                                \/ WorkerRelease(w) \/ WorkerUnlock(w)
                                \/ CloseDone(w) \/ Fetched(w)
      PROVE  UNCHANGED <<cpc, ret, running>>
  BY <1>2 DEF AdvanceWait, Advance, FetchCancelled, Spawn, Register, ClipEnds,
              Reap, WorkerRelease, WorkerUnlock, CloseDone, Fetched, Step
<1>3. ASSUME UNCHANGED vars \/ \E e \in Engines : OrphanEnds(e)
      PROVE  UNCHANGED <<cpc, ret, running>>
  BY <1>3 DEF vars, OrphanEnds
<1>4. ASSUME NEW c \in Calls, Speak(c) PROVE QuietInv'
  BY <1>4 DEF Speak
<1>5. ASSUME NEW c \in Calls, Pause(c) PROVE QuietInv'
  BY <1>5 DEF Pause, Go
<1>6. ASSUME NEW c \in Calls, ResumePaused(c) PROVE QuietInv'
  BY <1>6 DEF ResumePaused, Go
<1>7. ASSUME NEW c \in Calls, ResumeStopped(c) PROVE QuietInv'
  BY <1>7 DEF ResumeStopped
<1>8. ASSUME NEW c \in Calls, Stop(c) PROVE QuietInv'
  BY <1>8 DEF Stop, Cancelled
<1>9. ASSUME NEW c \in Calls, LockStart(c) PROVE QuietInv'
  BY <1>9 DEF LockStart, Go
<1>10. ASSUME NEW c \in Calls, TryResume(c) PROVE QuietInv'
  <2>1. CASE Go(c, "setResumeLock")
    BY <1>10, <2>1 DEF TryResume, Go, Return
  <2>2. CASE Return(c)
    BY <1>10, <2>2 DEF TryResume, Return
  <2>3. QED
    BY <1>10, <2>1, <2>2 DEF TryResume
<1>11. ASSUME NEW c \in Calls, SetResumeLock(c) PROVE QuietInv'
  BY <1>11 DEF SetResumeLock, Go
<1>12. ASSUME NEW c \in Calls, Continue(c) PROVE QuietInv'
  BY <1>12 DEF Continue, Wake, Return
<1>13. ASSUME NEW c \in Calls, FullStopIdle(c) PROVE QuietInv'
  BY <1>13 DEF FullStopIdle, Cancelled, Go
<1>14. ASSUME NEW c \in Calls, FullStopRunning(c) PROVE QuietInv'
  BY <1>14 DEF FullStopRunning, Cancelled, Go, Wake
<1>15. ASSUME NEW c \in Calls, AwaitDone(c) PROVE QuietInv'
  BY <1>15 DEF AwaitDone, Go
<1>16. ASSUME NEW c \in Calls, Acquire(c) PROVE QuietInv'
  <2>1. CASE Go(c, "setLock")
    BY <1>16, <2>1 DEF Acquire, Go, Return
  <2>2. CASE Return(c)
    BY <1>16, <2>2 DEF Acquire, Return
  <2>3. QED
    BY <1>16, <2>1, <2>2 DEF Acquire
<1>17. ASSUME NEW c \in Calls, SetLock(c) PROVE QuietInv'
  BY <1>17 DEF SetLock, Go
<1>18. ASSUME NEW c \in Calls, SetQueue(c) PROVE QuietInv'
  BY <1>18 DEF SetQueue, Go
<1>19. ASSUME NEW c \in Calls, SynthCancelled(c) PROVE QuietInv'
  BY <1>19 DEF SynthCancelled, SynthError
<1>20. ASSUME NEW c \in Calls, NotStarted(c) PROVE QuietInv'
  BY <1>20 DEF NotStarted, Cancelled, Return
<1>21. ASSUME NEW c \in Calls, CallRelease(c) PROVE QuietInv'
  <2>1. CASE Go(c, "unlock") /\ UNCHANGED <<ret, from, want, ctx>>
    BY <1>21, <2>1 DEF CallRelease, Go
  <2>2. CASE ret[c] = "idle" /\ Return(c)
    BY <1>21, <2>2 DEF CallRelease, Return
  <2>3. CASE ret[c] # "idle" /\ Go(c, ret[c]) /\ UNCHANGED <<ret, from, want, ctx>>
    BY <1>21, <2>3 DEF CallRelease, Go
  <2>4. QED
    BY <1>21, <2>1, <2>2, <2>3 DEF CallRelease, After
<1>22. ASSUME NEW c \in Calls, CallUnlock(c) PROVE QuietInv'
  <2>1. CASE ret[c] = "idle" /\ Return(c)
    BY <1>22, <2>1 DEF CallUnlock, Return
  <2>2. CASE ret[c] # "idle" /\ Go(c, ret[c]) /\ UNCHANGED <<ret, from, want, ctx>>
    BY <1>22, <2>2 DEF CallUnlock, Go
  <2>3. QED
    BY <1>22, <2>1, <2>2 DEF CallUnlock, After
<1>23. ASSUME NEW c \in Calls, StopDone(c) PROVE QuietInv'
  BY <1>23 DEF StopDone, Return
<1>24. ASSUME NEW c \in Calls, SynthOk(c) PROVE QuietInv'
  BY <1>24 DEF SynthOk, Return
<1>25. ASSUME NEW c \in Calls, SynthError(c) PROVE QuietInv'
  BY <1>25 DEF SynthError
<1>26. ASSUME NEW w \in Workers, Finish(w) PROVE QuietInv'
  BY <1>26 DEF Finish, Step
<1>27. ASSUME NEW e \in Engines, Crash(e) PROVE QuietInv'
  BY <1>27 DEF Crash, Reset, ResetHome
<1>28. QED
  BY <1>1, <1>2, <1>3, <1>4, <1>5, <1>6, <1>7, <1>8, <1>9, <1>10, <1>11,
     <1>12, <1>13, <1>14, <1>15, <1>16, <1>17, <1>18, <1>19, <1>20, <1>21,
     <1>22, <1>23, <1>24, <1>25, <1>26, <1>27
     DEF Next, CallStep, Answer, Invoke, WorkerStep

\* One worker at a time.
LEMMA RunStep ==
  ASSUME TypeOK, SlotInv, QuietInv, RunInv, [Next]_vars
  PROVE  RunInv'
<1> USE PlaybackAssumption DEF TypeOK, lockVars, engineVars, workerVars,
      callVars, crashVars, SlotInv, Reserves, QuietInv, Owns, RunInv,
      ActiveSteps
<1>1. CASE UNCHANGED <<doneCh, pc, running>>
  BY <1>1
<1>2. ASSUME NEW c \in Calls, Speak(c) \/ Pause(c) \/ ResumePaused(c)
                              \/ ResumeStopped(c) \/ Stop(c) \/ LockStart(c)
                              \/ TryResume(c) \/ SetResumeLock(c)
                              \/ FullStopIdle(c) \/ AwaitDone(c) \/ Acquire(c)
                              \/ SetLock(c) \/ SynthCancelled(c)
                              \/ CallRelease(c) \/ CallUnlock(c)
                              \/ StopDone(c) \/ SynthError(c)
      PROVE  UNCHANGED <<doneCh, pc, running>>
  BY <1>2 DEF Speak, Pause, ResumePaused, ResumeStopped, Stop, LockStart,
              TryResume, SetResumeLock, FullStopIdle, AwaitDone, Acquire,
              SetLock, SynthCancelled, CallRelease, CallUnlock, StopDone,
              SynthError, Go, Cancelled, Return, After
<1>3. ASSUME NEW w \in Workers, ClipEnds(w)
      PROVE  UNCHANGED <<doneCh, pc, running>>
  BY <1>3 DEF ClipEnds
<1>4. ASSUME UNCHANGED vars \/ \E e \in Engines : OrphanEnds(e)
      PROVE  UNCHANGED <<doneCh, pc, running>>
  BY <1>4 DEF vars, OrphanEnds
<1>5. ASSUME NEW c \in Calls, Continue(c) PROVE RunInv'
  BY <1>5 DEF Continue, Wake, Return
<1>6. ASSUME NEW c \in Calls, FullStopRunning(c) PROVE RunInv'
  BY <1>6 DEF FullStopRunning, Cancelled, Go, Wake
<1>7. ASSUME NEW c \in Calls, SetQueue(c) PROVE RunInv'
  BY <1>7 DEF SetQueue, Go
<1>8. ASSUME NEW c \in Calls, NotStarted(c) PROVE RunInv'
  BY <1>8 DEF NotStarted, Cancelled, Return
<1>9. ASSUME NEW c \in Calls, SynthOk(c) PROVE RunInv'
  <2>1. /\ ctx[c] \in Workers /\ Home[ctx[c]] = Home[c] /\ pc[ctx[c]] = "reserved"
        /\ ~running[Home[c]]
    BY <1>9 DEF SynthOk
  <2>2. /\ running' = [running EXCEPT ![Home[c]] = TRUE]
        /\ doneCh' = [doneCh EXCEPT ![Home[c]] = ctx[c]]
        /\ pc' = [pc EXCEPT ![ctx[c]] = "advance"]
    BY <1>9 DEF SynthOk
  <2>3. \A v \in Workers : pc[v] \in ActiveSteps => Home[v] # Home[c]
    BY <2>1
  <2>4. QED
    BY <2>1, <2>2, <2>3
<1>10. ASSUME NEW w \in Workers, AdvanceWait(w) PROVE RunInv'
  BY <1>10 DEF AdvanceWait, Step
<1>11. ASSUME NEW w \in Workers, Advance(w) PROVE RunInv'
  <2>1. pc' = [pc EXCEPT ![w] = "finish"] \/ pc' = [pc EXCEPT ![w] = "fetch"]
    BY <1>11 DEF Advance, Step
  <2>2. QED
    BY <1>11, <2>1, SMTT(30) DEF Advance
<1>12. ASSUME NEW w \in Workers, FetchCancelled(w) PROVE RunInv'
  BY <1>12 DEF FetchCancelled, Step
<1>13. ASSUME NEW w \in Workers, Spawn(w) PROVE RunInv'
  BY <1>13 DEF Spawn, Step
<1>14. ASSUME NEW w \in Workers, Register(w) PROVE RunInv'
  BY <1>14 DEF Register, Step
<1>15. ASSUME NEW w \in Workers, Reap(w) PROVE RunInv'
  BY <1>15 DEF Reap, Step
<1>16. ASSUME NEW w \in Workers, Finish(w) PROVE RunInv'
  BY <1>16 DEF Finish, Step
<1>17. ASSUME NEW w \in Workers, WorkerRelease(w) PROVE RunInv'
  BY <1>17 DEF WorkerRelease, Step
<1>18. ASSUME NEW w \in Workers, WorkerUnlock(w) PROVE RunInv'
  BY <1>18 DEF WorkerUnlock, Step
<1>19. ASSUME NEW w \in Workers, CloseDone(w) PROVE RunInv'
  BY <1>19 DEF CloseDone, Step
<1>20. ASSUME NEW w \in Workers, Fetched(w) PROVE RunInv'
  <2>1. CASE Step(w, "spawn")
    BY <1>20, <2>1 DEF Fetched, Step
  <2>2. CASE Step(w, "finish")
    BY <1>20, <2>2 DEF Fetched, Step
  <2>3. QED
    BY <1>20, <2>1, <2>2 DEF Fetched
<1>21. ASSUME NEW e \in Engines, Crash(e) PROVE RunInv'
  <2>1. \A w \in Workers : pc'[w] = IF Home[w] = e THEN "free" ELSE pc[w]
    BY <1>21 DEF Crash, ResetHome
  <2>2. /\ \A x \in Engines : running'[x] => x # e /\ running[x]
        /\ \A x \in Engines : x # e => running'[x] = running[x] /\ doneCh'[x] = doneCh[x]
    BY <1>21 DEF Crash, Reset
  <2>3. QED
    BY <2>1, <2>2
<1>22. QED
  BY ZenonT(60), <1>1, <1>2, <1>3, <1>4, <1>5, <1>6, <1>7, <1>8, <1>9, <1>10, <1>11,
     <1>12, <1>13, <1>14, <1>15, <1>16, <1>17, <1>18, <1>19, <1>20, <1>21
     DEF Next, CallStep, Answer, Invoke, WorkerStep

\* One afplay at a time.
LEMMA ProcStep ==
  ASSUME TypeOK, SlotInv, QuietInv, RunInv, ProcInv, [Next]_vars
  PROVE  ProcInv'
<1> USE PlaybackAssumption DEF TypeOK, lockVars, engineVars, workerVars,
      callVars, crashVars, SlotInv, Reserves, QuietInv, Owns, RunInv,
      ActiveSteps, ProcInv
<1>1. CASE UNCHANGED <<paused, pc, playCmd, proc>>
  BY <1>1
<1>2. ASSUME NEW c \in Calls, Speak(c) \/ ResumePaused(c) \/ ResumeStopped(c)
                              \/ Stop(c) \/ LockStart(c) \/ TryResume(c)
                              \/ SetResumeLock(c) \/ AwaitDone(c)
                              \/ Acquire(c) \/ SetLock(c) \/ SynthCancelled(c)
                              \/ CallRelease(c) \/ CallUnlock(c)
                              \/ StopDone(c) \/ SynthError(c)
      PROVE  UNCHANGED <<paused, pc, playCmd, proc>>
  BY <1>2 DEF Speak, ResumePaused, ResumeStopped, Stop, LockStart, TryResume,
              SetResumeLock, AwaitDone, Acquire, SetLock, SynthCancelled,
              CallRelease, CallUnlock, StopDone, SynthError, Go, Cancelled,
              Return, After
<1>3. ASSUME UNCHANGED vars \/ \E e \in Engines : OrphanEnds(e)
      PROVE  UNCHANGED <<paused, pc, playCmd, proc>>
  BY <1>3 DEF vars, OrphanEnds
<1>4. ASSUME NEW c \in Calls, Pause(c) PROVE ProcInv'
  BY <1>4 DEF Pause, Go
<1>5. ASSUME NEW c \in Calls, Continue(c) PROVE ProcInv'
  BY <1>5 DEF Continue, Wake, Return
<1>6. ASSUME NEW c \in Calls, FullStopIdle(c) PROVE ProcInv'
  BY <1>6 DEF FullStopIdle, Cancelled, Go
<1>7. ASSUME NEW c \in Calls, FullStopRunning(c) PROVE ProcInv'
  BY <1>7 DEF FullStopRunning, Cancelled, Go, Wake
<1>8. ASSUME NEW c \in Calls, SetQueue(c) PROVE ProcInv'
  BY <1>8 DEF SetQueue, Go
<1>9. ASSUME NEW c \in Calls, NotStarted(c) PROVE ProcInv'
  BY <1>9 DEF NotStarted, Cancelled, Return
<1>10. ASSUME NEW c \in Calls, SynthOk(c) PROVE ProcInv'
  BY <1>10 DEF SynthOk, Return
<1>11. ASSUME NEW w \in Workers, AdvanceWait(w) PROVE ProcInv'
  BY <1>11 DEF AdvanceWait, Step
<1>12. ASSUME NEW w \in Workers, Advance(w) PROVE ProcInv'
  <2>1. CASE stopped[Home[w]]
    BY <1>12, <2>1 DEF Advance, Step
  <2>2. CASE ~stopped[Home[w]]
    BY <1>12, <2>2 DEF Advance, Step
  <2>3. QED
    BY <1>12, <2>1, <2>2 DEF Advance
<1>13. ASSUME NEW w \in Workers, FetchCancelled(w) PROVE ProcInv'
  BY <1>13 DEF FetchCancelled, Step
<1>14. ASSUME NEW w \in Workers, Spawn(w) PROVE ProcInv'
  BY <1>14, SMTT(30) DEF Spawn, Step
<1>15. ASSUME NEW w \in Workers, Register(w) PROVE ProcInv'
  BY <1>15 DEF Register, Step
<1>16. ASSUME NEW w \in Workers, ClipEnds(w) PROVE ProcInv'
  BY <1>16 DEF ClipEnds
<1>17. ASSUME NEW w \in Workers, Reap(w) PROVE ProcInv'
  BY <1>17 DEF Reap, Step
<1>18. ASSUME NEW w \in Workers, Finish(w) PROVE ProcInv'
  BY <1>18 DEF Finish, Step
<1>19. ASSUME NEW w \in Workers, WorkerRelease(w) PROVE ProcInv'
  BY <1>19 DEF WorkerRelease, Step
<1>20. ASSUME NEW w \in Workers, WorkerUnlock(w) PROVE ProcInv'
  BY <1>20 DEF WorkerUnlock, Step
<1>21. ASSUME NEW w \in Workers, CloseDone(w) PROVE ProcInv'
  BY <1>21 DEF CloseDone, Step
<1>22. ASSUME NEW w \in Workers, Fetched(w) PROVE ProcInv'
  <2>1. CASE Step(w, "spawn")
    BY <1>22, <2>1 DEF Fetched, Step
  <2>2. CASE Step(w, "finish")
    BY <1>22, <2>2 DEF Fetched, Step
  <2>3. QED
    BY <1>22, <2>1, <2>2 DEF Fetched
<1>23. ASSUME NEW e \in Engines, Crash(e) PROVE ProcInv'
  <2>1. \A w \in Workers : /\ pc'[w] = IF Home[w] = e THEN "free" ELSE pc[w]
                           /\ proc'[w] = IF Home[w] = e THEN "none" ELSE proc[w]
    BY <1>23 DEF Crash, ResetHome
  <2>2. \A x \in Engines : /\ playCmd'[x] = IF x = e THEN None ELSE playCmd[x]
                           /\ x # e => paused'[x] = paused[x]
    BY <1>23 DEF Crash, Reset
  <2>3. /\ \A w \in Workers : proc'[w] # "none" => pc'[w] \in {"register", "wait"}
        /\ \A w \in Workers : proc'[w] = "suspended" => pc'[w] = "wait"
    BY <2>1
  <2>4. \A w \in Workers : pc'[w] = "wait" => playCmd'[Home[w]] = w
    BY <2>1, <2>2
  <2>5. \A x \in Engines : playCmd'[x] # None =>
          playCmd'[x] \in Workers /\ Home[playCmd'[x]] = x /\ pc'[playCmd'[x]] = "wait"
    BY <2>1, <2>2
  <2>6. \A w \in Workers : pc'[w] \in {"fetch", "spawn", "register"} => ~paused'[Home[w]]
    BY <2>1, <2>2
  <2>7. QED
    BY <2>3, <2>4, <2>5, <2>6
<1>24. QED
  BY ZenonT(60), <1>1, <1>2, <1>3, <1>4, <1>5, <1>6, <1>7, <1>8, <1>9, <1>10, <1>11,
     <1>12, <1>13, <1>14, <1>15, <1>16, <1>17, <1>18, <1>19, <1>20, <1>21,
     <1>22, <1>23
     DEF Next, CallStep, Answer, Invoke, WorkerStep

\* A pause keeps its waiting worker company, and its end wakes it.
LEMMA WakeStep ==
  ASSUME TypeOK, QuietInv, RunInv, ProcInv, NoLostWakeup, [Next]_vars
  PROVE  NoLostWakeup'
<1> USE PlaybackAssumption DEF TypeOK, lockVars, engineVars, workerVars,
      callVars, crashVars, QuietInv, Owns, RunInv, ActiveSteps, ProcInv,
      NoLostWakeup
<1>1. CASE UNCHANGED <<paused, pc, stopped>>
  BY <1>1
<1>2. ASSUME NEW c \in Calls, Speak(c) \/ ResumePaused(c) \/ ResumeStopped(c)
                              \/ Stop(c) \/ LockStart(c) \/ TryResume(c)
                              \/ SetResumeLock(c) \/ AwaitDone(c)
                              \/ Acquire(c) \/ SetLock(c) \/ SynthCancelled(c)
                              \/ CallRelease(c) \/ CallUnlock(c)
                              \/ StopDone(c) \/ SynthError(c)
      PROVE  UNCHANGED <<paused, pc, stopped>>
  BY <1>2 DEF Speak, ResumePaused, ResumeStopped, Stop, LockStart, TryResume,
              SetResumeLock, AwaitDone, Acquire, SetLock, SynthCancelled,
              CallRelease, CallUnlock, StopDone, SynthError, Go, Cancelled,
              Return, After
<1>3. ASSUME NEW w \in Workers, ClipEnds(w)
      PROVE  UNCHANGED <<paused, pc, stopped>>
  BY <1>3 DEF ClipEnds
<1>4. ASSUME UNCHANGED vars \/ \E e \in Engines : OrphanEnds(e)
      PROVE  UNCHANGED <<paused, pc, stopped>>
  BY <1>4 DEF vars, OrphanEnds
<1>5. ASSUME NEW c \in Calls, Pause(c) PROVE NoLostWakeup'
  BY <1>5 DEF Pause, Go
<1>6. ASSUME NEW c \in Calls, Continue(c) PROVE NoLostWakeup'
  BY <1>6 DEF Continue, Wake, Return
<1>7. ASSUME NEW c \in Calls, FullStopIdle(c) PROVE NoLostWakeup'
  BY <1>7 DEF FullStopIdle, Cancelled, Go
<1>8. ASSUME NEW c \in Calls, FullStopRunning(c) PROVE NoLostWakeup'
  BY <1>8 DEF FullStopRunning, Cancelled, Go, Wake
<1>9. ASSUME NEW c \in Calls, SetQueue(c) PROVE NoLostWakeup'
  BY <1>9 DEF SetQueue, Go
<1>10. ASSUME NEW c \in Calls, NotStarted(c) PROVE NoLostWakeup'
  BY <1>10 DEF NotStarted, Cancelled, Return
<1>11. ASSUME NEW c \in Calls, SynthOk(c) PROVE NoLostWakeup'
  BY <1>11, SMTT(30) DEF SynthOk, Return
<1>12. ASSUME NEW w \in Workers, AdvanceWait(w) PROVE NoLostWakeup'
  BY <1>12 DEF AdvanceWait, Step
<1>13. ASSUME NEW w \in Workers, Advance(w) PROVE NoLostWakeup'
  BY <1>13 DEF Advance, Step
<1>14. ASSUME NEW w \in Workers, FetchCancelled(w) PROVE NoLostWakeup'
  BY <1>14 DEF FetchCancelled, Step
<1>15. ASSUME NEW w \in Workers, Spawn(w) PROVE NoLostWakeup'
  BY <1>15 DEF Spawn, Step
<1>16. ASSUME NEW w \in Workers, Register(w) PROVE NoLostWakeup'
  BY <1>16 DEF Register, Step
<1>17. ASSUME NEW w \in Workers, Reap(w) PROVE NoLostWakeup'
  BY <1>17 DEF Reap, Step
<1>18. ASSUME NEW w \in Workers, Finish(w) PROVE NoLostWakeup'
  BY <1>18 DEF Finish, Step
<1>19. ASSUME NEW w \in Workers, WorkerRelease(w) PROVE NoLostWakeup'
  BY <1>19 DEF WorkerRelease, Step
<1>20. ASSUME NEW w \in Workers, WorkerUnlock(w) PROVE NoLostWakeup'
  BY <1>20 DEF WorkerUnlock, Step
<1>21. ASSUME NEW w \in Workers, CloseDone(w) PROVE NoLostWakeup'
  BY <1>21 DEF CloseDone, Step
<1>22. ASSUME NEW w \in Workers, Fetched(w) PROVE NoLostWakeup'
  BY <1>22 DEF Fetched, Step
<1>23. ASSUME NEW e \in Engines, Crash(e) PROVE NoLostWakeup'
  BY <1>23 DEF Crash, Reset, ResetHome
<1>24. QED
  BY <1>1, <1>2, <1>3, <1>4, <1>5, <1>6, <1>7, <1>8, <1>9, <1>10, <1>11,
     <1>12, <1>13, <1>14, <1>15, <1>16, <1>17, <1>18, <1>19, <1>20, <1>21,
     <1>22, <1>23
     DEF Next, CallStep, Answer, Invoke, WorkerStep

\* Pause reaches the only afplay there is.
LEMMA PauseStep ==
  ASSUME TypeOK, QuietInv, RunInv, ProcInv, PauseSilences, [Next]_vars
  PROVE  PauseSilences'
<1> USE PlaybackAssumption DEF TypeOK, lockVars, engineVars, workerVars,
      callVars, crashVars, QuietInv, Owns, RunInv, ActiveSteps, ProcInv,
      PauseSilences
<1>1. CASE UNCHANGED <<paused, proc>>
  BY <1>1
<1>2. ASSUME NEW c \in Calls, Speak(c) \/ ResumePaused(c) \/ ResumeStopped(c)
                              \/ Stop(c) \/ LockStart(c) \/ TryResume(c)
                              \/ SetResumeLock(c) \/ AwaitDone(c)
                              \/ Acquire(c) \/ SetLock(c) \/ SetQueue(c)
                              \/ SynthCancelled(c) \/ NotStarted(c)
                              \/ CallRelease(c) \/ CallUnlock(c)
                              \/ StopDone(c) \/ SynthError(c)
      PROVE  UNCHANGED <<paused, proc>>
  BY <1>2 DEF Speak, ResumePaused, ResumeStopped, Stop, LockStart, TryResume,
              SetResumeLock, AwaitDone, Acquire, SetLock, SetQueue,
              SynthCancelled, NotStarted, CallRelease, CallUnlock, StopDone,
              SynthError, Go, Cancelled, Return, After
<1>3. ASSUME NEW w \in Workers, AdvanceWait(w) \/ Advance(w)
                                \/ FetchCancelled(w) \/ Finish(w)
                                \/ WorkerRelease(w) \/ WorkerUnlock(w)
                                \/ CloseDone(w) \/ Fetched(w)
      PROVE  UNCHANGED <<paused, proc>>
  BY <1>3 DEF AdvanceWait, Advance, FetchCancelled, Finish, WorkerRelease,
              WorkerUnlock, CloseDone, Fetched, Step
<1>4. ASSUME UNCHANGED vars \/ \E e \in Engines : OrphanEnds(e)
      PROVE  UNCHANGED <<paused, proc>>
  BY <1>4 DEF vars, OrphanEnds
<1>5. ASSUME NEW c \in Calls, Pause(c) PROVE PauseSilences'
  BY <1>5 DEF Pause, Go
<1>6. ASSUME NEW c \in Calls, Continue(c) PROVE PauseSilences'
  BY <1>6 DEF Continue, Wake, Return
<1>7. ASSUME NEW c \in Calls, FullStopIdle(c) PROVE PauseSilences'
  BY <1>7 DEF FullStopIdle, Cancelled, Go
<1>8. ASSUME NEW c \in Calls, FullStopRunning(c) PROVE PauseSilences'
  BY <1>8 DEF FullStopRunning, Cancelled, Go, Wake
<1>9. ASSUME NEW c \in Calls, SynthOk(c) PROVE PauseSilences'
  BY <1>9, SMTT(30) DEF SynthOk, Return
<1>10. ASSUME NEW w \in Workers, Spawn(w) PROVE PauseSilences'
  BY <1>10 DEF Spawn, Step
<1>11. ASSUME NEW w \in Workers, Register(w) PROVE PauseSilences'
  BY <1>11 DEF Register, Step
<1>12. ASSUME NEW w \in Workers, ClipEnds(w) PROVE PauseSilences'
  BY <1>12 DEF ClipEnds
<1>13. ASSUME NEW w \in Workers, Reap(w) PROVE PauseSilences'
  BY <1>13 DEF Reap, Step
<1>14. ASSUME NEW e \in Engines, Crash(e) PROVE PauseSilences'
  BY <1>14 DEF Crash, Reset, ResetHome
<1>15. QED
  BY <1>1, <1>2, <1>3, <1>4, <1>5, <1>6, <1>7, <1>8, <1>9, <1>10, <1>11,
     <1>12, <1>13, <1>14
     DEF Next, CallStep, Answer, Invoke, WorkerStep

-----------------------------------------------------------------------------
(* The invariants.                                                         *)

\* The inductive invariant, next to TypeOK.
Inv == /\ SlotInv /\ LockInv /\ StartInv /\ QuietInv /\ RunInv /\ ProcInv
       /\ NoLostWakeup /\ PauseSilences

\* The initial states satisfy every part.
LEMMA InitInv == Init => Inv
  BY PlaybackAssumption DEF Init, Inv, SlotInv, Reserves, LockInv, InHand,
     StartInv, Owns, QuietInv, RunInv, ActiveSteps, ProcInv, NoLostWakeup,
     PauseSilences

\* The parts need each other: a start may hand its session to a worker because
\* startMu and fullStop left nothing running.
THEOREM Inductive == Spec => []Inv
<1>1. TypeOK /\ Inv /\ [Next]_vars => Inv'
  BY SlotStep, LockStep, StartStep, QuietStep, RunStep, ProcStep, WakeStep,
     PauseStep DEF Inv
<1>2. QED
  BY InitInv, TypeCorrect, <1>1, PTL DEF Spec

\* LockInv counts: one reference where the flock is, none elsewhere.
LEMMA LockCount ==
  ASSUME TypeOK, LockInv, NEW e \in Engines
  PROVE  Cardinality(References(e)) = IF lockHolder = e THEN 1 ELSE 0
<1> USE PlaybackAssumption DEF TypeOK, LockInv, InHand, References
<1>1. CASE lockHolder # e
  <2>1. References(e) = {}
    BY <1>1
  <2>2. QED
    BY <1>1, <2>1, FS_EmptySet
<1>2. CASE lockHolder = e
  <2>1. PICK x : x \in References(e)
    BY <1>2
  <2>2. \A y \in References(e) : y = x
    BY <1>2, <2>1
  <2>3. References(e) = {x}
    BY <2>1, <2>2
  <2>4. \A S : S = {x} => Cardinality(S) = 1
    BY FS_Singleton
  <2>5. QED
    BY <1>2, <2>3, <2>4
<1>3. QED
  BY <1>1, <1>2

\* The flock is never lost track of (LockAccounted): no process holds it
\* without a reference to unlock it by, and nobody unlocks it twice.
THEOREM LockAccountedAlways == Spec => []LockAccounted
<1>1. TypeOK /\ Inv => LockAccounted
  BY LockCount DEF Inv, LockAccounted
<1>2. QED
  BY TypeCorrect, Inductive, <1>1, PTL

\* RunInv counts: one active worker where an engine runs, none elsewhere.
LEMMA WorkerCount ==
  ASSUME TypeOK, RunInv, NEW e \in Engines,
         NEW S, S = {w \in Workers : Home[w] = e /\ pc[w] \in ActiveSteps}
  PROVE  Cardinality(S) = IF running[e] THEN 1 ELSE 0
<1> USE PlaybackAssumption DEF TypeOK, RunInv
<1>1. CASE ~running[e]
  <2>1. S = {}
    BY <1>1
  <2>2. Cardinality(S) = 0
    BY <2>1, FS_EmptySet
  <2>3. QED
    BY <1>1, <2>2
<1>2. CASE running[e]
  <2>1. S = {doneCh[e]}
    BY <1>2
  <2>2. \A T : T = {doneCh[e]} => Cardinality(T) = 1
    BY FS_Singleton
  <2>3. QED
    BY <1>2, <2>1, <2>2
<1>3. QED
  BY <1>1, <1>2

\* A running engine has exactly one unfinished worker (OneWorker): starts, which
\* wait out the running one, never overlap two of them.
THEOREM OneWorkerAlways == Spec => []OneWorker
<1>1. TypeOK /\ Inv => OneWorker
  <2> SUFFICES ASSUME TypeOK, Inv, NEW e \in Engines
               PROVE  Cardinality({w \in Workers : Home[w] = e /\
                        pc[w] \notin {"free", "reserved", "release", "unlock", "close"}})
                        = IF running[e] THEN 1 ELSE 0
    BY DEF OneWorker
  <2>1. {w \in Workers : Home[w] = e /\
           pc[w] \notin {"free", "reserved", "release", "unlock", "close"}}
          = {w \in Workers : Home[w] = e /\ pc[w] \in ActiveSteps}
    BY DEF TypeOK, WorkerSteps, ActiveSteps
  <2>2. QED
    BY <2>1, WorkerCount DEF Inv
<1>2. QED
  BY TypeCorrect, Inductive, <1>1, PTL

\* An engine never runs two afplays at once (OneVoice).
THEOREM OneVoiceAlways == Spec => []OneVoice
<1>1. TypeOK /\ Inv => OneVoice
  BY PlaybackAssumption DEF TypeOK, Inv, RunInv, ProcInv, ActiveSteps, OneVoice
<1>2. QED
  BY TypeCorrect, Inductive, <1>1, PTL

\* Pause silences, and never leaves a suspended child behind (PauseSilences).
THEOREM PauseSilencesAlways == Spec => []PauseSilences
  BY Inductive, PTL DEF Inv

\* A worker that waits on Engine.cond has reason to (NoLostWakeup).
THEOREM NoLostWakeupAlways == Spec => []NoLostWakeup
  BY Inductive, PTL DEF Inv
=============================================================================
