------------------------ MODULE PresentTerminalProofs -----------------------
(***************************************************************************)
(* Proofs about PresentTerminal, for any number of pages, sessions and      *)
(* connections: its invariants hold in every reachable state.               *)
(***************************************************************************)
EXTENDS PresentTerminal, TLAPS

(* ------------------------- The inductive invariant ----------------------- *)

\* Nothing is said of a session before its spawn.
UnspawnedIdle ==
  \A s \in Sessions :
    shell[s] = "none" =>
      s \notin Held /\ kpc[s] = "none" /\ subs[s] = {} /\ job[s] = "none"

\* A connection that is live shows a session.
LiveShows == \A c \in Conns : cpc[c] = "live" => src[c] \in Sessions

\* A kill has its killer exactly while it runs.
KillInHand == \A s \in Sessions : killer[s] = Nobody <=> kpc[s] \in {"none", "gone"}

\* No job is unlisted when the last listing is done, and no shell or listed job is
\* left after SIGKILL.
Signalled ==
  \A s \in Sessions :
    /\ kpc[s] = "kill" => job[s] # "running"
    /\ kpc[s] = "last" => shell[s] \in {"dead", "exited"} /\ job[s] \in {"none", "late"}

\* A watched session has forgotten its timer.
WatchedUntimed == \A s \in Sessions : subs[s] # {} => idle[s] = "nil"

\* Once the manager is closed it holds nothing and no request kills; serve exits
\* when Close's kills are done.
ClosedEmpty ==
  /\ serving # "up" => Held = {} /\ KillsDone(Request)
  /\ serving = "down" => KillsDone(Closing)

IInv ==
  /\ TypeOK /\ LiveShows /\ UnspawnedIdle /\ KillInHand /\ Signalled /\ WatchedUntimed
  /\ WatchedNotExpired /\ UnwatchedTimed /\ Accounted /\ KillLeavesNothing

\* Nobody is no killer.
LEMMA SomebodyKills ==
  /\ Request # Closing /\ Nobody # Request /\ Nobody # Switch /\ Nobody # Closing /\ Nobody # Idle
  /\ \A c \in Conns : Nobody # Frame(c)
  /\ Idle # Request /\ Idle # Switch /\ Idle # Closing /\ \A c \in Conns : Idle # Frame(c)
  /\ Request # Switch /\ \A c \in Conns : Request # Frame(c) /\ Closing # Frame(c)
  /\ Closing # Switch
BY DEF Nobody, Request, Switch, Closing, Idle, Frame

\* The session None is no session.
LEMMA NoneIsNone == None \notin Sessions
BY TerminalAssumption DEF Sessions

\* What TakeOut leaves in the manager.
LEMMA TakeOutHeld ==
  ASSUME TypeOK, NEW S \in SUBSET Sessions, NEW who, TakeOut(S, who)
  PROVE  Held' = Held \ S
BY NoneIsNone DEF TypeOK, TakeOut, Held

\* Init establishes the invariant.
LEMMA InitInv == Init => IInv
BY NoneIsNone, TerminalAssumption
DEF Init, IInv, TypeOK, LiveShows, UnspawnedIdle, KillInHand, Signalled, WatchedUntimed,
    WatchedNotExpired, UnwatchedTimed, Accounted, KillLeavesNothing, Held, Watchers, Nobody

\* Every step keeps the invariant, action by action.
LEMMA StepInv == ASSUME IInv, [Next]_vars PROVE IInv'
<1> USE DEF IInv, TypeOK, LiveShows, UnspawnedIdle, KillInHand, Signalled, WatchedUntimed,
    WatchedNotExpired, UnwatchedTimed, Accounted, KillLeavesNothing, Held, Watchers,
    manager, procs, killing, timers, conn
<1>1. ASSUME NEW c \in Conns, CheckSwitch(c) PROVE IInv'
  BY <1>1 DEF CheckSwitch
<1>2. ASSUME NEW c \in Conns, Refuse(c) PROVE IInv'
  BY <1>2 DEF Refuse
<1>3. ASSUME NEW c \in Conns, Join(c) PROVE IInv'
  <2> DEFINE s == held[KeyOf[c]]
  <2>1. s \in Sessions /\ s \in Held /\ kpc[s] = "none"
    BY <1>3, TerminalAssumption DEF Join
  <2>2. Held' = Held /\ UNCHANGED <<held, serving, on, flips, shell, job, kpc, killer, firing>>
    BY <1>3 DEF Join
  <2>3. /\ subs' = [subs EXCEPT ![s] = @ \union {c}] /\ idle' = [idle EXCEPT ![s] = "nil"]
        /\ cpc' = [cpc EXCEPT ![c] = "live"] /\ src' = [src EXCEPT ![c] = s]
        /\ cpc[c] = "checked"
    BY <1>3 DEF Join, Subscribe, StopIdle
  <2> HIDE DEF s
  <2> QED
    BY <2>1, <2>2, <2>3, SomebodyKills
<1>4. ASSUME NEW c \in Conns, NEW s \in Sessions, Spawn(c, s) PROVE IInv'
  <2>1. KeyOf[c] \in Keys /\ held' = [held EXCEPT ![KeyOf[c]] = s]
    BY <1>4, TerminalAssumption DEF Spawn
  <2>2. Held' = Held \union {s}
    BY <1>4, <2>1, NoneIsNone DEF Spawn
  <2>3. /\ subs' = [subs EXCEPT ![s] = @ \union {c}] /\ idle' = [idle EXCEPT ![s] = "nil"]
        /\ cpc' = [cpc EXCEPT ![c] = "live"] /\ src' = [src EXCEPT ![c] = s]
        /\ shell' = [shell EXCEPT ![s] = "alive"] /\ cpc[c] = "checked" /\ shell[s] = "none"
        /\ UNCHANGED <<serving, on, flips, job, kpc, killer, firing>>
    BY <1>4 DEF Spawn, Subscribe, StopIdle
  <2>4. TypeOK'
    BY <2>1, <2>3
  <2> HIDE DEF Held, TypeOK
  <2>5. LiveShows' /\ UnspawnedIdle' /\ KillInHand' /\ Signalled' /\ WatchedUntimed'
    BY <2>2, <2>3 DEF TypeOK
  <2>6. WatchedNotExpired' /\ Accounted' /\ KillLeavesNothing'
    BY <2>2, <2>3, SomebodyKills DEF TypeOK
  <2>7. UnwatchedTimed'
    BY <2>2, <2>3 DEF TypeOK
  <2> QED
    BY <2>4, <2>5, <2>6, <2>7
<1>5. ASSUME NEW c \in Conns, KillFrame(c) PROVE IInv'
  BY <1>5, SomebodyKills, TerminalAssumption DEF KillFrame, TakeOut
<1>6. ASSUME NEW c \in Conns, Hangup(c) PROVE IInv'
  <2> DEFINE s == src[c]
  <2>1. /\ s \in Sessions /\ cpc[c] = "live"
        /\ cpc' = [cpc EXCEPT ![c] = "over"] /\ src' = [src EXCEPT ![c] = None]
        /\ UNCHANGED <<held, serving, on, flips, shell, job, kpc, killer, firing>>
    BY <1>6 DEF Hangup
  <2>2. Held' = Held
    BY <2>1
  <2>3. \A t \in Sessions : c \in subs[t] => t = s
    OBVIOUS
  <2>4. CASE c \in subs[s]
    <3>1. subs' = [subs EXCEPT ![s] = subs[s] \ {c}] /\ idle[s] = "nil"
      BY <1>6, <2>4 DEF Hangup, Leave
    <3>2. idle' = [idle EXCEPT ![s] = IF subs[s] = {c} THEN "armed" ELSE "nil"]
      BY <1>6, <2>4, <3>1 DEF Hangup, Leave, IdleIfAlone
    <3> HIDE DEF Held, s
    <3>3. TypeOK'
      BY <2>1, <2>3, <2>4, <3>1, <3>2
    <3> QED
      BY <2>1, <2>2, <3>1, <3>2, <3>3
  <2>5. CASE c \notin subs[s]
    <3>1. UNCHANGED <<subs, idle>>
      BY <1>6, <2>5 DEF Hangup
    <3> HIDE DEF Held
    <3> QED
      BY <2>1, <2>2, <2>3, <2>5, <3>1
  <2> QED
    BY <2>4, <2>5
<1>7. ASSUME NEW s \in Sessions, KillBegins(s) PROVE IInv'
  BY <1>7 DEF KillBegins, StopIdle, List
<1>8. ASSUME NEW s \in Sessions, KillEnds(s) PROVE IInv'
  BY <1>8, SomebodyKills DEF KillEnds, KillReturn
<1>9. ASSUME NEW s \in Sessions, KillGoesOn(s) PROVE IInv'
  BY <1>9 DEF KillGoesOn, List
<1>10. ASSUME NEW s \in Sessions, KillSignal(s) PROVE IInv'
  BY <1>10 DEF KillSignal
<1>11. ASSUME NEW s \in Sessions, KillAwaits(s) PROVE IInv'
  BY <1>11, SomebodyKills DEF KillAwaits, KillReturn
<1>12. ASSUME NEW s \in Sessions, TimerFires(s) PROVE IInv'
  BY <1>12 DEF TimerFires
<1>13. ASSUME NEW s \in Sessions, Expire(s) PROVE IInv'
  BY <1>13, SomebodyKills DEF Expire, Expires, TakeOut
<1>14. ASSUME NEW s \in Sessions, JobStarts(s) PROVE IInv'
  BY <1>14 DEF JobStarts
<1>15. ASSUME NEW s \in Sessions, JobEnds(s) PROVE IInv'
  BY <1>15 DEF JobEnds
<1>16. ASSUME NEW s \in Sessions, ShellEnds(s) PROVE IInv'
  BY <1>16 DEF ShellEnds, ShellStep
<1>17. ASSUME NEW s \in Sessions, Finish(s) PROVE IInv'
  BY <1>17 DEF Finish, ShellStep
<1>18. ASSUME NEW s \in Sessions, NEW D \in SUBSET subs[s], Drop(s, D) PROVE IInv'
  BY <1>18 DEF Drop, Leave, IdleIfAlone
<1>19. ASSUME NEW k \in Keys, KillRequest(k) PROVE IInv'
  BY <1>19, SomebodyKills DEF KillRequest, TakeOut
<1>20. CASE FlipSwitch
  BY <1>20, TerminalAssumption DEF FlipSwitch
<1>21. CASE WatchTick
  BY <1>21, SomebodyKills DEF WatchTick, TakeOut
<1>22. CASE Close
  BY <1>22, SomebodyKills DEF Close, TakeOut
<1>23. CASE ExitServe
  BY <1>23 DEF ExitServe
<1>24. CASE UNCHANGED vars
  BY <1>24 DEF vars
<1> QED
  BY <1>1, <1>2, <1>3, <1>4, <1>5, <1>6, <1>7, <1>8, <1>9, <1>10, <1>11, <1>12, <1>13,
     <1>14, <1>15, <1>16, <1>17, <1>18, <1>19, <1>20, <1>21, <1>22, <1>23, <1>24
  DEF Next, ConnStep, KillStep, SessionStep

\* What the end of serve waits for stays done: only Close and requests could start
\* such kills, and they need an open manager that holds a session.
LEMMA StepClosed == ASSUME IInv, ClosedEmpty, [Next]_vars PROVE ClosedEmpty'
<1> USE DEF ClosedEmpty, KillsDone
<1>1. KeyOf \in [Conns -> Keys] /\ TypeOK
  BY TerminalAssumption DEF IInv
<1>2. CASE UNCHANGED <<held, serving, killer>>
  BY <1>2 DEF Held
<1>3. ASSUME NEW S \in SUBSET Sessions, NEW who, TakeOut(S, who), serving = "up",
             serving' = "up"
      PROVE  ClosedEmpty'
  BY <1>3
<1>4. ASSUME NEW s \in Sessions, Expire(s) PROVE ClosedEmpty'
  <2>1. CASE Expires(s)
    <3>1. serving = "up" /\ serving' = "up" /\ TakeOut({s}, Idle)
      BY <1>4, <2>1 DEF Expire, Expires
    <3> QED
      BY <3>1
  <2>2. CASE ~Expires(s)
    BY <1>4, <2>2, <1>2 DEF Expire, killing
  <2> QED
    BY <2>1, <2>2
<1>5. ASSUME NEW s \in Sessions, KillReturn(s), UNCHANGED <<held, serving>> PROVE ClosedEmpty'
  <2>1. Held' = Held /\ killer' = [killer EXCEPT ![s] = Nobody]
    BY <1>5 DEF KillReturn, Held
  <2>2. \A t \in Sessions : killer'[t] = Nobody \/ killer'[t] = killer[t]
    BY <2>1, <1>1 DEF TypeOK
  <2> QED
    BY <1>5, <2>1, <2>2, SomebodyKills
<1>6. CASE Close
  <2>1. Held \in SUBSET Sessions /\ TakeOut(Held, Closing) /\ serving' = "closing"
    BY <1>6, <1>1 DEF Close, Held, TypeOK
  <2>2. Held' = {}
    BY <2>1, <1>1, TakeOutHeld
  <2>3. KillsDone(Request)'
    BY <1>6, <2>1, <1>1, SomebodyKills DEF Close, TakeOut, TypeOK
  <2> QED
    BY <2>1, <2>2, <2>3
<1>7. CASE ExitServe
  BY <1>7 DEF ExitServe, Held, killing
<1>8. ASSUME NEW c \in Conns, KillFrame(c) \/ (\E s \in Sessions : Spawn(c, s)) PROVE ClosedEmpty'
  <2>1. serving = "up" /\ serving' = "up"
    BY <1>8, <1>1 DEF KillFrame, Spawn, Held
  <2> QED
    BY <2>1
<1>9. ASSUME NEW k \in Keys, KillRequest(k) PROVE ClosedEmpty'
  BY <1>9 DEF KillRequest
<1>10. CASE WatchTick
  BY <1>10 DEF WatchTick
<1>11. ASSUME NEW s \in Sessions, SessionStep(s) PROVE ClosedEmpty'
  <2>1. CASE KillEnds(s) \/ KillAwaits(s)
    BY <2>1, <1>5 DEF KillEnds, KillAwaits, manager
  <2>2. CASE KillBegins(s) \/ KillGoesOn(s) \/ KillSignal(s) \/ TimerFires(s)
    BY <2>2, <1>2 DEF KillBegins, KillGoesOn, KillSignal, TimerFires, manager, killing
  <2>3. CASE JobStarts(s) \/ JobEnds(s) \/ ShellEnds(s) \/ Finish(s) \/ \E D \in SUBSET subs[s] : Drop(s, D)
    BY <2>3, <1>2 DEF JobStarts, JobEnds, ShellEnds, Finish, ShellStep, Drop, manager, killing
  <2> QED
    BY <1>11, <1>4, <2>1, <2>2, <2>3 DEF SessionStep, KillStep
<1>12. ASSUME NEW c \in Conns, ConnStep(c) PROVE ClosedEmpty'
  <2>1. CASE CheckSwitch(c) \/ Refuse(c) \/ Join(c) \/ Hangup(c)
    BY <2>1, <1>2 DEF CheckSwitch, Refuse, Join, Hangup, manager, killing
  <2> QED
    BY <1>12, <2>1, <1>8 DEF ConnStep
<1>13. CASE FlipSwitch \/ UNCHANGED vars
  BY <1>13, <1>2 DEF FlipSwitch, vars, manager, killing
<1> QED
  BY <1>6, <1>7, <1>9, <1>10, <1>11, <1>12, <1>13 DEF Next

\* The invariants hold in every reachable state.
LEMMA Invariance == Spec => [](IInv /\ ClosedEmpty)
<1>1. Init => IInv /\ ClosedEmpty
  BY InitInv DEF Init, ClosedEmpty
<1>2. IInv /\ ClosedEmpty /\ [Next]_vars => IInv' /\ ClosedEmpty'
  BY StepInv, StepClosed
<1> QED
  BY <1>1, <1>2, PTL DEF Spec

(* ------------------------------- Theorems -------------------------------- *)

\* Type correctness, subscribers being live connections.
THEOREM TypeCorrect == Spec => []TypeOK
<1>1. IInv => TypeOK
  BY DEF IInv
<1> QED
  BY Invariance, <1>1, PTL

\* Nobody who watches a session loses it to the idle timer, and a session nobody
\* watches has a timer that will end it.
THEOREM IdleTimerAlways == Spec => []IdleTimer
<1>1. IInv => IdleTimer
  BY DEF IInv, IdleTimer
<1> QED
  BY Invariance, <1>1, PTL

\* A kill that has returned leaves nothing a listing saw.
THEOREM KillLeavesNothingAlways == Spec => []KillLeavesNothing
<1>1. IInv => KillLeavesNothing
  BY DEF IInv
<1> QED
  BY Invariance, <1>1, PTL

\* A session that was spawned is held or in the hands of a kill.  Serve exits with
\* nothing running but what somebody else was killing: such a session is not held
\* any more, so a kill has it, and that is neither Close's nor a request's.
THEOREM NothingForgottenAlways == Spec => []NothingForgotten
<1>1. IInv /\ ClosedEmpty => ServeLeavesOnlyKills
  <2> SUFFICES ASSUME IInv, ClosedEmpty, serving = "down", NEW s \in Sessions,
                      shell[s] \in {"alive", "dead"} \/ job[s] \in {"running", "listed"}
               PROVE  killer[s] \in {Switch, Idle} \union {Frame(c) : c \in Conns}
    BY DEF ServeLeavesOnlyKills
  <2>1. shell[s] # "none" /\ s \notin Held
    BY DEF IInv, UnspawnedIdle, ClosedEmpty
  <2>2. kpc[s] # "none" /\ kpc[s] # "gone"
    BY <2>1 DEF IInv, Accounted, KillLeavesNothing
  <2>3. killer[s] # Nobody /\ killer[s] # Request /\ killer[s] # Closing
    BY <2>2 DEF IInv, KillInHand, ClosedEmpty, KillsDone
  <2> QED
    BY <2>3 DEF IInv, TypeOK
<1>2. IInv /\ ClosedEmpty => NothingForgotten
  BY <1>1 DEF IInv, NothingForgotten
<1> QED
  BY Invariance, <1>2, PTL
=============================================================================
