---------------------------- MODULE PresentTerminal ---------------------------
(***************************************************************************)
(* The life of present's terminal sessions (services/present/internal/      *)
(* terminal: terminal.go, session.go, switch.go): who may spawn, join and   *)
(* end one.  A session outlives its viewers; it ends by a kill, by the idle *)
(* timer, by the switch or with the manager, and its process may end before *)
(* that.  What flows through a session is PresentStream's: here a           *)
(* subscriber may be dropped at any time for falling behind.                *)
(*                                                                          *)
(* An action is one section under Manager.mu or session.mu, one step of a   *)
(* kill, or one event of the processes in the session.                      *)
(***************************************************************************)
EXTENDS Integers, FiniteSets

CONSTANTS
  Keys,      \* (page, session name) pairs
  KeyOf,     \* [Conns -> the key a connection asks for]
  MaxSessions, \* bound: sessions spawned
  MaxConns,  \* bound: connections
  MaxFlips,  \* bound: times the switch file is created or removed
  Workers,   \* bound: the sessions whose shell starts jobs
  None

\* Every session serve ever spawns and every connection it accepts, in order:
\* a tab that connects again is another connection.
Sessions == 1..MaxSessions
Conns == 1..MaxConns

ASSUME TerminalAssumption ==
  /\ MaxSessions \in Nat /\ MaxConns \in Nat /\ MaxFlips \in Nat
  /\ KeyOf \in [Conns -> Keys]
  /\ None \notin Nat

VARIABLES
  \* The manager and serve.
  held,      \* [Keys -> m.sessions, or None]
  serving,   \* "up"; "closing" once m.closed; "down" when serve has exited
  on, flips, \* the switch file exists; how often that has changed
  \* A session's processes and goroutines.
  shell,     \* "none" before the spawn, "alive", "dead", "exited" once s.exited
  job,       \* a job of the shell in a process group of its own: "none", "running",
             \* "listed" by the kill, or "late": started after its last listing
  kpc,       \* where the kill of the session is
  killer,    \* who is killing it
  subs,      \* s.subs
  idle,      \* s.idle: "nil", "armed", or "spent" when it has fired
  firing,    \* onIdle calls that have yet to take m.mu
  \* A connection.
  cpc,       \* "new", "checked" the switch, "live", "over"
  src        \* the session it is subscribed to

\* Who takes a session out of the manager, and waits for the kill or does not.
Nobody  == <<"nobody", 0>>
Request == <<"request", 0>>
Switch  == <<"switch", 0>>
Closing == <<"close", 0>>
Idle    == <<"idle", 0>>
Frame(c) == <<"frame", c>>

manager == <<held, serving, on, flips>>
procs   == <<shell, job>>
killing == <<kpc, killer>>
timers  == <<idle, firing>>
conn    == <<cpc, src>>
vars    == <<manager, procs, killing, timers, subs, conn>>

Init ==
  /\ held = [k \in Keys |-> None] /\ serving = "up"
  /\ on = TRUE /\ flips = 0
  /\ shell = [s \in Sessions |-> "none"] /\ job = [s \in Sessions |-> "none"]
  /\ kpc = [s \in Sessions |-> "none"] /\ killer = [s \in Sessions |-> Nobody]
  /\ subs = [s \in Sessions |-> {}]
  /\ idle = [s \in Sessions |-> "nil"] /\ firing = [s \in Sessions |-> 0]
  /\ cpc = [c \in Conns |-> "new"] /\ src = [c \in Conns |-> None]

Up == serving # "down"

(* ----------------------- Subscribers and the idle timer ------------------ *)

\* s.idle.Stop() and s.idle = nil: a timer that has fired is only forgotten.
StopIdle(s) == idle' = [idle EXCEPT ![s] = "nil"]

\* idleIfAlone, for the subscribers left.
IdleIfAlone(s, left) ==
  idle' = IF left = {} /\ idle[s] = "nil" THEN [idle EXCEPT ![s] = "armed"] ELSE idle

\* subscribe: it stops the timer that has not fired yet.
Subscribe(s, c) ==
  /\ subs' = [subs EXCEPT ![s] = @ \union {c}]
  /\ StopIdle(s)
  /\ cpc' = [cpc EXCEPT ![c] = "live"] /\ src' = [src EXCEPT ![c] = s]

\* Subscribers D leave session s: the last one out starts the timer.
Leave(s, D) ==
  /\ subs' = [subs EXCEPT ![s] = @ \ D]
  /\ IdleIfAlone(s, subs[s] \ D)

(* ------------------------------ Attaching -------------------------------- *)

\* handleTerminal up to Attach: the switch is read first.
CheckSwitch(c) ==
  /\ Up /\ cpc[c] = "new" /\ (\A d \in 1..c - 1 : cpc[d] # "new") /\ on
  /\ cpc' = [cpc EXCEPT ![c] = "checked"]
  /\ UNCHANGED <<manager, procs, killing, timers, subs, src>>

\* Attach refused with ErrClosed, or failing to spawn.
Refuse(c) ==
  /\ Up /\ cpc[c] = "checked"
  /\ serving = "closing" \/ held[KeyOf[c]] = None
  /\ cpc' = [cpc EXCEPT ![c] = "over"]
  /\ UNCHANGED <<manager, procs, killing, timers, subs, src>>

\* Attach to the session held under the viewer's key.
Join(c) ==
  LET s == held[KeyOf[c]]
  IN  /\ Up /\ cpc[c] = "checked" /\ serving = "up" /\ s # None
      /\ Subscribe(s, c)
      /\ UNCHANGED <<manager, procs, killing, firing>>

\* Mutant: Attach does not ask whether the manager is closed.
SpawnClosed(c, s) ==
  /\ Up /\ cpc[c] = "checked" /\ held[KeyOf[c]] = None
  /\ shell[s] = "none" /\ \A t \in 1..s - 1 : shell[t] # "none"
  /\ held' = [held EXCEPT ![KeyOf[c]] = s]
  /\ shell' = [shell EXCEPT ![s] = "alive"]
  /\ Subscribe(s, c)
  /\ UNCHANGED <<serving, on, flips, job, killing, firing>>

\* Attach spawns the next session and subscribes to it, both under m.mu.
Spawn(c, s) ==
  /\ Up /\ cpc[c] = "checked" /\ serving = "up" /\ held[KeyOf[c]] = None
  /\ shell[s] = "none" /\ \A t \in 1..s - 1 : shell[t] # "none"
  /\ held' = [held EXCEPT ![KeyOf[c]] = s]
  /\ shell' = [shell EXCEPT ![s] = "alive"]
  /\ Subscribe(s, c)
  /\ UNCHANGED <<serving, on, flips, job, killing, firing>>

(* ------------------------------- Killing --------------------------------- *)

\* The sessions the manager holds.
Held == {held[k] : k \in Keys} \ {None}

\* Sessions S leave m.sessions, and who takes them out kills them.
TakeOut(S, who) ==
  /\ held' = [k \in Keys |-> IF held[k] \in S THEN None ELSE held[k]]
  /\ kpc' = [s \in Sessions |-> IF s \in S THEN "stop" ELSE kpc[s]]
  /\ killer' = [s \in Sessions |-> IF s \in S THEN who ELSE killer[s]]

\* Whether all that one caller kills is gone.
KillsDone(who) == \A s \in Sessions : killer[s] # who

\* Kill, for DELETE /api/p/{id}/terminal/{session}.
KillRequest(k) ==
  /\ Up /\ serving = "up" /\ held[k] # None /\ KillsDone(Request)
  /\ TakeOut({held[k]}, Request)
  /\ UNCHANGED <<serving, on, flips, procs, timers, subs, conn>>

\* Kill, for a control frame: the connection's reader waits until it is done.
\* It names the key, so it kills whatever session is held by then.
KillFrame(c) ==
  LET k == KeyOf[c]
  IN  /\ Up /\ cpc[c] = "live" /\ held[k] # None /\ KillsDone(Frame(c))
      /\ TakeOut({held[k]}, Frame(c))
      /\ UNCHANGED <<serving, on, flips, procs, timers, subs, conn>>

\* Mutant: a session somebody watches is spared.
WatchTickUnwatched ==
  /\ Up /\ serving = "up" /\ ~on /\ KillsDone(Switch)
  /\ TakeOut({s \in Held : subs[s] = {}}, Switch)
  /\ UNCHANGED <<serving, on, flips, procs, timers, subs, conn>>

\* The CLI turns the terminal on or off.
FlipSwitch ==
  /\ Up /\ flips < MaxFlips
  /\ on' = ~on /\ flips' = flips + 1
  /\ UNCHANGED <<held, serving, procs, killing, timers, subs, conn>>

\* WatchSwitch at a tick: KillAll while the switch is off.  It waits for the
\* kills before the next tick.
WatchTick ==
  /\ Up /\ serving = "up" /\ ~on /\ KillsDone(Switch) /\ Held # {}
  /\ TakeOut(Held, Switch)
  /\ UNCHANGED <<serving, on, flips, procs, timers, subs, conn>>

\* Serve ends: requests are waited for (drainTimeout), then Close.  WebSockets,
\* idle timers and WatchSwitch are not waited for.
Close ==
  /\ Up /\ serving = "up" /\ KillsDone(Request)
  /\ serving' = "closing"
  /\ TakeOut(Held, Closing)
  /\ UNCHANGED <<on, flips, procs, timers, subs, conn>>

\* Close returns once its own kills are done, and serve exits.
ExitServe ==
  /\ serving = "closing" /\ KillsDone(Closing)
  /\ serving' = "down"
  /\ UNCHANGED <<held, on, flips, procs, killing, timers, subs, conn>>

\* The idle timer fires: onIdle runs in a goroutine of its own.
TimerFires(s) ==
  /\ Up /\ idle[s] = "armed"
  /\ idle' = [idle EXCEPT ![s] = "spent"]
  /\ firing' = [firing EXCEPT ![s] = @ + 1]
  /\ UNCHANGED <<manager, procs, killing, subs, conn>>

\* Mutant: the timer is taken at its word.
ExpireAnyway(s) == s \in Held

\* Whether expire goes on to kill s.
Expires(s) == s \in Held /\ subs[s] = {}

\* expire.
Expire(s) ==
  /\ Up /\ firing[s] > 0
  /\ firing' = [firing EXCEPT ![s] = @ - 1]
  /\ IF Expires(s) THEN TakeOut({s}, Idle) ELSE UNCHANGED <<held, kpc, killer>>
  /\ UNCHANGED <<serving, on, flips, procs, idle, subs, conn>>

\* jobGroups: what runs in the session is added to what was listed before.
List(s) == job' = [job EXCEPT ![s] = IF @ = "running" THEN "listed" ELSE @]

\* kill: stopIdle, then the first listing and SIGHUP.  A hangup ends the
\* processes that do not ignore it, which JobEnds and ShellEnds allow anyway.
KillBegins(s) ==
  /\ Up /\ kpc[s] = "stop"
  /\ StopIdle(s) /\ List(s)
  /\ kpc' = [kpc EXCEPT ![s] = "heard"]
  /\ UNCHANGED <<manager, shell, killer, firing, subs, conn>>

\* The kill returns to whoever called it.
KillReturn(s) ==
  /\ kpc' = [kpc EXCEPT ![s] = "gone"]
  /\ killer' = [killer EXCEPT ![s] = Nobody]

\* Mutant: the exit is taken for the end of the session's jobs too.
KillEndsWithShell(s) ==
  /\ Up /\ kpc[s] \in {"heard", "ignored"}
  /\ shell[s] = "exited"
  /\ KillReturn(s)
  /\ UNCHANGED <<manager, procs, timers, subs, conn>>

\* endedBy in time: the exit is recorded and no process is left in the session.
KillEnds(s) ==
  /\ Up /\ kpc[s] \in {"heard", "ignored"}
  /\ shell[s] = "exited" /\ job[s] = "none"
  /\ KillReturn(s)
  /\ UNCHANGED <<manager, procs, timers, subs, conn>>

\* endedBy at its deadline.  After the first, the session is listed again and
\* gets a second SIGHUP; after the second, it is listed for the last time.
KillGoesOn(s) ==
  /\ Up /\ kpc[s] \in {"heard", "ignored"}
  /\ List(s)
  /\ kpc' = [kpc EXCEPT ![s] = IF @ = "heard" THEN "ignored" ELSE "kill"]
  /\ UNCHANGED <<manager, shell, killer, timers, subs, conn>>

\* SIGKILL to the shell's own group while it is not reaped, and to every group
\* that was listed.
KillSignal(s) ==
  /\ Up /\ kpc[s] = "kill"
  /\ shell' = [shell EXCEPT ![s] = IF @ = "alive" THEN "dead" ELSE @]
  /\ job' = [job EXCEPT ![s] = IF @ = "listed" THEN "none" ELSE @]
  /\ kpc' = [kpc EXCEPT ![s] = "last"]
  /\ UNCHANGED <<manager, killer, timers, subs, conn>>

\* <-s.done.
KillAwaits(s) ==
  /\ Up /\ kpc[s] = "last" /\ shell[s] = "exited"
  /\ KillReturn(s)
  /\ UNCHANGED <<manager, procs, timers, subs, conn>>

(* -------------------- The processes of a session ------------------------- *)

\* The shell starts a job.
JobStarts(s) ==
  /\ Up /\ s \in Workers /\ shell[s] = "alive" /\ job[s] = "none"
  /\ job' = [job EXCEPT ![s] = IF kpc[s] = "kill" THEN "late" ELSE "running"]
  /\ UNCHANGED <<manager, shell, killing, timers, subs, conn>>

JobEnds(s) ==
  /\ Up /\ job[s] # "none"
  /\ job' = [job EXCEPT ![s] = "none"]
  /\ UNCHANGED <<manager, shell, killing, timers, subs, conn>>

\* The shell ends; waitLoop reaps it, and finish records the exit once the read
\* loop has returned or drainWait has passed.
ShellStep(s, from, to) ==
  /\ Up /\ shell[s] = from
  /\ shell' = [shell EXCEPT ![s] = to]
  /\ UNCHANGED <<manager, job, killing, timers, subs, conn>>
ShellEnds(s) == ShellStep(s, "alive", "dead")
Finish(s) == ShellStep(s, "dead", "exited")

\* publish drops the subscribers too far behind, as long as their output is open.
Drop(s, D) ==
  /\ Up /\ shell[s] # "exited" /\ D # {}
  /\ Leave(s, D)
  /\ UNCHANGED <<manager, procs, killing, firing, conn>>

\* Mutant: the handler returns without closing its subscription.
HangupLeaks(c) ==
  /\ Up /\ cpc[c] = "live" /\ KillsDone(Frame(c))
  /\ cpc' = [cpc EXCEPT ![c] = "over"]
  /\ src' = [src EXCEPT ![c] = None]
  /\ UNCHANGED <<manager, procs, killing, timers, subs>>

\* The connection ends, by itself or because the stream has, and the handler's
\* deferred sub.Close runs (unsubscribe), which finds a dropped subscriber gone.
\* A reader inside Kill sees the end of the connection only after it.
Hangup(c) ==
  LET s == src[c]
  IN  /\ Up /\ cpc[c] = "live" /\ KillsDone(Frame(c))
      /\ cpc' = [cpc EXCEPT ![c] = "over"]
      /\ src' = [src EXCEPT ![c] = None]
      /\ IF c \in subs[s] THEN Leave(s, {c}) ELSE UNCHANGED <<subs, idle>>
      /\ UNCHANGED <<manager, procs, killing, firing>>

\* The stream of c has ended: it was told the exit, or dropped.
StreamEnded(c) == cpc[c] = "live" /\ (shell[src[c]] = "exited" \/ c \notin subs[src[c]])

(* ------------------------------ The system ------------------------------- *)

ConnStep(c) ==
  \/ CheckSwitch(c) \/ Refuse(c) \/ Join(c) \/ (\E s \in Sessions : Spawn(c, s))
  \/ KillFrame(c) \/ Hangup(c)

KillStep(s) ==
  KillBegins(s) \/ KillEnds(s) \/ KillGoesOn(s) \/ KillSignal(s) \/ KillAwaits(s)

SessionStep(s) ==
  \/ KillStep(s) \/ TimerFires(s) \/ Expire(s)
  \/ JobStarts(s) \/ JobEnds(s) \/ ShellEnds(s) \/ Finish(s)
  \/ \E D \in SUBSET subs[s] : Drop(s, D)

Next ==
  \/ \E c \in Conns : ConnStep(c)
  \/ \E s \in Sessions : SessionStep(s)
  \/ (\E k \in Keys : KillRequest(k)) \/ FlipSwitch \/ WatchTick \/ Close \/ ExitServe

Spec == Init /\ [][Next]_vars

\* A goroutine that can run does; a timer that is armed fires; the bridge leaves
\* a stream that has ended; WatchSwitch ticks.  Nothing makes a viewer come,
\* type or leave, a process print or end by itself.
Fairness ==
  /\ \A c \in Conns : WF_vars(StreamEnded(c) /\ Hangup(c))
  /\ \A s \in Sessions :
       /\ WF_vars(KillStep(s)) /\ WF_vars(TimerFires(s)) /\ WF_vars(Expire(s))
       /\ WF_vars(Finish(s))
  /\ WF_vars(WatchTick)

LiveSpec == Spec /\ Fairness

(* ------------------------------ Properties ------------------------------- *)

\* The connections whose handler shows session s.
Watchers(s) == {c \in Conns : cpc[c] = "live" /\ src[c] = s}

TypeOK ==
  /\ held \in [Keys -> Sessions \union {None}]
  /\ serving \in {"up", "closing", "down"} /\ on \in BOOLEAN /\ flips \in 0..MaxFlips
  /\ shell \in [Sessions -> {"none", "alive", "dead", "exited"}]
  /\ job \in [Sessions -> {"none", "running", "listed", "late"}]
  /\ kpc \in [Sessions -> {"none", "stop", "heard", "ignored", "kill", "last", "gone"}]
  /\ killer \in [Sessions -> {Nobody, Request, Switch, Closing, Idle} \union {Frame(c) : c \in Conns}]
  /\ subs \in [Sessions -> SUBSET Conns] /\ \A s \in Sessions : subs[s] \subseteq Watchers(s)
  /\ idle \in [Sessions -> {"nil", "armed", "spent"}] /\ firing \in [Sessions -> Nat]
  /\ cpc \in [Conns -> {"new", "checked", "live", "over"}]
  /\ src \in [Conns -> Sessions \union {None}]

\* Nobody who watches a session loses it to the idle timer, however late the
\* timer's goroutine takes the lock (expire).
WatchedNotExpired == \A s \in Sessions : killer[s] = Idle => subs[s] = {}

\* A session nobody watches has a timer running or about to be heard, whichever
\* of its viewers was dropped, closed or joined too late to stop a timer.
UnwatchedTimed ==
  \A s \in Held : subs[s] = {} => idle[s] = "armed" \/ firing[s] > 0

\* The idle timer follows the viewers, however late it is stopped or heard.
IdleTimer == WatchedNotExpired /\ UnwatchedTimed

\* A session that left the manager is in the hands of one kill, and no key has
\* two sessions that both are listed (TakeOut is every delete from m.sessions).
Accounted ==
  \A s \in Sessions : shell[s] # "none" =>
    (s \in Held <=> kpc[s] = "none")

\* When a kill has returned the exit is recorded, and no process is left in the
\* session but a job started between the last listing and SIGKILL.
KillLeavesNothing ==
  \A s \in Sessions : kpc[s] = "gone" => shell[s] = "exited" /\ job[s] \in {"none", "late"}

\* A session nobody watches is ended, unless somebody comes back to it: no timer
\* is lost between viewers that are dropped, close and join.
LeftAloneEnds ==
  \A s \in Sessions :
    s \in Held /\ Watchers(s) = {} ~> kpc[s] = "gone" \/ Watchers(s) # {} \/ serving = "down"

\* With the switch off for good no session stays, not even one whose handler
\* had read the switch before (handleTerminal, WatchSwitch).
OffEndsAll == <>[](~on /\ serving = "up") => <>[](Held = {} /\ KillsDone(Switch))

\* What is left running when serve exits is a kill under way in the switch's
\* goroutine, an idle timer's or a connection's, which nothing waits for: Close
\* refuses later sessions and sees its own kills and the requests' to the end.
ServeLeavesOnlyKills ==
  serving = "down" =>
    \A s \in Sessions :
      shell[s] \in {"alive", "dead"} \/ job[s] \in {"running", "listed"} =>
        killer[s] \in {Switch, Idle} \union {Frame(c) : c \in Conns}

\* No session is lost sight of: it is held, or killed, or outlives serve in the
\* hands of a kill that serve does not wait for.
NothingForgotten == Accounted /\ ServeLeavesOnlyKills
=============================================================================
