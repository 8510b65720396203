----------------------------- MODULE PresentStream ----------------------------
(***************************************************************************)
(* What flows through one of present's terminal sessions                    *)
(* (services/present/internal/terminal: session.go, subscription.go), with  *)
(* the ends of the WebSocket bridge (internal/server/terminal.go): output   *)
(* to every subscriber and into the ring, typed input to the process.       *)
(*                                                                          *)
(* An action is one section under session.mu or one channel or descriptor   *)
(* operation between two of them.  When a session is spawned, killed or     *)
(* expired is PresentTerminal's.                                            *)
(***************************************************************************)
EXTENDS PresentRing, FiniteSets

CONSTANTS
  Viewers,      \* browser tabs
  PendingLimit, \* pendingLimit, in bytes
  InputLimit,   \* inputLimit, in bytes
  Reads,        \* the sizes of what one PTY read may take
  MaxOut,       \* bound: bytes the session prints
  MaxTyped,     \* bound: bytes typed into it
  MaxVisits     \* bound: connections per viewer

ASSUME StreamAssumption ==
  /\ PendingLimit \in Nat \ {0} /\ InputLimit \in Nat \ {0}
  /\ Reads \subseteq Nat \ {0}
  /\ MaxOut \in Nat /\ MaxTyped \in Nat /\ MaxVisits \in Nat

VARIABLES
  shell,     \* the process: "alive", "dead", "waited" once it is reaped
  exited,    \* s.exited, with s.done closed
  reading,   \* s.readDone is not closed
  \* Output.
  ring, made,\* s.ring; bytes read from the PTY so far
  upto,      \* made, when the exit was recorded
  subs,      \* s.subs
  \* A viewer's connection and its Subscription.
  vpc,       \* where the bridge's stream is
  got,       \* what was sent to the browser, the replay first
  pending,   \* sub.pending
  signal,    \* the signal in sub.ready
  outClosed, \* sub.outClosed, with sub.ready closed
  told,      \* sub.exited
  visits,
  \* Input.
  input,     \* s.input
  inputBytes,\* s.inputBytes
  inputErr,  \* s.inputErr
  inputReady,\* the signal in s.inputReady
  typed,     \* bytes write has accepted
  flight,    \* what writeLoop is writing, or 0
  ipc,       \* where writeLoop is
  fed        \* what the terminal took

procVars  == <<shell, exited, reading>>
outVars   == <<ring, made, upto, subs>>
subVars   == <<vpc, got, pending, signal, outClosed, told, visits>>
inputVars == <<input, inputBytes, inputErr, inputReady, typed, flight, ipc, fed>>
vars      == <<procVars, outVars, subVars, inputVars>>

Init ==
  /\ shell = "alive" /\ exited = FALSE /\ reading = TRUE
  /\ ring = NewRing /\ made = 0 /\ upto = 0 /\ subs = {}
  /\ vpc = [v \in Viewers |-> "away"] /\ got = [v \in Viewers |-> <<>>]
  /\ pending = [v \in Viewers |-> <<>>] /\ signal = [v \in Viewers |-> FALSE]
  /\ outClosed = [v \in Viewers |-> TRUE] /\ told = [v \in Viewers |-> FALSE]
  /\ visits = [v \in Viewers |-> 0]
  /\ input = <<>> /\ inputBytes = 0 /\ inputErr = FALSE /\ inputReady = FALSE
  /\ typed = 0 /\ flight = 0 /\ ipc = "wait" /\ fed = <<>>

(* ------------------------------ The process ------------------------------ *)

ShellEnds ==
  /\ shell = "alive"
  /\ shell' = "dead"
  /\ UNCHANGED <<exited, reading, outVars, subVars, inputVars>>

\* waitLoop reaps the process and says so under s.mu.
Reap ==
  /\ shell = "dead"
  /\ shell' = "waited"
  /\ UNCHANGED <<exited, reading, outVars, subVars, inputVars>>

\* readLoop's read fails: the terminal's holders are gone, or it was revoked
\* with its shell, or closed.
ReadEnds ==
  /\ reading /\ shell # "alive"
  /\ reading' = FALSE
  /\ UNCHANGED <<shell, exited, outVars, subVars, inputVars>>

\* Mutant: the output still pending is discarded with the exit.
CloseOutAll ==
  /\ outClosed' = [v \in Viewers |-> outClosed[v] \/ v \in subs]
  /\ told' = [v \in Viewers |-> told[v] \/ v \in subs]
  /\ pending' = [v \in Viewers |-> IF v \in subs THEN <<>> ELSE pending[v]]

\* closeOut(true, code) for every subscriber: what is pending stays for Take.
CloseOutExited ==
  /\ outClosed' = [v \in Viewers |-> outClosed[v] \/ v \in subs]
  /\ told' = [v \in Viewers |-> told[v] \/ v \in subs]
  /\ UNCHANGED pending

\* finish, once the read loop has returned or drainWait has passed: it drops
\* the input not yet written and ends the output of every subscriber.
Finish ==
  /\ shell = "waited" /\ ~exited
  /\ exited' = TRUE
  /\ input' = <<>> /\ inputBytes' = 0
  /\ CloseOutExited
  /\ upto' = made
  /\ UNCHANGED <<shell, reading, ring, made, subs, vpc, got, signal, visits,
                 inputErr, inputReady, typed, flight, ipc, fed>>

(* ------------------------------- Output ---------------------------------- *)

\* The subscribers publish reaches, and those too far behind to take n bytes.
Reached == {v \in subs : ~outClosed[v]}

\* Mutant: the limit is tested before the bytes are added.
BehindByNow(n) == {v \in Reached : Len(pending[v]) > PendingLimit}

Behind(n) == {v \in Reached : Len(pending[v]) + n > PendingLimit}

\* readLoop reads n bytes and publishes them: into the ring, and to every
\* subscriber but those too far behind, which are dropped with what they had
\* pending.
Publish(n) ==
  LET p == [i \in 1..n |-> made + i]
      dropped == Behind(n)
      reached == Reached \ dropped
  IN  /\ reading /\ made + n <= MaxOut
      /\ made' = made + n
      /\ ring' = RingWrite(ring, p)
      /\ subs' = subs \ dropped
      /\ pending' = [v \in Viewers |->
           IF v \in dropped THEN <<>> ELSE IF v \in reached THEN pending[v] \o p ELSE pending[v]]
      /\ signal' = [v \in Viewers |-> signal[v] \/ v \in reached]
      /\ outClosed' = [v \in Viewers |-> outClosed[v] \/ v \in dropped]
      /\ UNCHANGED <<procVars, upto, vpc, got, told, visits, inputVars>>

\* Mutant: a subscriber of a session that has exited waits for its output.
SubscribeOpen(v) ==
  /\ vpc[v] = "away" /\ visits[v] < MaxVisits
  /\ subs' = subs \union {v}
  /\ vpc' = [vpc EXCEPT ![v] = "live"] /\ visits' = [visits EXCEPT ![v] = @ + 1]
  /\ got' = [got EXCEPT ![v] = RingBytes(ring)]
  /\ outClosed' = [outClosed EXCEPT ![v] = FALSE]
  /\ UNCHANGED <<procVars, ring, made, upto, pending, signal, told, inputVars>>

\* A tab connects.  subscribe takes the replay under the lock publish holds; the
\* bridge sends it first.  Of a session that has exited it is all there is.
Subscribe(v) ==
  /\ vpc[v] = "away" /\ visits[v] < MaxVisits
  /\ subs' = subs \union {v}
  /\ vpc' = [vpc EXCEPT ![v] = "live"] /\ visits' = [visits EXCEPT ![v] = @ + 1]
  /\ got' = [got EXCEPT ![v] = RingBytes(ring)]
  /\ outClosed' = [outClosed EXCEPT ![v] = exited] /\ told' = [told EXCEPT ![v] = exited]
  /\ UNCHANGED <<procVars, ring, made, upto, pending, signal, inputVars>>

\* streamTerminal receives from sub.Ready: a signal, or its closing.
Receive(v) ==
  /\ vpc[v] = "live" /\ (signal[v] \/ outClosed[v])
  /\ signal' = [signal EXCEPT ![v] = FALSE]
  /\ vpc' = [vpc EXCEPT ![v] = "taking"]
  /\ UNCHANGED <<procVars, outVars, got, pending, outClosed, told, visits, inputVars>>

\* Take, and the write of what it returns; once the output has ended the stream
\* says so and stops (endTerminal).
Take(v) ==
  /\ vpc[v] = "taking"
  /\ got' = [got EXCEPT ![v] = @ \o pending[v]]
  /\ pending' = [pending EXCEPT ![v] = <<>>]
  /\ vpc' = [vpc EXCEPT ![v] = IF outClosed[v] THEN "ended" ELSE "live"]
  /\ UNCHANGED <<procVars, outVars, signal, outClosed, told, visits, inputVars>>

\* The connection ends and the handler's deferred sub.Close runs (unsubscribe).
Hangup(v) ==
  /\ vpc[v] \in {"live", "taking", "ended"}
  /\ vpc' = [vpc EXCEPT ![v] = "away"]
  /\ got' = [got EXCEPT ![v] = <<>>]
  /\ pending' = [pending EXCEPT ![v] = <<>>]
  /\ signal' = [signal EXCEPT ![v] = FALSE]
  /\ outClosed' = [outClosed EXCEPT ![v] = TRUE]
  /\ told' = [told EXCEPT ![v] = FALSE]
  /\ subs' = subs \ {v}
  /\ UNCHANGED <<procVars, ring, made, upto, visits, inputVars>>

(* -------------------------------- Input ---------------------------------- *)

\* write, for a tab that types or for the prefill (typePrefill): a byte is
\* queued for writeLoop, unless the process has ended, writing has failed or the
\* session holds as much as it takes.
Write ==
  /\ ~exited /\ ~inputErr /\ inputBytes + 1 <= InputLimit
  /\ typed < MaxTyped
  /\ typed' = typed + 1
  /\ input' = Append(input, typed + 1)
  /\ inputBytes' = inputBytes + 1
  /\ inputReady' = TRUE
  /\ UNCHANGED <<procVars, outVars, subVars, inputErr, flight, ipc, fed>>

\* writeLoop receives a signal.
WakeWriter ==
  /\ ipc = "wait" /\ inputReady
  /\ inputReady' = FALSE
  /\ ipc' = "next"
  /\ UNCHANGED <<procVars, outVars, subVars, input, inputBytes, inputErr, typed, flight, fed>>

\* writeLoop returns with the exit.
StopWriter ==
  /\ ipc = "wait" /\ exited
  /\ ipc' = "over"
  /\ UNCHANGED <<procVars, outVars, subVars, input, inputBytes, inputErr, inputReady, typed,
                 flight, fed>>

\* nextInput.
NextInput ==
  /\ ipc = "next"
  /\ IF input = <<>>
     THEN ipc' = "wait" /\ UNCHANGED <<input, flight>>
     ELSE ipc' = "writing" /\ flight' = Head(input) /\ input' = Tail(input)
  /\ UNCHANGED <<procVars, outVars, subVars, inputBytes, inputErr, inputReady, typed, fed>>

\* Mutant: one input per signal, though signals coalesce.
InputWrittenOnce ==
  /\ ipc = "writing"
  /\ fed' = Append(fed, flight) /\ flight' = 0
  /\ inputBytes' = inputBytes - 1
  /\ ipc' = "wait"
  /\ UNCHANGED <<procVars, outVars, subVars, input, inputErr, inputReady, typed>>

\* The terminal takes the write, and inputWritten accounts for it, also when
\* the exit has dropped the queue and its size meanwhile.
InputWritten ==
  /\ ipc = "writing"
  /\ fed' = Append(fed, flight) /\ flight' = 0
  /\ inputBytes' = inputBytes - 1
  /\ ipc' = "next"
  /\ UNCHANGED <<procVars, outVars, subVars, input, inputErr, inputReady, typed>>

\* Mutant: writeLoop goes on with the next input after a failed write.
InputFailsOn ==
  /\ ipc = "writing" /\ shell # "alive"
  /\ inputErr' = TRUE
  /\ flight' = 0 /\ inputBytes' = inputBytes - 1
  /\ ipc' = "next"
  /\ UNCHANGED <<procVars, outVars, subVars, input, inputReady, typed, fed>>

\* The write fails once the terminal has no holder left or is closed:
\* inputWritten drops the queue and writeLoop returns.
InputFails ==
  /\ ipc = "writing" /\ shell # "alive"
  /\ inputErr' = TRUE
  /\ input' = <<>> /\ inputBytes' = 0 /\ flight' = 0
  /\ ipc' = "over"
  /\ UNCHANGED <<procVars, outVars, subVars, inputReady, typed, fed>>

(* ------------------------------ The session ------------------------------ *)

WriterStep == WakeWriter \/ StopWriter \/ NextInput \/ InputWritten \/ InputFails

Next ==
  \/ ShellEnds \/ Reap \/ ReadEnds \/ Finish
  \/ \E n \in Reads : Publish(n)
  \/ \E v \in Viewers : Subscribe(v) \/ Receive(v) \/ Take(v) \/ Hangup(v)
  \/ Write \/ WriterStep

Spec == Init /\ [][Next]_vars

\* waitLoop reaps and finishes, and a stream that can run does.  Nothing makes
\* the process print, read or end, or a tab come or leave.
Fairness ==
  /\ WF_vars(Reap) /\ WF_vars(Finish)
  /\ \A v \in Viewers : WF_vars(Receive(v)) /\ WF_vars(Take(v))

LiveSpec == Spec /\ Fairness

(* ------------------------------ Properties ------------------------------- *)

Watching(v) == vpc[v] \in {"live", "taking", "ended"}

TypeOK ==
  /\ shell \in {"alive", "dead", "waited"} /\ exited \in BOOLEAN /\ reading \in BOOLEAN
  /\ ring \in [buf : [0..RingSize - 1 -> 0..MaxOut], head : 0..RingSize - 1, full : BOOLEAN]
  /\ made \in 0..MaxOut /\ upto \in 0..MaxOut /\ subs \subseteq Viewers
  /\ vpc \in [Viewers -> {"away", "live", "taking", "ended"}]
  /\ got \in [Viewers -> Seq(1..MaxOut)] /\ pending \in [Viewers -> Seq(1..MaxOut)]
  /\ \A v \in Viewers : Len(pending[v]) <= PendingLimit
  /\ signal \in [Viewers -> BOOLEAN] /\ outClosed \in [Viewers -> BOOLEAN]
  /\ told \in [Viewers -> BOOLEAN] /\ visits \in [Viewers -> 0..MaxVisits]
  /\ input \in Seq(1..MaxTyped) /\ inputBytes \in Int
  /\ inputErr \in BOOLEAN /\ inputReady \in BOOLEAN
  /\ typed \in 0..MaxTyped /\ flight \in 0..MaxTyped
  /\ ipc \in {"wait", "next", "writing", "over"} /\ fed \in Seq(1..MaxTyped)

\* A viewer's screen is one run of the session's output, without a gap or a
\* repeat between the replay and the live output or across a coalesced signal;
\* while its output is open it ends at the newest byte, and who is told of the
\* exit has all that was read before it (subscribe, publish, Take, finish).
OutputWhole ==
  \A v \in Viewers : Watching(v) =>
    LET seen == got[v] \o pending[v]
    IN  /\ \A i \in 1..Len(seen) - 1 : seen[i + 1] = seen[i] + 1
        /\ ~outClosed[v] /\ made > 0 => seen # <<>> /\ Last(seen) = made
        /\ told[v] /\ upto > 0 => seen # <<>> /\ Last(seen) >= upto

\* A replay is the newest RingSize bytes, oldest first, however the writes that
\* made them fell on the buffer (ring.go).
ReplayRecent ==
  LET kept == IF made < RingSize THEN made ELSE RingSize
  IN  RingBytes(ring) = [i \in 1..kept |-> made - kept + i]

\* Signals coalesce and none is lost: output waits for no stream that sleeps,
\* input for no writer that sleeps.
NoLostSignal ==
  /\ \A v \in Viewers : vpc[v] = "live" /\ pending[v] # <<>> => signal[v] \/ outClosed[v]
  /\ ipc = "wait" /\ input # <<>> => inputReady

\* The terminal gets what was typed, in order and once; until the process ends
\* all that was accepted is on its way and is what inputBytes counts, however
\* writes, the writer and a failing write interleave.
InputWhole ==
  LET moving == IF flight = 0 THEN <<>> ELSE <<flight>>
  IN  /\ fed = [i \in 1..Len(fed) |-> i]
      /\ ~exited /\ ~inputErr =>
           /\ fed \o moving \o input = [i \in 1..typed |-> i]
           /\ inputBytes = Len(moving) + Len(input)
      /\ inputBytes <= InputLimit

\* A viewer of a session whose process has ended is told so in the end, or was
\* dropped or left: no stream waits for output that cannot come.
ExitTold ==
  \A v \in Viewers : vpc[v] = "live" /\ shell # "alive" ~> vpc[v] \in {"ended", "away"}
=============================================================================
