---------------------------- MODULE SpeakPreparer ----------------------------
(***************************************************************************)
(* The background clip preparer of speak                                    *)
(* (services/speak/internal/audiocache/preparer.go): the jobs by key, the   *)
(* urgent and the background queue, the workers that come and go with the   *)
(* queued work, retries on timers, and the fetches that wait on a job.      *)
(*                                                                          *)
(* Each section under Preparer.mu is one action.  Between them a worker     *)
(* synthesizes and stores outside the lock, a timer that has fired waits    *)
(* for the lock, and a fetch looks in the store before it takes the lock.   *)
(*                                                                          *)
(* A job is named by its key: p.jobs holds at most one job per key.  Where  *)
(* an older job of the key is still referred to, the model says so: a fetch *)
(* whose job is done (call), and a timer that fired for a job that is       *)
(* nobody's any more (late).  Texts, audio, error texts and the health      *)
(* records are left out.                                                    *)
(***************************************************************************)
EXTENDS Naturals, FiniteSets, SequencesExt

CONSTANTS
  Keys,         \* clips
  Callers,      \* goroutines of GET /audio/{key}: concurrent fetches
  Workers,      \* the prepareWorkers worker goroutines
  MaxAttempts,  \* maxAttempts
  Batches,      \* the item lists Queue is called with
  MaxFired,     \* bound: late timers of a key that wait for the lock
  None

ASSUME PreparerAssumption ==
  /\ IsFiniteSet(Keys) /\ IsFiniteSet(Callers) /\ IsFiniteSet(Workers)
  /\ Workers # {}
  /\ MaxAttempts \in Nat \ {0}
  /\ MaxFired \in Nat \ {0}
  /\ \A items \in Batches : items \in Seq(Keys)
  /\ None \notin Keys

VARIABLES
  job,          \* p.jobs: each key's job; "idle" where the map has none
  urgent,       \* p.urgent, next first
  background,   \* p.background, next first
  worker,       \* the worker goroutines; "off" ones are not running
  call,         \* the fetches
  late,         \* timers that fired for a job that left the map or its wait
  stored        \* the keys with a clip in the store

vars == <<job, urgent, background, worker, call, late, stored>>

(* ------------------------------- The state ------------------------------ *)

\* j.urgent is read of a queued job only, so a queued job's state is the queue
\* it is in: "urgent" or "background".
Queued == {"urgent", "background"}
InFlight == Queued \union {"generating", "retrying"}

NoJob == [state |-> "idle", attempts |-> 0, timer |-> "none"]
NewJob(queue) == [NoJob EXCEPT !.state = queue]
Off == [pc |-> "off", key |-> None, result |-> "none"]
NoCall == [pc |-> "idle", key |-> None]

\* What a synthesis may end in: a clip (stored or not), a failure of this one
\* text or moment (a stall is one), or one every other clip would share.
Failures == {"upstream", "stalled", "shared"}
Outcomes == {"made", "unstored"} \union Failures

TypeOK ==
  /\ job \in [Keys -> [state : {"idle", "failed"} \union InFlight,
                       attempts : 0..MaxAttempts, timer : {"none", "armed", "fired"}]]
  /\ urgent \in Seq(Keys)
  /\ background \in Seq(Keys)
  /\ worker \in [Workers -> [pc : {"off", "next", "run", "finish"},
                             key : Keys \union {None}, result : {"none"} \union Outcomes]]
  /\ call \in [Callers -> [pc : {"idle", "lock", "wait", "done"}, key : Keys \union {None}]]
  /\ late \in [Keys -> 0..MaxFired]
  /\ stored \subseteq Keys

\* The store is on disk: any clip may be there from an earlier run.
Init ==
  /\ job = [k \in Keys |-> NoJob]
  /\ urgent = <<>>
  /\ background = <<>>
  /\ worker = [w \in Workers |-> Off]
  /\ call = [c \in Callers |-> NoCall]
  /\ late = [k \in Keys |-> 0]
  /\ stored \in SUBSET Keys

Pending(k) == job[k].state \in InFlight
In(states) == {k \in Keys : job[k].state \in states}

\* The elements of a sequence at the positions I, in order.
Keep(s, I) ==
  LET kept[n \in 0..Len(s)] ==
        IF n = 0 THEN <<>> ELSE IF n \in I THEN Append(kept[n - 1], s[n]) ELSE kept[n - 1]
  IN  kept[Len(s)]

Without(queue, S) == Keep(queue, {i \in 1..Len(queue) : queue[i] \notin S})

\* spawn: a worker for each of the queued jobs, up to all of them.
Spawn(queued) ==
  LET off == {w \in Workers : worker[w].pc = "off"}
      n == IF queued < Cardinality(off) THEN queued ELSE Cardinality(off)
  IN \E S \in kSubset(n, off) :
       worker' = [w \in Workers |-> IF w \in S THEN [Off EXCEPT !.pc = "next"] ELSE worker[w]]

\* Timer.Stop on the jobs of S: one that has fired is past stopping.
StopTimers(S) ==
  late' = [k \in Keys |-> IF k \in S /\ job[k].timer = "fired" THEN late[k] + 1 ELSE late[k]]

\* drop: the keys of S have no job, and no timer to bring it back.
Drop(S) == [k \in Keys |-> IF k \in S THEN NoJob ELSE job[k]]

(* ------------------------------ Queue, Forget ---------------------------- *)

\* The keys a Queue call puts at the front, in order: what waits in the
\* background already moves up, what is neither pending nor stored is new.
Wanted(items) ==
  Keep(items, {i \in 1..Len(items) :
                 /\ \A h \in 1..i - 1 : items[h] # items[i]
                 /\ \/ job[items[i]].state = "background"
                    \/ ~Pending(items[i]) /\ items[i] \notin stored})

\* Mutant: a failed item keeps its attempt count.
QueueKeepsCount(items) ==
  LET batch == Wanted(items)
      front == ToSet(batch)
  IN /\ job' = [k \in Keys |-> IF k \in front THEN [job[k] EXCEPT !.state = "background"] ELSE job[k]]
     /\ background' = batch \o Without(background, front)
     /\ Spawn(Len(urgent) + Len(background'))
     /\ UNCHANGED <<urgent, call, late, stored>>

Queue(items) ==
  LET batch == Wanted(items)
      front == ToSet(batch)
  IN /\ job' = [k \in Keys |-> IF k \in front /\ ~Pending(k) THEN NewJob("background") ELSE job[k]]
     /\ background' = batch \o Without(background, front)
     /\ Spawn(Len(urgent) + Len(background'))
     /\ UNCHANGED <<urgent, call, late, stored>>

\* Mutant: Forget drops a clip that is being generated, too.
ForgetGenerating(keys) ==
  LET dropped == keys \intersect In({"background", "generating", "retrying", "failed"}) IN
  /\ job' = Drop(dropped)
  /\ StopTimers(dropped)
  /\ background' = Without(background, dropped)
  /\ UNCHANGED <<urgent, worker, call, stored>>

\* Forget leaves alone what is being generated or waited on.
Forget(keys) ==
  LET dropped == keys \intersect In({"background", "retrying", "failed"}) IN
  /\ job' = Drop(dropped)
  /\ StopTimers(dropped)
  /\ background' = Without(background, dropped)
  /\ UNCHANGED <<urgent, worker, call, stored>>

(* --------------------------------- Fetch --------------------------------- *)

\* The clip is not in the store at the first look (one that is there is
\* answered, and changes nothing here).
Look(c, k) ==
  /\ call[c].pc = "idle"
  /\ k \notin stored
  /\ call' = [call EXCEPT ![c] = [pc |-> "lock", key |-> k]]
  /\ UNCHANGED <<job, urgent, background, worker, late, stored>>

\* urgentJob, by the state of the clip's job; the fetch then waits for it.
WaitOn(c, states) ==
  /\ call[c].pc = "lock"
  /\ job[call[c].key].state \in states
  /\ call' = [call EXCEPT ![c].pc = "wait"]

UrgentAlready(c) ==
  /\ WaitOn(c, {"generating", "urgent"})
  /\ UNCHANGED <<job, urgent, background, worker, late, stored>>

\* Mutant: the promoted job stays in the background queue as well.
UrgentBackgroundKept(c) ==
  LET k == call[c].key IN
  /\ WaitOn(c, {"background"})
  /\ job' = [job EXCEPT ![k].state = "urgent"]
  /\ urgent' = Append(urgent, k)
  /\ UNCHANGED <<background, worker, late, stored>>

UrgentBackground(c) ==
  LET k == call[c].key IN
  /\ WaitOn(c, {"background"})
  /\ job' = [job EXCEPT ![k].state = "urgent"]
  /\ urgent' = Append(urgent, k)
  /\ background' = Without(background, {k})
  /\ UNCHANGED <<worker, late, stored>>

UrgentRetrying(c) ==
  LET k == call[c].key IN
  /\ WaitOn(c, {"retrying"})
  /\ job' = [job EXCEPT ![k].state = "urgent", ![k].timer = "none"]
  /\ StopTimers({k})
  /\ urgent' = Append(urgent, k)
  /\ Spawn(Len(urgent') + Len(background))
  /\ UNCHANGED <<background, stored>>

UrgentNew(c) ==
  LET k == call[c].key IN
  /\ WaitOn(c, {"idle", "failed"})
  /\ k \notin stored
  /\ job' = [job EXCEPT ![k] = NewJob("urgent")]
  /\ urgent' = Append(urgent, k)
  /\ Spawn(Len(urgent') + Len(background))
  /\ UNCHANGED <<background, late, stored>>

\* Stored since the first look: a second look answers the clip, or an error if
\* it was evicted in between.
UrgentStored(c) ==
  /\ call[c].pc = "lock"
  /\ ~Pending(call[c].key)
  /\ call[c].key \in stored
  /\ call' = [call EXCEPT ![c] = NoCall]
  /\ UNCHANGED <<job, urgent, background, worker, late, stored>>

\* A fetch returns when its job is done, or leaves when its listener does.
Return(c, pcs) ==
  /\ call[c].pc \in pcs
  /\ call' = [call EXCEPT ![c] = NoCall]
  /\ UNCHANGED <<job, urgent, background, worker, late, stored>>

Answer(c) == Return(c, {"done"})
Abandon(c) == Return(c, {"wait"})

(* ------------------------------- The workers ----------------------------- *)

\* Mutant: background work first.
TakeBackgroundFirst(w) ==
  LET k == Head(background \o urgent) IN
  /\ worker[w].pc = "next"
  /\ urgent \o background # <<>>
  /\ IF background = <<>> THEN urgent' = Tail(urgent) /\ UNCHANGED background
                          ELSE background' = Tail(background) /\ UNCHANGED urgent
  /\ worker' = [worker EXCEPT ![w] = [pc |-> "run", key |-> k, result |-> "none"]]
  /\ job' = [job EXCEPT ![k].state = "generating", ![k].attempts = @ + 1]
  /\ UNCHANGED <<call, late, stored>>

\* next: urgent work first; a worker that finds none is gone.
Take(w) ==
  LET k == Head(urgent \o background) IN
  /\ worker[w].pc = "next"
  /\ urgent \o background # <<>>
  /\ IF urgent # <<>> THEN urgent' = Tail(urgent) /\ UNCHANGED background
                      ELSE background' = Tail(background) /\ UNCHANGED urgent
  /\ worker' = [worker EXCEPT ![w] = [pc |-> "run", key |-> k, result |-> "none"]]
  /\ job' = [job EXCEPT ![k].state = "generating", ![k].attempts = @ + 1]
  /\ UNCHANGED <<call, late, stored>>

Retire(w) ==
  /\ worker[w].pc = "next"
  /\ urgent \o background = <<>>
  /\ worker' = [worker EXCEPT ![w] = Off]
  /\ UNCHANGED <<job, urgent, background, call, late, stored>>

\* run, outside the lock: synthesize, which the Timeout backstop ends if
\* nothing else does, and Store.Put what was made.
Run(w, result) ==
  /\ worker[w].pc = "run"
  /\ worker' = [worker EXCEPT ![w].pc = "finish", ![w].result = result]
  /\ stored' = IF result = "made" THEN stored \union {worker[w].key} ELSE stored
  /\ UNCHANGED <<job, urgent, background, call, late>>

\* finish: whatever the outcome, the job's waiters have it, and the worker
\* looks for its next job.
Finishing(w, results) ==
  /\ worker[w].pc = "finish"
  /\ worker[w].result \in results
  /\ worker' = [worker EXCEPT ![w] = [Off EXCEPT !.pc = "next"]]
  /\ call' = [c \in Callers |-> IF call[c] = [pc |-> "wait", key |-> worker[w].key]
                                THEN [call[c] EXCEPT !.pc = "done"] ELSE call[c]]

FinishMade(w) ==
  /\ Finishing(w, {"made"})
  /\ job' = Drop({worker[w].key})
  /\ UNCHANGED <<urgent, background, late, stored>>

\* A clip that could not be stored still goes to the waiters.
FinishUnstored(w) ==
  /\ Finishing(w, {"unstored"})
  /\ job' = [job EXCEPT ![worker[w].key].state = "failed"]
  /\ UNCHANGED <<urgent, background, late, stored>>

\* haltsBackground, or a stall on the last attempt: the rest would fail too.
Halts(w) ==
  \/ worker[w].result = "shared"
  \/ worker[w].result = "stalled" /\ job[worker[w].key].attempts >= MaxAttempts

\* Mutant: halt drops the urgent queue with the background.
FinishHaltAll(w) ==
  LET halted == ToSet(urgent \o background) \union In({"retrying"}) IN
  /\ Finishing(w, Failures)
  /\ Halts(w)
  /\ job' = [Drop(halted) EXCEPT ![worker[w].key].state = "failed"]
  /\ StopTimers(halted)
  /\ urgent' = <<>> /\ background' = <<>>
  /\ UNCHANGED stored

\* Mutant: halt stops the retry timers and leaves their jobs waiting for them.
FinishHaltParked(w) ==
  LET halted == ToSet(background) IN
  /\ Finishing(w, Failures)
  /\ Halts(w)
  /\ job' = [k \in Keys |-> IF k = worker[w].key THEN [job[k] EXCEPT !.state = "failed"]
                            ELSE [Drop(halted)[k] EXCEPT !.timer = "none"]]
  /\ StopTimers(In({"retrying"}))
  /\ background' = <<>>
  /\ UNCHANGED <<urgent, stored>>

\* halt drops the background queue and every job waiting to be retried.
FinishHalt(w) ==
  LET halted == ToSet(background) \union In({"retrying"}) IN
  /\ Finishing(w, Failures)
  /\ Halts(w)
  /\ job' = [Drop(halted) EXCEPT ![worker[w].key].state = "failed"]
  /\ StopTimers(halted)
  /\ background' = <<>>
  /\ UNCHANGED <<urgent, stored>>

\* scheduleRetry: a new job takes the key and the count, on a timer; the
\* failed one is its waiters'.
FinishRetry(w) ==
  LET k == worker[w].key IN
  /\ Finishing(w, Failures)
  /\ ~Halts(w)
  /\ job[k].attempts < MaxAttempts
  /\ job' = [job EXCEPT ![k].state = "retrying", ![k].timer = "armed"]
  /\ UNCHANGED <<urgent, background, late, stored>>

FinishFailed(w) ==
  LET k == worker[w].key IN
  /\ Finishing(w, Failures)
  /\ ~Halts(w)
  /\ job[k].attempts >= MaxAttempts
  /\ job' = [job EXCEPT ![k].state = "failed"]
  /\ UNCHANGED <<urgent, background, late, stored>>

Finish(w) ==
  FinishMade(w) \/ FinishUnstored(w) \/ FinishHalt(w) \/ FinishRetry(w) \/ FinishFailed(w)

(* ----------------------------- Retry timers ------------------------------ *)

\* The backoff ends: the timer's function waits for the lock.
Fire(k) ==
  /\ job[k].timer = "armed"
  /\ late[k] < MaxFired
  /\ job' = [job EXCEPT ![k].timer = "fired"]
  /\ UNCHANGED <<urgent, background, worker, call, late, stored>>

\* Mutant: no worker is started for the requeued job.
RequeueAsleep(k) ==
  /\ job[k].timer = "fired"
  /\ job' = [job EXCEPT ![k].timer = "none", ![k].state = "background"]
  /\ background' = <<k>> \o background
  /\ UNCHANGED <<urgent, worker, call, late, stored>>

\* requeue: to the front of the background.
Requeue(k) ==
  /\ job[k].timer = "fired"
  /\ job' = [job EXCEPT ![k].timer = "none", ![k].state = "background"]
  /\ background' = <<k>> \o background
  /\ Spawn(Len(urgent) + Len(background'))
  /\ UNCHANGED <<urgent, call, late, stored>>

\* A job forgotten, halted or promoted in the meantime is left alone.
RequeueLate(k) ==
  /\ late[k] > 0
  /\ late' = [late EXCEPT ![k] = @ - 1]
  /\ UNCHANGED <<job, urgent, background, worker, call, stored>>

(* ------------------------------ The surroundings ------------------------- *)

\* POST /v1/audio/speech puts a clip of its own; Reap removes one.
Cache(k) ==
  /\ stored' = stored \union {k}
  /\ UNCHANGED <<job, urgent, background, worker, call, late>>

Evict(k) ==
  /\ stored' = stored \ {k}
  /\ UNCHANGED <<job, urgent, background, worker, call, late>>

Fetch(c) ==
  \/ \E k \in Keys : Look(c, k)
  \/ UrgentAlready(c) \/ UrgentBackground(c) \/ UrgentRetrying(c)
  \/ UrgentStored(c) \/ UrgentNew(c) \/ Answer(c) \/ Abandon(c)

Work(w) ==
  \/ Take(w) \/ Retire(w) \/ Finish(w)
  \/ \E result \in Outcomes : Run(w, result)

Timer(k) == Fire(k) \/ Requeue(k) \/ RequeueLate(k)

Next ==
  \/ \E items \in Batches : Queue(items) \/ Forget(ToSet(items))
  \/ \E c \in Callers : Fetch(c)
  \/ \E w \in Workers : Work(w)
  \/ \E k \in Keys : Timer(k) \/ Cache(k) \/ Evict(k)

Spec == Init /\ [][Next]_vars

\* A running worker and a fired timer run on, and a fetch that is done returns.
Fairness ==
  /\ \A w \in Workers : WF_vars(Work(w))
  /\ \A k \in Keys : WF_vars(Fire(k)) /\ WF_vars(Requeue(k)) /\ WF_vars(RequeueLate(k))
  /\ \A c \in Callers : WF_vars(Answer(c))

FairSpec == Spec /\ Fairness

(* ------------------------------- Properties ------------------------------ *)

\* The queues hold exactly the queued jobs of the map, each once and in the
\* queue its urgency names: moving a clip up, promoting it, forgetting it,
\* halting and a late timer leave no duplicate, no leftover and no job behind.
QueuesSound ==
  /\ IsInjective(urgent \o background)
  /\ ToSet(urgent) = In({"urgent"})
  /\ ToSet(background) = In({"background"})

\* A clip is synthesized by one worker at a time, and while it is, the map says
\* so: a second request joins it instead of paying the provider again ("a clip
\* neither pending nor stored is not being made").
OneSynthesis ==
  \A w \in Workers : worker[w].key # None =>
    /\ job[worker[w].key].state = "generating"
    /\ \A v \in Workers \ {w} : worker[v].key # worker[w].key

\* No clip waits in a queue with a worker to spare: unless all of them run, as
\* many as there are queued jobs are on their way to take one.
WorkConserving ==
  \/ \A w \in Workers : worker[w].pc # "off"
  \/ Len(urgent) + Len(background) <= Cardinality({w \in Workers : worker[w].pc = "next"})

\* Nobody waits on a job that nothing will finish: it is being made, or in the
\* urgent queue, where neither Forget nor halt reaches it.
NobodyStranded ==
  \A c \in Callers : call[c].pc = "wait" =>
    Contains(urgent, call[c].key) \/ \E w \in Workers : worker[w].key = call[c].key

\* A job waiting to be retried has a timer that will end the wait and attempts
\* left; no other job has a timer, so nothing brings back what was dropped.
RetriesTimed ==
  \A k \in Keys :
    IF job[k].state = "retrying"
    THEN job[k].timer # "none" /\ job[k].attempts \in 1..(MaxAttempts - 1)
    ELSE job[k].timer = "none"

\* The map, the queues and the timers agree after any sequence of requests,
\* halts, retries and late timers.
JobsSound == QueuesSound /\ RetriesTimed

\* The clips' life as the map and the store show it.
Clips == INSTANCE SpeakClips WITH
  work <- [k \in Keys |-> IF job[k].state \in Queued THEN "queued" ELSE job[k].state],
  tries <- [k \in Keys |-> job[k].attempts]

\* Every step of the preparer is a step of SpeakClips or changes nothing there.
ImplementsClips == Clips!Spec

\* A fetch that waits is answered, however much background work, retries and
\* other fetches arrive, unless its listener leaves first.
FetchAnswered ==
  \A c \in Callers : call[c].pc = "wait" ~> call[c].pc = "idle"

\* A clip waiting to be retried leaves that state: it is queued again, asked
\* for, or dropped.
RetriesEnd ==
  \A k \in Keys : job[k].state = "retrying" ~> job[k].state # "retrying"
===============================================================================
