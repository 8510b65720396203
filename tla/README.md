# Verification of thismoon

thismoon is a monorepo of small Go services and command-line tools for one
developer's machine: a read-aloud service, a record of agent sessions, code
search, a notes vault, page publishing, an event log, a dependency scanner, a
status board and a reverse proxy, with shared packages and web assets. Each
service is a program of its own (a `serve` process, an MCP server per client
and a CLI); they share no memory and talk over HTTP, files and file locks.

This directory models the parts in which steps interleave, fail half way or
outlive a crash. Paths below are relative to the repository. The modules are
TLA+; TLC checks small instances of them and TLAPS proves theorems about
them for every value of their constants.

## 1. Inventory

| Part | State it keeps | Operations | Hard behaviour | What makes it correct |
|---|---|---|---|---|
| **speak: playback engine** `services/speak/internal/playback` | one `Engine` per `speak mcp` process, a worker goroutine per session, an afplay child, a file lock shared by all processes | speak, pause, resume, stop, status | four kinds of mutual exclusion (`startMu`, `mu`, condition variable, flock) over five sorts of threads; signals to a child that may be ending; death of the process | one voice per engine and over all processes; pause silences; stop returns; the lock follows playback |
| **speak: clip preparer and cache** `.../audiocache` | jobs by key, an urgent and a background queue, retry timers, clip files | queue, forget, fetch, worker loop, retries | workers that come and go, timers that fire too late to be stopped, promotion of retries, failures that halt everyone | one synthesis per clip, nobody waits for nothing, attempts bounded per request |
| **speak: documents** `.../web` | a least-recently-used registry over the preparer | register, look up, prepare, play, evict | two locks taken in turn: an eviction races with a preparation and with workers | nothing queued for an evicted document, kept documents undisturbed |
| **moondb: store log** `services/moondb/internal/store/local` | segment files, the index in memory | put, append, roll, rewind, open, close | a kill or power loss at any byte, failed appends, failed repairs of failed appends | index = replay of the log; acknowledged means durable; facts once |
| **moondb: spool and ingest** `.../spool`, `.../ingest` | chunk and envelope files of many writers, one ingest goroutine's retry state | write, drain, copy, record, remove, retry, move aside, sweep | writers and sweep share a directory without a lock; kills between any two file operations; a store that is down | no envelope lost, no record without its content, poison does not stall |
| moondb: capture, derivation, server, readers | hook state, edit chains (derived) | record, import, derive, query, serve | retries reorder edits of a path; totals backfill beside ingest | the chain of before and after contents |
| **csl: sync lock, queue, syncer** `services/csl/internal/{syncer,queue}` | a PID lock file, an append-only queue file, shards, recorded fingerprints | lock, enqueue, claim, release, index, record | processes that read, remove and create the same paths; kills in between; trees that change while they are indexed | one sync at a time, an outdated index is seen to be outdated, every repository is indexed in the end |
| csl: refresher, daemon `.../refresh` | running flag, a one-slot channel, backoff | kick, heartbeat cycle | kicks racing with cycles, cycles that meet a held lock | a kick is run or refused, never swallowed |
| csl: search, symbols, web | index files of libraries | read only | | |
| events: store, server `services/events/internal/store` | per source: a slice and a JSONL file | append, compact, purge, load | memory changed before a write that fails, partial lines, sources that do not load | file and memory agree |
| deps: engine, store `services/deps/internal/{scanner,store}` | one snapshot file with notification marks | check, check one repository, scan | long checks that read, merge and save over each other; banner before mark | no result lost, each flag notified |
| **present: terminal sessions** `services/present/internal/terminal` | sessions by page and name, subscribers with pending output, a replay ring, queued input, idle timers, a switch file | attach, detach, kill, expire, switch off, close, publish, take, type, exit | attach racing with the idle timer, exit and kill; jobs that outlive their shell; coalesced signals; slow viewers | no watched session expires and no unwatched one stays; a kill leaves nothing; replay and live output join; every viewer hears of the end |
| present: page store `.../store` | page directories, an flock each | create, update, delete | deletion while a writer waits for the lock | no write into a deleted page |
| present: server, rendering, export | none of their own | | | |
| status: monitor `services/status/internal/server` | the last snapshot, counters per service | cycle | confirmation over consecutive cycles, partial failures of one cycle | alerts once per transition |
| d-man: proxy, hosts, reload | a handler behind a lock, the hosts file | reload, watch | | a bad edit leaves the old routes |
| brain: vault, search, sharing | note files, git, an advisory lock | edit, index, share | | |
| speak: providers, chunking, MCP, CLI | none | | | |
| tools, kit, webkit, mods, evals, skills, recipes, examples, docs | none that outlives a call | | | |

How the parts interact, where it matters: MCP clients call the playback
engine's tools concurrently, and each engine shares the flock with the engines
of other clients. `speak serve` has one preparer; its HTTP handlers register
documents, prepare them and fetch clips. Hooks of the coding agent start
short-lived `moondb record` processes that leave envelopes in the spool;
`moondb serve` has the one ingest goroutine and the one store. Browser tabs
reach the sessions of `present serve` over WebSockets, several to a session;
the CLI kills sessions and turns the switch. `csl sync`, the refresher in
`csl web` and git hooks meet in one index directory and one queue file.

## 2. Plan

Written, in this order: `SpeakPlayback`, `SpeakPreparer` over `SpeakClips`,
`SpeakDocs` composed over `SpeakPreparer`, `MoondbLog` over `MoondbStore`,
`MoondbSpool` composed over `MoondbStore`, `PresentRing` under
`PresentStream`, `PresentTerminal`, `CslSync`; and a proof module for each of
them: `SpeakPlaybackProofs`, `SpeakPreparerProofs`, `SpeakDocsProofs` (which
builds on the one before), `MoondbLogProofs`, `MoondbSpoolProofs`,
`PresentStreamProofs`, `PresentTerminalProofs` and `CslSyncProofs`.

Next:

1. `CslRefresh`, composed with `CslSync`: a kick is run or refused; when a full
   cycle comes after one was skipped.
2. `EventsStore`: memory and file of one source, failing and partial appends,
   compaction, purge, restart. An abstract append-only list as its promise.
3. `DepsEngine`: overlapping checks over one snapshot; notification marks.
4. `PresentStore`: page locks over deletion and re-creation.
5. `StatusMonitor`, and the derivation chain of moondb on top of `MoondbSpool`
   with retried envelopes.

## 3. The modules

### SpeakPlayback

One action per critical section of `Engine.mu`, per operation on `startMu` or
on the flock, or per event of an afplay child; the code between two of them
touches nothing shared. `Calls` are tool-handler goroutines, `Workers`
playback goroutines, `Home` says whose process they are in. A call's step is
`cpc`, a worker's `pc`; `ret` says where a call goes on after `fullStop` or
`releaseLock`, which have several callers. `Speak` and `SetQueue` to
`NotStarted` are `startPlayback`; `FullStopIdle`, `FullStopRunning` and
`AwaitDone` are `fullStop`; `Acquire`, `SetLock`, `CallRelease`, `CallUnlock`
and the worker's own pair are the lock; `Advance` to `CloseDone` the worker;
`Crash` frees the flock and leaves the child playing (`orphan`). The synthesis
of the first part ends well, with an error or cancelled, whichever comes first.

Left out: the read-ahead of later parts (a part arrives or its wait is
cancelled), clip files, reply texts, skipping within a session.

### SpeakPreparer, SpeakClips, SpeakDocs

`SpeakPreparer` has one action per section under `Preparer.mu`; synthesis and
storing happen between a worker's `Run` and its `Finish...`; a timer fires
(`Fire`) and takes the lock later (`Requeue`), or too late, for a job that is
gone (`RequeueLate`). A fetch looks in the store (`Look`), then takes the
lock, where it finds a job in one of several states (`Urgent...`) or waits
(`WaitOn`). `SpeakClips` is what all this promises about one clip, without
queues, workers, timers or waiters. `SpeakDocs` adds the registry: its lock is
held over many calls into the preparer, so an eviction is a scan, one busy
document per step, then a choice, then the forgetting of the parts no kept
document has. `Keep` and `Without` are `slices.DeleteFunc`: a queue without some
of its entries, in the old order.

### MoondbStore, MoondbLog

`MoondbStore` is a register per record id, and says which records a power loss
can take back. `MoondbLog` implements it: `Put` is `appendFact` or a `Put...`
method up to the choice whether the line needs a new segment; then `Roll`,
`Append`, `Sync` or their failures; `Sync` is also the index update and the
caller's success, which happen under the same lock. `Exit` keeps the files and
loses the memory; `PowerFails` also loses what no sync covered; `Open` replays.
`tail` is what stands after the last good line: nothing, a torn line or a whole
one. The refinement mapping replays the files.

Abstractions: a segment's size is left out, so every line may call for a roll;
`Open` is one step, since it only reads and repairs the tail; a power loss
takes unsynced lines whole (a torn one is the tail's case); lines of unknown
kinds, and a record refused because it would move to another session, do not
occur.

### MoondbSpool

Writers put chunks (`Skip`, `Place`, `Look` and `Touch`) and name the
envelope; the ingest goroutine drains, reads, copies, records and removes, or
fails, counts and moves aside; the sweep lists, stats and unlinks. Each file
operation another process can see is a step of its own. A chunk in neither place
fails an edit and is left out of any other record (`ChunkMissing`), and so is, from
any record but an edit's, one whose file cannot be read (`ChunkUnread`). The store is
`MoondbStore`: `Record` is its `Write`, a kill in an append its `TurnUp`. An
envelope's record is the set of chunks it points at, since what the properties
tell apart is whether content is there.

Abstractions: one record per envelope (the code appends several, the deciding
one last); batches in any order (the code: by name); a snapshot is recorded
once like an edit and without lost chunks like a turn and is not told apart;
kills but no power loss end to end; no temp files; a minute (`sweepGrace`) is
long next to one write and one sweep (`Age`); drains keep coming (the minute
tick), so `Watch`, which only makes them come sooner, is left out.

### PresentTerminal

Who may spawn, join and end a session. An action is a section under
`Manager.mu` or `session.mu`, one step of a kill, or an event of the processes
in a session. `held` is `m.sessions`; `kpc` and `killer` say where the kill of a
session is and who waits for it: a DELETE request, a control frame's reader
(which is stuck in it: `KillsDone(Frame(c))`), `WatchSwitch`, `Close`, or the
timer's goroutine. `TakeOut` is every delete from the map. A kill lists the
session's processes (`List`), hangs up, waits, lists and hangs up again, waits,
lists a last time and sends SIGKILL (`KillBegins`, `KillEnds`, `KillGoesOn`,
`KillSignal`, `KillAwaits`); the shell may start a job in a group of its own at
any point. An idle timer that fires leaves a goroutine that takes the lock
later (`firing`), which no Stop reaches.

Abstractions: a session has at most one job at a time; the hangup itself does
nothing, since a process may ignore it and may end anyway; the two waits end
whenever they like; a dropped viewer is any viewer at any time (`PresentStream`
has the reason); `Close` is preceded by the drain of requests, which is taken
to be long enough for a DELETE's kill. Where the processes of a session cannot
be listed, the code falls back on the foreground group: left out.

### PresentRing, PresentStream

`PresentRing` is `ring.go` as functions on a record. `PresentStream` is what
flows through one session: `Publish` reads from the PTY and distributes under
the lock, into the ring and to every subscriber, dropping those too far behind;
`Subscribe` takes the replay under the same lock; `Receive` and `Take` are the
bridge's loop with its coalesced signal; `Write`, `WakeWriter`, `NextInput`,
`InputWritten` and `InputFails` are the input queue and its writer; `ShellEnds`,
`Reap`, `ReadEnds` and `Finish` the exit, which may overtake the last output.
Bytes are numbered in the order in which they are read or typed, so that a gap,
a repeat or a swap shows.

Abstractions: a typed input is one byte; a frame sent is received; a viewer
hangs up in one step; the prefill is one more writer.

### CslSync

Processes that sync one index, a git hook that enqueues, trees that change.
An action is one call on the lock file, the queue file or `state.json`, or one
phase over the repositories. A tree is the number of its last change and a shard
the number it was built from. A fingerprint is what git says of the tree, and less
than its number: `search.Fingerprint` hashes HEAD, the branch and `git status
--porcelain`, while shards are built from the files. A change may therefore leave
the fingerprint as it is (the second edit of a modified or untracked file) or bring
an old one back (an edit undone, a branch left and returned to): `Change` gives the
tree any fingerprint, and `past` and `again` record whether it had had it before.
A pull moves HEAD, so it changes the fingerprint (`Pull`). A run evaluates every
repository or those of `Options.Only` (`targets`, from `Runs`), the refresher a part
only when kicked. A queued repository that a run indexes though it did not probe it
is fingerprinted when the state is recorded (`FingerprintOf`); such an entry is
marked `late`. Probes of git, builds, the read of a claim, and reads and writes of
`state.json` fail (`LoadFails`, `LoadCorrupt`, `BuildFails`, `SaveFails`).
The lock file is created empty (`Create`) and gets its PID later (`WritePid`);
a contender reads it (`ReadLock`), judges the PID it read (`FoundLive`,
`FoundStale`), removes whatever is at the path by then (`RemoveStale`) and
creates its own (`CreateAgain`). `robbed` is a history variable: the lock of a
process that relies on it was removed. A hook's descriptor follows the
file over the claim's rename (`fd`, `Moved`). `Check` takes the fingerprints,
`BuildReads` and `BuildWrites` build one repository's shards, `Record` replaces
`state.json`, `Release` and `Unlock` are the deferred calls in their order.

Abstractions: the three calls of git for one fingerprint, and those for the
repositories of one run, are one step; files the walk cannot read are not told
apart, nor the shards of a build that failed half way (the old ones count); the
fingerprints kept for 15 s are left out (a sync drops them before it probes, and
what a racing web search puts back is at most an older one, which shows as stale);
a lock that cannot be read, which counts as live, does not occur; a PID is never
reused; repositories without git, which a run skips, are not among `Repos`; prune,
semantic indexing and ad-hoc writers (`csl index`, the web fallback) are left out.
zoekt's builder is used as a library that reads files and puts shards in place.

## 4. The runs

| Run | Instance | Shows |
|---|---|---|
| `SpeakPlaybackOne` | one process, two concurrent calls of any tool, two sessions, two parts, one crash | one voice, the lock in exactly one place, pause silences, no lost wakeup |
| `SpeakPlaybackStopTwo` | two concurrent calls, one session, two parts, fairness | every stop returns, also of a worker in its condition, in a pause, or with a child about to be registered |
| `SpeakPlaybackSuccessor` | two processes, two sessions, starts and stops only | **fails**: the first finding of section 7 |
| `SpeakPreparerTwo` | two clips, two workers, two fetches, three attempts | the queues match the map; one synthesis per clip; no idle worker beside work; no waiter stranded; every retry has its timer; `SpeakClips` is implemented |
| `SpeakPreparerLive` | two clips, one worker, one fetch, fairness | a fetch is answered however much background work arrives; a retry ends |
| `SpeakDocsKeep` | two documents that share a part, one kept | a preparation that races with an eviction leaves nothing queued; the shared part is spared |
| `MoondbLogCrash` | two facts, one document, two values, three lines | the index is the log's replay; facts once; acknowledged lines stay; `MoondbStore` is implemented |
| `MoondbLogRoll` | two lines, kills only | **fails**: the second finding of section 7 |
| `MoondbSpoolDrain` | an edit that shares one chunk with a turn and one with a garbled envelope, whose writer may die; two attempts, one fault, one end of serve | nothing lost, nothing recorded without content; a pending envelope's chunk can be had unless another gave it up; only what is spoiled moves aside; the spool drains and empties |
| `PresentTerminalEnds` | one session, three connections, one job at a time, one flip of the switch, fairness | a watched session does not expire, an unwatched one is timed and ends; every session is held or killed; a kill leaves nothing; off ends all |
| `PresentStreamTwo` | two viewers, a ring and a limit of three bytes, four bytes printed, three typed, fairness | output whole, replays recent, no signal lost, input whole, the exit told |
| `CslSyncTwo` | a refresher and a command, one repository, runs that leave it out, one hook, one change that may keep its fingerprint, one kick, one kill, one failure, fairness | one sync at a time unless a live lock was removed; an outdated index shows unless git hides it; the refresher catches up |

Why these bounds are enough to be interesting. Every property needs at most
two actors of a kind to be broken (two calls, two fetches, two processes, a
writer and the sweep), and each run has as many. Two parts let a pause land
between parts, and a stop meet a worker that waits in its condition there; two
sessions let an old worker meet a new start. Three lines let a rolled segment, a
synced line and a torn tail stand side by side. Two attempts with one fault let an
envelope fail, wait and succeed, and a poison one run out; with its two chunks
shared the edit meets both a record that goes without a chunk and a writer that
dies with one. Two fingerprints let a change show, keep its fingerprint, or bring
one back. Symmetry is declared only where members are interchangeable and only in
runs without liveness. Each property of a passing run is also tested
for bite: the operators commented `Mutant:` are plausible mistakes in the code
next to the definition they would replace, and TLC finds each property violated
when its one is put in.

Four bytes through a ring of three let a write wrap, end exactly at the buffer's
end and be as long as it; a limit of three drops a viewer. Three connections let
one join after a timer fired, another be dropped and a third attach over a
closed manager. Every safety property of a passing run, and the two refinements,
are also proved for every instance (section 6), one of them under a condition
named there, so small numbers limit what is shown only for liveness.

Some properties name what they excuse, and it is worth knowing what that is.
`PendingBacked` and `AsideForCause` name a chunk that another envelope *gave up*:
its writer died, it is in failed/, or its record goes without the chunk. Such a
chunk's file can grow old while nobody points at it, and the sweep may take it
between a later writer's touch and its rename (section 7). They say nothing else
costs an envelope a chunk. `AsideForCause` is also checked with fewer faults than
attempts: with as many a good envelope does move aside, by design.
`ExclusiveUnlessRobbed`, `StaleShows` and `CaughtUp` end at the removal of a live
lock (`robbed`, section 7), and the last two at a change that git hides (`Hidden`:
the fingerprint is an old one, or was taken late). `NobodyTalksOver` is checked, and
found violated, without crashes (an orphaned child plays on) and without resumes.
`NothingForgotten` names the kills that serve does not
wait for, `KillLeavesNothing` the job that starts after the last listing.

## 5. Fairness

- `SpeakPlayback`: weak fairness of each call's and worker's own next step (a
  goroutine that can run does) and strong fairness of taking `startMu` (Go's
  mutex hands over to a starving waiter). A worker's steps include
  the end of its child: a clip is finite, unless suspended. The arrival of a
  later part is not assumed. `AnsweringSpec`, used by
  `SpeakPlaybackStopTwo`, adds that the provider answers a first synthesis or
  fails; a stop may have to wait for one.
- `SpeakPreparer`: weak fairness of workers, of armed and fired timers and of
  answering. Requests are never assumed to come or to stop. A worker's fairness
  includes the end of its synthesis, which the code bounds by a stall timeout.
- `MoondbSpool`: weak fairness of a write that has begun (unless killed), of
  time, and of the ingest goroutine, whose start is launchd's (KeepAlive). Faults
  are bounded, so a step that may fail ends by succeeding. The liveness
  properties excuse a broken store, which only a restart repairs.

- `PresentStream`: weak fairness of `waitLoop` (`Reap`, `Finish`, which waits at
  most `drainWait` for the read loop) and of a stream that can run. The process
  need not print, read or end, nor a tab come or leave.
- `PresentTerminal`: weak fairness of a kill's next step (its waits have
  deadlines, and SIGKILL is not ignored), of an armed and of a fired timer, of
  recording an exit, of the switch's tick, and of leaving a stream that has
  ended. Viewers need not leave, processes need not end by themselves.
- `CslSync`: weak fairness of each process's next step. A refresher's next cycle
  comes (heartbeat, also after a failure or a held lock); a command runs once.
  Kills, failures and changes are bounded.

## 6. Proofs

Checked by TLAPS for every value of the constants that meets the modules'
assumptions: these fix types, keep model values apart, make bounds naturals, and
for `SpeakPreparer` and `SpeakDocs` say that clips, fetches, documents and
preparations are finitely many and that there is a worker. Where a theorem needs
more it says so in an ASSUME of its own. Every theorem has the same shape:
an invariant as a conjunction of named parts, a lemma per part or per action that
a step keeps it, and `Spec => []...` from those by temporal logic.

**SpeakPlaybackProofs.** `TypeCorrect`, `LockAccountedAlways`,
`OneWorkerAlways`, `OneVoiceAlways`, `PauseSilencesAlways` and
`NoLostWakeupAlways`, for any number of processes, calls, workers, parts,
sessions and crashes. None of the five properties is inductive alone. The
invariant is a conjunction: `SlotInv` (a start reserves one worker, and no two
the same), `LockInv` (the flock's holder has one reference: `Engine.lock`, or a
descriptor in hand), `StartInv` (who is between `LockStart` and the end of a
start or stop owns `startMu`), `QuietInv` (past `fullStop`, an owner's engine
does not run), `RunInv` (an engine runs exactly if it has one active worker,
the one `doneCh` belongs to), `ProcInv` (where a worker with a child can be, and
what `playCmd` names), `NoLostWakeup` and `PauseSilences`. The heart is `RunInv`:
when a start hands its session to a worker, `QuietInv` says nothing else runs,
and that rests on `StartInv` and on `fullStop`'s wait for `doneCh`.

`TypeOK` and `OneWorker` are proved and not also properties of a run.

**SpeakPreparerProofs.** `TypeCorrect`, `JobsSoundAlways`, `OneSynthesisAlways`,
`WorkConservingAlways`, `NobodyStrandedAlways`, and `ImplementsClipsAlways`, the
refinement of `SpeakClips`. `TypeOK` is proved and not also a property of a run.
The invariant: `JobsGood` (per job, which states go
with a timer and with how many attempts), `WorkersGood` (a worker has a clip from
`Take` to its end, no two the same, and what the map calls generating some worker
has), `CallsGood` (a waiting fetch's job is urgent or generating, which neither
`Forget` nor `halt` touches), `QueuesGood` (each queue holds exactly the keys the
map says are queued there, once) and `WorkConserving` itself. `QueuesGood` is what
makes the others inductive: `Take` must find its key's job queued, and a halt that
drops a queue must drop just those jobs.

The refinement shows each step as one of `SpeakClips` for the clip concerned, or
none: `Queue` is `Ask` for every clip that was at rest, `UrgentNew` is `Ask`,
`UrgentRetrying` and `Requeue` are `Resume`, `Take` is `Start`, `Run` is `Store`
where it stores, `FinishMade` is `Made`, `FinishRetry` is `Retry`,
`FinishUnstored`, `FinishFailed` and `Halt` are `GiveUp`, `Forget` is `Forget`.

What a queue looks like after entries were taken out is a statement about a
function defined by recursion over positions. It is reached without an induction
theorem: `LeastNumber` says a set of naturals has a least member (from the
library's well-foundedness of <), so a shortest counterexample exists, and its
predecessor is none. `KeptExists`, `KeepIs`, `KeptStep` say that `Keep` satisfies
its recursion, `KeepFacts`, `WithoutFacts`, `WantedFacts` what members it has and
that it repeats none.

**SpeakDocsProofs.** `DocsTypeCorrect`, `NoneQueuedForTheGoneAlways` and the action
property `KeptWorkStaysAlways`. The invariant is the preparer's, which every step
of the composed system keeps, with `RegistryGood`: no document is registered
twice, and there are more than `MaxDocs` exactly while someone who holds the
registry's lock looks for the victim. The lock is the point of the argument: a
preparation checks that its document is registered and queues its parts under
it, an eviction removes and forgets under it, so at no step in between can a part
be queued for a document that is gone, and what is forgotten is no kept
document's.

**MoondbLogProofs.** `TypeCorrect`, `IndexIsLogAlways`, `FactsOnceAlways`,
`CommittedStayAlways`, `CleanEdgeAlways`, from an invariant that adds two parts:
`AckedSynced` (an acknowledged line is synced, so that no power loss takes it) and
`OnItsWay` (what the tail holds at each stage of a write).
`LogImplementsStore` proves the refinement step by step: `Sync` is `Write`, an
`Exit` that leaves a whole tail is `TurnUp`, `PowerFails` is `LosePower`, all
else changes nothing a reader of the files would see or hardens a record. The
lemmas about `Newest` and `Latest` carry it: the newest record of an id after a
line was added, or after unsynced lines were lost. `TypeOK` and `CleanEdge` are
proved and not also properties of a run.

**PresentTerminalProofs.** `TypeCorrect`, `IdleTimerAlways`,
`KillLeavesNothingAlways` and `NothingForgottenAlways`, for any number of keys,
sessions, connections and flips. The invariant adds to the properties: a
session not yet spawned has nothing (`UnspawnedIdle`); a kill has a killer
exactly while it runs (`KillInHand`); no unlisted job when the last listing is
done, and no shell or listed job after SIGKILL (`Signalled`); a watched session
has forgotten its timer (`WatchedUntimed`). The last is what makes `IdleTimer`
inductive: whoever leaves finds no timer and starts one. `ClosedEmpty`, proved
in a second step, says a closed manager holds nothing and no DELETE is still
killing, from which the end of serve follows.

**CslSyncProofs.** `TypeCorrect`, `ExclusiveUnlessRobbedAlways` and
`StaleShowsAlways`, for any processes, repositories, runs, fingerprints, hooks and
bounds; none assumes more than the module does. `LockInv` says that as long as no lock was robbed,
whoever relies on a lock finds its own file at the path. `StaleShows` rests on
`FreshInv`, for as long as no lock was robbed: git's fingerprint is one the tree has
had, and no shard is newer than its tree (`TreeInv`); an entry of `state.json` whose
fingerprint is git's belongs to shards of the tree as it is, but for hidden changes
(`Sound`); and what the running sync has loaded, probed, built and is building
would be sound if it were recorded (`RunSound`). The order in the code carries it:
a fingerprint is taken before the files are read, so a change in between gives git
one the entry does not have. Only the one holder of the lock touches the index, so
nobody moves a shard under it. `TypeOK` is proved and not also a property of a run.

**MoondbSpoolProofs.** `TypeCorrect`, `WrittenNotLostAlways`, `RecordsWholeAlways`
and `PendingBackedAlways`, for any envelopes, sharing of chunks, deaths, attempts,
faults and ends of serve; `AsideForCauseAlways` assumes fewer faults than attempts
and nothing else. What was given up stays so (`GivenUpStays`), so chunks fall into
two kinds. The heart is `SafeInv`: a chunk is abandoned or safe, that is: its file,
if no object has it, is wanted by a writer or a pending envelope; if it is also old
enough to be swept, a pending envelope points at it; whoever has put it finds it;
and what the sweep has listed or is about to unlink is in an object. That last
clause is what makes the sweep harmless though it lists, stats and unlinks in
separate steps, and it is inductive because the grace period is longer than one
write. `CopiedInv` and `RecordedInv` carry it into the record: what is not copied is
still to copy, or known lost. For `AsideForCause`, an envelope that is not spoiled
finds its chunks (`BackedOrSpoiled`), so it fails only by a fault, and `FaultsInv`
counts: its attempts are at most the faults so far, and fewer while it fails.

**PresentStreamProofs.** `TypeCorrect`, `OutputWholeAlways`, `ReplayRecentAlways`,
`NoLostSignalAlways`, `InputWholeAlways`, for any viewers, ring, limits, reads and
bytes, with nothing assumed beyond the module's assumption. `RingInv` says which
byte every slot of the ring has (`Holds`), as a function of what was made, so that
a write of any length is one step of arithmetic and no induction over writes is needed. `Connected` says who
may be in the list of subscribers, who has been told of the exit, and that a
viewer with pending output has a signal; `Screen` that what a viewer has seen and
has pending ends with the newest byte. `Queue` places the input: typed = fed +
in the writer's hand + queued, in order, and counted in `inputBytes`, until the
exit or a failed write drops it. Neither half mentions the other's variables
but for the exit.

Only model-checked: liveness under fairness, that is `StopReturns`,
`FetchAnswered`, `RetriesEnd`, `SpoolEmptied`, `LeftAloneEnds`, `OffEndsAll`,
`ExitTold` and `CaughtUp` (the prover does not do ENABLED). `AsideForCauseAlways` is the only
theorem with a condition of its own.

## 7. Findings

`engine.go:661`: `finish` clears `running` and releases the lock in two critical
sections. A session that starts in between has its lock released by the old
worker, and another process talks over it, which `services/speak/README.md:157-159`
says the lock prevents (`SpeakPlaybackSuccessor`).

`local.go:184`: a roll that fails after creating the next segment leaves the
old one in use; a line cut short there makes the store refuse to open
(`MoondbLogRoll`).

Other behaviours the models contain, which a property would have to forbid to
say anything, and which are therefore described here and not stated:

- `engine.go:279`: `Resume` acts on flags read before it took the flock; when
  the session ends meanwhile, the process keeps the flock with nothing to play
  and everyone else is told BUSY until it plays or stops again.
- `reader.go:301`: the sweep removes a chunk whose mtime a writer has freshened
  since the sweep looked, though `writer.go:78-80` says it leaves it alone. The
  envelope is then named without its chunk; an edit fails until it is moved aside.
  By `PendingBacked` this happens only to a chunk that another envelope gave up.
- `terminal.go:229`: `Close` waits for the sessions it took out. A kill begun by
  the idle timer, the switch or a control frame may be in its grace period when
  serve exits, and its SIGKILL is never sent (`serve.go:190-191` says the caller
  "kills whatever still runs").
- `terminal.go:257`: a timer that fired and was overtaken by a viewer who came
  and left again ends the session at once, without a new idle timeout.
- `terminal.go:206`: a control frame names the page and session, not the process:
  a tab left on a killed session's output kills the next one of that name.
- `session.go:351`: a job started between the last listing and SIGKILL survives.
- `session.go:547`: a write that ends after the exit subtracts from a size the
  exit has reset, so `inputBytes` turns negative; nothing is written any more.
- `lock.go:42`: between its exclusive creation and the write of the PID the lock
  file is empty and is taken for stale; removals go by path, so two contenders
  that judged one dead PID remove each other's lock. Two syncs then run, which
  `syncer.go:4-7` says cannot happen.
- `index.go:172-202`: a fingerprint hashes HEAD, branch and `git status
  --porcelain`, though its comment (`:171`) and
  `services/csl/docs/configuration.md:222` say that any change of the working tree
  gives a new one. A second edit of a modified or untracked file keeps it, and an
  edit undone after a build read it brings the old one back; the shards are then
  behind their tree while the state reads fresh, until the next change that shows.
- `reindex.go:127-128`: a queued repository outside the run (`Options.Only`, or a
  probe that failed) is fingerprinted after its shards were built, so a change
  during the build is recorded as indexed.
- `queue.go:33` and `:53`: a line written through a descriptor opened before the
  claim is removed with it; a claim stranded by a kill is read by nobody; a
  failed index releases its claim (`syncer.go:151`). `CaughtUp` shows that the
  staleness check brings such repositories up to date all the same, but for
  changes that git hides.
- `refresh.go:162`: a cycle that meets a held lock comes again only when the last
  full one is old enough, though the comment at `:145-147` says at the next
  heartbeat.

Smaller ones: a stop called
while a start is on its way cancels nothing and waits out its first synthesis
(`engine.go:311`), and ends the session that start installs although it named
another (`engine.go:305`); a part being made when its document is evicted is
still retried (`preparer.go:369`); an eviction may take a document with queued
parts though another turned idle during its scan (`docs.go:197`).

## 8. Not modelled

Parts marked as planned above. Not planned: search and ranking, rendering,
providers and other HTTP clients, parsers, formatting, command-line tools that
read, transform and write once, web assets, and prose. In them nothing
interleaves, or the difficulty is in data that a bounded state space would not
reach.
