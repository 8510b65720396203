-------------------------------- MODULE CslSync -------------------------------
(***************************************************************************)
(* Several csl processes that sync one search index: the PID lock file      *)
(* (services/csl/internal/syncer/lock.go), the reindex queue                *)
(* (internal/queue/queue.go), and a sync run between them (internal/syncer: *)
(* syncer.go, reindex.go).  A web server's refresher syncs again and again, *)
(* a `csl sync` once.                                                       *)
(*                                                                          *)
(* A repository's tree is the number of its last change, and a shard the    *)
(* number it was built from.  A fingerprint is what git reports of the tree *)
(* (HEAD, branch, status --porcelain), which a change may leave as it is or *)
(* bring back.  The action of a process is one call on a file or one phase  *)
(* over the repos.                                                          *)
(***************************************************************************)
EXTENDS Integers, FiniteSets

CONSTANTS
  Procs,      \* processes, by their PID
  Webs,       \* those of them that sync again: csl web's refresher
  Repos,      \* repositories
  Runs,       \* what a run may evaluate: all repos, or those of Options.Only
  Prints,     \* fingerprints
  Hooks,      \* post-merge hooks: each is a process that enqueues one repo
  MaxChanges, \* bound: changes of each tree
  MaxDeaths,  \* bound: processes killed
  MaxFaults,  \* bound: failed reads, probes of git, builds and saves
  MaxKicks,   \* bound: refreshes a refresher is asked to do of one repo only
  None

ASSUME SyncAssumption ==
  /\ Webs \subseteq Procs /\ Runs \subseteq SUBSET Repos /\ Repos \in Runs
  /\ Prints # {} /\ None \notin Prints
  /\ {None, "queue", "gone", "exit"} \intersect Procs = {}
  /\ None \notin {"queue", "gone", "exit"}
  /\ \A S \in SUBSET Repos : S # None
  /\ MaxChanges \in Nat /\ MaxDeaths \in Nat /\ MaxFaults \in Nat
  /\ MaxKicks \in Nat

VARIABLES
  \* The lock.
  lockFile, \* who created the file at the lock's path, or None
  written,  \* the PID of who created it is in that file
  seen,     \* the PID a process read from the lock, or None
  robbed,   \* history: the lock of a live process was removed by another
  \* The repositories.
  tree,     \* the number of the last change
  git,      \* the fingerprint git would give now
  past,     \* history: the fingerprints it has had
  again,    \* history: the last change gave it a fingerprint it had had
  \* The index.
  shard,
  state,    \* state.json: the recorded fingerprints
  \* A process.
  pc, alive,
  targets,  \* the repos its run evaluates
  loaded,   \* its copy of state.json
  current,  \* the fingerprints it took before it indexed, None of the others
  todo, built, \* repos to index, and indexed, in this run
  work,     \* the repo it builds shards for, and the tree it found; or None
  \* The queue.
  queue,    \* the repos in the queue file; None while there is none
  claimed,  \* [Procs -> the file a process claimed, or None]
  hand,     \* the repos it read from it
  fd,       \* [Hooks -> the file a hook has open: "queue", whose claim it has become,
            \* "gone"; or None before, and "exit" after its line]
  deaths, faults, kicks

lockVars  == <<lockFile, written, robbed>>
treeVars  == <<tree, git, past, again>>
indexVars == <<treeVars, shard, state>>
runVars   == <<targets, loaded, current, todo, built, work, hand>>
queueVars == <<queue, claimed, fd>>
bounds    == <<deaths, faults, kicks>>
vars      == <<lockVars, seen, indexVars, pc, alive, runVars, queueVars, bounds>>

\* An entry of state.json.  `late` is history: the fingerprint was taken after the
\* shards were built.
Entry == [print : Prints \union {None}, late : BOOLEAN]

\* EmptyState: no repo is recorded.
Unread == [r \in Repos |-> [print |-> None, late |-> FALSE]]

NoPrints == [r \in Repos |-> None]

Init ==
  /\ lockFile = None /\ written = FALSE
  /\ seen = [p \in Procs |-> None] /\ robbed = FALSE
  /\ tree = [r \in Repos |-> 1] /\ git \in [Repos -> Prints]
  /\ past = [r \in Repos |-> {git[r]}] /\ again = [r \in Repos |-> FALSE]
  /\ shard = [r \in Repos |-> 0] /\ state = Unread
  /\ pc = [p \in Procs |-> "idle"] /\ alive = [p \in Procs |-> TRUE]
  /\ targets = [p \in Procs |-> {}]
  /\ loaded = [p \in Procs |-> Unread] /\ current = [p \in Procs |-> NoPrints]
  /\ todo = [p \in Procs |-> {}] /\ built = [p \in Procs |-> {}]
  /\ work = [p \in Procs |-> None]
  /\ queue = None /\ claimed = [p \in Procs |-> None] /\ hand = [p \in Procs |-> {}]
  /\ fd = [h \in Hooks |-> None]
  /\ deaths = 0 /\ faults = 0 /\ kicks = 0

Goto(p, from, to) ==
  /\ alive[p] /\ pc[p] = from
  /\ pc' = [pc EXCEPT ![p] = to]

\* The variables of indexChanged are gone with it ...
ForgetIndexing(p) ==
  /\ loaded' = [loaded EXCEPT ![p] = Unread] /\ current' = [current EXCEPT ![p] = NoPrints]
  /\ todo' = [todo EXCEPT ![p] = {}] /\ built' = [built EXCEPT ![p] = {}]
  /\ work' = [work EXCEPT ![p] = None]

\* ... and those of a run with the run.
Forget(p) ==
  /\ seen' = [seen EXCEPT ![p] = None]
  /\ targets' = [targets EXCEPT ![p] = {}] /\ hand' = [hand EXCEPT ![p] = {}]
  /\ ForgetIndexing(p)

\* A run returns: a command exits, the refresher waits for its next cycle.
Return(p, from) ==
  /\ alive[p] /\ pc[p] = from
  /\ pc' = [pc EXCEPT ![p] = IF p \in Webs THEN "idle" ELSE "exit"]
  /\ alive' = [alive EXCEPT ![p] = p \in Webs]
  /\ Forget(p)

Fault(happens) ==
  IF happens THEN faults < MaxFaults /\ faults' = faults + 1 ELSE UNCHANGED faults

(* -------------------------------- The lock ------------------------------- *)

\* Who relies on the lock file it created.
Holding == {q \in Procs : alive[q] /\ pc[q] \notin {"idle", "exists", "probe", "stale", "retry"}}

\* The lock file p creates is at the path, still empty.
Created(p) ==
  /\ lockFile' = p
  /\ written' = FALSE

\* What is at the path now is removed.
Removed(p) ==
  /\ lockFile' = None
  /\ written' = FALSE
  /\ robbed' = (robbed \/ lockFile \in Holding \ {p})

\* A run of Options.Only is a command's choice; the refresher is kicked into one.
Begin(p) ==
  \E T \in Runs :
    /\ targets' = [targets EXCEPT ![p] = T]
    /\ IF p \in Webs /\ T # Repos
       THEN kicks < MaxKicks /\ kicks' = kicks + 1
       ELSE UNCHANGED kicks

\* Mutant: the file is opened whether or not it exists.
CreateAnyway(p) ==
  /\ Begin(p)
  /\ Goto(p, "idle", "created") /\ Created(p)
  /\ UNCHANGED <<seen, robbed, indexVars, alive, loaded, current, todo, built, work, hand,
                 queueVars, deaths, faults>>

\* Run discovers its repos, then Lock: createLockFile with O_EXCL.
Create(p) ==
  /\ Begin(p)
  /\ IF lockFile = None
     THEN Goto(p, "idle", "created") /\ Created(p)
     ELSE Goto(p, "idle", "exists") /\ UNCHANGED <<lockFile, written>>
  /\ UNCHANGED <<seen, robbed, indexVars, alive, loaded, current, todo, built, work, hand,
                 queueVars, deaths, faults>>

\* The PID goes into the file p created, wherever that file is by now, and Lock
\* returns.
WritePid(p) ==
  /\ Goto(p, "created", "locked")
  /\ written' = (written \/ lockFile = p)
  /\ UNCHANGED <<lockFile, seen, robbed, indexVars, alive, runVars, queueVars, bounds>>

\* liveHolder reads the lock.  A lock that has vanished is not live.
ReadLock(p) ==
  /\ IF lockFile = None
     THEN Goto(p, "exists", "retry") /\ UNCHANGED seen
     ELSE /\ Goto(p, "exists", "probe")
          /\ seen' = [seen EXCEPT ![p] = IF written THEN lockFile ELSE None]
  /\ UNCHANGED <<lockFile, written, robbed, indexVars, alive, runVars, queueVars, bounds>>

\* processAlive, of the PID read.
SeesLive(p) == seen[p] \in {q \in Procs : alive[q]}

\* processAlive says yes: Lock fails with ErrLocked.
FoundLive(p) ==
  /\ SeesLive(p)
  /\ Return(p, "probe")
  /\ UNCHANGED <<lockVars, indexVars, queueVars, bounds>>

\* The holder is dead, or the file had no PID: the lock is stale.
FoundStale(p) ==
  /\ ~SeesLive(p)
  /\ Goto(p, "probe", "stale")
  /\ seen' = [seen EXCEPT ![p] = None]
  /\ UNCHANGED <<lockVars, indexVars, alive, runVars, queueVars, bounds>>

\* liveHolder removes what is at the path now.
RemoveStale(p) ==
  /\ Goto(p, "stale", "retry")
  /\ Removed(p)
  /\ UNCHANGED <<seen, indexVars, alive, runVars, queueVars, bounds>>

\* The second createLockFile ...
CreateAgain(p) ==
  /\ lockFile = None
  /\ Goto(p, "retry", "created") /\ Created(p)
  /\ UNCHANGED <<seen, robbed, indexVars, alive, runVars, queueVars, bounds>>

\* ... fails when somebody else was faster.
LockFails(p) ==
  /\ lockFile # None
  /\ Return(p, "retry")
  /\ UNCHANGED <<lockVars, indexVars, queueVars, bounds>>

\* The deferred unlock removes what is at the path.
Unlock(p) ==
  /\ Return(p, "released")
  /\ Removed(p)
  /\ UNCHANGED <<indexVars, queueVars, bounds>>

(* ------------------------------ The trees -------------------------------- *)

\* The trees of S change, and git gives them the fingerprints new.
Altered(S, new) ==
  /\ \A r \in S : tree[r] <= MaxChanges
  /\ tree'  = [r \in Repos |-> IF r \in S THEN tree[r] + 1 ELSE tree[r]]
  /\ git'   = [r \in Repos |-> IF r \in S THEN new[r] ELSE git[r]]
  /\ past'  = [r \in Repos |-> IF r \in S THEN past[r] \union {new[r]} ELSE past[r]]
  /\ again' = [r \in Repos |-> IF r \in S THEN new[r] \in past[r] ELSE again[r]]

\* A commit, a checkout or an edit.  The second edit of a file that is modified or
\* untracked already leaves the fingerprint alone, and undoing a change restores it.
Change(r) ==
  /\ \E g \in Prints : Altered({r}, [x \in Repos |-> g])
  /\ UNCHANGED <<lockVars, seen, shard, state, pc, alive, runVars, queueVars, bounds>>

\* The pull phase: the repos S are updated, which moves their HEAD.
Pull(p) ==
  /\ Goto(p, "locked", "pulled")
  /\ \E S \in SUBSET targets[p], new \in [Repos -> Prints] :
        /\ \A r \in S : new[r] # git[r]
        /\ Altered(S, new)
        /\ todo' = [todo EXCEPT ![p] = S]
  /\ UNCHANGED <<lockVars, seen, shard, state, alive, targets, loaded, current, built, work,
                 hand, queueVars, bounds>>

(* -------------------------------- The queue ------------------------------ *)

\* Enqueue opens the queue file, creating it.
OpenQueue(h) ==
  /\ fd[h] = None
  /\ fd' = [fd EXCEPT ![h] = "queue"]
  /\ queue' = IF queue = None THEN {} ELSE queue
  /\ UNCHANGED <<lockVars, seen, indexVars, pc, alive, runVars, claimed, bounds>>

\* It appends its line to the file it opened, wherever that is by now.
AppendLine(h, r) ==
  /\ fd[h] \notin {None, "exit"}
  /\ fd' = [fd EXCEPT ![h] = "exit"]
  /\ IF fd[h] = "queue" THEN queue' = queue \union {r} ELSE UNCHANGED queue
  /\ IF fd[h] \in Procs THEN claimed' = [claimed EXCEPT ![fd[h]] = @ \union {r}]
     ELSE UNCHANGED claimed
  /\ UNCHANGED <<lockVars, seen, indexVars, pc, alive, runVars, bounds>>

\* Where the hooks' descriptors point when file `from` becomes `to`.
Moved(f, from, to) == [h \in Hooks |-> IF f[h] = from THEN to ELSE f[h]]

\* Claim renames the queue file, over a file p claimed before and left behind.
Claim(p) ==
  /\ IF queue = None
     THEN Goto(p, "pulled", "drained") /\ UNCHANGED <<queue, claimed, fd>>
     ELSE /\ Goto(p, "pulled", "claimed")
          /\ claimed' = [claimed EXCEPT ![p] = queue]
          /\ queue' = None
          /\ fd' = Moved(Moved(fd, p, "gone"), "queue", p)
  /\ UNCHANGED <<lockVars, seen, indexVars, alive, runVars, bounds>>

\* Claim reads the file it renamed; an empty one is removed.
ReadClaim(p) ==
  /\ Goto(p, "claimed", "drained")
  /\ hand' = [hand EXCEPT ![p] = claimed[p]]
  /\ IF claimed[p] = {}
     THEN claimed' = [claimed EXCEPT ![p] = None] /\ fd' = Moved(fd, p, "gone")
     ELSE UNCHANGED <<claimed, fd>>
  /\ UNCHANGED <<lockVars, seen, indexVars, alive, targets, loaded, current, todo,
                 built, work, queue, bounds>>

\* The read fails: the run goes on without the queue and leaves the file.
ReadClaimFails(p) ==
  /\ Fault(TRUE)
  /\ Goto(p, "claimed", "drained")
  /\ UNCHANGED <<lockVars, seen, indexVars, alive, runVars, queueVars, deaths, kicks>>

(* -------------------------------- Indexing ------------------------------- *)

\* indexChanged returns; the deferred calls of the run follow.
Indexed(p, from) == Goto(p, from, "indexed") /\ ForgetIndexing(p)

\* LoadState cannot read the file: the run fails.
LoadFails(p) ==
  /\ Fault(TRUE)
  /\ Indexed(p, "drained")
  /\ UNCHANGED <<lockVars, seen, indexVars, alive, targets, hand, queueVars, deaths, kicks>>

\* state.json turns out to be corrupt and is put aside.  In a full run pruneOrphans,
\* which only reports it, has done that before indexChanged loads the file.
LoadCorrupt(p) ==
  /\ Fault(TRUE)
  /\ IF targets[p] = Repos
     THEN Goto(p, "drained", "drained") /\ UNCHANGED <<loaded, current, todo, built, work>>
     ELSE Indexed(p, "drained")
  /\ state' = Unread
  /\ UNCHANGED <<lockVars, seen, treeVars, shard, alive, targets, hand, queueVars, deaths, kicks>>

\* What a run has to index once it has probed git: what the pull updated, repos whose
\* pull said ok and that the state has never seen, the queued ones and the stale ones.
\* A repo that git fails on is not stale.
ToIndex(p, probed, ok) ==
  todo[p] \union hand[p]
    \union {r \in ok : state[r].print = None}
    \union {r \in probed : state[r].print # git[r]}

\* indexChanged loads state.json, probes the repos of the run and finds some to index ...
Check(p) ==
  /\ Goto(p, "drained", "building")
  /\ loaded' = [loaded EXCEPT ![p] = state]
  /\ \E failed \in SUBSET targets[p], ok \in SUBSET targets[p] :
        /\ Fault(failed # {})
        /\ current' = [current EXCEPT ![p] =
             [r \in Repos |-> IF r \in targets[p] \ failed THEN git[r] ELSE None]]
        /\ todo' = [todo EXCEPT ![p] = ToIndex(p, targets[p] \ failed, ok)]
        /\ todo'[p] # {}
  /\ built' = [built EXCEPT ![p] = {}]
  /\ UNCHANGED <<lockVars, seen, indexVars, alive, targets, work, hand, queueVars, deaths,
                 kicks>>

\* ... or none.  (CheckStaleness returns no error, whatever git does.)
NothingToIndex(p) ==
  /\ \E failed \in SUBSET targets[p], ok \in SUBSET targets[p] :
        /\ Fault(failed # {})
        /\ ToIndex(p, targets[p] \ failed, ok) = {}
  /\ Indexed(p, "drained")
  /\ UNCHANGED <<lockVars, seen, indexVars, alive, targets, hand, queueVars, deaths, kicks>>

\* IndexRepos walks the files of one repo ...
BuildReads(p, r) ==
  /\ r \in todo[p]
  /\ Goto(p, "building", "writing")
  /\ work' = [work EXCEPT ![p] = [repo |-> r, tree |-> tree[r]]]
  /\ todo' = [todo EXCEPT ![p] = @ \ {r}]
  /\ UNCHANGED <<lockVars, seen, indexVars, alive, targets, loaded, current, built, hand,
                 queueVars, bounds>>

\* ... and its builder puts the shards in place.
BuildWrites(p) ==
  LET r == work[p].repo
  IN  /\ Goto(p, "writing", IF todo[p] = {} THEN "built" ELSE "building")
      /\ shard' = [shard EXCEPT ![r] = work[p].tree]
      /\ built' = [built EXCEPT ![p] = @ \union {r}]
      /\ work' = [work EXCEPT ![p] = None]
      /\ UNCHANGED <<lockVars, seen, treeVars, state, alive, targets, loaded, current, todo,
                     hand, queueVars, bounds>>

\* Mutant: a failed run returns without the deferred calls.
BuildFailsLocked(p) ==
  /\ Fault(TRUE)
  /\ Return(p, "building")
  /\ UNCHANGED <<lockVars, indexVars, queueVars, deaths, kicks>>

\* IndexRepos fails: nothing is recorded, and the deferred calls run.
BuildFails(p) ==
  /\ Fault(TRUE)
  /\ Indexed(p, "building") \/ Indexed(p, "writing")
  /\ UNCHANGED <<lockVars, seen, indexVars, alive, targets, hand, queueVars, deaths, kicks>>

\* Mutant: every fingerprint is taken when the shards are built.
FingerprintNow(p, r) == [print |-> git[r], late |-> FALSE]

\* What recordFingerprints records of an indexed repo: the fingerprint taken before,
\* or one taken now of a repo that was not probed.
FingerprintOf(p, r) ==
  IF current[p][r] # None
  THEN [print |-> current[p][r], late |-> FALSE]
  ELSE [print |-> git[r], late |-> TRUE]

\* recordFingerprints, and state.json is replaced.  A repo git fails on keeps its entry.
Record(p) ==
  /\ Indexed(p, "built")
  /\ \E failed \in SUBSET {r \in built[p] : current[p][r] = None} :
        /\ Fault(failed # {})
        /\ state' = [r \in Repos |-> IF r \in built[p] \ failed
                                     THEN FingerprintOf(p, r) ELSE loaded[p][r]]
  /\ UNCHANGED <<lockVars, seen, treeVars, shard, alive, targets, hand, queueVars, deaths, kicks>>

\* state.json cannot be replaced.
SaveFails(p) ==
  /\ Fault(TRUE)
  /\ Indexed(p, "built")
  /\ UNCHANGED <<lockVars, seen, indexVars, alive, targets, hand, queueVars, deaths, kicks>>

\* The deferred Release removes the claimed file if it held anything, also when
\* indexing failed.
Release(p) ==
  /\ Goto(p, "indexed", "released")
  /\ IF hand[p] # {}
     THEN claimed' = [claimed EXCEPT ![p] = None] /\ fd' = Moved(fd, p, "gone")
     ELSE UNCHANGED <<claimed, fd>>
  /\ UNCHANGED <<lockVars, seen, indexVars, alive, runVars, queue, bounds>>

(* ------------------------------ The system ------------------------------- *)

\* A process is killed; its files stay.
Die(p) ==
  /\ alive[p] /\ deaths < MaxDeaths
  /\ alive' = [alive EXCEPT ![p] = FALSE]
  /\ pc' = [pc EXCEPT ![p] = "exit"]
  /\ deaths' = deaths + 1
  /\ Forget(p)
  /\ UNCHANGED <<lockVars, indexVars, queueVars, faults, kicks>>

LockStep(p) ==
  \/ Create(p) \/ WritePid(p) \/ ReadLock(p) \/ FoundLive(p) \/ FoundStale(p)
  \/ RemoveStale(p) \/ CreateAgain(p) \/ LockFails(p) \/ Unlock(p)

RunStep(p) ==
  \/ Pull(p) \/ Claim(p) \/ ReadClaim(p) \/ ReadClaimFails(p)
  \/ LoadFails(p) \/ LoadCorrupt(p) \/ Check(p) \/ NothingToIndex(p)
  \/ (\E r \in Repos : BuildReads(p, r)) \/ BuildWrites(p) \/ BuildFails(p)
  \/ Record(p) \/ SaveFails(p) \/ Release(p)

Next ==
  \/ \E p \in Procs : LockStep(p) \/ RunStep(p) \/ Die(p)
  \/ \E h \in Hooks : OpenQueue(h) \/ \E r \in Repos : AppendLine(h, r)
  \/ \E r \in Repos : Change(r)

Spec == Init /\ [][Next]_vars

\* A process that runs goes on, and the refresher's next cycle comes (its
\* heartbeat, also after a failure).  Nothing makes a tree change or a hook run.
Fairness == \A p \in Procs : WF_vars(LockStep(p) \/ RunStep(p))

LiveSpec == Spec /\ Fairness

(* ------------------------------ Properties ------------------------------- *)

TypeOK ==
  /\ lockFile \in Procs \union {None} /\ written \in BOOLEAN
  /\ seen \in [Procs -> Procs \union {None}] /\ robbed \in BOOLEAN
  /\ tree \in [Repos -> Nat] /\ git \in [Repos -> Prints]
  /\ past \in [Repos -> SUBSET Prints] /\ again \in [Repos -> BOOLEAN]
  /\ shard \in [Repos -> Nat] /\ state \in [Repos -> Entry]
  /\ pc \in [Procs -> {"idle", "created", "exists", "probe", "stale", "retry", "locked", "pulled",
                       "claimed", "drained", "building", "writing", "built", "indexed", "released",
                       "exit"}]
  /\ alive \in [Procs -> BOOLEAN] /\ targets \in [Procs -> SUBSET Repos]
  /\ loaded \in [Procs -> [Repos -> Entry]]
  /\ current \in [Procs -> [Repos -> Prints \union {None}]]
  /\ todo \in [Procs -> SUBSET Repos] /\ built \in [Procs -> SUBSET Repos]
  /\ queue \in {None} \union SUBSET Repos /\ claimed \in [Procs -> {None} \union SUBSET Repos]
  /\ fd \in [Hooks -> Procs \union {"queue", "gone", "exit", None}]
  /\ work \in [Procs -> [repo : Repos, tree : Nat] \union {None}]
  /\ hand \in [Procs -> SUBSET Repos]
  /\ \A p \in Procs : pc[p] # "released" /\ hand[p] # {} => claimed[p] # None
  /\ \A h \in Hooks : fd[h] \in Procs => claimed[fd[h]] # None
  /\ \A h \in Hooks : fd[h] = "queue" => queue # None
  /\ deaths \in Nat /\ faults \in Nat /\ kicks \in Nat

\* Two processes index at once only if the lock file of one that lives was
\* removed under it: by a reader that met it without its PID, or that judged an
\* older file at the same path (Lock, liveHolder).  Neither deaths nor failed
\* attempts lead there by themselves.
ExclusiveUnlessRobbed == robbed \/ Cardinality(Holding) <= 1

\* The next run that evaluates r finds it stale.
Shows(r) == state[r].print # git[r]

\* What a fingerprint cannot tell: the last change gave the tree one that it has had
\* before, or the recorded one was taken after the shards were built.
Hidden(r) == again[r] \/ state[r].late

\* A repo whose shards are behind its tree shows as stale, whenever the tree
\* changed, a build, a probe or a save failed, or a process was killed, and whatever
\* the queue lost; a change escapes only if its fingerprint is an old one or was
\* recorded late (staleRepos, recordFingerprints).
StaleShows == robbed \/ \A r \in Repos : Shows(r) \/ shard[r] = tree[r] \/ Hidden(r)

\* The refresher indexes and records every repo that shows as stale in the end, past
\* locks of the dead, other syncs, runs of other repos, failures and lost lines of the
\* queue; and but for hidden changes the shards are then those of the tree.
CaughtUp ==
  \A w \in Webs, r \in Repos :
    Shows(r) ~> \/ ~Shows(r) /\ (shard[r] = tree[r] \/ Hidden(r))
                \/ ~alive[w] \/ robbed
=============================================================================
