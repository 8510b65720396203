------------------------------ MODULE MoondbSpool ------------------------------
(***************************************************************************)
(* How a captured envelope gets into moondb's store.  A writer (a moondb   *)
(* record or import process, spool/writer.go) puts the chunks an envelope  *)
(* points at into the spool directory and then renames the envelope into   *)
(* it.  Serve's one ingest goroutine (ingest/run.go, ingest.go, edit.go)   *)
(* lists the envelopes, copies the chunks of each into the store, appends  *)
(* its record and removes it; it retries a failure, moves an envelope that *)
(* keeps failing aside, and after every batch sweeps chunks nobody points  *)
(* at (spool/reader.go).  Both processes can be killed at any step.        *)
(*                                                                         *)
(* The store is MoondbStore, which MoondbLog implements; an envelope's     *)
(* record is the set of chunks it points at.  A batch takes its envelopes  *)
(* in any order (the code: in the order of their names).  A snapshot is     *)
(* recorded once like an edit, and without lost chunks like a turn: it is   *)
(* not told apart here.                                                     *)
(***************************************************************************)
EXTENDS Naturals

CONSTANTS
  Envelopes,    \* the envelopes that may be written, each by a writer of its own
  Edits,        \* those that are edits: without their chunks they cannot be recorded
  Poison,       \* those no attempt can read: another version, or garbled
  Garbled,      \* those of them that do not even decode
  Mortal,       \* those whose writer may be killed
  Chunks,
  ChunksOf,     \* the chunks each envelope points at
  MaxAttempts,  \* attempts before an envelope is moved aside (run.go: maxAttempts)
  MaxFaults,    \* bound: failures that leave the store in order
  MaxCrashes,   \* bound: ends of serve
  None

ASSUME EnvelopeSets ==
  Edits \subseteq Envelopes /\ Poison \subseteq Envelopes /\ Garbled \subseteq Poison
    /\ Mortal \subseteq Envelopes
ASSUME ChunksOfType == ChunksOf \in [Envelopes -> SUBSET Chunks]
ASSUME NoneApart == \A S \in SUBSET Chunks : S # None
ASSUME Bounds == MaxAttempts \in Nat \ {0} /\ MaxFaults \in Nat /\ MaxCrashes \in Nat

VARIABLES
  \* The spool directory, on disk.
  spooled,   \* each chunk's file: "none", "young", or "old" enough to be swept
  pending,   \* the envelopes in the spool
  failed,    \* the envelopes in failed/
  \* The store, on disk: kept and loose as in MoondbStore, and its objects.
  kept, loose,
  objects,   \* the chunks the store holds
  \* The writers.
  write,     \* where each envelope's writer stands
  put,       \* the chunks it has not put yet
  hand,      \* the chunk file it saw and is about to touch
  \* Serve.
  stage,     \* where the ingest goroutine stands
  batch,     \* the envelopes of this drain still to ingest
  cur,       \* the envelope being ingested
  copy,      \* its chunks still to copy
  lost,      \* its chunks found in neither spool nor store, or unread
  attempts,  \* the failed attempts at each envelope
  waiting,   \* the envelopes waiting out their retry delay
  sweep,     \* the chunk files this sweep may still delete
  doomed,    \* the one it found old enough
  broken,    \* the envelope whose append left the store refusing writes, or None
  \* Bounds.
  faults, crashes

spoolVars == <<spooled, pending, failed>>
storeVars == <<kept, loose>>
writerVars == <<write, put, hand>>
ingestVars == <<batch, cur, copy, lost>>
retryVars == <<attempts, waiting>>
sweepVars == <<sweep, doomed>>
serveVars == <<stage, ingestVars, retryVars, sweepVars, broken>>
vars == <<spoolVars, storeVars, objects, writerVars, serveVars, faults, crashes>>

Store == INSTANCE MoondbStore
           WITH Facts <- Edits, Docs <- Envelopes \ Edits, Vals <- SUBSET Chunks

Recorded(e) == kept[e] # None

\* A chunk the store can serve, or that an ingest can still copy.
Available(c) == c \in objects \/ spooled[c] # "none"

Init ==
  /\ spooled = [c \in Chunks |-> "none"] /\ pending = {} /\ failed = {}
  /\ Store!StoreInit /\ objects = {}
  /\ write = [e \in Envelopes |-> "new"] /\ put = ChunksOf
  /\ hand = [e \in Envelopes |-> None]
  /\ stage = "idle" /\ batch = {} /\ cur = None /\ copy = {} /\ lost = {}
  /\ attempts = [e \in Envelopes |-> 0] /\ waiting = {}
  /\ sweep = {} /\ doomed = None /\ broken = None
  /\ faults = 0 /\ crashes = 0

-------------------------------------------------------------------------------
(* The writers: Writer.Write for each envelope, its chunks in any order.    *)

Writing(e) == write[e] \in {"putting", "touch"}

Start(e) ==
  /\ write[e] = "new"
  /\ write' = [write EXCEPT ![e] = "putting"]
  /\ UNCHANGED <<spoolVars, storeVars, objects, put, hand, serveVars, faults, crashes>>

\* The store has the chunk.
Skip(e, c) ==
  /\ write[e] = "putting" /\ c \in put[e]
  /\ c \in objects
  /\ put' = [put EXCEPT ![e] = @ \ {c}]
  /\ UNCHANGED <<spoolVars, storeVars, objects, write, hand, serveVars, faults, crashes>>

\* Neither has it: it is renamed into the spool.
Place(e, c) ==
  /\ write[e] = "putting" /\ c \in put[e]
  /\ ~Available(c)
  /\ spooled' = [spooled EXCEPT ![c] = "young"]
  /\ put' = [put EXCEPT ![e] = @ \ {c}]
  /\ UNCHANGED <<pending, failed, storeVars, objects, write, hand, serveVars, faults, crashes>>

\* The spool has it, or had it a moment ago ...
Look(e, c) ==
  /\ write[e] = "putting" /\ c \in put[e]
  /\ c \notin objects /\ spooled[c] # "none"
  /\ write' = [write EXCEPT ![e] = "touch"]
  /\ hand' = [hand EXCEPT ![e] = c]
  /\ UNCHANGED <<spoolVars, storeVars, objects, put, serveVars, faults, crashes>>

\* ... and its file gets a fresh mtime, or is written again when it was swept.
Touch(e) ==
  /\ write[e] = "touch"
  /\ spooled' = [spooled EXCEPT ![hand[e]] = "young"]
  /\ put' = [put EXCEPT ![e] = @ \ {hand[e]}]
  /\ write' = [write EXCEPT ![e] = "putting"]
  /\ hand' = [hand EXCEPT ![e] = None]
  /\ UNCHANGED <<pending, failed, storeVars, objects, serveVars, faults, crashes>>

\* Every chunk is in place: the envelope is renamed into the spool.
Name(e) ==
  /\ write[e] = "putting" /\ put[e] = {}
  /\ pending' = pending \cup {e}
  /\ write' = [write EXCEPT ![e] = "done"]
  /\ UNCHANGED <<spooled, failed, storeVars, objects, put, hand, serveVars, faults, crashes>>

\* A writer runs out of its time, or is killed, before it names its envelope.
WriterDies(e) ==
  /\ e \in Mortal /\ Writing(e)
  /\ write' = [write EXCEPT ![e] = "dead"]
  /\ hand' = [hand EXCEPT ![e] = None]
  /\ UNCHANGED <<spoolVars, storeVars, objects, put, serveVars, faults, crashes>>

WriterStep(e) ==
  \/ Touch(e) \/ Name(e)
  \/ \E c \in ChunksOf[e] : Skip(e, c) \/ Place(e, c) \/ Look(e, c)

-------------------------------------------------------------------------------
(* The clock.  A minute (sweepGrace) is long next to one Writer.Write and   *)
(* next to one sweep, so a chunk an unfinished write has put or looked at,  *)
(* and a file touched during a sweep, are not old yet.                      *)

Age(c) ==
  /\ spooled[c] = "young"
  /\ c \notin sweep
  /\ \A e \in Envelopes : Writing(e) => c \notin (ChunksOf[e] \ put[e]) \cup {hand[e]}
  /\ spooled' = [spooled EXCEPT ![c] = "old"]
  /\ UNCHANGED <<pending, failed, storeVars, objects, writerVars, serveVars, faults, crashes>>

RetryDue(e) ==
  /\ e \in waiting
  /\ waiting' = waiting \ {e}
  /\ UNCHANGED <<spoolVars, storeVars, objects, writerVars, stage, ingestVars, attempts,
                 sweepVars, broken, faults, crashes>>

-------------------------------------------------------------------------------
(* Serve's ingest goroutine.                                                *)

Drain ==
  /\ stage = "idle"
  /\ stage' = "batch"
  /\ batch' = pending \ waiting
  /\ attempts' = [e \in Envelopes |-> IF e \in pending THEN attempts[e] ELSE 0]
  /\ waiting' = waiting \cap pending
  /\ UNCHANGED <<spoolVars, storeVars, objects, writerVars, cur, copy, lost, sweepVars,
                 broken, faults, crashes>>

Read(e) ==
  /\ stage = "batch" /\ e \in batch
  /\ batch' = batch \ {e}
  /\ cur' = e
  /\ IF e \in Poison
     THEN stage' = "fail" /\ copy' = {}
     ELSE stage' = "copy" /\ copy' = ChunksOf[e]
  /\ lost' = {}
  /\ UNCHANGED <<spoolVars, storeVars, objects, writerVars, retryVars, sweepVars, broken,
                 faults, crashes>>

CopyChunk(c) ==
  /\ stage = "copy" /\ c \in copy
  /\ Available(c)
  /\ objects' = objects \cup {c}
  /\ copy' = copy \ {c}
  /\ UNCHANGED <<spoolVars, storeVars, writerVars, stage, batch, cur, lost, retryVars,
                 sweepVars, broken, faults, crashes>>

\* Mutant: a missing chunk is noted for an edit only.
ChunkMissingKept(c) ==
  /\ stage = "copy" /\ c \in copy
  /\ ~Available(c)
  /\ IF cur \in Edits THEN stage' = "fail" /\ lost' = {c} ELSE UNCHANGED <<stage, lost>>
  /\ copy' = copy \ {c}
  /\ UNCHANGED <<spoolVars, storeVars, objects, writerVars, batch, cur, retryVars, sweepVars,
                 broken, faults, crashes>>

\* A chunk in neither place fails an edit; any other record goes without it.
ChunkMissing(c) ==
  /\ stage = "copy" /\ c \in copy
  /\ ~Available(c)
  /\ stage' = IF cur \in Edits THEN "fail" ELSE "copy"
  /\ lost' = lost \cup {c}
  /\ copy' = copy \ {c}
  /\ UNCHANGED <<spoolVars, storeVars, objects, writerVars, batch, cur, retryVars, sweepVars,
                 broken, faults, crashes>>

\* Any record but an edit's also goes without a chunk whose file cannot be read.
ChunkUnread(c) ==
  /\ stage = "copy" /\ c \in copy /\ cur \notin Edits
  /\ c \notin objects /\ spooled[c] # "none" /\ faults < MaxFaults
  /\ lost' = lost \cup {c}
  /\ copy' = copy \ {c}
  /\ faults' = faults + 1
  /\ UNCHANGED <<spoolVars, storeVars, objects, writerVars, stage, batch, cur, retryVars,
                 sweepVars, broken, crashes>>

\* What the record of the envelope being ingested says: a replay drops nothing.
RecordOf == (ChunksOf[cur] \ lost) \cup (IF Recorded(cur) THEN kept[cur] ELSE {})

\* The index already has it; what a broken append left is not in the index.
Settled == kept[cur] = RecordOf /\ broken # cur

Recording == stage = "copy" /\ copy = {}

ReplaySettled ==
  /\ Recording /\ Settled
  /\ stage' = "remove"
  /\ UNCHANGED <<spoolVars, storeVars, objects, writerVars, ingestVars, retryVars, sweepVars,
                 broken, faults, crashes>>

Record ==
  /\ Recording /\ ~Settled /\ broken = None
  /\ Store!Write(cur, RecordOf)
  /\ stage' = "remove"
  /\ UNCHANGED <<spoolVars, objects, writerVars, ingestVars, retryVars, sweepVars, broken,
                 faults, crashes>>

\* Mutant: a store that is broken refuses an append, and nobody notices.
RefusedUnseen ==
  /\ Recording /\ ~Settled /\ broken # None
  /\ stage' = "remove"
  /\ UNCHANGED <<spoolVars, storeVars, objects, writerVars, ingestVars, retryVars, sweepVars,
                 broken, faults, crashes>>

\* A store that is broken refuses every append.
Refused ==
  /\ Recording /\ ~Settled /\ broken # None
  /\ stage' = "fail"
  /\ UNCHANGED <<spoolVars, storeVars, objects, writerVars, ingestVars, retryVars, sweepVars,
                 broken, faults, crashes>>

\* A read or write fails and leaves the store in order.
IngestFails ==
  /\ stage = "copy" /\ faults < MaxFaults
  /\ faults' = faults + 1
  /\ stage' = "fail"
  /\ UNCHANGED <<spoolVars, storeVars, objects, writerVars, ingestVars, retryVars, sweepVars,
                 broken, crashes>>

\* An append fails and cannot be undone; its line may be whole.
StoreBreaks ==
  /\ Recording /\ ~Settled /\ broken = None /\ faults < MaxFaults
  /\ \/ UNCHANGED storeVars
     \/ Store!TurnUp(cur, RecordOf)
  /\ broken' = cur
  /\ faults' = faults + 1
  /\ stage' = "fail"
  /\ UNCHANGED <<spoolVars, objects, writerVars, ingestVars, retryVars, sweepVars, crashes>>

\* Mutant: Ping looks at the log directory only.
PingAlways == TRUE

Ping == broken = None

\* Ping fails: the batch stops, and nothing is counted against the envelope.
Pause ==
  /\ stage = "fail" /\ ~Ping
  /\ stage' = "batch" /\ batch' = {} /\ cur' = None
  /\ UNCHANGED <<spoolVars, storeVars, objects, writerVars, copy, lost, retryVars, sweepVars,
                 broken, faults, crashes>>

\* The attempt is counted, and the envelope waits.
Later ==
  /\ attempts' = [attempts EXCEPT ![cur] = @ + 1]
  /\ waiting' = waiting \cup {cur}
  /\ stage' = "batch" /\ cur' = None
  /\ UNCHANGED <<spoolVars, storeVars, objects, writerVars, batch, copy, lost, sweepVars,
                 broken, crashes>>

LastAttempt == attempts[cur] + 1 >= MaxAttempts

Fail ==
  /\ stage = "fail" /\ Ping
  /\ ~LastAttempt
  /\ Later
  /\ UNCHANGED faults

\* Mutant: an envelope is given its retry delay and then moved aside.
MoveAsideWaiting ==
  /\ stage = "fail" /\ Ping
  /\ LastAttempt
  /\ pending' = pending \ {cur} /\ failed' = failed \cup {cur}
  /\ attempts' = [attempts EXCEPT ![cur] = 0]
  /\ waiting' = waiting \cup {cur}
  /\ stage' = "batch" /\ cur' = None
  /\ UNCHANGED <<spooled, storeVars, objects, writerVars, batch, copy, lost, sweepVars,
                 broken, faults, crashes>>

MoveAside ==
  /\ stage = "fail" /\ Ping
  /\ LastAttempt
  /\ pending' = pending \ {cur} /\ failed' = failed \cup {cur}
  /\ attempts' = [attempts EXCEPT ![cur] = 0]
  /\ waiting' = waiting \ {cur}
  /\ stage' = "batch" /\ cur' = None
  /\ UNCHANGED <<spooled, storeVars, objects, writerVars, batch, copy, lost, sweepVars,
                 broken, faults, crashes>>

MoveFails ==
  /\ stage = "fail" /\ Ping /\ faults < MaxFaults
  /\ LastAttempt
  /\ Later
  /\ faults' = faults + 1

\* The envelope is removed; a failure to remove it is only logged.
Remove ==
  /\ stage = "remove"
  /\ attempts' = [attempts EXCEPT ![cur] = 0]
  /\ waiting' = waiting \ {cur}
  /\ \/ pending' = pending \ {cur} /\ UNCHANGED faults
     \/ faults < MaxFaults /\ faults' = faults + 1 /\ UNCHANGED pending
  /\ stage' = "batch" /\ cur' = None
  /\ UNCHANGED <<spooled, failed, storeVars, objects, writerVars, batch, copy, lost, sweepVars,
                 broken, crashes>>

Referenced == UNION {ChunksOf[e] : e \in pending}

\* Mutant: the chunks of the envelopes that wait out a delay are kept, no other.
SweepWaiting ==
  /\ stage = "batch" /\ batch = {}
  /\ IF pending \cap Garbled # {}
     THEN stage' = "idle" /\ UNCHANGED sweep
     ELSE /\ stage' = "sweep"
          /\ sweep' = {c \in Chunks \ UNION {ChunksOf[e] : e \in waiting} : spooled[c] = "old"}
  /\ UNCHANGED <<spoolVars, storeVars, objects, writerVars, ingestVars, retryVars, doomed,
                 broken, faults, crashes>>

\* Mutant: an envelope in failed/ that does not decode stops the sweep as well.
SweepNever ==
  /\ stage = "batch" /\ batch = {}
  /\ IF (pending \cup failed) \cap Garbled # {}
     THEN stage' = "idle" /\ UNCHANGED sweep
     ELSE /\ stage' = "sweep"
          /\ sweep' = {c \in Chunks \ Referenced : spooled[c] = "old"}
  /\ UNCHANGED <<spoolVars, storeVars, objects, writerVars, ingestVars, retryVars, doomed,
                 broken, faults, crashes>>

\* The batch is through, or stopped: the sweep lists what it may delete.
Sweep ==
  /\ stage = "batch" /\ batch = {}
  /\ IF pending \cap Garbled # {}
     THEN stage' = "idle" /\ UNCHANGED sweep
     ELSE /\ stage' = "sweep"
          /\ sweep' = {c \in Chunks \ Referenced : spooled[c] = "old"}
  /\ UNCHANGED <<spoolVars, storeVars, objects, writerVars, ingestVars, retryVars, doomed,
                 broken, faults, crashes>>

\* The file's mtime is read ...
Stat(c) ==
  /\ stage = "sweep" /\ c \in sweep
  /\ sweep' = sweep \ {c}
  /\ IF spooled[c] = "old"
     THEN stage' = "unlink" /\ doomed' = c
     ELSE UNCHANGED <<stage, doomed>>
  /\ UNCHANGED <<spoolVars, storeVars, objects, writerVars, ingestVars, retryVars, broken,
                 faults, crashes>>

\* ... and the file is removed, whatever its mtime is by now.
Unlink ==
  /\ stage = "unlink"
  /\ spooled' = [spooled EXCEPT ![doomed] = "none"]
  /\ stage' = "sweep" /\ doomed' = None
  /\ UNCHANGED <<pending, failed, storeVars, objects, writerVars, ingestVars, retryVars, sweep,
                 broken, faults, crashes>>

SweepEnd ==
  /\ stage = "sweep" /\ sweep = {}
  /\ stage' = "idle"
  /\ UNCHANGED <<spoolVars, storeVars, objects, writerVars, ingestVars, retryVars, sweepVars,
                 broken, faults, crashes>>

\* Serve ends at any step; an append it was in the middle of may turn up.
ServeEnds ==
  /\ stage # "down" /\ crashes < MaxCrashes
  /\ crashes' = crashes + 1
  /\ \/ UNCHANGED storeVars
     \/ Recording /\ ~Settled /\ broken = None /\ Store!TurnUp(cur, RecordOf)
  /\ stage' = "down" /\ batch' = {} /\ cur' = None /\ copy' = {} /\ lost' = {}
  /\ attempts' = [e \in Envelopes |-> 0] /\ waiting' = {}
  /\ sweep' = {} /\ doomed' = None /\ broken' = None
  /\ UNCHANGED <<spoolVars, objects, writerVars, faults>>

ServeStarts ==
  /\ stage = "down"
  /\ stage' = "idle"
  /\ UNCHANGED <<spoolVars, storeVars, objects, writerVars, ingestVars, retryVars, sweepVars,
                 broken, faults, crashes>>

\* What the ingest goroutine does when nothing goes wrong around it.
IngestStep ==
  \/ ServeStarts \/ Drain
  \/ \E e \in Envelopes : Read(e)
  \/ \E c \in Chunks : CopyChunk(c) \/ ChunkMissing(c)
  \/ ReplaySettled \/ Record \/ Refused \/ Pause \/ Fail \/ MoveAside \/ Remove
  \/ Sweep \/ Unlink \/ SweepEnd
  \/ \E c \in Chunks : Stat(c)

-------------------------------------------------------------------------------

Next ==
  \/ \E e \in Envelopes : Start(e) \/ WriterStep(e) \/ WriterDies(e) \/ RetryDue(e)
  \/ \E c \in Chunks : Age(c)
  \/ \E c \in Chunks : ChunkUnread(c)
  \/ IngestStep \/ IngestFails \/ StoreBreaks \/ MoveFails
  \/ ServeEnds

(***************************************************************************)
(* A write that has begun goes on or is killed, time passes, the ingest    *)
(* goroutine runs on (each call it makes returns), and serve is started    *)
(* again.  Faults are bounded, so a step that may fail ends by succeeding. *)
(***************************************************************************)
Fairness ==
  /\ \A e \in Envelopes : WF_vars(WriterStep(e)) /\ WF_vars(RetryDue(e))
  /\ \A c \in Chunks : WF_vars(Age(c))
  /\ WF_vars(IngestStep)

Spec == Init /\ [][Next]_vars /\ Fairness

-------------------------------------------------------------------------------
(* What each variable holds, and which of them go together.                 *)
TypeOK ==
  /\ spooled \in [Chunks -> {"none", "young", "old"}]
  /\ pending \in SUBSET Envelopes /\ failed \in SUBSET Envelopes
  /\ kept \in [Envelopes -> (SUBSET Chunks) \cup {None}] /\ loose \in SUBSET Envelopes
  /\ objects \in SUBSET Chunks
  /\ write \in [Envelopes -> {"new", "putting", "touch", "done", "dead"}]
  /\ put \in [Envelopes -> SUBSET Chunks] /\ \A e \in Envelopes : put[e] \subseteq ChunksOf[e]
  /\ hand \in [Envelopes -> Chunks \cup {None}]
  /\ \A e \in Envelopes : hand[e] \in IF write[e] = "touch" THEN put[e] ELSE {None}
  /\ stage \in {"down", "idle", "batch", "copy", "fail", "remove", "sweep", "unlink"}
  /\ batch \in SUBSET Envelopes /\ copy \in SUBSET Chunks /\ lost \in SUBSET Chunks
  /\ cur \in IF stage \in {"copy", "fail", "remove"} THEN pending ELSE {None}
  /\ attempts \in [Envelopes -> 0 .. MaxAttempts + MaxFaults]
  /\ waiting \in SUBSET pending
  /\ sweep \in SUBSET Chunks
  /\ doomed \in IF stage = "unlink" THEN Chunks ELSE {None}
  /\ broken \in Envelopes \cup {None}
  /\ faults \in 0 .. MaxFaults /\ crashes \in 0 .. MaxCrashes

(* An envelope whose write ended well is in the spool, in failed/, or in    *)
(* the store, however serve's ingest was interrupted (ingest.go:3-5).       *)
WrittenNotLost ==
  \A e \in Envelopes : write[e] = "done" => e \in pending \cup failed \/ Recorded(e)

(* No record points at content the store does not have (ingest.go:115-116). *)
RecordsWhole == \A e \in Envelopes : Recorded(e) => kept[e] \subseteq objects

\* The chunk will not come into the store by this envelope: its writer died, or it
\* left the spool into failed/, or into a record that goes without the chunk.
GivenUp(e, c) ==
  /\ c \in ChunksOf[e]
  /\ \/ write[e] = "dead"
     \/ e \in failed
     \/ e \notin pending /\ Recorded(e) /\ c \notin kept[e]

Abandoned(c) == \E e \in Envelopes : GivenUp(e, c)

(* A chunk that an envelope in the spool points at can be had, however the  *)
(* sweep, other ingests and writers of the same chunk interleave.  Once     *)
(* another envelope has given the chunk up, its file may be old and in no   *)
(* object while it is put again: then the sweep may remove it between the   *)
(* touch and the envelope's rename (writer.go:78-80, reader.go:297-301).    *)
PendingBacked == \A e \in pending : \A c \in ChunksOf[e] : Available(c) \/ Abandoned(c)

\* No attempt can read it, or it is an edit with a chunk another envelope has given up.
Spoiled(e) ==
  \/ e \in Poison
  \/ e \in Edits /\ \E d \in Envelopes \ {e} : \E c \in ChunksOf[e] : GivenUp(d, c)

(* Nothing but a spoiled envelope is moved aside: neither a store that is   *)
(* down nor fewer faults than attempts cost an envelope (run.go:38-42).     *)
AsideForCause == \A e \in failed : Spoiled(e)

(* Every envelope in the spool leaves it, a poison one without stalling the *)
(* others, and every chunk file, those of dead writers and of failed        *)
(* envelopes with them (run.go:40-41, writer.go:48-49); unless the store is *)
(* broken and waits for a restart.                                          *)
SpoolEmptied ==
  /\ \A e \in Envelopes : e \in pending ~> e \notin pending \/ broken # None
  /\ \A c \in Chunks : spooled[c] # "none" ~> spooled[c] = "none" \/ broken # None
================================================================================
