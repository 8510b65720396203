--------------------------- MODULE MoondbSpoolProofs ---------------------------
(***************************************************************************)
(* Theorems about MoondbSpool, for any envelopes, chunks, deaths and ends  *)
(* of serve.                                                               *)
(***************************************************************************)
EXTENDS MoondbSpool, TLAPS

--------------------------------------------------------------------------------
(* The inductive invariant.                                                *)

Ingesting == stage \in {"copy", "fail", "remove"}

\* A batch holds envelopes that are in the spool, without the one in work, which can be
\* read once it is past that.
BatchInv ==
  /\ batch \subseteq pending
  /\ Ingesting => cur \notin batch
  /\ stage = "copy" => copy \subseteq ChunksOf[cur]
  /\ stage \in {"copy", "remove"} => cur \notin Poison

\* An attempt is counted short of the last one, or for a fault.
AttemptsInv == \A e \in Envelopes : attempts[e] < MaxAttempts + faults

\* A write begins with every chunk to put and ends with none; only what was
\* written is in the spool or failed/, and in one of them.
WrittenInv ==
  /\ \A e \in pending \cup failed : write[e] = "done"
  /\ \A e \in Envelopes : write[e] = "new" => put[e] = ChunksOf[e]
  /\ \A e \in Envelopes : write[e] = "done" => put[e] = {}
  /\ \A e \in Envelopes : write[e] = "dead" => e \in Mortal
  /\ pending \cap failed = {}

\* What ends an ingest well is a record; only what was written has one.
RecordedInv ==
  /\ stage = "remove" => Recorded(cur)
  /\ \A e \in Envelopes : Recorded(e) => write[e] = "done"

\* A chunk of the envelope in work is still to copy, or in the store, or lost.
CopiedInv ==
  stage \in {"copy", "remove"} =>
    ChunksOf[cur] \subseteq objects \cup lost \cup (IF stage = "copy" THEN copy ELSE {})

\* Someone who put the chunk is writing still, or has its envelope in the spool.
Wanted(c) == \E e \in Envelopes : c \in ChunksOf[e] \ put[e] /\ (Writing(e) \/ e \in pending)

\* A file that may be swept and is in no object is pointed at from the spool.
OldPointedAt(c) ==
  spooled[c] = "old" /\ c \notin objects => \E e \in pending : c \in ChunksOf[e]

\* Who has put the chunk finds it.
PutAvailable(c) ==
  \A e \in Envelopes :
    (Writing(e) \/ e \in pending) /\ c \in ChunksOf[e] \ put[e] => Available(c)

ChunkSafe(c) ==
  /\ spooled[c] # "none" /\ c \notin objects => Wanted(c)
  /\ OldPointedAt(c)
  /\ PutAvailable(c)
  /\ c \in sweep \/ (stage = "unlink" /\ c = doomed) => c \in objects

\* A chunk that nobody abandoned is safe.
SafeInv == \A c \in Chunks : Abandoned(c) \/ ChunkSafe(c)

\* The envelope has failed no more often than there were faults.
Counted(e) ==
  /\ attempts[e] <= faults
  /\ stage = "fail" /\ Ping /\ cur = e => attempts[e] < faults

\* That holds of every envelope that is not spoiled.
FaultsInv == \A e \in Envelopes : Spoiled(e) \/ Counted(e)

IInv ==
  /\ TypeOK /\ BatchInv /\ AttemptsInv /\ WrittenInv /\ RecordedInv /\ WrittenNotLost
  /\ CopiedInv /\ RecordsWhole /\ SafeInv

\* What a record may say, and that it says something.
LEMMA RecordOfType ==
  ASSUME TypeOK, cur \in Envelopes
  PROVE  RecordOf \in SUBSET Chunks /\ RecordOf # None
<1>1. ChunksOf[cur] \subseteq Chunks
  BY ChunksOfType
<1>2. Recorded(cur) => kept[cur] \in SUBSET Chunks
  BY DEF TypeOK, Recorded
<1> QED
  BY <1>1, <1>2, NoneApart DEF RecordOf

\* An append, a line that turns up and a step that leaves the store alone keep
\* every record but that of the envelope in work, which gets what is known of it.
LEMMA StoreSteps ==
  ASSUME TypeOK, cur \in Envelopes,
         \/ Store!Write(cur, RecordOf) \/ Store!TurnUp(cur, RecordOf)
  PROVE  /\ kept' \in [Envelopes -> (SUBSET Chunks) \cup {None}] /\ loose' \in SUBSET Envelopes
         /\ kept' = [kept EXCEPT ![cur] = RecordOf]
         /\ kept'[cur] = RecordOf /\ \A e \in Envelopes \ {cur} : kept'[e] = kept[e]
<1>1. RecordOf \in SUBSET Chunks
  BY RecordOfType
<1>2. kept \in [Envelopes -> (SUBSET Chunks) \cup {None}] /\ loose \in SUBSET Envelopes
  BY DEF TypeOK
<1>3. kept' = [kept EXCEPT ![cur] = RecordOf] /\ loose' \in SUBSET Envelopes
  <2>1. CASE Store!Write(cur, RecordOf)
    BY <1>2, <2>1 DEF Store!Write
  <2>2. CASE Store!TurnUp(cur, RecordOf)
    BY <1>2, <2>2 DEF Store!TurnUp
  <2> QED
    BY <2>1, <2>2
<1> QED
  BY <1>1, <1>2, <1>3

\* A step leaves every record alone but that of the envelope in work.
LEMMA KeptStep ==
  ASSUME TypeOK, NEW k \in Envelopes, k \notin pending, [Next]_vars
  PROVE  kept'[k] = kept[k]
<1> USE EnvelopeSets, ChunksOfType, NoneApart, Bounds DEF TypeOK, spoolVars, storeVars,
      writerVars, ingestVars, retryVars, sweepVars, serveVars
<1>1. ASSUME NEW e \in Envelopes, Start(e) PROVE kept'[k] = kept[k]
  BY <1>1 DEF Start
<1>2. ASSUME NEW e \in Envelopes, NEW c \in ChunksOf[e], Skip(e, c) PROVE kept'[k] = kept[k]
  BY <1>2 DEF Skip
<1>3. ASSUME NEW e \in Envelopes, NEW c \in ChunksOf[e], Place(e, c) PROVE kept'[k] = kept[k]
  BY <1>3 DEF Place
<1>4. ASSUME NEW e \in Envelopes, NEW c \in ChunksOf[e], Look(e, c) PROVE kept'[k] = kept[k]
  BY <1>4 DEF Look
<1>5. ASSUME NEW e \in Envelopes, Touch(e) PROVE kept'[k] = kept[k]
  BY <1>5 DEF Touch
<1>6. ASSUME NEW e \in Envelopes, Name(e) PROVE kept'[k] = kept[k]
  BY <1>6 DEF Name
<1>7. ASSUME NEW e \in Envelopes, WriterDies(e) PROVE kept'[k] = kept[k]
  BY <1>7 DEF WriterDies
<1>8. ASSUME NEW e \in Envelopes, RetryDue(e) PROVE kept'[k] = kept[k]
  BY <1>8 DEF RetryDue
<1>9. ASSUME NEW c \in Chunks, Age(c) PROVE kept'[k] = kept[k]
  BY <1>9 DEF Age
<1>10. ASSUME ServeStarts PROVE kept'[k] = kept[k]
  BY <1>10 DEF ServeStarts
<1>11. ASSUME Drain PROVE kept'[k] = kept[k]
  BY <1>11 DEF Drain
<1>12. ASSUME NEW e \in Envelopes, Read(e) PROVE kept'[k] = kept[k]
  BY <1>12 DEF Read
<1>13. ASSUME NEW c \in Chunks, CopyChunk(c) PROVE kept'[k] = kept[k]
  BY <1>13 DEF CopyChunk
<1>14. ASSUME NEW c \in Chunks, ChunkMissing(c) PROVE kept'[k] = kept[k]
  BY <1>14 DEF ChunkMissing
<1>15. ASSUME ReplaySettled PROVE kept'[k] = kept[k]
  BY <1>15 DEF ReplaySettled, Recording
<1>16. ASSUME Record PROVE kept'[k] = kept[k]
  <2>1. cur \in Envelopes /\ cur # k
    BY <1>16 DEF Record, Recording
  <2> QED
    BY <1>16, <2>1, StoreSteps DEF Record
<1>17. ASSUME Refused PROVE kept'[k] = kept[k]
  BY <1>17 DEF Refused, Recording
<1>18. ASSUME Pause PROVE kept'[k] = kept[k]
  BY <1>18 DEF Pause, Ping
<1>19. ASSUME Fail PROVE kept'[k] = kept[k]
  BY <1>19 DEF Fail, Later, Ping, LastAttempt
<1>20. ASSUME MoveAside PROVE kept'[k] = kept[k]
  BY <1>20 DEF MoveAside, Ping, LastAttempt
<1>21. ASSUME Remove PROVE kept'[k] = kept[k]
  BY <1>21 DEF Remove
<1>22. ASSUME Sweep PROVE kept'[k] = kept[k]
  BY <1>22 DEF Sweep
<1>23. ASSUME Unlink PROVE kept'[k] = kept[k]
  BY <1>23 DEF Unlink
<1>24. ASSUME SweepEnd PROVE kept'[k] = kept[k]
  BY <1>24 DEF SweepEnd
<1>25. ASSUME NEW c \in Chunks, Stat(c) PROVE kept'[k] = kept[k]
  BY <1>25 DEF Stat
<1>26. ASSUME IngestFails PROVE kept'[k] = kept[k]
  BY <1>26 DEF IngestFails
<1>27. ASSUME StoreBreaks PROVE kept'[k] = kept[k]
  <2>1. cur \in Envelopes /\ cur # k
    BY <1>27 DEF StoreBreaks, Recording
  <2> QED
    BY <1>27, <2>1, StoreSteps DEF StoreBreaks
<1>28. ASSUME MoveFails PROVE kept'[k] = kept[k]
  BY <1>28 DEF MoveFails, Later, Ping, LastAttempt
<1>29. ASSUME ServeEnds PROVE kept'[k] = kept[k]
  <2>1. CASE UNCHANGED storeVars
    BY <2>1
  <2>2. CASE Recording /\ Store!TurnUp(cur, RecordOf)
    BY <2>2, StoreSteps DEF Recording
  <2> QED
    BY <1>29, <2>1, <2>2 DEF ServeEnds
<1>30. ASSUME UNCHANGED vars PROVE kept'[k] = kept[k]
  BY <1>30 DEF vars
<1>31. ASSUME NEW c \in Chunks, ChunkUnread(c) PROVE kept'[k] = kept[k]
  BY <1>31 DEF ChunkUnread
<1> QED
  BY <1>1, <1>2, <1>3, <1>4, <1>5, <1>6, <1>7, <1>8, <1>9, <1>10, <1>11, <1>12,
     <1>13, <1>14, <1>15, <1>16, <1>17, <1>18, <1>19, <1>20, <1>21, <1>22, <1>23,
     <1>24, <1>25, <1>26, <1>27, <1>28, <1>29, <1>30, <1>31 DEF Next, WriterStep,
     IngestStep

\* A step keeps a writer dead, an envelope in failed/, and one whose writer is done and
\* that is not in the spool out of it.
LEMMA LeftStep ==
  ASSUME TypeOK, NEW k \in Envelopes, [Next]_vars
  PROVE  /\ write[k] \in {"dead", "done"} => write'[k] = write[k]
         /\ k \in failed => k \in failed'
         /\ k \notin pending /\ write[k] = "done" => k \notin pending'
<1> DEFINE Goal ==
      /\ write[k] \in {"dead", "done"} => write'[k] = write[k]
      /\ k \in failed => k \in failed'
      /\ k \notin pending /\ write[k] = "done" => k \notin pending'
<1> USE EnvelopeSets, ChunksOfType, NoneApart, Bounds DEF TypeOK, spoolVars, storeVars,
      writerVars, ingestVars, retryVars, sweepVars, serveVars, Writing
<1>1. ASSUME NEW e \in Envelopes, Start(e) PROVE Goal
  BY <1>1 DEF Start
<1>2. ASSUME NEW e \in Envelopes, NEW c \in ChunksOf[e], Skip(e, c) PROVE Goal
  BY <1>2 DEF Skip
<1>3. ASSUME NEW e \in Envelopes, NEW c \in ChunksOf[e], Place(e, c) PROVE Goal
  BY <1>3 DEF Place
<1>4. ASSUME NEW e \in Envelopes, NEW c \in ChunksOf[e], Look(e, c) PROVE Goal
  BY <1>4 DEF Look
<1>5. ASSUME NEW e \in Envelopes, Touch(e) PROVE Goal
  BY <1>5 DEF Touch
<1>6. ASSUME NEW e \in Envelopes, Name(e) PROVE Goal
  BY <1>6 DEF Name
<1>7. ASSUME NEW e \in Envelopes, WriterDies(e) PROVE Goal
  BY <1>7 DEF WriterDies
<1>8. ASSUME NEW e \in Envelopes, RetryDue(e) PROVE Goal
  BY <1>8 DEF RetryDue
<1>9. ASSUME NEW c \in Chunks, Age(c) PROVE Goal
  BY <1>9 DEF Age
<1>10. ASSUME ServeStarts PROVE Goal
  BY <1>10 DEF ServeStarts
<1>11. ASSUME Drain PROVE Goal
  BY <1>11 DEF Drain
<1>12. ASSUME NEW e \in Envelopes, Read(e) PROVE Goal
  BY <1>12 DEF Read
<1>13. ASSUME NEW c \in Chunks, CopyChunk(c) PROVE Goal
  BY <1>13 DEF CopyChunk
<1>14. ASSUME NEW c \in Chunks, ChunkMissing(c) PROVE Goal
  BY <1>14 DEF ChunkMissing
<1>15. ASSUME ReplaySettled PROVE Goal
  BY <1>15 DEF ReplaySettled, Recording
<1>16. ASSUME Record PROVE Goal
  BY <1>16 DEF Record, Recording
<1>17. ASSUME Refused PROVE Goal
  BY <1>17 DEF Refused, Recording
<1>18. ASSUME Pause PROVE Goal
  BY <1>18 DEF Pause, Ping
<1>19. ASSUME Fail PROVE Goal
  BY <1>19 DEF Fail, Later, Ping, LastAttempt
<1>20. ASSUME MoveAside PROVE Goal
  BY <1>20 DEF MoveAside, Ping, LastAttempt
<1>21. ASSUME Remove PROVE Goal
  BY <1>21 DEF Remove
<1>22. ASSUME Sweep PROVE Goal
  BY <1>22 DEF Sweep
<1>23. ASSUME Unlink PROVE Goal
  BY <1>23 DEF Unlink
<1>24. ASSUME SweepEnd PROVE Goal
  BY <1>24 DEF SweepEnd
<1>25. ASSUME NEW c \in Chunks, Stat(c) PROVE Goal
  BY <1>25 DEF Stat
<1>26. ASSUME IngestFails PROVE Goal
  BY <1>26 DEF IngestFails
<1>27. ASSUME StoreBreaks PROVE Goal
  BY <1>27 DEF StoreBreaks, Recording
<1>28. ASSUME MoveFails PROVE Goal
  BY <1>28 DEF MoveFails, Later, Ping, LastAttempt
<1>29. ASSUME ServeEnds PROVE Goal
  BY <1>29 DEF ServeEnds, Recording
<1>30. ASSUME UNCHANGED vars PROVE Goal
  BY <1>30 DEF vars
<1>31. ASSUME NEW c \in Chunks, ChunkUnread(c) PROVE Goal
  BY <1>31 DEF ChunkUnread
<1>32. Goal
  <2> HIDE DEF Goal
  <2> QED
    BY <1>1, <1>2, <1>3, <1>4, <1>5, <1>6, <1>7, <1>8, <1>9, <1>10, <1>11, <1>12,
       <1>13, <1>14, <1>15, <1>16, <1>17, <1>18, <1>19, <1>20, <1>21, <1>22, <1>23,
       <1>24, <1>25, <1>26, <1>27, <1>28, <1>29, <1>30, <1>31 DEF Next, WriterStep,
       IngestStep
<1> QED
  BY ONLY <1>32

\* A step keeps the types.
LEMMA TypeStep ==
  ASSUME TypeOK, BatchInv, AttemptsInv, [Next]_vars
  PROVE  TypeOK'
<1> USE EnvelopeSets, ChunksOfType, NoneApart, Bounds DEF TypeOK, spoolVars, storeVars,
      writerVars, ingestVars, retryVars, sweepVars, serveVars, Ingesting, BatchInv, AttemptsInv
<1>1. ASSUME NEW e \in Envelopes, Start(e) PROVE TypeOK'
  BY <1>1 DEF Start
<1>2. ASSUME NEW e \in Envelopes, NEW c \in ChunksOf[e], Skip(e, c) PROVE TypeOK'
  BY <1>2 DEF Skip
<1>3. ASSUME NEW e \in Envelopes, NEW c \in ChunksOf[e], Place(e, c) PROVE TypeOK'
  BY <1>3 DEF Place
<1>4. ASSUME NEW e \in Envelopes, NEW c \in ChunksOf[e], Look(e, c) PROVE TypeOK'
  BY <1>4 DEF Look
<1>5. ASSUME NEW e \in Envelopes, Touch(e) PROVE TypeOK'
  BY <1>5 DEF Touch
<1>6. ASSUME NEW e \in Envelopes, Name(e) PROVE TypeOK'
  BY <1>6 DEF Name
<1>7. ASSUME NEW e \in Envelopes, WriterDies(e) PROVE TypeOK'
  BY <1>7 DEF WriterDies
<1>8. ASSUME NEW e \in Envelopes, RetryDue(e) PROVE TypeOK'
  BY <1>8 DEF RetryDue
<1>9. ASSUME NEW c \in Chunks, Age(c) PROVE TypeOK'
  BY <1>9 DEF Age
<1>10. ASSUME ServeStarts PROVE TypeOK'
  BY <1>10 DEF ServeStarts
<1>11. ASSUME Drain PROVE TypeOK'
  BY <1>11 DEF Drain
<1>12. ASSUME NEW e \in Envelopes, Read(e) PROVE TypeOK'
  BY <1>12 DEF Read
<1>13. ASSUME NEW c \in Chunks, CopyChunk(c) PROVE TypeOK'
  BY <1>13 DEF CopyChunk
<1>14. ASSUME NEW c \in Chunks, ChunkMissing(c) PROVE TypeOK'
  BY <1>14 DEF ChunkMissing
<1>15. ASSUME ReplaySettled PROVE TypeOK'
  BY <1>15 DEF ReplaySettled, Recording
<1>16. ASSUME Record PROVE TypeOK'
  <2>1. cur \in Envelopes
    BY <1>16 DEF Record, Recording
  <2>2. kept' \in [Envelopes -> (SUBSET Chunks) \cup {None}] /\ loose' \in SUBSET Envelopes
    BY <1>16, <2>1, StoreSteps DEF Record
  <2> QED
    BY <1>16, <2>2 DEF Record, Recording
<1>17. ASSUME Refused PROVE TypeOK'
  BY <1>17 DEF Refused, Recording
<1>18. ASSUME Pause PROVE TypeOK'
  BY <1>18 DEF Pause, Ping
<1>19. ASSUME Fail PROVE TypeOK'
  BY <1>19 DEF Fail, Later, Ping, LastAttempt
<1>20. ASSUME MoveAside PROVE TypeOK'
  BY <1>20 DEF MoveAside, Ping, LastAttempt
<1>21. ASSUME Remove PROVE TypeOK'
  BY <1>21 DEF Remove
<1>22. ASSUME Sweep PROVE TypeOK'
  BY <1>22 DEF Sweep
<1>23. ASSUME Unlink PROVE TypeOK'
  BY <1>23 DEF Unlink
<1>24. ASSUME SweepEnd PROVE TypeOK'
  BY <1>24 DEF SweepEnd
<1>25. ASSUME NEW c \in Chunks, Stat(c) PROVE TypeOK'
  BY <1>25 DEF Stat
<1>26. ASSUME IngestFails PROVE TypeOK'
  BY <1>26 DEF IngestFails
<1>27. ASSUME StoreBreaks PROVE TypeOK'
  <2>1. cur \in Envelopes
    BY <1>27 DEF StoreBreaks, Recording
  <2>2. kept' \in [Envelopes -> (SUBSET Chunks) \cup {None}] /\ loose' \in SUBSET Envelopes
    BY <1>27, <2>1, StoreSteps DEF StoreBreaks
  <2>3. /\ stage' = "fail" /\ broken' = cur /\ faults' = faults + 1 /\ faults < MaxFaults
        /\ UNCHANGED <<spoolVars, objects, writerVars, ingestVars, retryVars, sweepVars, crashes>>
        /\ stage = "copy"
    BY <1>27 DEF StoreBreaks, Recording
  <2> QED
    BY <2>1, <2>2, <2>3
<1>28. ASSUME MoveFails PROVE TypeOK'
  BY <1>28 DEF MoveFails, Later, Ping, LastAttempt
<1>29. ASSUME ServeEnds PROVE TypeOK'
  <2>1. kept' \in [Envelopes -> (SUBSET Chunks) \cup {None}] /\ loose' \in SUBSET Envelopes
    <3>1. CASE UNCHANGED storeVars
      BY <3>1
    <3>2. CASE Recording /\ Store!TurnUp(cur, RecordOf)
      BY <3>2, StoreSteps DEF Recording
    <3> QED
      BY <1>29, <3>1, <3>2 DEF ServeEnds
  <2>2. /\ stage' = "down" /\ batch' = {} /\ cur' = None /\ copy' = {} /\ lost' = {}
        /\ attempts' = [e \in Envelopes |-> 0] /\ waiting' = {} /\ sweep' = {}
        /\ doomed' = None /\ broken' = None /\ crashes < MaxCrashes /\ crashes' = crashes + 1
        /\ UNCHANGED <<spoolVars, objects, writerVars, faults>>
    BY <1>29 DEF ServeEnds
  <2> QED
    BY <2>1, <2>2
<1>30. ASSUME UNCHANGED vars PROVE TypeOK'
  BY <1>30 DEF vars
<1>31. ASSUME NEW c \in Chunks, ChunkUnread(c) PROVE TypeOK'
  BY <1>31 DEF ChunkUnread
<1> QED
  BY <1>1, <1>2, <1>3, <1>4, <1>5, <1>6, <1>7, <1>8, <1>9, <1>10, <1>11, <1>12,
     <1>13, <1>14, <1>15, <1>16, <1>17, <1>18, <1>19, <1>20, <1>21, <1>22, <1>23,
     <1>24, <1>25, <1>26, <1>27, <1>28, <1>29, <1>30, <1>31 DEF Next, WriterStep,
     IngestStep

\* A step keeps a batch to what is in the spool and not in work (run.go drain, ingest).
LEMMA BatchStep ==
  ASSUME TypeOK, BatchInv, [Next]_vars
  PROVE  BatchInv'
<1> USE EnvelopeSets, ChunksOfType, NoneApart, Bounds DEF TypeOK, spoolVars, storeVars,
      writerVars, ingestVars, retryVars, sweepVars, serveVars, Ingesting, BatchInv
<1>1. ASSUME NEW e \in Envelopes, Start(e) PROVE BatchInv'
  BY <1>1 DEF Start
<1>2. ASSUME NEW e \in Envelopes, NEW c \in ChunksOf[e], Skip(e, c) PROVE BatchInv'
  BY <1>2 DEF Skip
<1>3. ASSUME NEW e \in Envelopes, NEW c \in ChunksOf[e], Place(e, c) PROVE BatchInv'
  BY <1>3 DEF Place
<1>4. ASSUME NEW e \in Envelopes, NEW c \in ChunksOf[e], Look(e, c) PROVE BatchInv'
  BY <1>4 DEF Look
<1>5. ASSUME NEW e \in Envelopes, Touch(e) PROVE BatchInv'
  BY <1>5 DEF Touch
<1>6. ASSUME NEW e \in Envelopes, Name(e) PROVE BatchInv'
  BY <1>6 DEF Name
<1>7. ASSUME NEW e \in Envelopes, WriterDies(e) PROVE BatchInv'
  BY <1>7 DEF WriterDies
<1>8. ASSUME NEW e \in Envelopes, RetryDue(e) PROVE BatchInv'
  BY <1>8 DEF RetryDue
<1>9. ASSUME NEW c \in Chunks, Age(c) PROVE BatchInv'
  BY <1>9 DEF Age
<1>10. ASSUME ServeStarts PROVE BatchInv'
  BY <1>10 DEF ServeStarts
<1>11. ASSUME Drain PROVE BatchInv'
  BY <1>11 DEF Drain
<1>12. ASSUME NEW e \in Envelopes, Read(e) PROVE BatchInv'
  BY <1>12 DEF Read
<1>13. ASSUME NEW c \in Chunks, CopyChunk(c) PROVE BatchInv'
  BY <1>13 DEF CopyChunk
<1>14. ASSUME NEW c \in Chunks, ChunkMissing(c) PROVE BatchInv'
  BY <1>14 DEF ChunkMissing
<1>15. ASSUME ReplaySettled PROVE BatchInv'
  BY <1>15 DEF ReplaySettled, Recording
<1>16. ASSUME Record PROVE BatchInv'
  BY <1>16 DEF Record, Recording
<1>17. ASSUME Refused PROVE BatchInv'
  BY <1>17 DEF Refused, Recording
<1>18. ASSUME Pause PROVE BatchInv'
  BY <1>18 DEF Pause, Ping
<1>19. ASSUME Fail PROVE BatchInv'
  BY <1>19 DEF Fail, Later, Ping, LastAttempt
<1>20. ASSUME MoveAside PROVE BatchInv'
  BY <1>20 DEF MoveAside, Ping, LastAttempt
<1>21. ASSUME Remove PROVE BatchInv'
  BY <1>21 DEF Remove
<1>22. ASSUME Sweep PROVE BatchInv'
  BY <1>22 DEF Sweep
<1>23. ASSUME Unlink PROVE BatchInv'
  BY <1>23 DEF Unlink
<1>24. ASSUME SweepEnd PROVE BatchInv'
  BY <1>24 DEF SweepEnd
<1>25. ASSUME NEW c \in Chunks, Stat(c) PROVE BatchInv'
  BY <1>25 DEF Stat
<1>26. ASSUME IngestFails PROVE BatchInv'
  BY <1>26 DEF IngestFails
<1>27. ASSUME StoreBreaks PROVE BatchInv'
  BY <1>27 DEF StoreBreaks, Recording
<1>28. ASSUME MoveFails PROVE BatchInv'
  BY <1>28 DEF MoveFails, Later, Ping, LastAttempt
<1>29. ASSUME ServeEnds PROVE BatchInv'
  BY <1>29 DEF ServeEnds, Recording
<1>30. ASSUME UNCHANGED vars PROVE BatchInv'
  BY <1>30 DEF vars
<1>31. ASSUME NEW c \in Chunks, ChunkUnread(c) PROVE BatchInv'
  BY <1>31 DEF ChunkUnread
<1> QED
  BY <1>1, <1>2, <1>3, <1>4, <1>5, <1>6, <1>7, <1>8, <1>9, <1>10, <1>11, <1>12,
     <1>13, <1>14, <1>15, <1>16, <1>17, <1>18, <1>19, <1>20, <1>21, <1>22, <1>23,
     <1>24, <1>25, <1>26, <1>27, <1>28, <1>29, <1>30, <1>31 DEF Next, WriterStep,
     IngestStep

\* A step counts no attempt past the last but for a fault (run.go fail).
LEMMA AttemptsStep ==
  ASSUME TypeOK, AttemptsInv, [Next]_vars
  PROVE  AttemptsInv'
<1> USE EnvelopeSets, ChunksOfType, NoneApart, Bounds DEF TypeOK, spoolVars, storeVars,
      writerVars, ingestVars, retryVars, sweepVars, serveVars, Ingesting, AttemptsInv
<1>1. ASSUME NEW e \in Envelopes, Start(e) PROVE AttemptsInv'
  BY <1>1 DEF Start
<1>2. ASSUME NEW e \in Envelopes, NEW c \in ChunksOf[e], Skip(e, c) PROVE AttemptsInv'
  BY <1>2 DEF Skip
<1>3. ASSUME NEW e \in Envelopes, NEW c \in ChunksOf[e], Place(e, c) PROVE AttemptsInv'
  BY <1>3 DEF Place
<1>4. ASSUME NEW e \in Envelopes, NEW c \in ChunksOf[e], Look(e, c) PROVE AttemptsInv'
  BY <1>4 DEF Look
<1>5. ASSUME NEW e \in Envelopes, Touch(e) PROVE AttemptsInv'
  BY <1>5 DEF Touch
<1>6. ASSUME NEW e \in Envelopes, Name(e) PROVE AttemptsInv'
  BY <1>6 DEF Name
<1>7. ASSUME NEW e \in Envelopes, WriterDies(e) PROVE AttemptsInv'
  BY <1>7 DEF WriterDies
<1>8. ASSUME NEW e \in Envelopes, RetryDue(e) PROVE AttemptsInv'
  BY <1>8 DEF RetryDue
<1>9. ASSUME NEW c \in Chunks, Age(c) PROVE AttemptsInv'
  BY <1>9 DEF Age
<1>10. ASSUME ServeStarts PROVE AttemptsInv'
  BY <1>10 DEF ServeStarts
<1>11. ASSUME Drain PROVE AttemptsInv'
  BY <1>11 DEF Drain
<1>12. ASSUME NEW e \in Envelopes, Read(e) PROVE AttemptsInv'
  BY <1>12 DEF Read
<1>13. ASSUME NEW c \in Chunks, CopyChunk(c) PROVE AttemptsInv'
  BY <1>13 DEF CopyChunk
<1>14. ASSUME NEW c \in Chunks, ChunkMissing(c) PROVE AttemptsInv'
  BY <1>14 DEF ChunkMissing
<1>15. ASSUME ReplaySettled PROVE AttemptsInv'
  BY <1>15 DEF ReplaySettled, Recording
<1>16. ASSUME Record PROVE AttemptsInv'
  BY <1>16 DEF Record, Recording
<1>17. ASSUME Refused PROVE AttemptsInv'
  BY <1>17 DEF Refused, Recording
<1>18. ASSUME Pause PROVE AttemptsInv'
  BY <1>18 DEF Pause, Ping
<1>19. ASSUME Fail PROVE AttemptsInv'
  BY <1>19 DEF Fail, Later, Ping, LastAttempt
<1>20. ASSUME MoveAside PROVE AttemptsInv'
  BY <1>20 DEF MoveAside, Ping, LastAttempt
<1>21. ASSUME Remove PROVE AttemptsInv'
  BY <1>21 DEF Remove
<1>22. ASSUME Sweep PROVE AttemptsInv'
  BY <1>22 DEF Sweep
<1>23. ASSUME Unlink PROVE AttemptsInv'
  BY <1>23 DEF Unlink
<1>24. ASSUME SweepEnd PROVE AttemptsInv'
  BY <1>24 DEF SweepEnd
<1>25. ASSUME NEW c \in Chunks, Stat(c) PROVE AttemptsInv'
  BY <1>25 DEF Stat
<1>26. ASSUME IngestFails PROVE AttemptsInv'
  BY <1>26 DEF IngestFails
<1>27. ASSUME StoreBreaks PROVE AttemptsInv'
  BY <1>27 DEF StoreBreaks, Recording
<1>28. ASSUME MoveFails PROVE AttemptsInv'
  BY <1>28 DEF MoveFails, Later, Ping, LastAttempt
<1>29. ASSUME ServeEnds PROVE AttemptsInv'
  BY <1>29 DEF ServeEnds, Recording
<1>30. ASSUME UNCHANGED vars PROVE AttemptsInv'
  BY <1>30 DEF vars
<1>31. ASSUME NEW c \in Chunks, ChunkUnread(c) PROVE AttemptsInv'
  BY <1>31 DEF ChunkUnread
<1> QED
  BY <1>1, <1>2, <1>3, <1>4, <1>5, <1>6, <1>7, <1>8, <1>9, <1>10, <1>11, <1>12,
     <1>13, <1>14, <1>15, <1>16, <1>17, <1>18, <1>19, <1>20, <1>21, <1>22, <1>23,
     <1>24, <1>25, <1>26, <1>27, <1>28, <1>29, <1>30, <1>31 DEF Next, WriterStep,
     IngestStep

\* A step names only envelopes whose chunks are put, and moves each to one place
\* (writer.go Write, reader.go Remove, run.go moveAside).
LEMMA WrittenStep ==
  ASSUME TypeOK, BatchInv, WrittenInv, [Next]_vars
  PROVE  WrittenInv'
<1> USE EnvelopeSets, ChunksOfType, NoneApart, Bounds DEF TypeOK, spoolVars, storeVars,
      writerVars, ingestVars, retryVars, sweepVars, serveVars, Ingesting, BatchInv, WrittenInv,
      Writing
<1>1. ASSUME NEW e \in Envelopes, Start(e) PROVE WrittenInv'
  BY <1>1 DEF Start
<1>2. ASSUME NEW e \in Envelopes, NEW c \in ChunksOf[e], Skip(e, c) PROVE WrittenInv'
  BY <1>2 DEF Skip
<1>3. ASSUME NEW e \in Envelopes, NEW c \in ChunksOf[e], Place(e, c) PROVE WrittenInv'
  BY <1>3 DEF Place
<1>4. ASSUME NEW e \in Envelopes, NEW c \in ChunksOf[e], Look(e, c) PROVE WrittenInv'
  BY <1>4 DEF Look
<1>5. ASSUME NEW e \in Envelopes, Touch(e) PROVE WrittenInv'
  BY <1>5 DEF Touch
<1>6. ASSUME NEW e \in Envelopes, Name(e) PROVE WrittenInv'
  BY <1>6 DEF Name
<1>7. ASSUME NEW e \in Envelopes, WriterDies(e) PROVE WrittenInv'
  BY <1>7 DEF WriterDies
<1>8. ASSUME NEW e \in Envelopes, RetryDue(e) PROVE WrittenInv'
  BY <1>8 DEF RetryDue
<1>9. ASSUME NEW c \in Chunks, Age(c) PROVE WrittenInv'
  BY <1>9 DEF Age
<1>10. ASSUME ServeStarts PROVE WrittenInv'
  BY <1>10 DEF ServeStarts
<1>11. ASSUME Drain PROVE WrittenInv'
  BY <1>11 DEF Drain
<1>12. ASSUME NEW e \in Envelopes, Read(e) PROVE WrittenInv'
  BY <1>12 DEF Read
<1>13. ASSUME NEW c \in Chunks, CopyChunk(c) PROVE WrittenInv'
  BY <1>13 DEF CopyChunk
<1>14. ASSUME NEW c \in Chunks, ChunkMissing(c) PROVE WrittenInv'
  BY <1>14 DEF ChunkMissing
<1>15. ASSUME ReplaySettled PROVE WrittenInv'
  BY <1>15 DEF ReplaySettled, Recording
<1>16. ASSUME Record PROVE WrittenInv'
  BY <1>16 DEF Record, Recording
<1>17. ASSUME Refused PROVE WrittenInv'
  BY <1>17 DEF Refused, Recording
<1>18. ASSUME Pause PROVE WrittenInv'
  BY <1>18 DEF Pause, Ping
<1>19. ASSUME Fail PROVE WrittenInv'
  BY <1>19 DEF Fail, Later, Ping, LastAttempt
<1>20. ASSUME MoveAside PROVE WrittenInv'
  BY <1>20 DEF MoveAside, Ping, LastAttempt
<1>21. ASSUME Remove PROVE WrittenInv'
  BY <1>21 DEF Remove
<1>22. ASSUME Sweep PROVE WrittenInv'
  BY <1>22 DEF Sweep
<1>23. ASSUME Unlink PROVE WrittenInv'
  BY <1>23 DEF Unlink
<1>24. ASSUME SweepEnd PROVE WrittenInv'
  BY <1>24 DEF SweepEnd
<1>25. ASSUME NEW c \in Chunks, Stat(c) PROVE WrittenInv'
  BY <1>25 DEF Stat
<1>26. ASSUME IngestFails PROVE WrittenInv'
  BY <1>26 DEF IngestFails
<1>27. ASSUME StoreBreaks PROVE WrittenInv'
  BY <1>27 DEF StoreBreaks, Recording
<1>28. ASSUME MoveFails PROVE WrittenInv'
  BY <1>28 DEF MoveFails, Later, Ping, LastAttempt
<1>29. ASSUME ServeEnds PROVE WrittenInv'
  BY <1>29 DEF ServeEnds, Recording
<1>30. ASSUME UNCHANGED vars PROVE WrittenInv'
  BY <1>30 DEF vars
<1>31. ASSUME NEW c \in Chunks, ChunkUnread(c) PROVE WrittenInv'
  BY <1>31 DEF ChunkUnread
<1> QED
  BY <1>1, <1>2, <1>3, <1>4, <1>5, <1>6, <1>7, <1>8, <1>9, <1>10, <1>11, <1>12,
     <1>13, <1>14, <1>15, <1>16, <1>17, <1>18, <1>19, <1>20, <1>21, <1>22, <1>23,
     <1>24, <1>25, <1>26, <1>27, <1>28, <1>29, <1>30, <1>31 DEF Next, WriterStep,
     IngestStep

\* A step takes an envelope from the spool only with its record in the store.
LEMMA NotLostStep ==
  ASSUME TypeOK, BatchInv, WrittenInv, RecordedInv, WrittenNotLost, [Next]_vars
  PROVE  RecordedInv' /\ WrittenNotLost'
<1> USE EnvelopeSets, ChunksOfType, NoneApart, Bounds DEF TypeOK, spoolVars, storeVars,
      writerVars, ingestVars, retryVars, sweepVars, serveVars, Ingesting, BatchInv, WrittenInv,
      RecordedInv, WrittenNotLost, Recorded, Writing
<1>1. ASSUME NEW e \in Envelopes, Start(e) PROVE RecordedInv' /\ WrittenNotLost'
  BY <1>1 DEF Start
<1>2. ASSUME NEW e \in Envelopes, NEW c \in ChunksOf[e], Skip(e, c)
      PROVE RecordedInv' /\ WrittenNotLost'
  BY <1>2 DEF Skip
<1>3. ASSUME NEW e \in Envelopes, NEW c \in ChunksOf[e], Place(e, c)
      PROVE RecordedInv' /\ WrittenNotLost'
  BY <1>3 DEF Place
<1>4. ASSUME NEW e \in Envelopes, NEW c \in ChunksOf[e], Look(e, c)
      PROVE RecordedInv' /\ WrittenNotLost'
  BY <1>4 DEF Look
<1>5. ASSUME NEW e \in Envelopes, Touch(e) PROVE RecordedInv' /\ WrittenNotLost'
  BY <1>5 DEF Touch
<1>6. ASSUME NEW e \in Envelopes, Name(e) PROVE RecordedInv' /\ WrittenNotLost'
  BY <1>6 DEF Name
<1>7. ASSUME NEW e \in Envelopes, WriterDies(e) PROVE RecordedInv' /\ WrittenNotLost'
  BY <1>7 DEF WriterDies
<1>8. ASSUME NEW e \in Envelopes, RetryDue(e) PROVE RecordedInv' /\ WrittenNotLost'
  BY <1>8 DEF RetryDue
<1>9. ASSUME NEW c \in Chunks, Age(c) PROVE RecordedInv' /\ WrittenNotLost'
  BY <1>9 DEF Age
<1>10. ASSUME ServeStarts PROVE RecordedInv' /\ WrittenNotLost'
  BY <1>10 DEF ServeStarts
<1>11. ASSUME Drain PROVE RecordedInv' /\ WrittenNotLost'
  BY <1>11 DEF Drain
<1>12. ASSUME NEW e \in Envelopes, Read(e) PROVE RecordedInv' /\ WrittenNotLost'
  BY <1>12 DEF Read
<1>13. ASSUME NEW c \in Chunks, CopyChunk(c) PROVE RecordedInv' /\ WrittenNotLost'
  BY <1>13 DEF CopyChunk
<1>14. ASSUME NEW c \in Chunks, ChunkMissing(c) PROVE RecordedInv' /\ WrittenNotLost'
  BY <1>14 DEF ChunkMissing
<1>15. ASSUME ReplaySettled PROVE RecordedInv' /\ WrittenNotLost'
  <2>1. cur \in Envelopes
    BY <1>15 DEF ReplaySettled, Recording
  <2> QED
    BY <1>15, <2>1, RecordOfType DEF ReplaySettled, Settled
<1>16. ASSUME Record PROVE RecordedInv' /\ WrittenNotLost'
  <2>1. cur \in Envelopes /\ write[cur] = "done"
    BY <1>16 DEF Record, Recording
  <2>2. kept'[cur] # None /\ \A e \in Envelopes \ {cur} : kept'[e] = kept[e]
    BY <1>16, <2>1, StoreSteps, RecordOfType DEF Record
  <2> QED
    BY <1>16, <2>1, <2>2 DEF Record
<1>17. ASSUME Refused PROVE RecordedInv' /\ WrittenNotLost'
  BY <1>17 DEF Refused, Recording
<1>18. ASSUME Pause PROVE RecordedInv' /\ WrittenNotLost'
  BY <1>18 DEF Pause, Ping
<1>19. ASSUME Fail PROVE RecordedInv' /\ WrittenNotLost'
  BY <1>19 DEF Fail, Later, Ping, LastAttempt
<1>20. ASSUME MoveAside PROVE RecordedInv' /\ WrittenNotLost'
  BY <1>20 DEF MoveAside, Ping, LastAttempt
<1>21. ASSUME Remove PROVE RecordedInv' /\ WrittenNotLost'
  BY <1>21 DEF Remove
<1>22. ASSUME Sweep PROVE RecordedInv' /\ WrittenNotLost'
  BY <1>22 DEF Sweep
<1>23. ASSUME Unlink PROVE RecordedInv' /\ WrittenNotLost'
  BY <1>23 DEF Unlink
<1>24. ASSUME SweepEnd PROVE RecordedInv' /\ WrittenNotLost'
  BY <1>24 DEF SweepEnd
<1>25. ASSUME NEW c \in Chunks, Stat(c) PROVE RecordedInv' /\ WrittenNotLost'
  BY <1>25 DEF Stat
<1>26. ASSUME IngestFails PROVE RecordedInv' /\ WrittenNotLost'
  BY <1>26 DEF IngestFails
<1>27. ASSUME StoreBreaks PROVE RecordedInv' /\ WrittenNotLost'
  <2>1. cur \in Envelopes /\ write[cur] = "done"
    BY <1>27 DEF StoreBreaks, Recording
  <2>2. \A e \in Envelopes : /\ Recorded(e) => kept'[e] # None
                             /\ kept'[e] # None => write[e] = "done"
    BY <1>27, <2>1, StoreSteps, RecordOfType DEF StoreBreaks
  <2> QED
    BY <1>27, <2>2 DEF StoreBreaks, Recording
<1>28. ASSUME MoveFails PROVE RecordedInv' /\ WrittenNotLost'
  BY <1>28 DEF MoveFails, Later, Ping, LastAttempt
<1>29. ASSUME ServeEnds PROVE RecordedInv' /\ WrittenNotLost'
  <2>1. \A e \in Envelopes : /\ Recorded(e) => kept'[e] # None
                             /\ kept'[e] # None => write[e] = "done"
    <3>1. CASE UNCHANGED storeVars
      BY <3>1
    <3>2. CASE Recording /\ Store!TurnUp(cur, RecordOf)
      <4>1. cur \in Envelopes /\ write[cur] = "done"
        BY <3>2 DEF Recording
      <4> QED
        BY <3>2, <4>1, StoreSteps, RecordOfType DEF Recording
    <3> QED
      BY <1>29, <3>1, <3>2 DEF ServeEnds
  <2> QED
    BY <1>29, <2>1 DEF ServeEnds
<1>30. ASSUME UNCHANGED vars PROVE RecordedInv' /\ WrittenNotLost'
  BY <1>30 DEF vars
<1>31. ASSUME NEW c \in Chunks, ChunkUnread(c) PROVE RecordedInv' /\ WrittenNotLost'
  BY <1>31 DEF ChunkUnread
<1> QED
  BY <1>1, <1>2, <1>3, <1>4, <1>5, <1>6, <1>7, <1>8, <1>9, <1>10, <1>11, <1>12,
     <1>13, <1>14, <1>15, <1>16, <1>17, <1>18, <1>19, <1>20, <1>21, <1>22, <1>23,
     <1>24, <1>25, <1>26, <1>27, <1>28, <1>29, <1>30, <1>31 DEF Next, WriterStep,
     IngestStep

\* A step records no content that was not copied, except what was there already.
LEMMA WholeStep ==
  ASSUME TypeOK, BatchInv, CopiedInv, RecordsWhole, [Next]_vars
  PROVE  CopiedInv' /\ RecordsWhole'
<1> USE EnvelopeSets, ChunksOfType, NoneApart, Bounds DEF TypeOK, spoolVars, storeVars,
      writerVars, ingestVars, retryVars, sweepVars, serveVars, Ingesting, BatchInv, CopiedInv,
      RecordsWhole, Recorded
<1>1. ASSUME NEW e \in Envelopes, Start(e) PROVE CopiedInv' /\ RecordsWhole'
  BY <1>1 DEF Start
<1>2. ASSUME NEW e \in Envelopes, NEW c \in ChunksOf[e], Skip(e, c)
      PROVE CopiedInv' /\ RecordsWhole'
  BY <1>2 DEF Skip
<1>3. ASSUME NEW e \in Envelopes, NEW c \in ChunksOf[e], Place(e, c)
      PROVE CopiedInv' /\ RecordsWhole'
  BY <1>3 DEF Place
<1>4. ASSUME NEW e \in Envelopes, NEW c \in ChunksOf[e], Look(e, c)
      PROVE CopiedInv' /\ RecordsWhole'
  BY <1>4 DEF Look
<1>5. ASSUME NEW e \in Envelopes, Touch(e) PROVE CopiedInv' /\ RecordsWhole'
  BY <1>5 DEF Touch
<1>6. ASSUME NEW e \in Envelopes, Name(e) PROVE CopiedInv' /\ RecordsWhole'
  BY <1>6 DEF Name
<1>7. ASSUME NEW e \in Envelopes, WriterDies(e) PROVE CopiedInv' /\ RecordsWhole'
  BY <1>7 DEF WriterDies
<1>8. ASSUME NEW e \in Envelopes, RetryDue(e) PROVE CopiedInv' /\ RecordsWhole'
  BY <1>8 DEF RetryDue
<1>9. ASSUME NEW c \in Chunks, Age(c) PROVE CopiedInv' /\ RecordsWhole'
  BY <1>9 DEF Age
<1>10. ASSUME ServeStarts PROVE CopiedInv' /\ RecordsWhole'
  BY <1>10 DEF ServeStarts
<1>11. ASSUME Drain PROVE CopiedInv' /\ RecordsWhole'
  BY <1>11 DEF Drain
<1>12. ASSUME NEW e \in Envelopes, Read(e) PROVE CopiedInv' /\ RecordsWhole'
  BY <1>12 DEF Read
<1>13. ASSUME NEW c \in Chunks, CopyChunk(c) PROVE CopiedInv' /\ RecordsWhole'
  BY <1>13 DEF CopyChunk
<1>14. ASSUME NEW c \in Chunks, ChunkMissing(c) PROVE CopiedInv' /\ RecordsWhole'
  BY <1>14 DEF ChunkMissing
<1>15. ASSUME ReplaySettled PROVE CopiedInv' /\ RecordsWhole'
  BY <1>15 DEF ReplaySettled, Recording
<1>16. ASSUME Record PROVE CopiedInv' /\ RecordsWhole'
  <2>1. cur \in Envelopes
    BY <1>16 DEF Record, Recording
  <2>2. RecordOf \subseteq objects
    BY <1>16, <2>1 DEF Record, Recording, RecordOf
  <2> QED
    BY <1>16, <2>1, <2>2, StoreSteps, RecordOfType DEF Record, Recording
<1>17. ASSUME Refused PROVE CopiedInv' /\ RecordsWhole'
  BY <1>17 DEF Refused, Recording
<1>18. ASSUME Pause PROVE CopiedInv' /\ RecordsWhole'
  BY <1>18 DEF Pause, Ping
<1>19. ASSUME Fail PROVE CopiedInv' /\ RecordsWhole'
  BY <1>19 DEF Fail, Later, Ping, LastAttempt
<1>20. ASSUME MoveAside PROVE CopiedInv' /\ RecordsWhole'
  BY <1>20 DEF MoveAside, Ping, LastAttempt
<1>21. ASSUME Remove PROVE CopiedInv' /\ RecordsWhole'
  BY <1>21 DEF Remove
<1>22. ASSUME Sweep PROVE CopiedInv' /\ RecordsWhole'
  BY <1>22 DEF Sweep
<1>23. ASSUME Unlink PROVE CopiedInv' /\ RecordsWhole'
  BY <1>23 DEF Unlink
<1>24. ASSUME SweepEnd PROVE CopiedInv' /\ RecordsWhole'
  BY <1>24 DEF SweepEnd
<1>25. ASSUME NEW c \in Chunks, Stat(c) PROVE CopiedInv' /\ RecordsWhole'
  BY <1>25 DEF Stat
<1>26. ASSUME IngestFails PROVE CopiedInv' /\ RecordsWhole'
  BY <1>26 DEF IngestFails
<1>27. ASSUME StoreBreaks PROVE CopiedInv' /\ RecordsWhole'
  <2>1. cur \in Envelopes
    BY <1>27 DEF StoreBreaks, Recording
  <2>2. RecordOf \subseteq objects
    BY <1>27, <2>1 DEF StoreBreaks, Recording, RecordOf
  <2>3. \A e \in Envelopes : kept'[e] # None => kept'[e] \subseteq objects
    BY <1>27, <2>1, <2>2, StoreSteps, RecordOfType DEF StoreBreaks
  <2> QED
    BY <1>27, <2>3 DEF StoreBreaks, Recording
<1>28. ASSUME MoveFails PROVE CopiedInv' /\ RecordsWhole'
  BY <1>28 DEF MoveFails, Later, Ping, LastAttempt
<1>29. ASSUME ServeEnds PROVE CopiedInv' /\ RecordsWhole'
  <2>1. \A e \in Envelopes : kept'[e] # None => kept'[e] \subseteq objects
    <3>1. CASE UNCHANGED storeVars
      BY <3>1
    <3>2. CASE Recording /\ Store!TurnUp(cur, RecordOf)
      <4>1. RecordOf \subseteq objects /\ cur \in Envelopes
        BY <3>2 DEF Recording, RecordOf
      <4> QED
        BY <3>2, <4>1, StoreSteps DEF Recording
    <3> QED
      BY <1>29, <3>1, <3>2 DEF ServeEnds
  <2> QED
    BY <1>29, <2>1 DEF ServeEnds
<1>30. ASSUME UNCHANGED vars PROVE CopiedInv' /\ RecordsWhole'
  BY <1>30 DEF vars
<1>31. ASSUME NEW c \in Chunks, ChunkUnread(c) PROVE CopiedInv' /\ RecordsWhole'
  BY <1>31 DEF ChunkUnread
<1> QED
  BY <1>1, <1>2, <1>3, <1>4, <1>5, <1>6, <1>7, <1>8, <1>9, <1>10, <1>11, <1>12,
     <1>13, <1>14, <1>15, <1>16, <1>17, <1>18, <1>19, <1>20, <1>21, <1>22, <1>23,
     <1>24, <1>25, <1>26, <1>27, <1>28, <1>29, <1>30, <1>31 DEF Next, WriterStep,
     IngestStep

\* What an envelope has given up it has given up for good.
LEMMA GivenUpStays ==
  ASSUME TypeOK, RecordedInv, NEW e \in Envelopes, NEW c, GivenUp(e, c), [Next]_vars
  PROVE  GivenUp(e, c)'
<1>1. CASE write[e] = "dead" \/ e \in failed
  BY <1>1, LeftStep DEF GivenUp
<1>2. CASE e \notin pending /\ Recorded(e) /\ c \notin kept[e]
  <2>1. write[e] = "done" /\ kept'[e] = kept[e]
    BY <1>2, KeptStep DEF RecordedInv
  <2>2. e \notin pending'
    BY <1>2, <2>1, LeftStep
  <2> QED
    BY <1>2, <2>1, <2>2 DEF GivenUp, Recorded
<1> QED
  BY <1>1, <1>2 DEF GivenUp

\* So a chunk that somebody abandoned stays abandoned, and a spoiled envelope spoiled.
LEMMA AbandonedStays ==
  ASSUME TypeOK, RecordedInv, NEW k \in Chunks, Abandoned(k), [Next]_vars
  PROVE  Abandoned(k)'
<1>1. PICK e \in Envelopes : GivenUp(e, k)
  BY DEF Abandoned
<1>2. GivenUp(e, k)'
  BY <1>1, GivenUpStays
<1> QED
  BY <1>2 DEF Abandoned

LEMMA SpoiledStays ==
  ASSUME TypeOK, RecordedInv, NEW e \in Envelopes, Spoiled(e), [Next]_vars
  PROVE  Spoiled(e)'
<1>1. CASE e \in Poison
  BY <1>1 DEF Spoiled
<1>2. CASE e \in Edits /\ \E d \in Envelopes \ {e} : \E c \in ChunksOf[e] : GivenUp(d, c)
  <2>1. PICK d \in Envelopes \ {e}, c \in ChunksOf[e] : GivenUp(d, c)
    BY <1>2
  <2>2. GivenUp(d, c)'
    BY <2>1, GivenUpStays
  <2> QED
    BY <1>2, <2>1, <2>2 DEF Spoiled
<1> QED
  BY <1>1, <1>2 DEF Spoiled

\* A step keeps a chunk safe that nobody abandoned: a sweep lists, stats and unlinks
\* only what is in no object and pointed at by nobody who would miss it.
LEMMA ChunkSafeStep ==
  ASSUME TypeOK, BatchInv, WrittenInv, RecordedInv, RecordsWhole, NEW k \in Chunks,
         ~Abandoned(k), ~Abandoned(k)', ChunkSafe(k), [Next]_vars
  PROVE  ChunkSafe(k)'
<1> USE EnvelopeSets, ChunksOfType DEF TypeOK, spoolVars, storeVars, writerVars,
      ingestVars, retryVars, sweepVars, serveVars, Ingesting,
      BatchInv, WrittenInv, ChunkSafe, OldPointedAt, PutAvailable, Wanted, Available, Writing,
      Abandoned, GivenUp
<1>1. ASSUME NEW e \in Envelopes, Start(e) PROVE ChunkSafe(k)'
  BY <1>1 DEF Start
<1>2. ASSUME NEW e \in Envelopes, NEW c \in ChunksOf[e], Skip(e, c) PROVE ChunkSafe(k)'
  BY <1>2 DEF Skip
<1>3. ASSUME NEW e \in Envelopes, NEW c \in ChunksOf[e], Place(e, c) PROVE ChunkSafe(k)'
  BY <1>3 DEF Place
<1>4. ASSUME NEW e \in Envelopes, NEW c \in ChunksOf[e], Look(e, c) PROVE ChunkSafe(k)'
  BY <1>4 DEF Look
<1>5. ASSUME NEW e \in Envelopes, Touch(e) PROVE ChunkSafe(k)'
  BY <1>5 DEF Touch
<1>6. ASSUME NEW e \in Envelopes, Name(e) PROVE ChunkSafe(k)'
  BY <1>6 DEF Name
<1>7. ASSUME NEW e \in Envelopes, WriterDies(e) PROVE ChunkSafe(k)'
  BY <1>7 DEF WriterDies
<1>8. ASSUME NEW e \in Envelopes, RetryDue(e) PROVE ChunkSafe(k)'
  BY <1>8 DEF RetryDue
<1>9. ASSUME NEW c \in Chunks, Age(c) PROVE ChunkSafe(k)'
  BY <1>9 DEF Age
<1>10. ASSUME ServeStarts PROVE ChunkSafe(k)'
  BY <1>10 DEF ServeStarts
<1>11. ASSUME Drain PROVE ChunkSafe(k)'
  BY <1>11 DEF Drain
<1>12. ASSUME NEW e \in Envelopes, Read(e) PROVE ChunkSafe(k)'
  BY <1>12 DEF Read
<1>13. ASSUME NEW c \in Chunks, CopyChunk(c) PROVE ChunkSafe(k)'
  BY <1>13 DEF CopyChunk
<1>14. ASSUME NEW c \in Chunks, ChunkMissing(c) PROVE ChunkSafe(k)'
  BY <1>14 DEF ChunkMissing
<1>15. ASSUME ReplaySettled PROVE ChunkSafe(k)'
  BY <1>15 DEF ReplaySettled, Recording
<1>16. ASSUME Record PROVE ChunkSafe(k)'
  BY <1>16 DEF Record, Recording
<1>17. ASSUME Refused PROVE ChunkSafe(k)'
  BY <1>17 DEF Refused, Recording
<1>18. ASSUME Pause PROVE ChunkSafe(k)'
  BY <1>18 DEF Pause, Ping
<1>19. ASSUME Fail PROVE ChunkSafe(k)'
  BY <1>19 DEF Fail, Later, Ping, LastAttempt
<1>20. ASSUME MoveAside PROVE ChunkSafe(k)'
  BY <1>20 DEF MoveAside, Ping, LastAttempt
<1>21. ASSUME Remove PROVE ChunkSafe(k)'
  BY <1>21 DEF Remove, Recorded, RecordedInv, RecordsWhole
<1>22. ASSUME Sweep PROVE ChunkSafe(k)'
  BY <1>22 DEF Sweep, Referenced
<1>23. ASSUME Unlink PROVE ChunkSafe(k)'
  BY <1>23 DEF Unlink
<1>24. ASSUME SweepEnd PROVE ChunkSafe(k)'
  BY <1>24 DEF SweepEnd
<1>25. ASSUME NEW c \in Chunks, Stat(c) PROVE ChunkSafe(k)'
  BY <1>25 DEF Stat
<1>26. ASSUME IngestFails PROVE ChunkSafe(k)'
  BY <1>26 DEF IngestFails
<1>27. ASSUME StoreBreaks PROVE ChunkSafe(k)'
  BY <1>27 DEF StoreBreaks, Recording
<1>28. ASSUME MoveFails PROVE ChunkSafe(k)'
  BY <1>28 DEF MoveFails, Later, Ping, LastAttempt
<1>29. ASSUME ServeEnds PROVE ChunkSafe(k)'
  BY <1>29 DEF ServeEnds, Recording
<1>30. ASSUME UNCHANGED vars PROVE ChunkSafe(k)'
  BY <1>30 DEF vars
<1>31. ASSUME NEW c \in Chunks, ChunkUnread(c) PROVE ChunkSafe(k)'
  BY <1>31 DEF ChunkUnread
<1> QED
  BY <1>1, <1>2, <1>3, <1>4, <1>5, <1>6, <1>7, <1>8, <1>9, <1>10, <1>11, <1>12,
     <1>13, <1>14, <1>15, <1>16, <1>17, <1>18, <1>19, <1>20, <1>21, <1>22, <1>23,
     <1>24, <1>25, <1>26, <1>27, <1>28, <1>29, <1>30, <1>31 DEF Next, WriterStep,
     IngestStep

\* A step keeps every chunk safe that is not abandoned.
LEMMA SafeStep ==
  ASSUME TypeOK, BatchInv, WrittenInv, RecordedInv, RecordsWhole, SafeInv, [Next]_vars
  PROVE  SafeInv'
<1> SUFFICES ASSUME NEW k \in Chunks, ~Abandoned(k)' PROVE ChunkSafe(k)'
  BY DEF SafeInv
<1>1. ~Abandoned(k)
  BY AbandonedStays
<1>2. ChunkSafe(k)
  BY <1>1 DEF SafeInv
<1> QED
  BY <1>1, <1>2, ChunkSafeStep

\* A pending envelope with a chunk that is nowhere to be had shares it with another that
\* has given it up.
LEMMA BackedOrSpoiled ==
  ASSUME TypeOK, WrittenInv, SafeInv, NEW e \in pending, NEW c \in ChunksOf[e], ~Available(c)
  PROVE  \E d \in Envelopes \ {e} : GivenUp(d, c)
<1>1. e \in Envelopes /\ c \in Chunks /\ put[e] = {} /\ write[e] = "done" /\ e \notin failed
  BY ChunksOfType DEF TypeOK, WrittenInv
<1>2. Abandoned(c)
  BY <1>1 DEF SafeInv, ChunkSafe, PutAvailable
<1>3. ~GivenUp(e, c)
  BY <1>1 DEF GivenUp
<1> QED
  BY <1>2, <1>3 DEF Abandoned

\* A step counts an attempt against an envelope that is not spoiled only for a fault:
\* what such an envelope needs is there (run.go fail, ingest.go copyChunks).
LEMMA CountedStep ==
  ASSUME TypeOK, BatchInv, WrittenInv, SafeInv, NEW k \in Envelopes, ~Spoiled(k), Counted(k),
         [Next]_vars
  PROVE  Counted(k)'
<1> USE EnvelopeSets, ChunksOfType, NoneApart, Bounds DEF TypeOK, spoolVars, storeVars,
      writerVars, ingestVars, retryVars, sweepVars, serveVars, Ingesting, Counted, Ping
<1>1. ASSUME NEW e \in Envelopes, Start(e) PROVE Counted(k)'
  BY <1>1 DEF Start
<1>2. ASSUME NEW e \in Envelopes, NEW c \in ChunksOf[e], Skip(e, c) PROVE Counted(k)'
  BY <1>2 DEF Skip
<1>3. ASSUME NEW e \in Envelopes, NEW c \in ChunksOf[e], Place(e, c) PROVE Counted(k)'
  BY <1>3 DEF Place
<1>4. ASSUME NEW e \in Envelopes, NEW c \in ChunksOf[e], Look(e, c) PROVE Counted(k)'
  BY <1>4 DEF Look
<1>5. ASSUME NEW e \in Envelopes, Touch(e) PROVE Counted(k)'
  BY <1>5 DEF Touch
<1>6. ASSUME NEW e \in Envelopes, Name(e) PROVE Counted(k)'
  BY <1>6 DEF Name
<1>7. ASSUME NEW e \in Envelopes, WriterDies(e) PROVE Counted(k)'
  BY <1>7 DEF WriterDies
<1>8. ASSUME NEW e \in Envelopes, RetryDue(e) PROVE Counted(k)'
  BY <1>8 DEF RetryDue
<1>9. ASSUME NEW c \in Chunks, Age(c) PROVE Counted(k)'
  BY <1>9 DEF Age
<1>10. ASSUME ServeStarts PROVE Counted(k)'
  BY <1>10 DEF ServeStarts
<1>11. ASSUME Drain PROVE Counted(k)'
  BY <1>11 DEF Drain
<1>12. ASSUME NEW e \in Envelopes, Read(e) PROVE Counted(k)'
  <2>1. k \notin Poison
    BY DEF Spoiled
  <2> QED
    BY <1>12, <2>1 DEF Read
<1>13. ASSUME NEW c \in Chunks, CopyChunk(c) PROVE Counted(k)'
  BY <1>13 DEF CopyChunk
<1>14. ASSUME NEW c \in Chunks, ChunkMissing(c) PROVE Counted(k)'
  <2>1. c \in ChunksOf[cur] /\ cur \in pending /\ ~Available(c)
    BY <1>14 DEF ChunkMissing, BatchInv
  <2>2. ~(cur = k /\ cur \in Edits)
    BY <2>1, BackedOrSpoiled DEF Spoiled
  <2> QED
    BY <1>14, <2>2 DEF ChunkMissing
<1>15. ASSUME ReplaySettled PROVE Counted(k)'
  BY <1>15 DEF ReplaySettled, Recording
<1>16. ASSUME Record PROVE Counted(k)'
  BY <1>16 DEF Record, Recording
<1>17. ASSUME Refused PROVE Counted(k)'
  BY <1>17 DEF Refused, Recording
<1>18. ASSUME Pause PROVE Counted(k)'
  BY <1>18 DEF Pause, Ping
<1>19. ASSUME Fail PROVE Counted(k)'
  BY <1>19 DEF Fail, Later, Ping, LastAttempt
<1>20. ASSUME MoveAside PROVE Counted(k)'
  BY <1>20 DEF MoveAside, Ping, LastAttempt
<1>21. ASSUME Remove PROVE Counted(k)'
  BY <1>21 DEF Remove
<1>22. ASSUME Sweep PROVE Counted(k)'
  BY <1>22 DEF Sweep
<1>23. ASSUME Unlink PROVE Counted(k)'
  BY <1>23 DEF Unlink
<1>24. ASSUME SweepEnd PROVE Counted(k)'
  BY <1>24 DEF SweepEnd
<1>25. ASSUME NEW c \in Chunks, Stat(c) PROVE Counted(k)'
  BY <1>25 DEF Stat
<1>26. ASSUME IngestFails PROVE Counted(k)'
  BY <1>26 DEF IngestFails
<1>27. ASSUME StoreBreaks PROVE Counted(k)'
  BY <1>27 DEF StoreBreaks, Recording
<1>28. ASSUME MoveFails PROVE Counted(k)'
  BY <1>28 DEF MoveFails, Later, Ping, LastAttempt
<1>29. ASSUME ServeEnds PROVE Counted(k)'
  BY <1>29 DEF ServeEnds, Recording
<1>30. ASSUME UNCHANGED vars PROVE Counted(k)'
  BY <1>30 DEF vars
<1>31. ASSUME NEW c \in Chunks, ChunkUnread(c) PROVE Counted(k)'
  BY <1>31 DEF ChunkUnread
<1> QED
  BY <1>1, <1>2, <1>3, <1>4, <1>5, <1>6, <1>7, <1>8, <1>9, <1>10, <1>11, <1>12,
     <1>13, <1>14, <1>15, <1>16, <1>17, <1>18, <1>19, <1>20, <1>21, <1>22, <1>23,
     <1>24, <1>25, <1>26, <1>27, <1>28, <1>29, <1>30, <1>31 DEF Next, WriterStep,
     IngestStep

LEMMA FaultsStep ==
  ASSUME TypeOK, BatchInv, WrittenInv, RecordedInv, SafeInv, FaultsInv, [Next]_vars
  PROVE  FaultsInv'
<1> SUFFICES ASSUME NEW e \in Envelopes, ~Spoiled(e)' PROVE Counted(e)'
  BY DEF FaultsInv
<1>1. ~Spoiled(e)
  BY SpoiledStays
<1>2. Counted(e)
  BY <1>1 DEF FaultsInv
<1> QED
  BY <1>1, <1>2, CountedStep

\* A step moves an envelope aside at its last attempt only.
LEMMA FailedStep ==
  ASSUME TypeOK, NEW k \in failed', [Next]_vars
  PROVE  k \in failed \/ (k = cur /\ k \in Envelopes /\ stage = "fail" /\ Ping /\ LastAttempt)
<1> DEFINE Goal ==
      k \in failed \/ (k = cur /\ k \in Envelopes /\ stage = "fail" /\ Ping /\ LastAttempt)
<1> USE EnvelopeSets, ChunksOfType, NoneApart, Bounds DEF TypeOK, spoolVars, storeVars,
      writerVars, ingestVars, retryVars, sweepVars, serveVars
<1>1. ASSUME NEW e \in Envelopes, Start(e) PROVE Goal
  BY <1>1 DEF Start
<1>2. ASSUME NEW e \in Envelopes, NEW c \in ChunksOf[e], Skip(e, c) PROVE Goal
  BY <1>2 DEF Skip
<1>3. ASSUME NEW e \in Envelopes, NEW c \in ChunksOf[e], Place(e, c) PROVE Goal
  BY <1>3 DEF Place
<1>4. ASSUME NEW e \in Envelopes, NEW c \in ChunksOf[e], Look(e, c) PROVE Goal
  BY <1>4 DEF Look
<1>5. ASSUME NEW e \in Envelopes, Touch(e) PROVE Goal
  BY <1>5 DEF Touch
<1>6. ASSUME NEW e \in Envelopes, Name(e) PROVE Goal
  BY <1>6 DEF Name
<1>7. ASSUME NEW e \in Envelopes, WriterDies(e) PROVE Goal
  BY <1>7 DEF WriterDies
<1>8. ASSUME NEW e \in Envelopes, RetryDue(e) PROVE Goal
  BY <1>8 DEF RetryDue
<1>9. ASSUME NEW c \in Chunks, Age(c) PROVE Goal
  BY <1>9 DEF Age
<1>10. ASSUME ServeStarts PROVE Goal
  BY <1>10 DEF ServeStarts
<1>11. ASSUME Drain PROVE Goal
  BY <1>11 DEF Drain
<1>12. ASSUME NEW e \in Envelopes, Read(e) PROVE Goal
  BY <1>12 DEF Read
<1>13. ASSUME NEW c \in Chunks, CopyChunk(c) PROVE Goal
  BY <1>13 DEF CopyChunk
<1>14. ASSUME NEW c \in Chunks, ChunkMissing(c) PROVE Goal
  BY <1>14 DEF ChunkMissing
<1>15. ASSUME ReplaySettled PROVE Goal
  BY <1>15 DEF ReplaySettled, Recording
<1>16. ASSUME Record PROVE Goal
  BY <1>16 DEF Record, Recording
<1>17. ASSUME Refused PROVE Goal
  BY <1>17 DEF Refused, Recording
<1>18. ASSUME Pause PROVE Goal
  BY <1>18 DEF Pause, Ping
<1>19. ASSUME Fail PROVE Goal
  BY <1>19 DEF Fail, Later, Ping, LastAttempt
<1>20. ASSUME MoveAside PROVE Goal
  BY <1>20 DEF MoveAside
<1>21. ASSUME Remove PROVE Goal
  BY <1>21 DEF Remove
<1>22. ASSUME Sweep PROVE Goal
  BY <1>22 DEF Sweep
<1>23. ASSUME Unlink PROVE Goal
  BY <1>23 DEF Unlink
<1>24. ASSUME SweepEnd PROVE Goal
  BY <1>24 DEF SweepEnd
<1>25. ASSUME NEW c \in Chunks, Stat(c) PROVE Goal
  BY <1>25 DEF Stat
<1>26. ASSUME IngestFails PROVE Goal
  BY <1>26 DEF IngestFails
<1>27. ASSUME StoreBreaks PROVE Goal
  BY <1>27 DEF StoreBreaks, Recording
<1>28. ASSUME MoveFails PROVE Goal
  BY <1>28 DEF MoveFails, Later, Ping, LastAttempt
<1>29. ASSUME ServeEnds PROVE Goal
  BY <1>29 DEF ServeEnds, Recording
<1>30. ASSUME UNCHANGED vars PROVE Goal
  BY <1>30 DEF vars
<1>31. ASSUME NEW c \in Chunks, ChunkUnread(c) PROVE Goal
  BY <1>31 DEF ChunkUnread
<1> QED
  BY <1>1, <1>2, <1>3, <1>4, <1>5, <1>6, <1>7, <1>8, <1>9, <1>10, <1>11, <1>12,
     <1>13, <1>14, <1>15, <1>16, <1>17, <1>18, <1>19, <1>20, <1>21, <1>22, <1>23,
     <1>24, <1>25, <1>26, <1>27, <1>28, <1>29, <1>30, <1>31 DEF Next, WriterStep,
     IngestStep

\* So what it moves aside is spoiled.
LEMMA AsideStep ==
  ASSUME TypeOK, RecordedInv, FaultsInv, AsideForCause, MaxFaults < MaxAttempts, [Next]_vars
  PROVE  AsideForCause'
<1> SUFFICES ASSUME NEW k \in failed' PROVE Spoiled(k)'
  BY DEF AsideForCause
<1>1. CASE k \in failed
  BY <1>1, SpoiledStays DEF AsideForCause, TypeOK
<1>2. CASE k = cur /\ k \in Envelopes /\ stage = "fail" /\ Ping /\ LastAttempt
  <2>1. ~Counted(k)
    BY <1>2, Bounds DEF Counted, LastAttempt, TypeOK
  <2>2. Spoiled(k)
    BY <1>2, <2>1 DEF FaultsInv
  <2> QED
    BY <1>2, <2>2, SpoiledStays
<1> QED
  BY <1>1, <1>2, FailedStep

--------------------------------------------------------------------------------
(* The theorems.                                                           *)

\* Init establishes all of it.
LEMMA InitInv == Init => IInv /\ FaultsInv
<1> SUFFICES ASSUME Init PROVE IInv /\ FaultsInv
  OBVIOUS
<1> USE EnvelopeSets, ChunksOfType, Bounds DEF Init
<1>1. kept = [e \in Envelopes |-> None] /\ loose = {}
  BY DEF Store!StoreInit, Store!Ids
<1>2. TypeOK /\ BatchInv /\ AttemptsInv /\ WrittenInv /\ RecordedInv /\ WrittenNotLost
  BY <1>1 DEF TypeOK, BatchInv, AttemptsInv, WrittenInv, RecordedInv, Recorded, WrittenNotLost,
              Ingesting
<1>3. CopiedInv /\ RecordsWhole /\ FaultsInv
  BY <1>1 DEF CopiedInv, RecordsWhole, Recorded, FaultsInv, Counted
<1>4. SafeInv
  BY DEF SafeInv, ChunkSafe, OldPointedAt, PutAvailable, Writing, Ingesting
<1> QED
  BY <1>2, <1>3, <1>4 DEF IInv

\* Every step keeps the invariant.
THEOREM Inductive == Spec => []IInv
<1>1. Init => IInv
  BY InitInv
<1>2. IInv /\ [Next]_vars => IInv'
  BY TypeStep, BatchStep, AttemptsStep, WrittenStep, NotLostStep, WholeStep, SafeStep DEF IInv
<1> QED
  BY <1>1, <1>2, PTL DEF Spec

\* The state has its types; what goes together stays together (run.go, writer.go).
THEOREM TypeCorrect == Spec => []TypeOK
<1>1. IInv => TypeOK
  BY DEF IInv
<1> QED
  BY <1>1, Inductive, PTL

\* An envelope whose write ended well is in the spool, in failed/ or in the store,
\* whatever ends, faults and retries there were (ingest.go).
THEOREM WrittenNotLostAlways == Spec => []WrittenNotLost
<1>1. IInv => WrittenNotLost
  BY DEF IInv
<1> QED
  BY <1>1, Inductive, PTL

\* No record points at content the store does not have (ingest.go copyChunks, kept).
THEOREM RecordsWholeAlways == Spec => []RecordsWhole
<1>1. IInv => RecordsWhole
  BY DEF IInv
<1> QED
  BY <1>1, Inductive, PTL

\* The sweep takes no chunk that an envelope in the spool points at, but for one that
\* another envelope has given up, for any sharing of chunks and whatever it listed
\* before (reader.go Sweep, writer.go putChunk).
THEOREM PendingBackedAlways == Spec => []PendingBacked
<1>1. IInv => PendingBacked
  <2> SUFFICES ASSUME IInv, NEW e \in pending, NEW c \in ChunksOf[e], ~Available(c)
               PROVE  Abandoned(c)
    BY DEF PendingBacked
  <2> QED
    BY BackedOrSpoiled DEF IInv, Abandoned
<1> QED
  BY <1>1, Inductive, PTL

\* With fewer faults than attempts, only a spoiled envelope is moved aside (run.go fail).
THEOREM AsideForCauseAlways ==
  ASSUME MaxFaults < MaxAttempts
  PROVE  Spec => []AsideForCause
<1> DEFINE Inv == IInv /\ FaultsInv /\ AsideForCause
<1>1. Init => Inv
  BY InitInv DEF Init, AsideForCause
<1>2. Inv /\ [Next]_vars => Inv'
  <2> SUFFICES ASSUME Inv, [Next]_vars PROVE Inv'
    OBVIOUS
  <2>1. IInv'
    BY TypeStep, BatchStep, AttemptsStep, WrittenStep, NotLostStep, WholeStep, SafeStep DEF IInv
  <2>2. FaultsInv'
    BY FaultsStep DEF IInv
  <2>3. AsideForCause'
    BY AsideStep DEF IInv
  <2> QED
    BY <2>1, <2>2, <2>3
<1>3. Inv => AsideForCause
  OBVIOUS
<1> QED
  BY <1>1, <1>2, <1>3, PTL DEF Spec
================================================================================
