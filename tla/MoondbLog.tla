------------------------------- MODULE MoondbLog -------------------------------
(***************************************************************************)
(* The local backend of moondb's store (store/local/local.go, replay.go):  *)
(* an append-only log of records in segment files, and the index in memory *)
(* that answers every read.  A write appends one line, syncs the segment   *)
(* and then updates the index; a failed one is cut back off.  Opening the  *)
(* store replays the segments.  The program can be killed at any step, and *)
(* the machine can lose power.                                             *)
(*                                                                         *)
(* One write runs at a time (Store.mu is held across commit), and a reader *)
(* takes the same lock, so it sees the index only where stage is in        *)
(* Readable.  Whether a line fits the open segment depends on its bytes,   *)
(* which are left out: a line may call for a new segment whenever the open *)
(* one is not empty.                                                       *)
(***************************************************************************)
EXTENDS Naturals

CONSTANTS
  Facts, Docs,  \* record ids, as in MoondbStore
  Vals,         \* what a record can say
  None,         \* no record, no line
  Torn,         \* a line cut short, which does not parse
  MaxLines,     \* bound: lines ever committed
  PowerLoss     \* whether the machine can lose power

Ids == Facts \cup Docs
Recs == [id : Ids, val : Vals]

ASSUME RecordsDistinct == None \notin Vals \cup Recs /\ Torn \notin Recs /\ None # Torn
ASSUME MaxLinesNat == MaxLines \in Nat
ASSUME PowerLossBoolean == PowerLoss \in BOOLEAN

VARIABLES
  log,       \* the whole lines in the segment files, each with its position
  next,      \* the position the next line takes
  start,     \* where the open segment begins: it holds the lines from there on
  extra,     \* a segment exists after the open one (a roll failed half way)
  unsynced,  \* the positions of lines no sync has covered
  tail,      \* what follows the open segment's last good line: None, Torn, a record
  line,      \* the record being written, or None
  stage,     \* where the store stands
  ix,        \* the index: the record of each id, or None
  acked      \* the lines whose commit returned nil (history)

vars == <<log, next, start, extra, unsynced, tail, line, stage, ix, acked>>

Readable == {"idle", "broken", "closed"}
Writing == {"roll", "append", "sync", "rewind"}
Stages == Readable \cup Writing \cup {"down"}

Lines == [at : Nat, rec : Recs]

\* Types, with what belongs together: a record is on its way exactly while one
\* is being written, and positions are handed out in order, one to a line.
TypeOK ==
  /\ log \in SUBSET Lines
  /\ next \in Nat
  /\ start \in Nat
  /\ extra \in BOOLEAN
  /\ unsynced \in SUBSET Nat
  /\ tail \in Recs \cup {None, Torn}
  /\ line \in Recs \cup {None}
  /\ stage \in Stages
  /\ ix \in [Ids -> Vals \cup {None}]
  /\ acked \in SUBSET Lines
  /\ line # None <=> stage \in Writing
  /\ \A l \in log : l.at < next
  /\ \A l, m \in log : l.at = m.at => l = m
  /\ \A p \in unsynced : p < next

(***************************************************************************)
(* What a replay makes of lines: under each id the newest record.          *)
(***************************************************************************)
Newest(ls, i) ==
  {l \in ls : l.rec.id = i /\ \A m \in ls : m.rec.id = i => m.at <= l.at}

Said(ls) == IF ls = {} THEN None ELSE (CHOOSE l \in ls : TRUE).rec.val

Latest(ls, i) == Said(Newest(ls, i))

Replayed(ls) == [i \in Ids |-> Latest(ls, i)]

Line(r) == [at |-> next, rec |-> r]

\* The lines a sync of the open segment leaves unsynced: those of older segments.
Elsewhere == {p \in unsynced : p < start}

Init ==
  /\ log = {} /\ next = 1 /\ start = 1
  /\ extra = FALSE /\ unsynced = {} /\ tail = None
  /\ line = None /\ stage = "down" /\ ix = [i \in Ids |-> None]
  /\ acked = {}

--------------------------------------------------------------------------------
(* Writing.                                                                *)

\* Mutant: appendFact without its check of the index.
PutUnchecked(r) ==
  /\ stage = "idle" /\ next <= MaxLines
  /\ line' = r
  /\ \/ stage' = "append"
     \/ (\E l \in log : l.at >= start) /\ stage' = "roll"
  /\ UNCHANGED <<log, next, start, extra, unsynced, tail, ix, acked>>

(***************************************************************************)
(* PutSession and its like, and appendFact for an id not yet recorded.     *)
(***************************************************************************)
Put(r) ==
  /\ stage = "idle" /\ next <= MaxLines
  /\ r.id \in Facts => ix[r.id] = None
  /\ line' = r
  /\ \/ stage' = "append"
     \/ (\E l \in log : l.at >= start) /\ stage' = "roll"
  /\ UNCHANGED <<log, next, start, extra, unsynced, tail, ix, acked>>

\* roll: the next segment is open and its directory entry synced.
Roll ==
  /\ stage = "roll"
  /\ start' = next /\ extra' = FALSE
  /\ stage' = "append"
  /\ UNCHANGED <<log, next, unsynced, tail, line, ix, acked>>

\* openSegment failed, before or after it created the file; the old segment stays open.
RollFails ==
  /\ stage = "roll"
  /\ extra' \in {extra, TRUE}
  /\ line' = None /\ stage' = "idle"
  /\ UNCHANGED <<log, next, start, unsynced, tail, ix, acked>>

Append ==
  /\ stage = "append"
  /\ tail' = line /\ stage' = "sync"
  /\ UNCHANGED <<log, next, start, extra, unsynced, line, ix, acked>>

\* Some of the line's bytes were written: none, a part, or all but the newline.
AppendFails ==
  /\ stage = "append"
  /\ tail' \in {None, Torn, line} /\ stage' = "rewind"
  /\ UNCHANGED <<log, next, start, extra, unsynced, line, ix, acked>>

\* Mutant: write without the sync.
SyncSkipped ==
  /\ stage = "sync"
  /\ log' = log \cup {Line(line)}
  /\ next' = next + 1
  /\ unsynced' = unsynced \cup {next}
  /\ tail' = None
  /\ ix' = [ix EXCEPT ![line.id] = line.val]
  /\ acked' = acked \cup {Line(line)}
  /\ line' = None /\ stage' = "idle"
  /\ UNCHANGED <<start, extra>>

\* The segment is synced: the line counts, the index takes it, the caller hears of it.
Sync ==
  /\ stage = "sync"
  /\ log' = log \cup {Line(line)}
  /\ next' = next + 1
  /\ unsynced' = Elsewhere
  /\ tail' = None
  /\ ix' = [ix EXCEPT ![line.id] = line.val]
  /\ acked' = acked \cup {Line(line)}
  /\ line' = None /\ stage' = "idle"
  /\ UNCHANGED <<start, extra>>

SyncFails ==
  /\ stage = "sync"
  /\ stage' = "rewind"
  /\ UNCHANGED <<log, next, start, extra, unsynced, tail, line, ix, acked>>

\* Mutant: write does not advance segSize: a rewind takes the line before with it.
RewindStale ==
  /\ stage = "rewind"
  /\ log' = {l \in log : l.at < start \/ l.at < next - 1}
  /\ tail' = None
  /\ line' = None /\ stage' = "idle"
  /\ UNCHANGED <<next, start, extra, unsynced, ix, acked>>

Rewind ==
  /\ stage = "rewind"
  /\ tail' = None
  /\ line' = None /\ stage' = "idle"
  /\ UNCHANGED <<log, next, start, extra, unsynced, ix, acked>>

\* Not even the truncate worked: the store refuses writes until it is opened again.
RewindFails ==
  /\ stage = "rewind"
  /\ line' = None /\ stage' = "broken"
  /\ UNCHANGED <<log, next, start, extra, unsynced, tail, ix, acked>>

Close ==
  /\ stage = "idle"
  /\ unsynced' \in {Elsewhere, unsynced}
  /\ stage' = "closed"
  /\ UNCHANGED <<log, next, start, extra, tail, line, ix, acked>>

--------------------------------------------------------------------------------
(* Ending and starting.                                                    *)

\* The program ends, killed or not: the files stay as they are.
Exit ==
  /\ stage # "down"
  /\ stage' = "down" /\ line' = None
  /\ ix' = [i \in Ids |-> None]
  /\ UNCHANGED <<log, next, start, extra, unsynced, tail, acked>>

(***************************************************************************)
(* The machine loses power, which ended the program too: a line no sync    *)
(* has covered may be gone, the tail may be gone or torn, a segment whose  *)
(* creation was not synced may be gone.  A tail does not outlive the lines *)
(* before it in its segment.                                               *)
(***************************************************************************)
PowerFails ==
  /\ PowerLoss /\ stage = "down"
  /\ \E lost \in SUBSET unsynced :
       LET cut == \E p \in lost : p >= start
       IN  /\ log' = {l \in log : l.at \notin lost}
           /\ \/ ~cut /\ tail' = tail
              \/ tail' = None
              \/ (cut \/ tail # None) /\ tail' = Torn
  /\ unsynced' = {}
  /\ extra' \in {extra, FALSE}
  /\ UNCHANGED <<next, start, line, stage, ix, acked>>

\* replayTail: a torn line is tolerated at the end of the last segment only.
CanOpen == tail = Torn => ~extra

\* Mutant: replayTail ends the whole tail's line but does not fold it into the index.
OpenUnread ==
  /\ stage = "down" /\ CanOpen
  /\ IF tail \in Recs
     THEN /\ log' = log \cup {Line(tail)}
          /\ next' = next + 1
          /\ unsynced' = unsynced \cup {next}
     ELSE UNCHANGED <<log, next, unsynced>>
  /\ tail' = None
  /\ start' = IF extra THEN next' ELSE start
  /\ extra' = FALSE
  /\ ix' = Replayed(log)
  /\ stage' = "idle"
  /\ UNCHANGED <<line, acked>>

(***************************************************************************)
(* Open: replay every segment, drop a torn tail, keep a whole one (which   *)
(* is not synced again), and make the last segment the open one.           *)
(***************************************************************************)
Open ==
  /\ stage = "down" /\ CanOpen
  /\ IF tail \in Recs
     THEN /\ log' = log \cup {Line(tail)}
          /\ next' = next + 1
          /\ unsynced' = unsynced \cup {next}
     ELSE UNCHANGED <<log, next, unsynced>>
  /\ tail' = None
  /\ start' = IF extra THEN next' ELSE start
  /\ extra' = FALSE
  /\ ix' = Replayed(log')
  /\ stage' = "idle"
  /\ UNCHANGED <<line, acked>>

\* Open returned an error, and does at every restart.
OpenRefused ==
  /\ stage = "down" /\ ~CanOpen
  /\ UNCHANGED vars

Next ==
  \/ \E r \in Recs : Put(r)
  \/ Roll \/ RollFails
  \/ Append \/ AppendFails
  \/ Sync \/ SyncFails
  \/ Rewind \/ RewindFails
  \/ Close \/ Exit \/ PowerFails
  \/ Open \/ OpenRefused

Spec == Init /\ [][Next]_vars

--------------------------------------------------------------------------------
(* Properties.                                                             *)

(***************************************************************************)
(* A reader gets what a replay of the log would give it: no record that is *)
(* not in the files, none withheld, and none of a write that failed        *)
(* (local.go: commit updates the index after write; rewind).               *)
(***************************************************************************)
IndexIsLog == stage # "down" => ix = Replayed(log)

(***************************************************************************)
(* However often the writer is killed and its envelope replayed, a fact    *)
(* has one line, counting the one Open may still find in the tail          *)
(* (local.go: appendFact's check of the index).                            *)
(***************************************************************************)
FactsOnce ==
  /\ \A l, m \in log : l.rec.id = m.rec.id /\ l.rec.id \in Facts => l = m
  /\ tail \in Recs /\ tail.id \in Facts => \A l \in log : l.rec.id # tail.id

(***************************************************************************)
(* A write its caller heard the success of survives every later kill,      *)
(* failed write, roll and power loss (local.go: Sync before nil).          *)
(***************************************************************************)
CommittedStay == acked \subseteq log

(***************************************************************************)
(* A store that takes writes has a log that ends in a whole line, so the   *)
(* next line is not glued to the remains of a failed one (local.go:        *)
(* rewind, and broken where it fails).                                     *)
(***************************************************************************)
CleanEdge == stage \in {"idle", "roll", "append", "closed"} => tail = None

(***************************************************************************)
(* Whatever happened, the store opens again: a torn line is in the last    *)
(* segment (replay.go: "a segment is never written again once the next one *)
(* exists").  RollFails breaks it.                                         *)
(***************************************************************************)
Reopens == stage = "down" => CanOpen

--------------------------------------------------------------------------------
(* The store's promise.                                                    *)

\* The lines a replay would find: the tail is one while it parses.
Found == log \cup (IF stage = "down" /\ tail \in Recs THEN {Line(tail)} ELSE {})

\* The ids whose record a power loss can take back.
Loose ==
  {i \in Ids : \E l \in Newest(Found, i) : l.at \in unsynced \/ l.at = next}

Store == INSTANCE MoondbStore WITH kept <- Replayed(Found), loose <- Loose

(***************************************************************************)
(* The log and its index are the register per id of MoondbStore: facts are *)
(* written once, and only a record that no sync covered can be taken back. *)
(***************************************************************************)
ImplementsStore == Store!StoreSpec
================================================================================
