------------------------------- MODULE SpeakDocs ------------------------------
(***************************************************************************)
(* Speak's registered documents (services/speak/internal/web/docs.go) over  *)
(* the clip preparer: the least-recently-used registry under docRegistry.mu *)
(* and the handlers that register, look up, prepare and play documents.     *)
(*                                                                          *)
(* The registry lock is held across calls into the preparer, which takes    *)
(* its own lock for each: an eviction asks document after document whether  *)
(* it is busy, then forgets, and workers, timers and fetches run in         *)
(* between.  A document is its parts' keys in reading order; a preparation  *)
(* of one section is that of a document with these parts.                   *)
(***************************************************************************)
EXTENDS SpeakPreparer

CONSTANTS
  Docs,        \* documents, by id
  Parts,       \* [Docs -> the document's part keys in reading order]
  Preparations,\* goroutines of POST /doc/{id}/prepare
  MaxDocs      \* maxDocs

ASSUME DocsAssumption ==
  /\ IsFiniteSet(Docs) /\ IsFiniteSet(Preparations)
  /\ \A d \in Docs : Parts[d] \in Seq(Keys)
  /\ MaxDocs \in Nat \ {0}
  /\ None \notin Docs

VARIABLES
  docs,        \* r.docs, least recently used first
  registry,    \* who holds r.mu, and where it is
  preparing    \* [Preparations -> the document looked up, or None]

docVars == <<docs, registry, preparing>>
allVars == <<vars, docVars>>

Free == [pc |-> "free", at |-> 0, gone |-> None]

DocsTypeOK ==
  /\ TypeOK
  /\ docs \in Seq(Docs) /\ IsInjective(docs)
  /\ Len(docs) <= IF registry.pc = "scan" THEN MaxDocs + 1 ELSE MaxDocs
  /\ registry \in [pc : {"free", "scan", "forget"}, at : 0..MaxDocs + 1, gone : Docs \union {None}]
  /\ preparing \in [Preparations -> Docs \union {None}]

DocsInit ==
  /\ Init
  /\ docs = <<>>
  /\ registry = Free
  /\ preparing = [p \in Preparations |-> None]

\* The parts some kept document holds.
Held == UNION {ToSet(Parts[d]) : d \in ToSet(docs)}

Unlocked == registry = Free
\* Mutant: the document is not taken from its old place.
ToBackTwice(d) == Append(docs, d)
ToBack(d) == Append(Without(docs, {d}), d)

(* -------------------------- POST /read: registering ---------------------- *)

\* add: the newest document; past MaxDocs the lock is kept for an eviction.
Register(d) ==
  /\ Unlocked
  /\ docs' = ToBack(d)
  /\ registry' = IF Len(docs') <= MaxDocs THEN Free ELSE [Free EXCEPT !.pc = "scan", !.at = 1]
  /\ UNCHANGED <<vars, preparing>>

Busy(d) == \E k \in ToSet(Parts[d]) : Pending(k)

\* evictOne asks the documents but the newest, oldest first; it takes the first
\* idle one, or the oldest if each was busy when asked.
Scan ==
  /\ registry.pc = "scan"
  /\ registry.at < Len(docs) /\ Busy(docs[registry.at])
  /\ registry' = [registry EXCEPT !.at = @ + 1]
  /\ UNCHANGED <<vars, docs, preparing>>

EvictDoc ==
  LET victim == IF registry.at < Len(docs) THEN registry.at ELSE 1 IN
  /\ registry.pc = "scan"
  /\ registry.at < Len(docs) => ~Busy(docs[registry.at])
  /\ docs' = RemoveAt(docs, victim)
  /\ registry' = [pc |-> "forget", at |-> 0, gone |-> docs[victim]]
  /\ UNCHANGED <<vars, preparing>>

\* Mutant: all parts of the evicted document are forgotten.
OrphansAll == ToSet(Parts[registry.gone])

\* The parts of the evicted document no kept one holds are forgotten.
Orphans == ToSet(Parts[registry.gone]) \ Held

ForgetOrphans ==
  /\ registry.pc = "forget"
  /\ Forget(Orphans)
  /\ registry' = Free
  /\ UNCHANGED <<docs, preparing>>

(* -------------------- The handlers of a kept document -------------------- *)

\* get: every handler that looks a document up marks it used.
Lookup(d) ==
  /\ Unlocked
  /\ Contains(docs, d)
  /\ docs' = ToBack(d)

\* GET /doc/{id} and its download.
Status(d) == Lookup(d) /\ UNCHANGED <<vars, registry, preparing>>

PrepareLookup(p, d) ==
  /\ preparing[p] = None
  /\ Lookup(d)
  /\ preparing' = [preparing EXCEPT ![p] = d]
  /\ UNCHANGED <<vars, registry>>

\* whileKept: the parts (with ?failed=1 those that failed and are not stored)
\* are queued under the registry lock, and only if the document is still kept.
FailedParts(d) == Without(Parts[d], stored \union {k \in Keys : job[k].state # "failed"})

\* Mutant: the document is queued as it was looked up.
PrepareQueueUnchecked(p, failedOnly) ==
  LET d == preparing[p] IN
  /\ d # None
  /\ Queue(IF failedOnly THEN FailedParts(d) ELSE Parts[d])
  /\ preparing' = [preparing EXCEPT ![p] = None]
  /\ UNCHANGED <<docs, registry>>

PrepareQueue(p, failedOnly) ==
  LET d == preparing[p] IN
  /\ d # None
  /\ Unlocked
  /\ IF Contains(docs, d) THEN Queue(IF failedOnly THEN FailedParts(d) ELSE Parts[d])
                          ELSE UNCHANGED vars
  /\ preparing' = [preparing EXCEPT ![p] = None]
  /\ UNCHANGED <<docs, registry>>

\* GET /audio/{key}: the text of a kept document's part, then Fetch, which does
\* not hold the registry lock.
Audio(c) ==
  \/ \E k \in Held : Unlocked /\ Look(c, k)
  \/ UrgentAlready(c) \/ UrgentBackground(c) \/ UrgentRetrying(c)
  \/ UrgentStored(c) \/ UrgentNew(c) \/ Answer(c) \/ Abandon(c)

Registry ==
  \/ Scan \/ EvictDoc \/ ForgetOrphans
  \/ \E d \in Docs : Register(d) \/ Status(d)
  \/ \E p \in Preparations :
       (\E d \in Docs : PrepareLookup(p, d)) \/ \E failedOnly \in BOOLEAN : PrepareQueue(p, failedOnly)

Preparer ==
  /\ \/ \E c \in Callers : Audio(c)
     \/ \E w \in Workers : Work(w)
     \/ \E k \in Keys : Timer(k) \/ Cache(k) \/ Evict(k)
  /\ UNCHANGED docVars

DocsNext == Registry \/ Preparer

DocsSpec == DocsInit /\ [][DocsNext]_allVars

(* ------------------------------- Properties ------------------------------ *)

\* The parts of kept documents and of one whose eviction is not over.
Known == Held \union IF registry.gone = None THEN {} ELSE ToSet(Parts[registry.gone])

\* No untried part waits in the background for a document that is gone: an
\* eviction "cannot slip in between a lookup and the queueing and leave
\* orphaned parts queued" (docs.go).
NoneQueuedForTheGone ==
  \A k \in Keys : job[k].state = "background" /\ job[k].attempts = 0 => k \in Known

\* Evicting a document costs a kept one nothing: a part of a kept document that
\* waits or failed goes back to idle only when a synthesis that halts the
\* background ends.
KeptWorkStays ==
  [][\A k \in Held' : job[k].state \in {"background", "retrying", "failed"} /\ job'[k].state = "idle"
       => \E w \in Workers : worker[w].pc = "finish" /\ worker'[w].pc = "next"]_allVars
===============================================================================
