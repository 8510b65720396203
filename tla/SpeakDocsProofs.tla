----------------------------- MODULE SpeakDocsProofs -----------------------------
(***************************************************************************)
(* Proofs about SpeakDocs, for any documents, parts, preparations, clips,   *)
(* fetches and workers.  The preparer's part of the invariant, and that its *)
(* steps keep it, comes from SpeakPreparerProofs.                           *)
(***************************************************************************)
EXTENDS SpeakDocs, SpeakPreparerProofs

(* ------------------------------ The registry ----------------------------- *)

\* A document marked used is in the registry once, and nobody else leaves it.
LEMMA ToBackFacts ==
  ASSUME docs \in Seq(Docs), IsInjective(docs), NEW d \in Docs
  PROVE  /\ ToBack(d) \in Seq(Docs) /\ IsInjective(ToBack(d))
         /\ ToSet(ToBack(d)) = ToSet(docs) \cup {d}
         /\ Len(ToBack(d)) <= Len(docs) + 1
         /\ d \in ToSet(docs) => Len(ToBack(d)) <= Len(docs)
<1> DEFINE rest == Without(docs, {d})
<1>1. /\ rest \in Seq(Docs) /\ ToSet(rest) = ToSet(docs) \ {d} /\ IsInjective(rest)
      /\ Len(rest) <= Len(docs) /\ (d \in ToSet(docs) => Len(rest) < Len(docs))
  BY WithoutFacts
<1> HIDE DEF rest
<1>2. d \notin ToSet(rest)
  BY <1>1
<1>3. /\ Append(rest, d) \in Seq(Docs) /\ Len(Append(rest, d)) = Len(rest) + 1
      /\ ToSet(Append(rest, d)) = ToSet(rest) \cup {d} /\ IsInjective(Append(rest, d))
  BY <1>1, <1>2, Appended
<1>4. ToBack(d) = Append(rest, d)
  BY DEF ToBack, rest
<1>5. Len(rest) \in Nat /\ Len(docs) \in Nat
  BY <1>1
<1>6. /\ Len(Append(rest, d)) <= Len(docs) + 1
      /\ d \in ToSet(docs) => Len(Append(rest, d)) <= Len(docs)
  BY <1>1, <1>3, <1>5
<1> QED
  BY <1>1, <1>3, <1>4, <1>6

\* An evicted document is the only one to leave.
LEMMA RemovedAt ==
  ASSUME NEW X, NEW q \in Seq(X), NEW i \in 1..Len(q)
  PROVE  /\ RemoveAt(q, i) \in Seq(X) /\ Len(RemoveAt(q, i)) = Len(q) - 1
         /\ IsInjective(q) => IsInjective(RemoveAt(q, i))
         /\ ToSet(q) = ToSet(RemoveAt(q, i)) \cup {q[i]}
<1> DEFINE s == SubSeq(q, 1, i - 1)
           t == SubSeq(q, i + 1, Len(q))
           r == s \o t
<1>0. Len(q) \in Nat /\ i \in Nat /\ i <= Len(q) /\ i >= 1 /\ DOMAIN q = 1..Len(q)
      /\ \A h \in 1..Len(q) : q[h] \in X
  OBVIOUS
<1>1. s \in Seq(X) /\ Len(s) = i - 1 /\ \A h \in 1..i - 1 : s[h] = q[h]
  BY <1>0, SubSeqProperties
<1>2. t \in Seq(X) /\ Len(t) = Len(q) - i /\ \A h \in 1..Len(q) - i : t[h] = q[i + h]
  <2>1. i + 1 \in 1..Len(q) + 1 /\ i + 1 <= Len(q) + 1 /\ Len(q) \in 0..Len(q)
    BY <1>0
  <2>2. /\ t \in Seq(X) /\ Len(t) = IF i + 1 <= Len(q) THEN Len(q) - (i + 1) + 1 ELSE 0
        /\ \A h \in 1..Len(q) - (i + 1) + 1 : t[h] = q[i + 1 + h - 1]
    BY <1>0, <2>1, SubSeqProperties
  <2>3. \A h \in 1..Len(q) - i : h \in 1..Len(q) - (i + 1) + 1 /\ i + 1 + h - 1 = i + h
    BY <1>0
  <2> HIDE DEF t
  <2>4. Len(t) = Len(q) - i
    <3>1. Len(t) = IF i + 1 <= Len(q) THEN Len(q) - (i + 1) + 1 ELSE 0
      BY <2>2
    <3> DEFINE l == Len(q)
    <3>2. l \in Nat /\ i \in Nat /\ i <= l
      BY <1>0
    <3> HIDE DEF l
    <3>3. (IF i + 1 <= l THEN l - (i + 1) + 1 ELSE 0) = l - i
      BY <3>2
    <3> QED
      BY <3>1, <3>3 DEF l
  <2> QED
    BY <2>2, <2>3, <2>4
<1> HIDE DEF s, t
<1>3. /\ r \in Seq(X) /\ Len(r) = Len(q) - 1 /\ DOMAIN r = 1..Len(q) - 1
      /\ \A h \in 1..Len(q) - 1 : r[h] = IF h < i THEN q[h] ELSE q[h + 1]
  <2>1. r \in Seq(X) /\ Len(r) = Len(s) + Len(t)
    BY <1>1, <1>2, Concatenated
  <2>0. \A h \in 1..Len(s) + Len(t) : r[h] = IF h <= Len(s) THEN s[h] ELSE t[h - Len(s)]
    BY <1>1, <1>2, ConcatProperties
  <2> HIDE DEF r
  <2>2. Len(r) = Len(q) - 1
    BY <1>0, <1>1, <1>2, <2>1
  <2>3. ASSUME NEW h \in 1..Len(q) - 1 PROVE r[h] = IF h < i THEN q[h] ELSE q[h + 1]
    <3>1. CASE h < i
      <4>1. h \in 1..Len(s) /\ h <= Len(s) /\ h \in 1..i - 1 /\ h \in 1..Len(s) + Len(t)
        BY <1>0, <1>1, <1>2, <3>1
      <4>2. r[h] = s[h] /\ s[h] = q[h]
        BY <1>1, <2>0, <4>1
      <4> QED
        BY <3>1, <4>2
    <3>2. CASE ~(h < i)
      <4>1. h - Len(s) \in 1..Len(t) /\ h > Len(s) /\ h \in 1..Len(s) + Len(t)
            /\ i + (h - Len(s)) = h + 1
        BY <1>0, <1>1, <1>2, <3>2
      <4>2. r[h] = t[h - Len(s)]
        BY <2>0, <4>1
      <4> QED
        BY <1>2, <3>2, <4>1, <4>2
    <3> QED
      BY <3>1, <3>2
  <2> QED
    BY <2>1, <2>2, <2>3
<1>4. RemoveAt(q, i) = r
  BY Zenon DEF RemoveAt, s, t
<1> HIDE DEF r
<1>5. ASSUME IsInjective(q) PROVE IsInjective(r)
  <2> SUFFICES ASSUME NEW g \in 1..Len(q) - 1, NEW h \in 1..Len(q) - 1, r[g] = r[h] PROVE g = h
    BY <1>3 DEF IsInjective
  <2> DEFINE at(x) == IF x < i THEN x ELSE x + 1
  <2>1. at(g) \in 1..Len(q) /\ at(h) \in 1..Len(q) /\ q[at(g)] = q[at(h)]
    BY <1>0, <1>3
  <2>2. at(g) = at(h)
    BY <1>0, <1>5, <2>1 DEF IsInjective
  <2> QED
    BY <1>0, <2>2
<1>6. ToSet(q) = ToSet(r) \cup {q[i]}
  <2>1. ASSUME NEW x \in ToSet(q) PROVE x \in ToSet(r) \cup {q[i]}
    <3>1. PICK h \in 1..Len(q) : x = q[h]
      BY <1>0 DEF ToSet
    <3>2. CASE h < i
      <4>1. h \in 1..Len(q) - 1 /\ r[h] = q[h]
        BY <1>0, <1>3, <3>2
      <4> QED
        BY <1>3, <3>1, <4>1 DEF ToSet
    <3>3. CASE h > i
      <4>1. h - 1 \in 1..Len(q) - 1 /\ ~(h - 1 < i) /\ h - 1 + 1 = h
        BY <1>0, <3>3
      <4>2. r[h - 1] = q[h]
        BY <1>3, <4>1
      <4> QED
        BY <1>3, <3>1, <4>1, <4>2 DEF ToSet
    <3> QED
      BY <1>0, <3>1, <3>2, <3>3
  <2>2. ASSUME NEW x \in ToSet(r) PROVE x \in ToSet(q)
    <3>1. PICK h \in 1..Len(q) - 1 : x = r[h]
      BY <1>3 DEF ToSet
    <3>2. h \in 1..Len(q) /\ h + 1 \in 1..Len(q)
      BY <1>0
    <3> QED
      BY <1>0, <1>3, <3>1, <3>2 DEF ToSet
  <2>3. q[i] \in ToSet(q)
    BY <1>0 DEF ToSet
  <2> QED
    BY <2>1, <2>2, <2>3
<1> QED
  BY <1>3, <1>4, <1>5, <1>6

\* Who holds the registry, and what there is to evict: one more than MaxDocs while
\* somebody looks for a victim, never more.
RegistryGood ==
  /\ docs \in Seq(Docs) /\ IsInjective(docs)
  /\ preparing \in [Preparations -> Docs \cup {None}]
  /\ \/ registry = Free /\ Len(docs) <= MaxDocs
     \/ /\ \E n \in 1..MaxDocs + 1 : registry = [pc |-> "scan", at |-> n, gone |-> None]
        /\ Len(docs) = MaxDocs + 1
     \/ /\ \E d \in Docs : registry = [pc |-> "forget", at |-> 0, gone |-> d]
        /\ Len(docs) <= MaxDocs

DocsInv == IInv /\ RegistryGood /\ NoneQueuedForTheGone

\* An untried part in the background.
Fresh(k) == job[k].state = "background" /\ job[k].attempts = 0

\* A document's parts are clips.
LEMMA PartsAreKeys ==
  /\ \A d \in Docs : Parts[d] \in Seq(Keys) /\ ToSet(Parts[d]) \subseteq Keys
  /\ docs \in Seq(Docs) => Held \subseteq Keys
<1>1. \A d \in Docs : Parts[d] \in Seq(Keys) /\ ToSet(Parts[d]) \subseteq Keys
  BY DocsAssumption DEF ToSet
<1>2. docs \in Seq(Docs) => ToSet(docs) \subseteq Docs
  BY DEF ToSet
<1> QED
  BY <1>1, <1>2 DEF Held

\* The registry knows no less where no document leaves it.
LEMMA HeldGrows ==
  ASSUME ToSet(docs) \subseteq ToSet(docs)'
  PROVE  Held \subseteq Held'
BY DEF Held

(* ---------------------------- The preparer's steps ----------------------- *)

\* What the handlers of the audio, the workers, the timers and the cache do is a
\* step of the preparer's.
LEMMA PreparerIsNext ==
  ASSUME RegistryGood, Preparer
  PROVE  Next /\ UNCHANGED docVars
<1>1. ASSUME NEW c \in Callers, Audio(c) PROVE Fetch(c)
  <2>1. Held \subseteq Keys
    BY PartsAreKeys DEF RegistryGood
  <2> QED
    BY <1>1, <2>1 DEF Audio, Fetch
<1> QED
  BY <1>1 DEF Preparer, Next

\* Nothing new waits in the background.
NoneFresher == \A k \in Keys : Fresh(k)' => Fresh(k)
\* No job leaves the map.
NoneEnds == \A k \in Keys : job'[k].state = "idle" => job[k].state = "idle"

\* A fetch queues in the urgent queue only.
LEMMA FetchEnds ==
  ASSUME IInv, NEW c \in Callers, Fetch(c)
  PROVE  NoneFresher /\ NoneEnds
<1>1. CASE UrgentBackground(c) \/ UrgentRetrying(c) \/ UrgentNew(c)
  <2>1. PICK x \in Keys : x = call[c].key
    BY <1>1 DEF UrgentBackground, UrgentRetrying, UrgentNew, WaitOn, IInv, CallsGood
  <2>2. PICK j : job' = [job EXCEPT ![x] = j] /\ j.state = "urgent"
    <3>1. CASE UrgentBackground(c)
      <4>1. job' = [job EXCEPT ![x] = [job[x] EXCEPT !.state = "urgent"]]
        BY <2>1, <3>1 DEF UrgentBackground
      <4>2. [job[x] EXCEPT !.state = "urgent"].state = "urgent"
        BY DEF IInv, JobsGood, Good, JobRec
      <4> QED
        BY <4>1, <4>2
    <3>2. CASE UrgentRetrying(c)
      <4>1. job' = [job EXCEPT ![x] = [[job[x] EXCEPT !.state = "urgent"] EXCEPT !.timer = "none"]]
        BY <2>1, <3>2 DEF UrgentRetrying, IInv, JobsGood
      <4>2. [[job[x] EXCEPT !.state = "urgent"] EXCEPT !.timer = "none"].state = "urgent"
        BY DEF IInv, JobsGood, Good, JobRec
      <4> QED
        BY <4>1, <4>2
    <3>3. CASE UrgentNew(c)
      <4>1. job' = [job EXCEPT ![x] = NewJob("urgent")]
        BY <2>1, <3>3 DEF UrgentNew
      <4>2. NewJob("urgent").state = "urgent"
        BY DEF NewJob, NoJob
      <4> QED
        BY <4>1, <4>2
    <3> QED
      BY <1>1, <3>1, <3>2, <3>3
  <2>3. job'[x].state = "urgent" /\ \A k \in Keys : k # x => job'[k] = job[k]
    BY <2>2 DEF IInv, JobsGood
  <2> QED
    BY <2>3 DEF NoneFresher, NoneEnds, Fresh
<1>2. CASE \/ \E k \in Keys : Look(c, k)
           \/ UrgentAlready(c) \/ UrgentStored(c) \/ Answer(c) \/ Abandon(c)
  <2>1. job' = job
    BY <1>2 DEF Look, UrgentAlready, UrgentStored, Answer, Abandon, Return
  <2> QED
    BY <2>1 DEF NoneFresher, NoneEnds, Fresh
<1> QED
  BY <1>1, <1>2 DEF Fetch

\* A worker queues nothing, and only what it finishes ends jobs.
LEMMA WorkEnds ==
  ASSUME IInv, NEW w \in Workers, Work(w)
  PROVE  /\ NoneFresher
         /\ NoneEnds \/ (worker[w].pc = "finish" /\ worker'[w].pc = "next")
<1>1. CASE Take(w)
  <2> DEFINE x == Head(urgent \o background)
  <2>1. job' = [job EXCEPT ![x].state = "generating", ![x].attempts = @ + 1]
    BY <1>1 DEF Take
  <2> HIDE DEF x
  <2>2. \A k \in Keys : job'[k] = job[k] \/ job'[k].state = "generating"
    <3>1. \A k \in Keys : job[k] \in JobRec /\ job = [y \in Keys |-> job[y]]
      BY DEF IInv, JobsGood, Good
    <3>2. \A k \in Keys : k # x => job'[k] = job[k]
      BY <2>1, <3>1
    <3>3. x \in Keys => job'[x] = [[job[x] EXCEPT !.state = "generating"] EXCEPT !.attempts = @ + 1]
      BY <2>1, <3>1
    <3>4. x \in Keys => job'[x].state = "generating"
      BY <3>1, <3>3 DEF JobRec
    <3> QED
      BY <3>2, <3>4
  <2> QED
    BY <2>2 DEF NoneFresher, NoneEnds, Fresh
<1>2. CASE Retire(w) \/ \E result \in Outcomes : Run(w, result)
  <2>1. job' = job
    BY <1>2 DEF Retire, Run
  <2> QED
    BY <2>1 DEF NoneFresher, NoneEnds, Fresh
<1>3. CASE Finish(w)
  <2>1. PICK results : Finishing(w, results)
    BY <1>3 DEF Finish, FinishMade, FinishUnstored, FinishHalt, FinishRetry, FinishFailed
  <2>2. PICK x \in Keys : x = worker[w].key /\ job[x].state = "generating"
    BY <2>1, FinishedJob
  <2>3. worker[w].pc = "finish" /\ worker'[w].pc = "next"
    BY <2>1 DEF Finishing, Off, IInv, WorkersGood
  <2>4. \A k \in Keys : job[k] \in JobRec /\ job = [y \in Keys |-> job[y]]
    BY DEF IInv, JobsGood, Good
  <2>5. \A k \in Keys : job'[k] = job[k] \/ job'[k].state # "background"
    <3>1. CASE FinishMade(w)
      BY <3>1 DEF FinishMade, Drop, NoJob
    <3>2. CASE FinishUnstored(w) \/ FinishFailed(w)
      <4>1. job' = [job EXCEPT ![x] = [job[x] EXCEPT !.state = "failed"]]
        BY <2>2, <3>2 DEF FinishUnstored, FinishFailed
      <4> QED
        BY <2>4, <4>1 DEF JobRec
    <3>3. CASE FinishRetry(w)
      <4>1. job' = [job EXCEPT ![x] = [[job[x] EXCEPT !.state = "retrying"] EXCEPT !.timer = "armed"]]
        BY <2>2, <2>4, <3>3 DEF FinishRetry
      <4>2. [[job[x] EXCEPT !.state = "retrying"] EXCEPT !.timer = "armed"].state = "retrying"
        BY <2>4 DEF JobRec
      <4> QED
        BY <2>4, <4>1, <4>2
    <3>4. CASE FinishHalt(w)
      <4> DEFINE S == ToSet(background) \cup In({"retrying"})
      <4>1. job' = [[k \in Keys |-> IF k \in S THEN NoJob ELSE job[k]] EXCEPT ![x].state = "failed"]
        BY <2>2, <3>4, Zenon DEF FinishHalt, Drop
      <4>2. \A k \in S : k \in Keys /\ job[k].state \in {"background", "retrying"}
        BY DEF IInv, QueuesGood, In
      <4> HIDE DEF S
      <4>3. x \notin S
        BY <2>2, <4>2
      <4>4. /\ job'[x] = [job[x] EXCEPT !.state = "failed"]
            /\ \A k \in Keys : k # x => job'[k] = IF k \in S THEN NoJob ELSE job[k]
        BY <4>1, <4>3
      <4>5. job'[x].state = "failed" /\ NoJob.state = "idle"
        BY <2>4, <4>4 DEF JobRec, NoJob
      <4>6. \A k \in Keys : k # x => job'[k] = job[k] \/ job'[k].state # "background"
        BY <4>4, <4>5
      <4> QED
        BY <4>5, <4>6
    <3> QED
      BY <1>3, <3>1, <3>2, <3>3, <3>4 DEF Finish
  <2> QED
    BY <2>3, <2>5 DEF NoneFresher, Fresh
<1> QED
  BY <1>1, <1>2, <1>3 DEF Work

\* What a timer queues was tried; the cache has no jobs.
LEMMA TimerEnds ==
  ASSUME IInv, NEW x \in Keys, Timer(x) \/ Cache(x) \/ Evict(x)
  PROVE  NoneFresher /\ NoneEnds
<1>1. Good(job[x], late[x]) /\ job[x] \in JobRec
  BY DEF IInv, JobsGood, Good
<1>2. CASE Fire(x)
  <2>1. job' = [job EXCEPT ![x] = [job[x] EXCEPT !.timer = "fired"]]
    BY <1>2 DEF Fire
  <2>2. /\ job'[x] = [job[x] EXCEPT !.timer = "fired"]
        /\ \A k \in Keys : k # x => job'[k] = job[k]
    BY <2>1 DEF IInv, JobsGood
  <2>3. job'[x].state = job[x].state /\ job'[x].attempts = job[x].attempts
    BY <1>1, <2>2 DEF JobRec
  <2> QED
    BY <2>2, <2>3 DEF NoneFresher, NoneEnds, Fresh
<1>3. CASE Requeue(x)
  <2>1. job' = [job EXCEPT ![x] = [[job[x] EXCEPT !.timer = "none"] EXCEPT !.state = "background"]]
    BY <1>3 DEF Requeue, IInv, JobsGood
  <2>2. /\ job'[x] = [[job[x] EXCEPT !.timer = "none"] EXCEPT !.state = "background"]
        /\ \A k \in Keys : k # x => job'[k] = job[k]
    BY <2>1 DEF IInv, JobsGood
  <2>3. job[x].attempts \in 1..MaxAttempts - 1
    BY <1>1, <1>3 DEF Requeue, Good
  <2>4. job'[x].state = "background" /\ job'[x].attempts # 0
    BY <1>1, <2>2, <2>3 DEF JobRec
  <2> QED
    BY <2>2, <2>4 DEF NoneFresher, NoneEnds, Fresh
<1>4. CASE RequeueLate(x) \/ Cache(x) \/ Evict(x)
  BY <1>4 DEF RequeueLate, Cache, Evict, NoneFresher, NoneEnds, Fresh
<1> QED
  BY <1>2, <1>3, <1>4 DEF Timer

\* Together.
LEMMA PreparerEnds ==
  ASSUME IInv, RegistryGood, Preparer
  PROVE  /\ NoneFresher
         /\ NoneEnds \/ \E w \in Workers : worker[w].pc = "finish" /\ worker'[w].pc = "next"
<1>1. ASSUME NEW c \in Callers, Audio(c) PROVE NoneFresher /\ NoneEnds
  <2>1. Held \subseteq Keys
    BY PartsAreKeys DEF RegistryGood
  <2>2. Fetch(c)
    BY <1>1, <2>1 DEF Audio, Fetch
  <2> QED
    BY <2>2, FetchEnds
<1> QED
  BY <1>1, WorkEnds, TimerEnds DEF Preparer

\* A queueing ends no job and queues what it was given.
LEMMA QueueEnds ==
  ASSUME IInv, NEW items \in Seq(Keys), Queue(items)
  PROVE  NoneEnds /\ \A k \in Keys : Fresh(k)' => Fresh(k) \/ k \in ToSet(items)
<1> DEFINE front == ToSet(Wanted(items))
<1>1. job' = [k \in Keys |-> IF k \in front /\ ~Pending(k) THEN NewJob("background") ELSE job[k]]
  BY Zenon DEF Queue
<1>2. front \subseteq ToSet(items)
  BY WantedFacts
<1> HIDE DEF front
<1>3. NewJob("background").state = "background"
  BY DEF NewJob, NoJob
<1>4. \A k \in Keys : job'[k] = job[k] \/ (k \in ToSet(items) /\ job'[k].state = "background")
  BY <1>1, <1>2, <1>3
<1> QED
  BY <1>4 DEF NoneEnds, Fresh

(* ------------------------------ The registry's steps --------------------- *)

\* A step of the registry that leaves the preparer alone.
LEMMA ApartStep ==
  ASSUME IInv, UNCHANGED vars
  PROVE  IInv' /\ NoneFresher /\ NoneEnds
<1>1. IInv'
  BY NextStep
<1>2. job' = job
  BY DEF vars
<1> QED
  BY <1>1, <1>2 DEF NoneFresher, NoneEnds, Fresh

\* Nothing is queued for the gone if nothing new is and no document goes.
LEMMA KnownGrows ==
  ASSUME NoneQueuedForTheGone, NoneFresher, Known \subseteq Known'
  PROVE  NoneQueuedForTheGone'
BY DEF NoneQueuedForTheGone, NoneFresher, Fresh

\* A document registered or looked up, by whoever holds the lock alone.
LEMMA BackStep ==
  ASSUME DocsInv, Unlocked, NEW d \in Docs, docs' = ToBack(d), UNCHANGED vars,
         \/ registry' = Free /\ Len(docs') <= MaxDocs
         \/ /\ registry' = [pc |-> "scan", at |-> 1, gone |-> None]
            /\ ~(Len(docs') <= MaxDocs),
         preparing' \in [Preparations -> Docs \cup {None}]
  PROVE  DocsInv'
<1>1. IInv' /\ NoneFresher
  BY ApartStep DEF DocsInv
<1>2. /\ docs' \in Seq(Docs) /\ IsInjective(docs') /\ ToSet(docs') = ToSet(docs) \cup {d}
      /\ Len(docs') <= Len(docs) + 1
  BY ToBackFacts DEF DocsInv, RegistryGood
<1>3. registry = Free /\ Len(docs) <= MaxDocs
  <2>1. registry.pc = "free"
    BY DEF Unlocked, Free
  <2> QED
    BY <2>1 DEF DocsInv, RegistryGood, Unlocked
<1>4. RegistryGood'
  <2>1. Len(docs) \in Nat /\ Len(docs') \in Nat /\ MaxDocs \in Nat \ {0}
    BY <1>2, DocsAssumption DEF DocsInv, RegistryGood
  <2>2. ~(Len(docs') <= MaxDocs) => Len(docs') = MaxDocs + 1
    BY <1>2, <1>3, <2>1
  <2>3. 1 \in 1..MaxDocs + 1
    BY <2>1
  <2> QED
    BY <1>2, <2>2, <2>3 DEF RegistryGood, Free
<1>5. Known \subseteq Known'
  <2>1. Held \subseteq Held'
    BY <1>2, HeldGrows
  <2>2. registry.gone = None /\ registry'.gone = None
    BY <1>3 DEF Free
  <2> QED
    BY <2>1, <2>2 DEF Known
<1> QED
  BY <1>1, <1>4, <1>5, KnownGrows DEF DocsInv

\* A document looked up keeps the registry within MaxDocs.
LEMMA LookupStep ==
  ASSUME DocsInv, NEW d \in Docs, Lookup(d), UNCHANGED <<vars, registry>>,
         preparing' \in [Preparations -> Docs \cup {None}]
  PROVE  DocsInv'
<1>1. registry = Free /\ d \in ToSet(docs) /\ docs' = ToBack(d)
  BY DEF Lookup, Unlocked, Contains, ToSet, DocsInv, RegistryGood
<1>2. Len(docs) <= MaxDocs
  <2>1. registry.pc = "free"
    BY <1>1 DEF Free
  <2> QED
    BY <2>1 DEF DocsInv, RegistryGood
<1>3. Len(docs') <= MaxDocs
  <2>1. Len(docs') <= Len(docs) /\ docs' \in Seq(Docs)
    BY <1>1, ToBackFacts DEF DocsInv, RegistryGood
  <2>2. Len(docs) \in Nat /\ Len(docs') \in Nat /\ MaxDocs \in Nat
    BY <2>1, DocsAssumption DEF DocsInv, RegistryGood
  <2> QED
    BY <1>2, <2>1, <2>2
<1> QED
  BY <1>1, <1>3, BackStep DEF Unlocked

\* A document more is asked whether it is busy.
LEMMA ScanStep ==
  ASSUME DocsInv, Scan
  PROVE  DocsInv'
<1>1. IInv' /\ NoneFresher /\ docs' = docs /\ preparing' = preparing
  BY ApartStep DEF DocsInv, Scan
<1>2. PICK n \in 1..MaxDocs + 1 : registry = [pc |-> "scan", at |-> n, gone |-> None]
  BY DEF DocsInv, RegistryGood, Scan, Free
<1>3. Len(docs) = MaxDocs + 1
  BY DEF DocsInv, RegistryGood, Scan, Free
<1>4. registry' = [pc |-> "scan", at |-> n + 1, gone |-> None] /\ n < Len(docs)
  BY <1>2 DEF Scan
<1>5. n + 1 \in 1..MaxDocs + 1
  BY <1>3, <1>4, DocsAssumption
<1>6. RegistryGood'
  BY <1>1, <1>3, <1>4, <1>5 DEF DocsInv, RegistryGood
<1>7. Known' = Known
  BY <1>1, <1>2, <1>4 DEF Known, Held
<1> QED
  BY <1>1, <1>6, <1>7, KnownGrows DEF DocsInv

\* The victim's parts stay known until they are forgotten.
LEMMA EvictDocStep ==
  ASSUME DocsInv, EvictDoc
  PROVE  DocsInv'
<1>1. PICK n \in 1..MaxDocs + 1 : registry = [pc |-> "scan", at |-> n, gone |-> None]
  BY DEF DocsInv, RegistryGood, EvictDoc, Free
<1>2. Len(docs) = MaxDocs + 1 /\ docs \in Seq(Docs) /\ IsInjective(docs)
  BY DEF DocsInv, RegistryGood, EvictDoc, Free
<1>3. PICK v \in 1..Len(docs) : /\ docs' = RemoveAt(docs, v)
                                /\ registry' = [pc |-> "forget", at |-> 0, gone |-> docs[v]]
  <2> DEFINE v == IF n < Len(docs) THEN n ELSE 1
  <2>1. v \in 1..Len(docs)
    BY <1>2, DocsAssumption
  <2>2. v = IF registry.at < Len(docs) THEN registry.at ELSE 1
    BY <1>1
  <2> HIDE DEF v
  <2>3. docs' = RemoveAt(docs, v) /\ registry' = [pc |-> "forget", at |-> 0, gone |-> docs[v]]
    BY <2>2, Zenon DEF EvictDoc
  <2> QED
    BY <2>1, <2>3
<1>4. /\ docs' \in Seq(Docs) /\ Len(docs') = Len(docs) - 1 /\ IsInjective(docs')
      /\ ToSet(docs) = ToSet(docs') \cup {docs[v]}
  BY <1>2, <1>3, RemovedAt
<1>5. docs[v] \in Docs /\ docs[v] # None
  BY <1>2, DocsAssumption
<1>6. IInv' /\ NoneFresher /\ preparing' = preparing
  BY ApartStep DEF DocsInv, EvictDoc
<1>7. RegistryGood'
  <2>1. Len(docs') <= MaxDocs
    BY <1>2, <1>4, DocsAssumption
  <2> QED
    BY <1>3, <1>4, <1>5, <1>6, <2>1 DEF DocsInv, RegistryGood
<1>8. Known \subseteq Known'
  <2>1. Held \subseteq Held' \cup ToSet(Parts[docs[v]])
    BY <1>4 DEF Held
  <2>2. registry.gone = None /\ registry'.gone = docs[v]
    BY <1>1, <1>3
  <2> QED
    BY <1>5, <2>1, <2>2 DEF Known
<1> QED
  BY <1>6, <1>7, <1>8, KnownGrows DEF DocsInv

\* What no kept document holds is dropped before the lock is free.
LEMMA ForgetOrphansStep ==
  ASSUME DocsInv, ForgetOrphans
  PROVE  DocsInv'
<1>1. PICK d \in Docs : registry = [pc |-> "forget", at |-> 0, gone |-> d]
  BY DEF DocsInv, RegistryGood, ForgetOrphans, Free
<1>2. Len(docs) <= MaxDocs
  BY DEF DocsInv, RegistryGood, ForgetOrphans, Free
<1>3. Forget(Orphans) /\ registry' = Free /\ docs' = docs /\ preparing' = preparing
  BY DEF ForgetOrphans
<1>4. IInv'
  BY <1>3, ForgetStep DEF DocsInv
<1>5. RegistryGood'
  BY <1>2, <1>3 DEF DocsInv, RegistryGood
<1>6. NoneQueuedForTheGone'
  <2> SUFFICES ASSUME NEW k \in Keys, Fresh(k)' PROVE k \in Known'
    BY DEF NoneQueuedForTheGone, Fresh
  <2> DEFINE S == Orphans \cap In({"background", "retrying", "failed"})
  <2>1. job' = [x \in Keys |-> IF x \in S THEN NoJob ELSE job[x]]
    BY <1>3, Zenon DEF Forget, Drop
  <2>2. k \notin S
    BY <2>1 DEF Fresh, NoJob
  <2>3. Fresh(k)
    BY <2>1, <2>2 DEF Fresh
  <2>4. k \in Known
    BY <2>3 DEF DocsInv, NoneQueuedForTheGone, Fresh
  <2>5. k \notin Orphans
    BY <2>2, <2>3 DEF In, Fresh
  <2>6. k \in Held
    BY <1>1, <2>4, <2>5 DEF Known, Orphans
  <2> QED
    BY <1>3, <2>6 DEF Known, Held
<1> QED
  BY <1>4, <1>5, <1>6 DEF DocsInv

\* A preparation queues the parts of a document that is kept, or nothing.
LEMMA PrepareQueueStep ==
  ASSUME DocsInv, NEW p \in Preparations, NEW failedOnly \in BOOLEAN, PrepareQueue(p, failedOnly)
  PROVE  DocsInv' /\ NoneEnds
<1>1. PICK d \in Docs : d = preparing[p]
  BY DEF DocsInv, RegistryGood, PrepareQueue
<1>2. /\ registry = Free /\ docs' = docs /\ registry' = registry
      /\ preparing' \in [Preparations -> Docs \cup {None}]
  BY DEF PrepareQueue, Unlocked, DocsInv, RegistryGood
<1>3. RegistryGood' /\ Known' = Known /\ Known = Held
  <2>1. registry.gone = None
    BY <1>2 DEF Free
  <2> QED
    BY <1>2, <2>1 DEF DocsInv, RegistryGood, Known, Held
<1>4. CASE Contains(docs, d)
  <2> DEFINE items == IF failedOnly THEN FailedParts(d) ELSE Parts[d]
  <2>1. Queue(items)
    BY <1>1, <1>4, Zenon DEF PrepareQueue
  <2>2. items \in Seq(Keys) /\ ToSet(items) \subseteq ToSet(Parts[d])
    BY PartsAreKeys, WithoutFacts DEF FailedParts
  <2> HIDE DEF items
  <2>3. IInv' /\ NoneEnds /\ \A k \in Keys : Fresh(k)' => Fresh(k) \/ k \in ToSet(items)
    <3>1. PICK s \in Seq(Keys) : s = items
      BY <2>2
    <3> QED
      BY <2>1, <3>1, QueueStep, QueueEnds DEF DocsInv
  <2>4. ToSet(Parts[d]) \subseteq Held
    BY <1>4 DEF Contains, Held, ToSet, DocsInv, RegistryGood
  <2>5. NoneQueuedForTheGone'
    BY <1>3, <2>2, <2>3, <2>4 DEF DocsInv, NoneQueuedForTheGone, Fresh
  <2> QED
    BY <1>3, <2>3, <2>5 DEF DocsInv
<1>5. CASE ~Contains(docs, d)
  <2>1. IInv' /\ NoneFresher /\ NoneEnds
    BY <1>1, <1>5, ApartStep DEF DocsInv, PrepareQueue
  <2> QED
    BY <1>3, <2>1, KnownGrows DEF DocsInv
<1> QED
  BY <1>4, <1>5

\* The preparer runs on without the registry.
LEMMA PreparerStep ==
  ASSUME DocsInv, Preparer
  PROVE  DocsInv'
<1>1. IInv' /\ UNCHANGED docVars
  BY PreparerIsNext, NextStep DEF DocsInv
<1>2. RegistryGood' /\ Known' = Known
  BY <1>1 DEF DocsInv, RegistryGood, docVars, Known, Held
<1>3. NoneFresher
  BY PreparerEnds DEF DocsInv
<1> QED
  BY <1>1, <1>2, <1>3, KnownGrows DEF DocsInv

\* Every step keeps the invariant.
LEMMA DocsStep ==
  ASSUME DocsInv, [DocsNext]_allVars
  PROVE  DocsInv'
<1>1. ASSUME NEW d \in Docs, Register(d) PROVE DocsInv'
  <2>1. \/ registry' = Free /\ Len(docs') <= MaxDocs
        \/ registry' = [pc |-> "scan", at |-> 1, gone |-> None] /\ ~(Len(docs') <= MaxDocs)
    BY <1>1 DEF Register, Free
  <2>2. /\ docs' = ToBack(d) /\ UNCHANGED vars /\ Unlocked
        /\ preparing' \in [Preparations -> Docs \cup {None}]
    BY <1>1 DEF Register, DocsInv, RegistryGood
  <2> QED
    BY <2>1, <2>2, BackStep
<1>2. ASSUME NEW d \in Docs, Status(d) PROVE DocsInv'
  <2>1. preparing' \in [Preparations -> Docs \cup {None}]
    BY <1>2 DEF Status, DocsInv, RegistryGood
  <2> QED
    BY <1>2, <2>1, LookupStep DEF Status
<1>3. ASSUME NEW p \in Preparations, NEW d \in Docs, PrepareLookup(p, d) PROVE DocsInv'
  <2>1. preparing' \in [Preparations -> Docs \cup {None}]
    BY <1>3 DEF PrepareLookup, DocsInv, RegistryGood
  <2> QED
    BY <1>3, <2>1, LookupStep DEF PrepareLookup
<1>4. CASE Registry
  BY <1>1, <1>2, <1>3, <1>4, ScanStep, EvictDocStep, ForgetOrphansStep, PrepareQueueStep
     DEF Registry
<1>5. CASE UNCHANGED allVars
  <2>1. IInv' /\ NoneFresher
    BY <1>5, ApartStep DEF allVars, DocsInv
  <2>2. RegistryGood' /\ Known' = Known
    BY <1>5 DEF DocsInv, RegistryGood, allVars, docVars, Known, Held
  <2> QED
    BY <2>1, <2>2, KnownGrows DEF DocsInv
<1> QED
  BY <1>4, <1>5, PreparerStep DEF DocsNext

\* It holds at first.
LEMMA DocsStarts == DocsInit => DocsInv
<1> SUFFICES ASSUME DocsInit PROVE DocsInv
  OBVIOUS
<1>1. IInv
  BY InitInv DEF DocsInit
<1>2. RegistryGood
  <2>1. <<>> \in Seq(Docs) /\ IsInjective(<<>>) /\ Len(<<>>) = 0
    BY DEF IsInjective
  <2> QED
    BY <2>1, DocsAssumption DEF DocsInit, RegistryGood
<1>3. NoneQueuedForTheGone
  BY DEF DocsInit, Init, NoJob, NoneQueuedForTheGone
<1> QED
  BY <1>1, <1>2, <1>3 DEF DocsInv

(* ------------------------------- Theorems -------------------------------- *)

\* The invariant is inductive.
THEOREM DocsInductive == DocsSpec => []DocsInv
BY DocsStarts, DocsStep, PTL DEF DocsSpec

\* Every variable has its type: the registry holds no document twice and at most
\* one more than MaxDocs, and that only while its lock is held for the eviction.
THEOREM DocsTypeCorrect == DocsSpec => []DocsTypeOK
<1>1. DocsInv => DocsTypeOK
  <2> SUFFICES ASSUME DocsInv PROVE DocsTypeOK
    OBVIOUS
  <2>1. TypeOK
    BY InvTypes DEF DocsInv
  <2>2. registry \in [pc : {"free", "scan", "forget"}, at : 0..MaxDocs + 1, gone : Docs \cup {None}]
    BY DocsAssumption DEF DocsInv, RegistryGood, Free
  <2>3. Len(docs) <= IF registry.pc = "scan" THEN MaxDocs + 1 ELSE MaxDocs
    BY DocsAssumption DEF DocsInv, RegistryGood, Free
  <2> QED
    BY <2>1, <2>2, <2>3 DEF DocsTypeOK, DocsInv, RegistryGood
<1> QED
  BY <1>1, DocsInductive, PTL

\* No untried part waits in the background for a document that is gone: the
\* registry's lock, held over the check and the queueing, and over the removal
\* and the forgetting, keeps an eviction from slipping in (docs.go).
THEOREM NoneQueuedForTheGoneAlways == DocsSpec => []NoneQueuedForTheGone
<1>1. DocsInv => NoneQueuedForTheGone
  BY DEF DocsInv
<1> QED
  BY <1>1, DocsInductive, PTL

\* An eviction costs a kept document nothing: only a halt of the background drops
\* or resets a part that a kept document holds.
THEOREM KeptWorkStaysAlways == DocsSpec => KeptWorkStays
<1> DEFINE Stays ==
      \A k \in Held' : job[k].state \in {"background", "retrying", "failed"} /\ job'[k].state = "idle"
        => \E w \in Workers : worker[w].pc = "finish" /\ worker'[w].pc = "next"
<1>1. ASSUME DocsInv, [DocsNext]_allVars PROVE [Stays]_allVars
  <2>1. Held' \subseteq Keys
    <3>1. docs' \in Seq(Docs)
      BY <1>1, DocsStep DEF DocsInv, RegistryGood
    <3>2. ToSet(docs') \subseteq Docs
      BY <3>1 DEF ToSet
    <3> QED
      BY <3>2, PartsAreKeys DEF Held
  <2>2. ASSUME NoneEnds PROVE Stays
    BY <2>1, <2>2 DEF NoneEnds
  <2>3. CASE Preparer
    BY <1>1, <2>1, <2>2, <2>3, PreparerEnds DEF DocsInv
  <2>4. CASE ForgetOrphans
    <3>1. docs' = docs /\ Forget(Orphans)
      BY <2>4 DEF ForgetOrphans
    <3>2. job' = [x \in Keys |-> IF x \in Orphans \cap In({"background", "retrying", "failed"})
                                 THEN NoJob ELSE job[x]]
      BY <3>1, Zenon DEF Forget, Drop
    <3>3. \A k \in Held' : k \in Keys /\ k \notin Orphans
      BY <2>1, <3>1 DEF Held, Orphans
    <3>4. \A k \in Held' : job'[k] = job[k]
      BY <3>2, <3>3
    <3> QED
      BY <3>4
  <2>5. CASE \E p \in Preparations, failedOnly \in BOOLEAN : PrepareQueue(p, failedOnly)
    BY <1>1, <2>2, <2>5, PrepareQueueStep
  <2>6. CASE UNCHANGED vars
    BY <1>1, <2>2, <2>6, ApartStep DEF DocsInv
  <2>7. Registry => \/ ForgetOrphans \/ UNCHANGED vars
                    \/ \E p \in Preparations, failedOnly \in BOOLEAN : PrepareQueue(p, failedOnly)
    BY DEF Registry, Scan, EvictDoc, Register, Status, PrepareLookup
  <2> HIDE DEF Stays
  <2> QED
    BY <1>1, <2>3, <2>4, <2>5, <2>6, <2>7 DEF DocsNext, allVars
<1> QED
  BY <1>1, DocsInductive, PTL DEF DocsSpec, KeptWorkStays
================================================================================
