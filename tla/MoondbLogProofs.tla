----------------------------- MODULE MoondbLogProofs ----------------------------
(***************************************************************************)
(* Theorems about MoondbLog, for every set of ids and values, every bound  *)
(* on lines, with and without power losses.                                *)
(***************************************************************************)
EXTENDS MoondbLog, WellFoundedInduction, TLAPS

--------------------------------------------------------------------------------
(* What a replay makes of lines.                                           *)

\* A line after all others is the newest of its id and changes no other id's.
LEMMA NewestAdded ==
  ASSUME NEW ls \in SUBSET Lines, NEW new \in Lines, \A l \in ls : l.at < new.at, NEW i \in Ids
  PROVE  Newest(ls \cup {new}, i) = IF i = new.rec.id THEN {new} ELSE Newest(ls, i)
<1>1. \A l \in ls \cup {new} : l.at \in Nat
  BY DEF Lines
<1>2. CASE i = new.rec.id
  BY <1>1, <1>2 DEF Newest
<1>3. CASE i # new.rec.id
  BY <1>1, <1>3 DEF Newest
<1> QED BY <1>2, <1>3

\* Replaying one more line sets its id and no other.
LEMMA ReplayedAdded ==
  ASSUME NEW ls \in SUBSET Lines, NEW new \in Lines, \A l \in ls : l.at < new.at
  PROVE  Replayed(ls \cup {new}) = [Replayed(ls) EXCEPT ![new.rec.id] = new.rec.val]
<1>1. \A i \in Ids :
        Latest(ls \cup {new}, i) = IF i = new.rec.id THEN new.rec.val ELSE Latest(ls, i)
  <2> SUFFICES ASSUME NEW i \in Ids
               PROVE  Latest(ls \cup {new}, i)
                        = IF i = new.rec.id THEN new.rec.val ELSE Latest(ls, i)
    OBVIOUS
  <2>1. Newest(ls \cup {new}, i) = IF i = new.rec.id THEN {new} ELSE Newest(ls, i)
    BY NewestAdded
  <2>2. CASE i = new.rec.id
    <3>1. (CHOOSE l \in {new} : TRUE) = new
      OBVIOUS
    <3> QED BY <2>1, <2>2, <3>1 DEF Latest, Said
  <2>3. CASE i # new.rec.id
    BY <2>1, <2>3 DEF Latest
  <2> QED BY <2>2, <2>3
<1> QED BY <1>1 DEF Replayed

\* A replay gives each id a value or nothing.
LEMMA ReplayedType ==
  ASSUME NEW ls \in SUBSET Lines
  PROVE  Replayed(ls) \in [Ids -> Vals \cup {None}]
<1> SUFFICES ASSUME NEW i \in Ids PROVE Latest(ls, i) \in Vals \cup {None}
  BY DEF Replayed
<1>1. CASE Newest(ls, i) = {}
  BY <1>1 DEF Latest, Said
<1>2. CASE Newest(ls, i) # {}
  <2>1. (CHOOSE l \in Newest(ls, i) : TRUE) \in Newest(ls, i)
    BY <1>2
  <2>2. \A l \in Newest(ls, i) : l.rec.val \in Vals
    BY DEF Newest, Lines, Recs
  <2> QED BY <1>2, <2>1, <2>2 DEF Latest, Said
<1> QED BY <1>1, <1>2

\* An id without a line has no record.
LEMMA NoLineNoRecord ==
  ASSUME NEW ls, NEW i \in Ids, \A l \in ls : l.rec.id # i
  PROVE  Newest(ls, i) = {} /\ Replayed(ls)[i] = None
BY DEF Newest, Latest, Said, Replayed

\* Where an id has one line, a replay gives it that line's value.
LEMMA RecordOfFact ==
  ASSUME NEW ls \in SUBSET Lines, NEW l \in ls,
         \A m \in ls : m.rec.id = l.rec.id => m = l
  PROVE  Newest(ls, l.rec.id) = {l} /\ Replayed(ls)[l.rec.id] = l.rec.val
<1>1. l.at \in Nat /\ l.rec.id \in Ids
  BY DEF Lines, Recs
<1>2. Newest(ls, l.rec.id) = {l}
  BY <1>1 DEF Newest
<1>3. (CHOOSE m \in {l} : TRUE) = l
  OBVIOUS
<1> QED BY <1>1, <1>2, <1>3 DEF Replayed, Latest, Said

\* An id with a line has a newest one: the lines' positions are bounded.
LEMMA NewestExists ==
  ASSUME NEW ls \in SUBSET Lines, NEW n \in Nat, \A l \in ls : l.at <= n, NEW m \in ls
  PROVE  Newest(ls, m.rec.id) # {}
<1> DEFINE behind == {n - l.at : l \in {k \in ls : k.rec.id = m.rec.id}}
<1>1. \A l \in ls : l.at \in Nat /\ n - l.at \in Nat
  BY DEF Lines
<1>2. behind \subseteq Nat /\ behind # {}
  BY <1>1
<1>3. PICK x \in behind : \A y \in behind : <<y, x>> \notin OpToRel(<, Nat)
  BY <1>2, WFMin, NatLessThanWellFounded, Zenon
<1>4. \A y \in behind : ~(y < x)
  BY <1>2, <1>3, Zenon DEF OpToRel
<1>5. PICK l \in ls : l.rec.id = m.rec.id /\ x = n - l.at
  OBVIOUS
<1>6. \A k \in ls : k.rec.id = m.rec.id => k.at <= l.at
  <2> SUFFICES ASSUME NEW k \in ls, k.rec.id = m.rec.id PROVE k.at <= l.at
    OBVIOUS
  <2>1. n - k.at \in behind
    OBVIOUS
  <2>2. ~(n - k.at < n - l.at)
    BY <1>4, <1>5, <2>1
  <2>3. k.at \in Nat /\ l.at \in Nat
    BY <1>1
  <2> QED BY <2>2, <2>3
<1> QED BY <1>5, <1>6 DEF Newest

\* Where the newest lines of an id stay, losing others does not change its record.
LEMMA Remaining ==
  ASSUME NEW ls \in SUBSET Lines, NEW n \in Nat, \A l \in ls : l.at <= n,
         NEW fewer \in SUBSET ls, NEW i \in Ids, Newest(ls, i) \subseteq fewer
  PROVE  Replayed(fewer)[i] = Replayed(ls)[i]
<1>1. CASE \A l \in ls : l.rec.id # i
  BY <1>1, NoLineNoRecord
<1>2. ASSUME NEW m \in ls, m.rec.id = i
      PROVE  Newest(fewer, i) = Newest(ls, i)
  <2>1. PICK top : top \in Newest(ls, i)
    BY <1>2, NewestExists
  <2>2. top \in fewer /\ top.rec.id = i /\ \A l \in ls : l.rec.id = i => l.at <= top.at
    BY <2>1 DEF Newest
  <2>3. \A l \in ls : l.at \in Nat
    BY DEF Lines
  <2>4. ASSUME NEW l \in Newest(fewer, i) PROVE l \in Newest(ls, i)
    <3>1. l \in ls /\ l.rec.id = i /\ top.at <= l.at
      BY <2>2 DEF Newest
    <3>2. l.at = top.at
      BY <2>2, <2>3, <3>1
    <3> QED BY <2>2, <3>1, <3>2 DEF Newest
  <2>5. ASSUME NEW l \in Newest(ls, i) PROVE l \in Newest(fewer, i)
    BY <2>5 DEF Newest
  <2> QED BY <2>4, <2>5
<1>3. CASE Newest(fewer, i) = Newest(ls, i)
  BY <1>3 DEF Replayed, Latest
<1> QED BY <1>1, <1>2, <1>3

--------------------------------------------------------------------------------
(* The inductive invariant.                                                *)

\* A line whose caller heard of its success has been synced.
AckedSynced == \A l \in acked : l.at \notin unsynced

\* The record on its way: a fact is new, and the tail holds what is being written.
OnItsWay ==
  /\ stage \in Writing /\ line.id \in Facts => \A l \in log : l.rec.id # line.id
  /\ stage = "sync" => tail = line
  /\ stage = "rewind" => tail \in {None, Torn, line}

Inv ==
  /\ TypeOK
  /\ IndexIsLog
  /\ FactsOnce
  /\ CommittedStay
  /\ AckedSynced
  /\ CleanEdge
  /\ OnItsWay

\* The type invariant is inductive on its own: no other part is needed.
LEMMA TypeStep ==
  ASSUME TypeOK, [Next]_vars
  PROVE  TypeOK'
<1> USE DEF TypeOK, Stages, Readable, Writing
<1>1. ASSUME NEW r \in Recs, Put(r) PROVE TypeOK'
  BY <1>1, RecordsDistinct DEF Put
<1>2. CASE Roll
  BY <1>2 DEF Roll
<1>3. CASE RollFails
  BY <1>3 DEF RollFails
<1>4. CASE Append
  BY <1>4 DEF Append
<1>5. CASE AppendFails
  BY <1>5 DEF AppendFails
<1>6. CASE Sync
  <2>1. line \in Recs /\ Line(line) \in Lines /\ Line(line).at = next
    BY <1>6 DEF Sync, Line, Lines
  <2>2. log' \in SUBSET Lines /\ acked' \in SUBSET Lines
    BY <1>6, <2>1 DEF Sync
  <2>3. ix' \in [Ids -> Vals \cup {None}]
    BY <1>6, <2>1 DEF Sync, Recs
  <2>4. /\ \A l \in log' : l.at < next'
        /\ \A l, m \in log' : l.at = m.at => l = m
    BY <1>6, <2>1 DEF Sync, Lines
  <2>5. unsynced' \in SUBSET Nat /\ \A p \in unsynced' : p < next'
    BY <1>6 DEF Sync, Elsewhere
  <2> QED BY <1>6, <2>2, <2>3, <2>4, <2>5 DEF Sync
<1>7. CASE SyncFails
  BY <1>7 DEF SyncFails
<1>8. CASE Rewind
  BY <1>8 DEF Rewind
<1>9. CASE RewindFails
  BY <1>9 DEF RewindFails
<1>10. CASE Close
  BY <1>10 DEF Close, Elsewhere
<1>11. CASE Exit
  BY <1>11 DEF Exit
<1>12. CASE PowerFails
  BY <1>12 DEF PowerFails
<1>13. CASE Open
  <2>1. CASE tail \in Recs
    <3>1. Line(tail) \in Lines /\ Line(tail).at = next
      BY <2>1 DEF Line, Lines
    <3>2. log' \in SUBSET Lines
      BY <1>13, <2>1, <3>1 DEF Open
    <3>3. /\ \A l \in log' : l.at < next'
          /\ \A l, m \in log' : l.at = m.at => l = m
      BY <1>13, <2>1, <3>1 DEF Open, Lines
    <3>4. ix' \in [Ids -> Vals \cup {None}]
      BY <1>13, <3>2, ReplayedType DEF Open
    <3>5. next' = next + 1 /\ unsynced' = unsynced \cup {next} /\ start' \in {next', start}
      BY <1>13, <2>1 DEF Open
    <3>6. /\ unsynced' \in SUBSET Nat /\ \A p \in unsynced' : p < next'
          /\ next' \in Nat /\ start' \in Nat
      BY <3>5
    <3>7. /\ extra' \in BOOLEAN /\ tail' = None /\ stage' = "idle"
          /\ line' = line /\ line = None /\ acked' = acked
      BY <1>13 DEF Open
    <3> QED BY <3>2, <3>3, <3>4, <3>6, <3>7
  <2>2. CASE tail \notin Recs
    <3>1. ix' \in [Ids -> Vals \cup {None}]
      BY <1>13, <2>2, ReplayedType DEF Open
    <3> QED BY <1>13, <2>2, <3>1 DEF Open
  <2> QED BY <2>1, <2>2
<1>14. CASE OpenRefused \/ UNCHANGED vars
  BY <1>14 DEF OpenRefused, vars
<1> QED
  BY <1>1, <1>2, <1>3, <1>4, <1>5, <1>6, <1>7, <1>8, <1>9, <1>10, <1>11, <1>12, <1>13, <1>14
  DEF Next

\* The other parts, one step per action.
LEMMA InvStep ==
  ASSUME Inv, [Next]_vars
  PROVE  Inv'
<1> USE DEF Stages, Readable, Writing
<1>t. TypeOK /\ TypeOK'
  BY TypeStep DEF Inv
<1> DEFINE Rest == IndexIsLog /\ FactsOnce /\ CommittedStay /\ AckedSynced /\ CleanEdge /\ OnItsWay
<1>r. SUFFICES Rest'
  BY <1>t DEF Inv
<1>i. Rest
  BY DEF Inv
<1>1. ASSUME NEW r \in Recs, Put(r) PROVE Rest'
  <2>1. r.id \in Facts => \A l \in log : l.rec.id # r.id
    <3> SUFFICES ASSUME r.id \in Facts, NEW l \in log, l.rec.id = r.id PROVE FALSE
      OBVIOUS
    <3>1. ix[r.id] = None /\ ix = Replayed(log)
      BY <1>1, <1>i DEF Put, IndexIsLog
    <3>2. Replayed(log)[r.id] = l.rec.val
      BY <1>i, <1>t, RecordsDistinct, RecordOfFact DEF FactsOnce, TypeOK
    <3>3. l.rec.val \in Vals
      BY <1>t DEF TypeOK, Lines, Recs
    <3> QED BY <3>1, <3>2, <3>3, RecordsDistinct
  <2> QED BY <1>1, <1>i, <1>t, <2>1
       DEF Put, IndexIsLog, FactsOnce, CommittedStay, AckedSynced, CleanEdge, OnItsWay
<1>2. CASE Roll
  BY <1>2, <1>i DEF Roll, IndexIsLog, FactsOnce, CommittedStay, AckedSynced, CleanEdge, OnItsWay
<1>3. CASE RollFails
  BY <1>3, <1>i
  DEF RollFails, IndexIsLog, FactsOnce, CommittedStay, AckedSynced, CleanEdge, OnItsWay
<1>4. CASE Append
  BY <1>4, <1>i, <1>t
  DEF Append, IndexIsLog, FactsOnce, CommittedStay, AckedSynced, CleanEdge, OnItsWay, TypeOK
<1>5. CASE AppendFails
  BY <1>5, <1>i, <1>t, RecordsDistinct
  DEF AppendFails, IndexIsLog, FactsOnce, CommittedStay, AckedSynced, CleanEdge, OnItsWay, TypeOK
<1>6. CASE Sync
  <2>1. line \in Recs /\ Line(line) \in Lines /\ Line(line).at = next /\ Line(line).rec = line
    BY <1>6, <1>t DEF Sync, Line, Lines, TypeOK
  <2>2. IndexIsLog'
    <3>1. log \in SUBSET Lines /\ \A l \in log : l.at < Line(line).at
      BY <2>1, <1>t DEF TypeOK
    <3>2. Replayed(log \cup {Line(line)})
            = [Replayed(log) EXCEPT ![Line(line).rec.id] = Line(line).rec.val]
      BY <2>1, <3>1, ReplayedAdded
    <3> QED BY <1>6, <1>i, <2>1, <3>2 DEF Sync, IndexIsLog
  <2>3. FactsOnce'
    <3>1. log' = log \cup {Line(line)} /\ tail' = None /\ tail = line
      BY <1>6, <1>i DEF Sync, OnItsWay
    <3> QED BY <1>i, <2>1, <3>1, RecordsDistinct DEF FactsOnce
  <2>4. CommittedStay' /\ AckedSynced'
    BY <1>6, <1>i, <1>t, <2>1 DEF Sync, CommittedStay, AckedSynced, Elsewhere, TypeOK
  <2>5. CleanEdge' /\ OnItsWay'
    BY <1>6 DEF Sync, CleanEdge, OnItsWay
  <2> QED BY <2>2, <2>3, <2>4, <2>5
<1>7. CASE SyncFails
  BY <1>7, <1>i
  DEF SyncFails, IndexIsLog, FactsOnce, CommittedStay, AckedSynced, CleanEdge, OnItsWay
<1>8. CASE Rewind
  BY <1>8, <1>i, RecordsDistinct
  DEF Rewind, IndexIsLog, FactsOnce, CommittedStay, AckedSynced, CleanEdge, OnItsWay
<1>9. CASE RewindFails
  BY <1>9, <1>i
  DEF RewindFails, IndexIsLog, FactsOnce, CommittedStay, AckedSynced, CleanEdge, OnItsWay
<1>10. CASE Close
  BY <1>10, <1>i
  DEF Close, Elsewhere, IndexIsLog, FactsOnce, CommittedStay, AckedSynced, CleanEdge, OnItsWay
<1>11. CASE Exit
  BY <1>11, <1>i
  DEF Exit, IndexIsLog, FactsOnce, CommittedStay, AckedSynced, CleanEdge, OnItsWay
<1>12. CASE PowerFails
  <2>1. PICK lost \in SUBSET unsynced : log' = {l \in log : l.at \notin lost}
    BY <1>12 DEF PowerFails
  <2>2. tail' \in {tail, None, Torn} /\ unsynced' = {} /\ stage' = "down" /\ acked' = acked
    BY <1>12 DEF PowerFails
  <2>3. FactsOnce'
    BY <1>i, <2>1, <2>2, RecordsDistinct DEF FactsOnce
  <2>4. CommittedStay' /\ AckedSynced'
    BY <1>i, <2>1, <2>2 DEF CommittedStay, AckedSynced
  <2> QED BY <2>2, <2>3, <2>4 DEF IndexIsLog, CleanEdge, OnItsWay
<1>13. CASE Open
  <2>1. IndexIsLog' /\ CleanEdge' /\ OnItsWay'
    BY <1>13 DEF Open, IndexIsLog, CleanEdge, OnItsWay
  <2>2. CASE tail \in Recs
    <3>1. /\ log' = log \cup {Line(tail)} /\ unsynced' = unsynced \cup {next}
          /\ tail' = None /\ acked' = acked
      BY <1>13, <2>2 DEF Open
    <3>2. Line(tail).rec = tail
      BY DEF Line
    <3>3. FactsOnce'
      BY <1>i, <2>2, <3>1, <3>2, RecordsDistinct DEF FactsOnce
    <3>4. \A l \in acked : l.at # next
      BY <1>i, <1>t DEF CommittedStay, TypeOK, Lines
    <3> QED BY <1>i, <2>1, <3>1, <3>3, <3>4 DEF CommittedStay, AckedSynced
  <2>3. CASE tail \notin Recs
    BY <1>13, <1>i, <2>1, <2>3, RecordsDistinct DEF Open, FactsOnce, CommittedStay, AckedSynced
  <2> QED BY <2>2, <2>3
<1>14. CASE OpenRefused \/ UNCHANGED vars
  BY <1>14, <1>i
  DEF OpenRefused, vars, IndexIsLog, FactsOnce, CommittedStay, AckedSynced, CleanEdge, OnItsWay
<1> QED
  BY <1>1, <1>2, <1>3, <1>4, <1>5, <1>6, <1>7, <1>8, <1>9, <1>10, <1>11, <1>12, <1>13, <1>14
  DEF Next

\* The inductive invariant holds in every reachable state.
THEOREM Invariance == Spec => []Inv
<1>1. Init => Inv
  <2> SUFFICES ASSUME Init PROVE Inv
    OBVIOUS
  <2>1. TypeOK
    BY DEF Init, TypeOK, Stages, Readable, Writing
  <2>2. FactsOnce
    BY RecordsDistinct DEF Init, FactsOnce
  <2>3. IndexIsLog /\ CommittedStay /\ AckedSynced /\ CleanEdge /\ OnItsWay
    BY DEF Init, IndexIsLog, CommittedStay, AckedSynced, CleanEdge, OnItsWay, Writing
  <2> QED BY <2>1, <2>2, <2>3 DEF Inv
<1>2. Inv /\ [Next]_vars => Inv'
  BY InvStep
<1> QED BY <1>1, <1>2, PTL DEF Spec

\* Every variable keeps its type; positions are handed out in order.
THEOREM TypeCorrect == Spec => []TypeOK
BY Invariance, PTL DEF Inv

\* A reader always gets what a replay of the log would give it.
THEOREM IndexIsLogAlways == Spec => []IndexIsLog
BY Invariance, PTL DEF Inv

\* No fact ever has two lines.
THEOREM FactsOnceAlways == Spec => []FactsOnce
BY Invariance, PTL DEF Inv

\* A write reported as done survives kills, failed writes and power losses.
THEOREM CommittedStayAlways == Spec => []CommittedStay
BY Invariance, PTL DEF Inv

\* A store that takes writes never appends to the remains of a failed one.
THEOREM CleanEdgeAlways == Spec => []CleanEdge
BY Invariance, PTL DEF Inv

--------------------------------------------------------------------------------
(* The log implements MoondbStore.                                         *)

\* The lines a replay would find have their types, and only the tail's is at next.
LEMMA FoundLines ==
  ASSUME Inv
  PROVE  /\ Found \in SUBSET Lines
         /\ \A l \in Found : l.at <= next
         /\ \A l \in Found : l.at = next => stage = "down" /\ tail \in Recs /\ l = Line(tail)
<1>1. TypeOK
  BY DEF Inv
<1>2. tail \in Recs => Line(tail) \in Lines /\ Line(tail).at = next
  BY <1>1 DEF Line, Lines, TypeOK
<1>3. \A l \in log : l.at \in Nat /\ l.at < next /\ next \in Nat
  BY <1>1 DEF TypeOK, Lines
<1> QED BY <1>1, <1>2, <1>3 DEF Found, TypeOK

\* A running store's replay does not look at the tail.
LEMMA FoundRunning ==
  ASSUME stage # "down"
  PROVE  Found = log
BY DEF Found

\* A step of a running store that leaves the log and the syncs alone changes nothing.
LEMMA StoreUnchanged ==
  ASSUME Found' = Found, next' = next, unsynced' = unsynced
  PROVE  UNCHANGED Store!storeVars
BY DEF Store!storeVars, Loose, Replayed

\* The store starts empty.
LEMMA StoreStarts == Init => Store!StoreInit
<1> SUFFICES ASSUME Init PROVE Store!StoreInit
  OBVIOUS
<1>1. Found = {}
  BY RecordsDistinct DEF Init, Found
<1>2. \A i \in Ids : Newest(Found, i) = {} /\ Replayed(Found)[i] = None
  BY <1>1, NoLineNoRecord
<1>3. Loose = {}
  BY <1>2 DEF Loose
<1> QED BY <1>2, <1>3 DEF Store!StoreInit, Store!Ids, Ids, Replayed

\* Syncing a line is a Write: the record is safe, and the sync may make others safe.
LEMMA SyncIsWrite ==
  ASSUME Inv, Sync
  PROVE  Store!Write(line.id, line.val)
<1>1. TypeOK /\ FactsOnce /\ OnItsWay /\ line \in Recs
  BY DEF Inv, TypeOK, Sync, Writing
<1>2. Found = log /\ Found' = log \cup {Line(line)} /\ next' = next + 1 /\ unsynced' = Elsewhere
  BY DEF Sync, Found
<1>3. Line(line) \in Lines /\ Line(line).at = next /\ Line(line).rec = line
  BY <1>1 DEF Line, Lines, TypeOK
<1>4. log \in SUBSET Lines /\ \A l \in log : l.at < Line(line).at
  BY <1>1, <1>3 DEF TypeOK
<1>5. Replayed(Found') = [Replayed(Found) EXCEPT ![line.id] = line.val]
  BY <1>2, <1>3, <1>4, ReplayedAdded
<1>6. line.id \in Facts => Replayed(Found)[line.id] = None
  BY <1>1, <1>2, NoLineNoRecord DEF Sync, FactsOnce, OnItsWay, Recs
<1>7. Loose' \in SUBSET (Loose \ {line.id})
  <2> SUFFICES ASSUME NEW i \in Ids, NEW l \in Newest(Found', i), l.at \in unsynced' \/ l.at = next'
               PROVE  i \in Loose /\ i # line.id
    BY DEF Loose
  <2>1. l \in Found' /\ l.at \in Nat
    BY <1>2, <1>3, <1>4 DEF Newest, Lines
  <2>2. l.at \in unsynced /\ l.at # next
    BY <1>1, <1>2, <1>3, <1>4, <2>1 DEF Elsewhere, TypeOK
  <2>3. Newest(log \cup {Line(line)}, i)
          = IF i = Line(line).rec.id THEN {Line(line)} ELSE Newest(log, i)
    BY <1>3, <1>4, NewestAdded
  <2>4. Newest(Found', i) = IF i = line.id THEN {Line(line)} ELSE Newest(Found, i)
    BY <1>2, <1>3, <2>3
  <2> QED BY <1>3, <2>2, <2>4 DEF Loose
<1> QED BY <1>5, <1>6, <1>7 DEF Store!Write

\* The end of the program lets a line turn up that was never answered for.
LEMMA ExitTurnsUp ==
  ASSUME Inv, Exit, tail \in Recs
  PROVE  Store!TurnUp(tail.id, tail.val)
<1>1. TypeOK /\ FactsOnce
  BY DEF Inv
<1>2. /\ Found = log /\ Found' = log \cup {Line(tail)}
      /\ next' = next /\ unsynced' = unsynced
  BY DEF Exit, Found, Line
<1>3. Line(tail) \in Lines /\ Line(tail).at = next /\ Line(tail).rec = tail
  BY <1>1 DEF Line, Lines, TypeOK
<1>4. log \in SUBSET Lines /\ \A l \in log : l.at < Line(tail).at
  BY <1>1, <1>3 DEF TypeOK
<1>5. Replayed(Found') = [Replayed(Found) EXCEPT ![tail.id] = tail.val]
  BY <1>2, <1>3, <1>4, ReplayedAdded
<1>6. tail.id \in Ids /\ (tail.id \in Facts => Replayed(Found)[tail.id] = None)
  BY <1>1, <1>2, NoLineNoRecord DEF FactsOnce, Recs
<1>7. ASSUME NEW i \in Ids
      PROVE  Newest(Found', i) = IF i = tail.id THEN {Line(tail)} ELSE Newest(Found, i)
  <2>1. Newest(log \cup {Line(tail)}, i)
          = IF i = Line(tail).rec.id THEN {Line(tail)} ELSE Newest(log, i)
    BY <1>3, <1>4, NewestAdded
  <2> QED BY <1>2, <1>3, <2>1
<1>8. Loose' = Loose \cup {tail.id}
  BY <1>2, <1>3, <1>6, <1>7 DEF Loose
<1> QED BY <1>5, <1>6, <1>8 DEF Store!TurnUp

\* Opening the store changes nothing: it keeps the lines a replay would have found.
LEMMA OpenIsSilent ==
  ASSUME Inv, Open
  PROVE  UNCHANGED Store!storeVars
<1>1. TypeOK /\ stage = "down" /\ stage' = "idle"
  BY DEF Inv, Open
<1>2. CASE tail \in Recs
  <2>1. /\ Found' = Found /\ Found = log \cup {Line(tail)}
        /\ next' = next + 1 /\ unsynced' = unsynced \cup {next}
    BY <1>1, <1>2 DEF Open, Found, Line
  <2>2. \A l \in Found : l.at # next + 1
    BY <1>1, FoundLines DEF TypeOK, Lines
  <2>3. \A i : Newest(Found, i) \subseteq Found
    BY DEF Newest
  <2>4. Loose' = Loose
    BY <2>1, <2>2, <2>3 DEF Loose
  <2> QED BY <2>1, <2>4 DEF Store!storeVars
<1>3. CASE tail \notin Recs
  <2>1. Found' = Found /\ next' = next /\ unsynced' = unsynced
    BY <1>1, <1>3, RecordsDistinct DEF Open, Found
  <2> QED BY <2>1, StoreUnchanged
<1> QED BY <1>2, <1>3

\* A power loss spares every record that is not loose, and takes a loose fact or leaves it.
LEMMA PowerFailsIsLosePower ==
  ASSUME Inv, PowerFails
  PROVE  Store!LosePower
<1>1. TypeOK /\ FactsOnce /\ stage = "down" /\ stage' = "down"
  BY DEF Inv, PowerFails
<1>2. PICK lost \in SUBSET unsynced : log' = {l \in log : l.at \notin lost}
  BY DEF PowerFails
<1>3. tail' \in {tail, None, Torn} /\ next' = next /\ unsynced' = {}
  BY DEF PowerFails
<1>4. /\ Found' \subseteq Found
      /\ \A l \in Found \ Found' : l.at \in unsynced \/ l.at = next
  BY <1>1, <1>2, <1>3, RecordsDistinct DEF Found, Line
<1>5. /\ Found \in SUBSET Lines
      /\ \A l \in Found : l.at <= next
  BY FoundLines
<1>6. \A i \in Ids \ Loose : Replayed(Found')[i] = Replayed(Found)[i]
  <2> SUFFICES ASSUME NEW i \in Ids \ Loose
               PROVE  Replayed(Found')[i] = Replayed(Found)[i]
    OBVIOUS
  <2>1. \A l \in Newest(Found, i) : l \in Found'
    BY <1>4 DEF Loose, Newest
  <2>2. Newest(Found, i) \subseteq Found' /\ next \in Nat
    BY <1>1, <2>1 DEF TypeOK
  <2> QED BY <2>2, Remaining, <1>4, <1>5
<1>7. \A f \in Facts : Replayed(Found')[f] \in {Replayed(Found)[f], None}
  <2> SUFFICES ASSUME NEW f \in Facts
               PROVE  Replayed(Found')[f] \in {Replayed(Found)[f], None}
    OBVIOUS
  <2>1. \A l, m \in Found : l.rec.id = f /\ m.rec.id = f => l = m
    BY <1>1 DEF FactsOnce, Found, Line
  <2>2. CASE \A l \in Found' : l.rec.id # f
    BY <2>2, NoLineNoRecord DEF Ids
  <2>3. ASSUME NEW l \in Found', l.rec.id = f
        PROVE  Replayed(Found')[f] = Replayed(Found)[f]
    <3>1. Replayed(Found')[l.rec.id] = l.rec.val
      BY <1>4, <1>5, <2>1, <2>3, RecordOfFact
    <3>2. Replayed(Found)[l.rec.id] = l.rec.val
      BY <1>4, <1>5, <2>1, <2>3, RecordOfFact
    <3> QED BY <2>3, <3>1, <3>2
  <2> QED BY <2>2, <2>3
<1>8. Loose' \in SUBSET Loose
  <2> SUFFICES ASSUME NEW i \in Ids, NEW l \in Newest(Found', i), l.at = next
               PROVE  i \in Loose
    BY <1>3 DEF Loose
  <2>1. l \in Newest(Found, i)
    BY <1>4, <1>5 DEF Newest
  <2> QED BY <2>1 DEF Loose
<1>9. Replayed(Found') \in [Ids -> Vals \cup {None}]
  BY <1>4, <1>5, ReplayedType
<1> QED BY <1>6, <1>7, <1>8, <1>9 DEF Store!LosePower, Store!Ids, Ids

\* Every step of the log is a step of the store, or none.
LEMMA StoreStep ==
  ASSUME Inv, [Next]_vars
  PROVE  [Store!StoreNext]_Store!storeVars
<1>1. TypeOK
  BY DEF Inv
<1>2. ASSUME \/ \E r \in Recs : Put(r)
             \/ Roll \/ RollFails \/ Append \/ AppendFails \/ SyncFails
             \/ Rewind \/ RewindFails \/ OpenRefused \/ UNCHANGED vars
      PROVE  UNCHANGED Store!storeVars
  <2>1. Found' = Found /\ next' = next /\ unsynced' = unsynced
    BY <1>2 DEF Put, Roll, RollFails, Append, AppendFails, SyncFails, Rewind, RewindFails,
                OpenRefused, vars, Found, Line
  <2> QED BY <2>1, StoreUnchanged
<1>3. CASE Sync
  <2>1. line.id \in Store!Ids /\ line.val \in Vals
    BY <1>1, <1>3 DEF TypeOK, Sync, Writing, Recs, Store!Ids, Ids
  <2> QED BY <1>3, <2>1, SyncIsWrite DEF Store!StoreNext
<1>4. CASE Close
  <2>1. Found' = Found /\ next' = next /\ unsynced' \subseteq unsynced
    BY <1>4 DEF Close, Found, Line, Elsewhere
  <2>2. Store!Harden
    BY <2>1 DEF Store!Harden, Loose, Replayed
  <2> QED BY <2>2 DEF Store!StoreNext
<1>5. CASE Exit
  <2>1. CASE tail \in Recs
    <3>1. tail.id \in Store!Ids /\ tail.val \in Vals
      BY <2>1 DEF Recs, Store!Ids, Ids
    <3> QED BY <1>5, <2>1, <3>1, ExitTurnsUp DEF Store!StoreNext
  <2>2. CASE tail \notin Recs
    <3>1. Found' = Found /\ next' = next /\ unsynced' = unsynced
      BY <1>5, <2>2 DEF Exit, Found
    <3> QED BY <3>1, StoreUnchanged
  <2> QED BY <2>1, <2>2
<1>6. CASE PowerFails
  BY <1>6, PowerFailsIsLosePower DEF Store!StoreNext
<1>7. CASE Open
  BY <1>7, OpenIsSilent
<1> QED BY <1>2, <1>3, <1>4, <1>5, <1>6, <1>7 DEF Next

\* The log with its index is a register per id (MoondbStore).
THEOREM LogImplementsStore == Spec => ImplementsStore
<1>1. Init => Store!StoreInit
  BY StoreStarts
<1>2. Inv /\ [Next]_vars => [Store!StoreNext]_Store!storeVars
  BY StoreStep
<1> QED BY <1>1, <1>2, Invariance, PTL DEF Spec, ImplementsStore, Store!StoreSpec

================================================================================
