----------------------------- MODULE CslSyncProofs ----------------------------
(***************************************************************************)
(* Proofs about CslSync, for any number of processes, repos and hooks.      *)
(***************************************************************************)
EXTENDS CslSync, FiniteSetTheorems, TLAPS

(* ------------------------- The inductive invariant ----------------------- *)

\* A process that is about to read its claim has one, and one that writes shards
\* has a repo in work.
InHand ==
  \A p \in Procs :
    /\ pc[p] = "claimed" => claimed[p] # None
    /\ pc[p] = "writing" => work[p] \in [repo : Repos, tree : Nat]

\* Who relies on a lock file finds its own at the path.
LockInv == robbed \/ \A p \in Holding : lockFile = p

\* Git's fingerprint is one the tree has had, and shards are no newer than the tree.
TreeInv == \A r \in Repos : git[r] \in past[r] /\ shard[r] <= tree[r]

\* An entry e about r is right: it has a fingerprint r has had, and if that is the one
\* git gives then the shards are those of the tree, but for hidden changes.
Sound(r, e) ==
  /\ e.print \in past[r] \union {None}
  /\ e.print = git[r] => shard[r] = tree[r] \/ again[r] \/ e.late

\* What a run may record is right: the entries it loaded, the fingerprints of what it
\* has built, and of what it is building once it is put.
RunSound(p) ==
  /\ pc[p] \in {"building", "writing", "built"} =>
       /\ \A r \in Repos : Sound(r, loaded[p][r]) /\ current[p][r] \in past[r] \union {None}
       /\ \A r \in built[p] : current[p][r] = git[r] => shard[r] = tree[r] \/ again[r]
  /\ pc[p] = "writing" =>
       /\ shard[work[p].repo] <= work[p].tree /\ work[p].tree <= tree[work[p].repo]
       /\ current[p][work[p].repo] = git[work[p].repo] =>
            work[p].tree = tree[work[p].repo] \/ again[work[p].repo]

\* All this as long as no lock was robbed.
FreshInv ==
  robbed \/ (TreeInv /\ (\A r \in Repos : Sound(r, state[r])) /\ \A p \in Holding : RunSound(p))

\* The empty state, and no fingerprints, have their types ...
LEMMA EmptyTypes == Unread \in [Repos -> Entry] /\ NoPrints \in [Repos -> Prints \union {None}]
BY DEF Unread, Entry, NoPrints

\* ... and so have the variables of a run that forgets them.
LEMMA ForgetTypes ==
  ASSUME TypeOK, NEW p \in Procs, ForgetIndexing(p)
  PROVE  /\ loaded' \in [Procs -> [Repos -> Entry]]
         /\ current' \in [Procs -> [Repos -> Prints \union {None}]]
         /\ todo' \in [Procs -> SUBSET Repos] /\ built' \in [Procs -> SUBSET Repos]
         /\ work' \in [Procs -> [repo : Repos, tree : Nat] \union {None}]
         /\ \A q \in Procs \ {p} : work'[q] = work[q]
BY EmptyTypes DEF ForgetIndexing, TypeOK

\* Trees that change keep their types.
LEMMA AlteredTypes ==
  ASSUME TypeOK, NEW S, NEW new \in [Repos -> Prints], Altered(S, new)
  PROVE  /\ tree' \in [Repos -> Nat] /\ git' \in [Repos -> Prints]
         /\ past' \in [Repos -> SUBSET Prints] /\ again' \in [Repos -> BOOLEAN]
<1>1. /\ tree \in [Repos -> Nat] /\ git \in [Repos -> Prints]
      /\ past \in [Repos -> SUBSET Prints] /\ again \in [Repos -> BOOLEAN]
  BY DEF TypeOK
<1>2. tree' \in [Repos -> Nat] /\ git' \in [Repos -> Prints]
  BY <1>1 DEF Altered
<1>3. \A r \in Repos : (IF r \in S THEN past[r] \union {new[r]} ELSE past[r]) \in SUBSET Prints
  BY <1>1
<1>4. past' \in [Repos -> SUBSET Prints]
  BY <1>3 DEF Altered
<1>5. again' \in [Repos -> BOOLEAN]
  <2>1. \A r \in Repos : (IF r \in S THEN new[r] \in past[r] ELSE again[r]) \in BOOLEAN
    <3> SUFFICES ASSUME NEW r \in Repos
                 PROVE  (IF r \in S THEN new[r] \in past[r] ELSE again[r]) \in BOOLEAN
      OBVIOUS
    <3>1. CASE r \in S
      <4>1. CASE new[r] \in past[r]
        BY ONLY <3>1, <4>1
      <4>2. CASE new[r] \notin past[r]
        BY ONLY <3>1, <4>2
      <4> QED
        BY ONLY <4>1, <4>2
    <3>2. CASE r \notin S
      <4>1. again[r] \in BOOLEAN
        BY <1>1
      <4> QED
        BY ONLY Zenon, <3>2, <4>1
    <3> QED
      BY ONLY <3>1, <3>2
  <2>2. again' = [r \in Repos |-> IF r \in S THEN new[r] \in past[r] ELSE again[r]]
    BY DEF Altered
  <2> QED
    BY ONLY <2>1, <2>2
<1> QED
  BY <1>2, <1>4, <1>5

\* Init establishes all of it.
LEMMA InitInv == Init => TypeOK /\ InHand /\ LockInv /\ FreshInv
<1> SUFFICES ASSUME Init PROVE TypeOK /\ InHand /\ LockInv /\ FreshInv
  OBVIOUS
<1>1. TypeOK /\ InHand
  <2>1. Unread \in [Repos -> Entry] /\ NoPrints \in [Repos -> Prints \union {None}]
    BY EmptyTypes
  <2>2. past \in [Repos -> SUBSET Prints]
    BY DEF Init
  <2>3. \A h \in Hooks : fd[h] \notin Procs \union {"queue"}
    BY SyncAssumption DEF Init
  <2> QED
    BY <2>1, <2>2, <2>3 DEF Init, TypeOK, InHand
<1>2. Holding = {}
  BY DEF Init, Holding
<1>3. TreeInv /\ \A r \in Repos : Sound(r, state[r])
  BY SyncAssumption DEF Init, TreeInv, Sound, Unread
<1> QED
  BY <1>1, <1>2, <1>3 DEF LockInv, FreshInv

\* A step keeps the types, and a process has in hand what it goes on with.
LEMMA TypeStep == 
  ASSUME TypeOK, InHand, [Next]_vars
  PROVE  TypeOK' /\ InHand'
<1> DEFINE Places == {"idle", "created", "exists", "probe", "stale", "retry", "locked", "pulled",
                     "claimed", "drained", "building", "writing", "built", "indexed",
                     "released", "exit"}
<1> USE SyncAssumption DEF TypeOK, InHand, lockVars, treeVars, indexVars, runVars, queueVars,
      bounds
<1>0. ASSUME NEW p \in Procs, NEW from \in Places, from # "released", Indexed(p, from),
             state' \in [Repos -> Entry], faults' \in Nat,
             UNCHANGED <<lockVars, seen, treeVars, shard, alive, targets, hand, queueVars, deaths,
                         kicks>>
      PROVE  TypeOK' /\ InHand'
  <2>1. ForgetIndexing(p) /\ pc[p] # "released" /\ pc' = [pc EXCEPT ![p] = "indexed"]
    BY <1>0 DEF Indexed, Goto
  <2>2. /\ pc' \in [Procs -> Places] /\ pc'[p] = "indexed"
        /\ \A q \in Procs \ {p} : pc'[q] = pc[q]
    BY <2>1
  <2>3. TypeOK'
    BY <1>0, <2>1, <2>2, ForgetTypes
  <2>4. InHand'
    BY <1>0, <2>1, <2>2, ForgetTypes
  <2> QED
    BY <2>3, <2>4
<1>1. ASSUME NEW p \in Procs, Create(p) PROVE TypeOK' /\ InHand'
  <2>1. /\ lockFile' \in {p, lockFile}
        /\ written' \in BOOLEAN
    BY <1>1 DEF Create, Created
  <2>2. pc' = [pc EXCEPT ![p] = "created"] \/ pc' = [pc EXCEPT ![p] = "exists"]
    BY <1>1 DEF Create, Goto
  <2>3. /\ UNCHANGED <<seen, robbed, indexVars, alive, loaded, current, todo, built, work, hand,
                       queueVars, deaths, faults>>
        /\ pc[p] = "idle"
    BY <1>1 DEF Create, Goto
  <2>4. pc' \in [Procs -> Places]
    <3>1. pc \in [Procs -> Places] /\ {"created", "exists"} \subseteq Places
      OBVIOUS
    <3> HIDE DEF Places
    <3> QED
      BY ONLY <2>2, <3>1, p \in Procs
  <2>8. targets' \in [Procs -> SUBSET Repos] /\ kicks' \in Nat
    BY <1>1 DEF Create, Begin
  <2>5. InHand'
    BY <2>2, <2>3
  <2>6. lockFile' \in Procs \union {None}
    BY <2>1
  <2>7. \A q \in Procs : pc'[q] # "released" => pc[q] # "released"
    BY <2>2, <2>3
  <2> HIDE DEF Places
  <2> QED
    BY <2>1, <2>3, <2>4, <2>5, <2>6, <2>7, <2>8 DEF Places
<1>2. ASSUME NEW p \in Procs, WritePid(p) PROVE TypeOK' /\ InHand'
  BY <1>2 DEF WritePid, Goto
<1>3. ASSUME NEW p \in Procs, ReadLock(p) PROVE TypeOK' /\ InHand'
  <2>1. pc' = [pc EXCEPT ![p] = "retry"] \/ pc' = [pc EXCEPT ![p] = "probe"]
    BY <1>3 DEF ReadLock, Goto
  <2>2. UNCHANGED <<lockFile, written, robbed, indexVars, alive, runVars, queueVars, bounds>>
        /\ pc[p] = "exists"
    BY <1>3 DEF ReadLock, Goto
  <2>3. seen' = seen \/ \E q \in Procs \union {None} : seen' = [seen EXCEPT ![p] = q]
    BY <1>3 DEF ReadLock
  <2>4. seen' \in [Procs -> Procs \union {None}]
    <3>1. seen \in [Procs -> Procs \union {None}]
      OBVIOUS
    <3> QED
      BY ONLY <2>3, <3>1
  <2>5. pc' \in [Procs -> Places]
    <3>1. pc \in [Procs -> Places] /\ {"retry", "probe"} \subseteq Places
      OBVIOUS
    <3> HIDE DEF Places
    <3> QED
      BY ONLY <2>1, <3>1, p \in Procs
  <2>6. InHand'
    BY <2>1, <2>2
  <2>7. \A q \in Procs : pc'[q] # "released" => pc[q] # "released"
    BY <2>1, <2>2
  <2> HIDE DEF Places
  <2> QED
    BY <2>2, <2>4, <2>5, <2>6, <2>7 DEF Places
<1>4. ASSUME NEW p \in Procs, FoundLive(p) \/ LockFails(p) \/ Unlock(p) \/ Die(p)
      PROVE  TypeOK' /\ InHand'
  <2>1. Forget(p) /\ UNCHANGED <<indexVars, queueVars, faults, kicks>>
    BY <1>4 DEF FoundLive, LockFails, Unlock, Die, Return
  <2>2. /\ seen' \in [Procs -> Procs \union {None}]
        /\ targets' \in [Procs -> SUBSET Repos] /\ hand' \in [Procs -> SUBSET Repos]
        /\ ForgetIndexing(p) /\ hand'[p] = {} /\ \A q \in Procs \ {p} : hand'[q] = hand[q]
    BY <2>1 DEF Forget
  <2>3. /\ lockFile' \in Procs \union {None} /\ written' \in BOOLEAN /\ robbed' \in BOOLEAN
        /\ deaths' \in Nat
    <3>1. CASE UNCHANGED lockVars /\ deaths' \in {deaths, deaths + 1}
      BY <3>1
    <3>2. CASE Removed(p) /\ deaths' = deaths
      BY <3>2 DEF Removed
    <3> QED
      BY <1>4, <3>1, <3>2 DEF FoundLive, LockFails, Unlock, Die
  <2>4. \E to \in {"idle", "exit"}, b \in BOOLEAN :
          pc' = [pc EXCEPT ![p] = to] /\ alive' = [alive EXCEPT ![p] = b]
    <3>1. CASE Die(p)
      BY ONLY <3>1 DEF Die
    <3>2. CASE \E from \in Places : Return(p, from)
      <4>1. CASE p \in Webs
        BY ONLY <3>2, <4>1 DEF Return
      <4>2. CASE p \notin Webs
        <5>1. (p \in Webs) = FALSE
          BY <4>2
        <5>2. pc' = [pc EXCEPT ![p] = "exit"]
          BY ONLY <3>2, <4>2 DEF Return
        <5>3. alive' = [alive EXCEPT ![p] = FALSE]
          BY ONLY Zenon, <3>2, <5>1 DEF Return
        <5> QED
          BY ONLY <5>2, <5>3
      <4> QED
        BY <4>1, <4>2
    <3> QED
      BY ONLY <1>4, <3>1, <3>2 DEF FoundLive, LockFails, Unlock
  <2>5. /\ pc' \in [Procs -> Places] /\ pc'[p] \in {"idle", "exit"}
        /\ \A q \in Procs \ {p} : pc'[q] = pc[q]
        /\ alive' \in [Procs -> BOOLEAN]
    <3>1. pc \in [Procs -> Places] /\ alive \in [Procs -> BOOLEAN]
      OBVIOUS
    <3>2. {"idle", "exit"} \subseteq Places
      OBVIOUS
    <3> HIDE DEF Places
    <3> QED
      BY ONLY <2>4, <3>1, <3>2, p \in Procs
  <2>6. TypeOK'
    BY <2>1, <2>2, <2>3, <2>4, <2>5, ForgetTypes
  <2>7. InHand'
    <3>1. UNCHANGED claimed /\ \A q \in Procs \ {p} : work'[q] = work[q]
      BY <2>1, <2>2, ForgetTypes
    <3>2. pc'[p] # "claimed" /\ pc'[p] # "writing"
      BY <2>5
    <3> QED
      BY <2>5, <3>1, <3>2
  <2> QED
    BY <2>6, <2>7
<1>5. ASSUME NEW p \in Procs, FoundStale(p) PROVE TypeOK' /\ InHand'
  <2>1. UNCHANGED <<lockVars, indexVars, alive, runVars, queueVars, bounds>>
        /\ pc[p] = "probe" /\ pc' = [pc EXCEPT ![p] = "stale"]
        /\ seen' = [seen EXCEPT ![p] = None]
    BY <1>5 DEF FoundStale, Goto
  <2> QED
    BY <2>1
<1>6. ASSUME NEW p \in Procs, RemoveStale(p) \/ CreateAgain(p) PROVE TypeOK' /\ InHand'
  <2>1. /\ UNCHANGED <<seen, indexVars, alive, runVars, queueVars, bounds>>
        /\ pc[p] \in {"stale", "retry"}
        /\ pc' = [pc EXCEPT ![p] = "retry"] \/ pc' = [pc EXCEPT ![p] = "created"]
    BY <1>6 DEF RemoveStale, CreateAgain, Goto
  <2>2. lockFile' \in Procs \union {None} /\ written' \in BOOLEAN /\ robbed' \in BOOLEAN
    <3>1. CASE Removed(p)
      BY <3>1 DEF Removed
    <3>2. CASE Created(p) /\ UNCHANGED robbed
      BY <3>2 DEF Created
    <3> QED
      BY <1>6, <3>1, <3>2 DEF RemoveStale, CreateAgain
  <2>3. /\ pc' \in [Procs -> Places] /\ pc'[p] \in {"retry", "created"}
        /\ \A q \in Procs \ {p} : pc'[q] = pc[q]
    <3>1. pc \in [Procs -> Places] /\ {"retry", "created"} \subseteq Places
      OBVIOUS
    <3> HIDE DEF Places
    <3> QED
      BY ONLY <2>1, <3>1, p \in Procs
  <2> QED
    BY <2>1, <2>2, <2>3
<1>10. ASSUME NEW p \in Procs, Claim(p) PROVE TypeOK' /\ InHand'
  <2>1. UNCHANGED <<lockVars, seen, indexVars, alive, runVars, bounds>> /\ pc[p] = "pulled"
    BY <1>10 DEF Claim, Goto
  <2>2. CASE queue = None
    <3>1. UNCHANGED queueVars /\ pc' = [pc EXCEPT ![p] = "drained"]
      BY <1>10, <2>2 DEF Claim, Goto
    <3>2. pc' \in [Procs -> Places] /\ InHand'
      BY <2>1, <3>1
    <3> QED
      BY <2>1, <3>1, <3>2
  <2>3. CASE queue # None
    <3>1. /\ pc' = [pc EXCEPT ![p] = "claimed"] /\ claimed' = [claimed EXCEPT ![p] = queue]
          /\ queue' = None /\ fd' = Moved(Moved(fd, p, "gone"), "queue", p)
      BY <1>10, <2>3 DEF Claim, Goto
    <3>2. fd' \in [Hooks -> Procs \union {"queue", "gone", "exit", None}]
      BY <3>1 DEF Moved
    <3>3. \A h \in Hooks : fd'[h] # "queue" /\ (fd'[h] \in Procs => fd'[h] = p \/ fd'[h] = fd[h])
      BY <3>1 DEF Moved
    <3>4. pc' \in [Procs -> Places] /\ claimed' \in [Procs -> {None} \union SUBSET Repos]
      BY <3>1, <2>3
    <3>5. \A q \in Procs : claimed[q] # None \/ q = p => claimed'[q] # None
      BY <3>1, <2>3
    <3>6. InHand'
      BY <2>1, <3>1, <3>5
    <3>7. \A q \in Procs : pc'[q] # "released" /\ hand'[q] # {} => claimed'[q] # None
      BY <2>1, <3>1, <3>5
    <3> QED
      BY <2>1, <3>1, <3>2, <3>3, <3>4, <3>5, <3>6, <3>7
  <2> QED
    BY <2>2, <2>3
<1>11. ASSUME NEW p \in Procs, ReadClaim(p) PROVE TypeOK' /\ InHand'
  <2>1. /\ UNCHANGED <<lockVars, seen, indexVars, alive, targets, loaded, current, todo, built, work,
                       queue, bounds>>
        /\ pc[p] = "claimed" /\ pc' = [pc EXCEPT ![p] = "drained"]
        /\ hand' = [hand EXCEPT ![p] = claimed[p]]
    BY <1>11 DEF ReadClaim, Goto
  <2>2. claimed[p] \in SUBSET Repos /\ hand' \in [Procs -> SUBSET Repos]
        /\ pc' \in [Procs -> Places]
    BY <2>1
  <2>3. CASE claimed[p] = {}
    <3>1. claimed' = [claimed EXCEPT ![p] = None] /\ fd' = Moved(fd, p, "gone")
      BY <1>11, <2>3 DEF ReadClaim
    <3>2. fd' \in [Hooks -> Procs \union {"queue", "gone", "exit", None}]
      BY <3>1 DEF Moved
    <3>3. \A h \in Hooks : fd'[h] # p /\ (fd'[h] \in Procs \union {"queue"} => fd'[h] = fd[h])
      BY <3>1 DEF Moved
    <3>4. claimed' \in [Procs -> {None} \union SUBSET Repos] /\ InHand'
      BY <2>1, <3>1
    <3>5. \A q \in Procs : pc'[q] # "released" /\ hand'[q] # {} => claimed'[q] # None
      BY <2>1, <2>3, <3>1
    <3> QED
      BY <2>1, <2>2, <3>1, <3>2, <3>3, <3>4, <3>5
  <2>4. CASE claimed[p] # {}
    <3>1. UNCHANGED <<claimed, fd>>
      BY <1>11, <2>4 DEF ReadClaim
    <3>2. \A q \in Procs : pc'[q] # "released" /\ hand'[q] # {} => claimed'[q] # None
      BY <2>1, <2>2, <3>1
    <3>3. InHand'
      BY <2>1, <3>1
    <3> QED
      BY <2>1, <2>2, <3>1, <3>2, <3>3
  <2> QED
    BY <2>3, <2>4
<1>12. ASSUME NEW p \in Procs, ReadClaimFails(p) PROVE TypeOK' /\ InHand'
  BY <1>12 DEF ReadClaimFails, Fault, Goto
<1>13. ASSUME NEW p \in Procs, Check(p) PROVE TypeOK' /\ InHand'
  <2>1. current' \in [Procs -> [Repos -> Prints \union {None}]]
    BY <1>13 DEF Check
  <2>2. todo' \in [Procs -> SUBSET Repos]
    <3>1. PICK failed \in SUBSET targets[p], ok \in SUBSET targets[p] :
            todo' = [todo EXCEPT ![p] = ToIndex(p, targets[p] \ failed, ok)]
      BY ZenonT(60), <1>13 DEF Check
    <3>2. ToIndex(p, targets[p] \ failed, ok) \subseteq Repos
      BY DEF ToIndex
    <3>3. todo \in [Procs -> SUBSET Repos]
      OBVIOUS
    <3> QED
      BY ONLY <3>1, <3>2, <3>3
  <2>3. faults' \in Nat
    BY <1>13 DEF Check, Fault
  <2>4. /\ UNCHANGED <<lockVars, seen, indexVars, alive, targets, work, hand, queueVars, deaths,
                       kicks>>
        /\ pc[p] = "drained" /\ pc' = [pc EXCEPT ![p] = "building"]
        /\ loaded' = [loaded EXCEPT ![p] = state] /\ built' = [built EXCEPT ![p] = {}]
    BY <1>13 DEF Check, Goto
  <2>5. /\ loaded' \in [Procs -> [Repos -> Entry]] /\ built' \in [Procs -> SUBSET Repos]
        /\ pc' \in [Procs -> Places] /\ \A q \in Procs : pc'[q] = pc[q] \/ pc'[q] = "building"
        /\ pc[p] # "released"
    BY <2>4
  <2> QED
    BY <2>1, <2>2, <2>3, <2>4, <2>5
<1>14. ASSUME NEW p \in Procs, NEW r \in Repos, BuildReads(p, r) PROVE TypeOK' /\ InHand'
  <2>1. /\ UNCHANGED <<lockVars, seen, indexVars, alive, targets, loaded, current, built, hand,
                       queueVars, bounds>>
        /\ pc[p] = "building" /\ pc' = [pc EXCEPT ![p] = "writing"]
        /\ work' = [work EXCEPT ![p] = [repo |-> r, tree |-> tree[r]]]
        /\ todo' = [todo EXCEPT ![p] = todo[p] \ {r}]
    BY <1>14 DEF BuildReads, Goto
  <2>2. [repo |-> r, tree |-> tree[r]] \in [repo : Repos, tree : Nat]
    OBVIOUS
  <2>3. /\ work' \in [Procs -> [repo : Repos, tree : Nat] \union {None}]
        /\ todo' \in [Procs -> SUBSET Repos] /\ pc' \in [Procs -> Places]
    BY <2>1, <2>2
  <2>4. InHand'
    BY <2>1, <2>2
  <2>5. \A q \in Procs : pc'[q] # "released" => pc[q] # "released"
    BY <2>1
  <2> HIDE DEF Places
  <2> QED
    BY <2>1, <2>3, <2>4, <2>5 DEF Places
<1>15. ASSUME NEW p \in Procs, BuildWrites(p) PROVE TypeOK' /\ InHand'
  BY <1>15 DEF BuildWrites, Goto
<1>16. ASSUME NEW p \in Procs,
              LoadFails(p) \/ NothingToIndex(p) \/ BuildFails(p) \/ SaveFails(p)
       PROVE  TypeOK' /\ InHand'
  <2>1. PICK from \in {"drained", "building", "writing", "built"} : Indexed(p, from)
    BY <1>16 DEF LoadFails, NothingToIndex, BuildFails, SaveFails
  <2>2. UNCHANGED <<lockVars, seen, indexVars, alive, targets, hand, queueVars, deaths, kicks>>
    BY ONLY <1>16 DEF LoadFails, NothingToIndex, BuildFails, SaveFails
  <2>3. Fault(TRUE) \/ Fault(FALSE)
    BY ONLY <1>16, TRUE \in BOOLEAN DEF LoadFails, NothingToIndex, BuildFails, SaveFails, Fault
  <2>4. faults' \in Nat
    BY <2>3 DEF Fault
  <2>5. from \in Places /\ from # "released"
    OBVIOUS
  <2>6. /\ state' \in [Repos -> Entry]
        /\ UNCHANGED <<lockVars, seen, treeVars, shard, alive, targets, hand, queueVars, deaths,
                       kicks>>
    BY <2>2
  <2> HIDE DEF Places
  <2> QED
    BY ONLY <1>0, <2>1, <2>4, <2>5, <2>6, p \in Procs
<1>17. ASSUME NEW p \in Procs, Record(p) PROVE TypeOK' /\ InHand'
  <2>1. \A r \in Repos : FingerprintOf(p, r) \in Entry /\ loaded[p][r] \in Entry
    BY DEF FingerprintOf, Entry
  <2>2. state' \in [Repos -> Entry] /\ faults' \in Nat
    BY <1>17, <2>1 DEF Record, Fault
  <2>3. /\ Indexed(p, "built")
        /\ UNCHANGED <<lockVars, seen, treeVars, shard, alive, targets, hand, queueVars, deaths,
                       kicks>>
    BY <1>17 DEF Record
  <2> QED
    BY <1>0, <2>2, <2>3
<1>24. ASSUME NEW p \in Procs, LoadCorrupt(p) PROVE TypeOK' /\ InHand'
  <2>1. /\ state' \in [Repos -> Entry]
        /\ UNCHANGED <<lockVars, seen, treeVars, shard, alive, targets, hand, queueVars, deaths,
                       kicks>>
    BY <1>24, EmptyTypes DEF LoadCorrupt
  <2>2. faults' \in Nat
    BY <1>24 DEF LoadCorrupt, Fault
  <2>3. CASE targets[p] = Repos
    <3>1. pc[p] = "drained" /\ pc' = [pc EXCEPT ![p] = "drained"]
          /\ UNCHANGED <<loaded, current, todo, built, work>>
      BY <1>24, <2>3 DEF LoadCorrupt, Goto
    <3>2. pc' = pc
      BY <3>1
    <3> QED
      BY <2>1, <2>2, <3>1, <3>2
  <2>4. CASE targets[p] # Repos
    <3>1. Indexed(p, "drained")
      BY <1>24, <2>4 DEF LoadCorrupt
    <3> QED
      BY <1>0, <2>1, <2>2, <3>1
  <2> QED
    BY <2>3, <2>4
<1>25. ASSUME NEW p \in Procs, Pull(p) PROVE TypeOK' /\ InHand'
  <2>1. PICK S \in SUBSET targets[p], new \in [Repos -> Prints] :
          Altered(S, new) /\ todo' = [todo EXCEPT ![p] = S]
    BY <1>25 DEF Pull
  <2>2. S \subseteq Repos
    OBVIOUS
  <2>3. /\ UNCHANGED <<lockVars, seen, shard, state, alive, targets, loaded, current, built, work,
                       hand, queueVars, bounds>>
        /\ pc[p] = "locked" /\ pc' = [pc EXCEPT ![p] = "pulled"]
    BY <1>25 DEF Pull, Goto
  <2>4. todo' \in [Procs -> SUBSET Repos] /\ pc' \in [Procs -> Places]
    BY <2>1, <2>2, <2>3
  <2> QED
    BY <2>1, <2>2, <2>3, <2>4, AlteredTypes
<1>18. ASSUME NEW p \in Procs, Release(p) PROVE TypeOK' /\ InHand'
  <2>1. /\ UNCHANGED <<lockVars, seen, indexVars, alive, runVars, queue, bounds>>
        /\ pc[p] = "indexed" /\ pc' = [pc EXCEPT ![p] = "released"]
    BY <1>18 DEF Release, Goto
  <2>2. pc' \in [Procs -> Places]
    BY <2>1
  <2>3. CASE hand[p] # {}
    <3>1. claimed' = [claimed EXCEPT ![p] = None] /\ fd' = Moved(fd, p, "gone")
      BY <1>18, <2>3 DEF Release
    <3>2. fd' \in [Hooks -> Procs \union {"queue", "gone", "exit", None}]
      BY <3>1 DEF Moved
    <3>3. \A h \in Hooks : fd'[h] # p /\ (fd'[h] \in Procs \union {"queue"} => fd'[h] = fd[h])
      BY <3>1 DEF Moved
    <3>4. claimed' \in [Procs -> {None} \union SUBSET Repos] /\ InHand'
      BY <2>1, <3>1
    <3>5. \A q \in Procs : pc'[q] # "released" /\ hand'[q] # {} => claimed'[q] # None
      BY <2>1, <3>1
    <3> QED
      BY <2>1, <2>2, <3>1, <3>2, <3>3, <3>4, <3>5
  <2>4. CASE hand[p] = {}
    <3>1. UNCHANGED <<claimed, fd>>
      BY <1>18, <2>4 DEF Release
    <3> QED
      BY <2>1, <2>2, <3>1
  <2> QED
    BY <2>3, <2>4
<1>20. ASSUME NEW h \in Hooks, OpenQueue(h) PROVE TypeOK' /\ InHand'
  BY <1>20 DEF OpenQueue
<1>21. ASSUME NEW h \in Hooks, NEW r \in Repos, AppendLine(h, r) PROVE TypeOK' /\ InHand'
  <2>1. /\ UNCHANGED <<lockVars, seen, indexVars, pc, alive, runVars, bounds>>
        /\ fd' = [fd EXCEPT ![h] = "exit"]
    BY <1>21 DEF AppendLine
  <2>2. queue' \in {None} \union SUBSET Repos /\ (queue # None => queue' # None)
    BY <1>21 DEF AppendLine
  <2>3. claimed' \in [Procs -> {None} \union SUBSET Repos]
        /\ \A q \in Procs : claimed[q] # None => claimed'[q] # None
    <3>1. CASE fd[h] \in Procs
      <4>1. claimed[fd[h]] \union {r} \in SUBSET Repos
        BY <3>1
      <4>2. claimed' = [claimed EXCEPT ![fd[h]] = claimed[fd[h]] \union {r}]
        BY <1>21, <3>1 DEF AppendLine
      <4> QED
        <5>1. /\ claimed \in [Procs -> {None} \union SUBSET Repos]
              /\ \A X \in SUBSET Repos : X # None
          OBVIOUS
        <5> QED
          BY ONLY <3>1, <4>1, <4>2, <5>1
    <3>2. CASE fd[h] \notin Procs
      BY <1>21, <3>2 DEF AppendLine
    <3> QED
      BY <3>1, <3>2
  <2> QED
    BY <2>1, <2>2, <2>3
<1>22. ASSUME NEW r \in Repos, Change(r) PROVE TypeOK' /\ InHand'
  <2>1. PICK g \in Prints : Altered({r}, [x \in Repos |-> g])
    BY <1>22 DEF Change
  <2>2. [x \in Repos |-> g] \in [Repos -> Prints]
    OBVIOUS
  <2>3. UNCHANGED <<lockVars, seen, shard, state, pc, alive, runVars, queueVars, bounds>>
    BY <1>22 DEF Change
  <2> QED
    BY <2>1, <2>2, <2>3, AlteredTypes
<1>23. ASSUME UNCHANGED vars PROVE TypeOK' /\ InHand'
  BY <1>23 DEF vars
<1> QED
  BY ZenonT(60), <1>1, <1>2, <1>3, <1>4, <1>5, <1>6, <1>10, <1>11, <1>12, <1>13, <1>14, <1>15,
    <1>16, <1>17, <1>18, <1>20, <1>21, <1>22, <1>23, <1>24, <1>25 DEF Next, LockStep, RunStep

\* A process enters Holding only by creating the lock file, which is not there, and
\* whoever removes the file of another that holds it robs it.
LEMMA LockInvStep == 
  ASSUME TypeOK, LockInv, [Next]_vars
  PROVE  LockInv'
<1> USE SyncAssumption DEF TypeOK, LockInv, Holding,
      lockVars, indexVars, runVars, queueVars, bounds
<1>1. ASSUME NEW p \in Procs, Create(p) PROVE LockInv'
  BY <1>1 DEF Create, Goto, Created
<1>2. ASSUME NEW p \in Procs, WritePid(p) PROVE LockInv'
  BY <1>2 DEF WritePid, Goto
<1>3. ASSUME NEW p \in Procs, ReadLock(p) PROVE LockInv'
  <2>1. /\ pc'[p] \in {"retry", "probe"} /\ \A q \in Procs \ {p} : pc'[q] = pc[q]
        /\ UNCHANGED <<lockFile, robbed, alive>>
    BY <1>3 DEF ReadLock, Goto
  <2> QED
    BY <2>1
<1>4. ASSUME NEW p \in Procs, FoundLive(p) PROVE LockInv'
  BY <1>4 DEF FoundLive, Return, Forget
<1>5. ASSUME NEW p \in Procs, FoundStale(p) PROVE LockInv'
  BY <1>5 DEF FoundStale, Goto
<1>6. ASSUME NEW p \in Procs, RemoveStale(p) PROVE LockInv'
  BY <1>6 DEF RemoveStale, Goto, Removed
<1>7. ASSUME NEW p \in Procs, CreateAgain(p) PROVE LockInv'
  BY <1>7 DEF CreateAgain, Goto, Created
<1>8. ASSUME NEW p \in Procs, LockFails(p) PROVE LockInv'
  BY <1>8 DEF LockFails, Return, Forget
<1>9. ASSUME NEW p \in Procs, Unlock(p) PROVE LockInv'
  BY <1>9 DEF Unlock, Return, Forget, Removed
<1>10. ASSUME NEW p \in Procs, Claim(p) PROVE LockInv'
  <2>1. /\ pc[p] \in {"pulled", "claimed"} /\ pc'[p] \in {"claimed", "drained"}
        /\ \A q \in Procs \ {p} : pc'[q] = pc[q]
        /\ UNCHANGED <<lockFile, robbed, alive>>
    BY <1>10 DEF Claim, Goto
  <2> QED
    BY <2>1
<1>11. ASSUME NEW p \in Procs, ReadClaim(p) PROVE LockInv'
  <2>1. /\ pc[p] \in {"pulled", "claimed"} /\ pc'[p] \in {"claimed", "drained"}
        /\ \A q \in Procs \ {p} : pc'[q] = pc[q]
        /\ UNCHANGED <<lockFile, robbed, alive>>
    BY <1>11 DEF ReadClaim, Goto
  <2> QED
    BY <2>1
<1>12. ASSUME NEW p \in Procs, ReadClaimFails(p) PROVE LockInv'
  BY <1>12 DEF ReadClaimFails, Goto
<1>13. ASSUME NEW p \in Procs, Check(p) PROVE LockInv'
  BY <1>13 DEF Check, Goto
<1>14. ASSUME NEW p \in Procs, NEW r \in Repos, BuildReads(p, r) PROVE LockInv'
  BY <1>14 DEF BuildReads, Goto
<1>15. ASSUME NEW p \in Procs, BuildWrites(p) PROVE LockInv'
  BY <1>15 DEF BuildWrites, Goto
<1>16. ASSUME NEW p \in Procs,
              LoadFails(p) \/ NothingToIndex(p) \/ BuildFails(p) \/ SaveFails(p)
       PROVE  LockInv'
  <2>1. /\ pc[p] \in {"drained", "building", "writing", "built"}
        /\ pc' = [pc EXCEPT ![p] = "indexed"]
        /\ UNCHANGED <<lockFile, robbed, alive>>
    BY <1>16 DEF LoadFails, NothingToIndex, BuildFails, SaveFails, Indexed, Goto
  <2> QED
    BY <2>1
<1>17. ASSUME NEW p \in Procs, Record(p) PROVE LockInv'
  BY <1>17 DEF Record, Indexed, Goto
<1>24. ASSUME NEW p \in Procs, LoadCorrupt(p) PROVE LockInv'
  <2>1. /\ pc[p] = "drained" /\ pc'[p] \in {"drained", "indexed"}
        /\ \A q \in Procs \ {p} : pc'[q] = pc[q]
        /\ UNCHANGED <<lockFile, robbed, alive>>
    BY <1>24 DEF LoadCorrupt, Indexed, Goto
  <2> QED
    BY <2>1
<1>25. ASSUME NEW p \in Procs, Pull(p) PROVE LockInv'
  BY <1>25 DEF Pull, Goto
<1>18. ASSUME NEW p \in Procs, Release(p) PROVE LockInv'
  BY <1>18 DEF Release, Goto, Moved
<1>19. ASSUME NEW p \in Procs, Die(p) PROVE LockInv'
  BY <1>19 DEF Die, Forget
<1>20. ASSUME NEW h \in Hooks, OpenQueue(h) PROVE LockInv'
  BY <1>20 DEF OpenQueue
<1>21. ASSUME NEW h \in Hooks, NEW r \in Repos, AppendLine(h, r) PROVE LockInv'
  BY <1>21 DEF AppendLine
<1>22. ASSUME NEW r \in Repos, Change(r) PROVE LockInv'
  BY <1>22 DEF Change
<1>23. ASSUME UNCHANGED vars PROVE LockInv'
  BY <1>23 DEF vars
<1> QED
  BY <1>1, <1>2, <1>3, <1>4, <1>5, <1>6, <1>7, <1>8, <1>9, <1>10, <1>11,
    <1>12, <1>13, <1>14, <1>15, <1>16, <1>17, <1>18, <1>19, <1>20, <1>21,
    <1>22, <1>23, <1>24, <1>25 DEF Next, LockStep, RunStep

\* A step that leaves the index and the runs alone, and starts none, keeps FreshInv.
LEMMA FreshFrame ==
  ASSUME FreshInv, UNCHANGED <<robbed, indexVars, loaded, current, built, work>>,
         Holding' \subseteq Holding,
         \A q \in Holding : pc'[q] \in {"building", "writing", "built"} => pc'[q] = pc[q]
  PROVE  FreshInv'
BY DEF FreshInv, TreeInv, Sound, RunSound, indexVars, treeVars

\* When a run of p ends, or one that holds the lock is not among those that build, only
\* the index counts.
LEMMA FreshAfter ==
  ASSUME NEW p \in Procs, FreshInv, UNCHANGED <<robbed, indexVars>>,
         ~robbed => Holding' \subseteq {p},
         pc'[p] \notin {"building", "writing", "built"}
  PROVE  FreshInv'
BY DEF FreshInv, TreeInv, Sound, RunSound, indexVars, treeVars

\* What a change of trees does to a fingerprint known of r: it is no longer git's, or
\* the change has shown one that r had before, or r did not change.
LEMMA AlteredFacts ==
  ASSUME TypeOK, NEW S \in SUBSET Repos, NEW new \in [Repos -> Prints], Altered(S, new), TreeInv,
         NEW r \in Repos
  PROVE  /\ git'[r] \in past'[r] /\ past[r] \subseteq past'[r] /\ tree[r] <= tree'[r]
         /\ \A v \in past[r] \union {None} :
              v = git'[r] => again'[r] \/ (git'[r] = git[r] /\ tree'[r] = tree[r] /\ again'[r] = again[r])
<1> USE SyncAssumption DEF TypeOK, Altered, TreeInv
<1>1. CASE r \in S
  <2>1. /\ git'[r] = new[r] /\ tree'[r] = tree[r] + 1
        /\ past'[r] = past[r] \union {new[r]} /\ again'[r] = (new[r] \in past[r])
    BY <1>1
  <2>2. new[r] # None
    BY SyncAssumption
  <2>3. tree[r] <= tree'[r]
    BY <2>1
  <2> QED
    BY <2>1, <2>2, <2>3
<1>2. CASE r \notin S
  <2>1. UNCHANGED <<git[r], tree[r], past[r], again[r]>>
    BY <1>2
  <2> QED
    BY <2>1
<1> QED
  BY <1>1, <1>2

\* A change of the trees leaves everything right that was.
LEMMA AlteredKeeps ==
  ASSUME TypeOK, TypeOK', InHand, NEW S \in SUBSET Repos, NEW new \in [Repos -> Prints],
         Altered(S, new), FreshInv, UNCHANGED <<robbed, shard, state, loaded, current, built, work>>,
         Holding' \subseteq Holding,
         \A q \in Holding : pc'[q] \in {"building", "writing", "built"} => pc'[q] = pc[q]
  PROVE  FreshInv'
<1> SUFFICES ASSUME ~robbed PROVE FreshInv'
  BY DEF FreshInv
<1>1. TreeInv /\ (\A r \in Repos : Sound(r, state[r])) /\ \A p \in Holding : RunSound(p)
  BY DEF FreshInv
<1>2. ASSUME NEW r \in Repos
      PROVE  /\ shard[r] \in Nat /\ tree[r] \in Nat /\ tree'[r] \in Nat
             /\ git'[r] \in past'[r] /\ past[r] \subseteq past'[r] /\ tree[r] <= tree'[r]
             /\ \A v \in past[r] \union {None} :
                  v = git'[r] => again'[r] \/ (git'[r] = git[r] /\ tree'[r] = tree[r] /\ again'[r] = again[r])
  BY <1>1, AlteredFacts DEF TypeOK
<1>3. TreeInv'
  BY <1>1, <1>2 DEF TreeInv
<1>4. ASSUME NEW r \in Repos, NEW e \in Entry, Sound(r, e)
      PROVE  /\ e.print \in past'[r] \union {None}
             /\ e.print = git'[r] => shard[r] = tree'[r] \/ again'[r] \/ e.late
  BY <1>2, <1>4 DEF Sound
<1>5. \A r \in Repos : Sound(r, state[r])'
  BY <1>1, <1>4 DEF Sound, TypeOK
<1>6. ASSUME NEW p \in Holding' PROVE RunSound(p)'
  <2>1. p \in Procs /\ p \in Holding /\ RunSound(p)
    BY <1>1, <1>6 DEF Holding
  <2>2. ASSUME pc'[p] \in {"building", "writing", "built"}
        PROVE  /\ \A r \in Repos : Sound(r, loaded[p][r])' /\ current'[p][r] \in past'[r] \union {None}
               /\ \A r \in built'[p] : current'[p][r] = git'[r] => shard'[r] = tree'[r] \/ again'[r]
    <3>1. pc'[p] = pc[p]
      BY <2>1, <2>2
    <3>2. \A r \in Repos : Sound(r, loaded[p][r]) /\ current[p][r] \in past[r] \union {None}
      BY <2>1, <2>2, <3>1 DEF RunSound
    <3>3. \A r \in built[p] : current[p][r] = git[r] => shard[r] = tree[r] \/ again[r]
      BY <2>1, <2>2, <3>1 DEF RunSound
    <3>4. built[p] \subseteq Repos /\ \A r \in Repos : loaded[p][r] \in Entry
      BY <2>1 DEF TypeOK
    <3>5. \A r \in Repos : Sound(r, loaded[p][r])' /\ current'[p][r] \in past'[r] \union {None}
      BY <1>2, <1>4, <3>2, <3>4 DEF Sound
    <3>6. \A r \in built'[p] : current'[p][r] = git'[r] => shard'[r] = tree'[r] \/ again'[r]
      BY <1>2, <3>2, <3>3, <3>4
    <3> QED
      BY <3>5, <3>6
  <2>3. ASSUME pc'[p] = "writing"
        PROVE  /\ shard'[work'[p].repo] <= work'[p].tree /\ work'[p].tree <= tree'[work'[p].repo]
               /\ current'[p][work'[p].repo] = git'[work'[p].repo] =>
                    work'[p].tree = tree'[work'[p].repo] \/ again'[work'[p].repo]
    <3> DEFINE r == work[p].repo
    <3>1. pc[p] = "writing" /\ r \in Repos /\ work[p].tree \in Nat
      BY <2>1, <2>3 DEF InHand
    <3>2. /\ shard[r] <= work[p].tree /\ work[p].tree <= tree[r]
          /\ current[p][r] = git[r] => work[p].tree = tree[r] \/ again[r]
          /\ current[p][r] \in past[r] \union {None}
      BY <2>1, <3>1 DEF RunSound
    <3> HIDE DEF r
    <3>3. work[p].tree <= tree'[r]
      BY <1>2, <3>1, <3>2
    <3>4. current[p][r] = git'[r] => work[p].tree = tree'[r] \/ again'[r]
      BY <1>2, <3>1, <3>2
    <3> QED
      BY <3>2, <3>3, <3>4 DEF r
  <2> QED
    BY <2>2, <2>3 DEF RunSound
<1> QED
  BY <1>3, <1>5, <1>6 DEF FreshInv

\* While no lock is robbed only the run that holds the lock touches the index, and
\* it records what it probed before it built.
LEMMA FreshStep ==
  ASSUME TypeOK, TypeOK', InHand, LockInv, LockInv', FreshInv, [Next]_vars
  PROVE  FreshInv'
<1> DEFINE Building == {"building", "writing", "built"}
<1>0. ASSUME NEW p \in Procs, ~robbed, p \in Holding PROVE Holding \subseteq {p}
  BY <1>0 DEF LockInv, Holding
<1>1. ASSUME NEW p \in Procs, Create(p) \/ CreateAgain(p) PROVE FreshInv'
  <2>1. /\ UNCHANGED <<robbed, indexVars, alive, loaded, current, built, work>>
        /\ pc'[p] \in {"created", "exists"} /\ pc[p] \in {"idle", "retry"}
        /\ \A q \in Procs \ {p} : pc'[q] = pc[q]
        /\ lockFile' \in {p, lockFile} /\ (lockFile' = p => pc'[p] = "created" \/ lockFile = p)
    BY <1>1 DEF Create, CreateAgain, Goto, Created, runVars, TypeOK
  <2>2. \A q \in Procs \ {p} : q \in Holding' => q \in Holding
    BY <2>1 DEF Holding
  <2>3. ~robbed => \A q \in Holding' : RunSound(q)'
    <3> SUFFICES ASSUME ~robbed, NEW q \in Holding' PROVE RunSound(q)'
      OBVIOUS
    <3>1. CASE q = p
      BY <2>1, <3>1 DEF RunSound
    <3>2. CASE q # p
      <4>1. q \in Procs /\ q \in Holding /\ pc'[q] = pc[q]
        BY <2>1, <2>2, <3>2 DEF Holding
      <4>2. RunSound(q)
        BY <4>1 DEF FreshInv
      <4> QED
        BY <2>1, <4>1, <4>2 DEF RunSound, Sound, indexVars, treeVars
    <3> QED
      BY <3>1, <3>2
  <2> QED
    BY <2>1, <2>3 DEF FreshInv, TreeInv, Sound, indexVars, treeVars
<1>2. ASSUME NEW p \in Procs,
             ReadLock(p) \/ FoundStale(p) \/ WritePid(p) \/ Claim(p) \/ ReadClaim(p)
               \/ ReadClaimFails(p)
      PROVE  FreshInv'
  <2>0. /\ UNCHANGED <<robbed, indexVars, alive, loaded, current, built, work>>
        /\ \/ pc[p] \in {"exists", "probe"}
              /\ \E to \in {"retry", "probe", "stale"} : pc' = [pc EXCEPT ![p] = to]
           \/ pc[p] \in {"created", "pulled", "claimed"}
              /\ \E to \in {"locked", "claimed", "drained"} : pc' = [pc EXCEPT ![p] = to]
    BY <1>2 DEF ReadLock, FoundStale, WritePid, Claim, ReadClaim, ReadClaimFails, Goto, runVars,
         lockVars
  <2>1. /\ UNCHANGED <<robbed, indexVars, alive, loaded, current, built, work>>
        /\ pc'[p] \notin Building /\ \A q \in Procs \ {p} : pc'[q] = pc[q]
        /\ pc'[p] \in {"idle", "exists", "probe", "stale", "retry"}
             \/ pc[p] \notin {"idle", "exists", "probe", "stale", "retry"}
    BY <2>0 DEF TypeOK
  <2>2. Holding' \subseteq Holding
    BY <2>1 DEF Holding
  <2>3. \A q \in Holding : pc'[q] \in Building => pc'[q] = pc[q]
    BY <2>1 DEF Holding
  <2> QED
    BY <2>1, <2>2, <2>3, FreshFrame
<1>3. ASSUME NEW p \in Procs, FoundLive(p) \/ LockFails(p) \/ Unlock(p) \/ Die(p) PROVE FreshInv'
  <2>1. /\ UNCHANGED indexVars
        /\ pc'[p] \in {"idle", "exit"} /\ \A q \in Procs \ {p} : pc'[q] = pc[q]
        /\ \A q \in Procs \ {p} : alive'[q] = alive[q]
        /\ p \notin Holding'
    BY <1>3 DEF FoundLive, LockFails, Unlock, Die, Return, TypeOK, Holding
  <2>2. UNCHANGED robbed \/ robbed'
    BY <1>3 DEF FoundLive, LockFails, Unlock, Die, Removed, lockVars, TypeOK
  <2>3. /\ \A q \in Procs \ {p} : /\ loaded'[q] = loaded[q] /\ current'[q] = current[q]
                                  /\ built'[q] = built[q] /\ work'[q] = work[q]
    BY <1>3 DEF FoundLive, LockFails, Unlock, Die, Return, Forget, ForgetIndexing, TypeOK
  <2>4. ASSUME ~robbed', NEW q \in Holding' PROVE RunSound(q)'
    <3>1. q \in Procs /\ q # p /\ q \in Holding /\ ~robbed
      BY <2>1, <2>2, <2>4 DEF Holding
    <3>2. RunSound(q)
      BY <3>1 DEF FreshInv
    <3> QED
      BY <2>1, <2>3, <3>1, <3>2 DEF RunSound, Sound, indexVars, treeVars
  <2> QED
    BY <2>1, <2>2, <2>4 DEF FreshInv, TreeInv, Sound, indexVars, treeVars
<1>4. ASSUME NEW p \in Procs, RemoveStale(p) PROVE FreshInv'
  <2>1. /\ UNCHANGED <<indexVars, alive, loaded, current, built, work>>
        /\ pc[p] = "stale" /\ pc' = [pc EXCEPT ![p] = "retry"] /\ (UNCHANGED robbed \/ robbed')
    BY <1>4 DEF RemoveStale, Goto, Removed, runVars, TypeOK
  <2>2. Holding' \subseteq Holding /\ \A q \in Holding : pc'[q] = pc[q]
    BY <2>1 DEF Holding, TypeOK
  <2>3. CASE robbed'
    BY <2>3 DEF FreshInv
  <2>4. CASE UNCHANGED robbed
    BY <2>1, <2>2, <2>4, FreshFrame
  <2> QED
    BY <2>1, <2>3, <2>4
<1>5. ASSUME NEW p \in Procs,
             LoadFails(p) \/ NothingToIndex(p) \/ BuildFails(p) \/ SaveFails(p) \/ Release(p)
      PROVE  FreshInv'
  <2>1. /\ UNCHANGED <<robbed, indexVars, alive>>
        /\ alive[p] /\ pc[p] \in {"drained", "building", "writing", "built", "indexed"}
        /\ pc' = [pc EXCEPT ![p] = IF pc[p] = "indexed" THEN "released" ELSE "indexed"]
    BY <1>5 DEF LoadFails, NothingToIndex, BuildFails, SaveFails, Release, Indexed, Goto, lockVars
  <2>2. p \in Holding /\ Holding' \subseteq Holding /\ pc'[p] \notin Building
    BY <2>1 DEF Holding, TypeOK
  <2> QED
    BY <1>0, <2>1, <2>2, FreshAfter
<1>6. ASSUME NEW p \in Procs, LoadCorrupt(p) PROVE FreshInv'
  <2> SUFFICES ASSUME ~robbed PROVE FreshInv'
    BY <1>6 DEF LoadCorrupt, FreshInv, lockVars
  <2>1. /\ UNCHANGED <<robbed, treeVars, shard, alive>> /\ state' = Unread
        /\ alive[p] /\ pc[p] = "drained" /\ pc'[p] \in {"drained", "indexed"}
        /\ \A q \in Procs \ {p} : pc'[q] = pc[q]
    BY <1>6 DEF LoadCorrupt, Indexed, Goto, lockVars, TypeOK
  <2>2. p \in Holding /\ Holding' \subseteq {p}
    BY <1>0, <2>1 DEF Holding
  <2>3. TreeInv'
    BY <2>1 DEF FreshInv, TreeInv, treeVars
  <2>4. \A r \in Repos : Sound(r, state[r])'
    BY <2>1, SyncAssumption DEF Sound, Unread, TypeOK, treeVars
  <2>5. \A q \in Holding' : RunSound(q)'
    BY <2>1, <2>2 DEF RunSound
  <2> QED
    BY <2>3, <2>4, <2>5 DEF FreshInv
<1>7. ASSUME NEW p \in Procs, Check(p) PROVE FreshInv'
  <2> SUFFICES ASSUME ~robbed PROVE FreshInv'
    BY <1>7 DEF Check, FreshInv, lockVars
  <2>1. /\ UNCHANGED <<robbed, indexVars, alive>>
        /\ alive[p] /\ pc[p] = "drained" /\ pc' = [pc EXCEPT ![p] = "building"]
        /\ loaded' = [loaded EXCEPT ![p] = state] /\ built' = [built EXCEPT ![p] = {}]
    BY <1>7 DEF Check, Goto, lockVars
  <2>2. \A r \in Repos : current'[p][r] \in {git[r], None}
    BY <1>7 DEF Check, TypeOK
  <2>3. p \in Holding /\ Holding' \subseteq {p} /\ pc'[p] = "building"
    <3>1. pc'[p] = "building" /\ \A q \in Procs \ {p} : pc'[q] = pc[q]
      BY <2>1 DEF TypeOK
    <3>2. p \in Holding
      BY <2>1 DEF Holding
    <3>3. Holding \subseteq {p}
      BY <1>0, <3>2
    <3> QED
      BY <2>1, <3>1, <3>2, <3>3 DEF Holding
  <2>4. TreeInv /\ \A r \in Repos : Sound(r, state[r])
    BY DEF FreshInv
  <2>5. RunSound(p)'
    <3>1. loaded'[p] = state /\ built'[p] = {}
      BY <2>1 DEF TypeOK
    <3> QED
      BY <2>1, <2>2, <2>3, <2>4, <3>1 DEF RunSound, Sound, TreeInv, indexVars, treeVars
  <2> QED
    BY <2>1, <2>3, <2>4, <2>5 DEF FreshInv, TreeInv, Sound, indexVars, treeVars
<1>8. ASSUME NEW p \in Procs, NEW x \in Repos, BuildReads(p, x) PROVE FreshInv'
  <2> SUFFICES ASSUME ~robbed PROVE FreshInv'
    BY <1>8 DEF BuildReads, FreshInv, lockVars
  <2>1. /\ UNCHANGED <<robbed, indexVars, alive, loaded, current, built>>
        /\ alive[p] /\ pc[p] = "building" /\ pc' = [pc EXCEPT ![p] = "writing"]
        /\ work' = [work EXCEPT ![p] = [repo |-> x, tree |-> tree[x]]]
    BY <1>8 DEF BuildReads, Goto, lockVars
  <2>2. p \in Holding /\ Holding' \subseteq {p} /\ pc'[p] = "writing"
    <3>1. pc'[p] = "writing" /\ \A q \in Procs \ {p} : pc'[q] = pc[q]
      BY <2>1 DEF TypeOK
    <3>2. p \in Holding
      BY <2>1 DEF Holding
    <3>3. Holding \subseteq {p}
      BY <1>0, <3>2
    <3> QED
      BY <2>1, <3>1, <3>2, <3>3 DEF Holding
  <2>3. RunSound(p) /\ TreeInv /\ \A r \in Repos : Sound(r, state[r])
    BY <2>2 DEF FreshInv
  <2>4. work'[p].repo = x /\ work'[p].tree = tree[x] /\ tree[x] \in Nat
    BY <2>1 DEF TypeOK
  <2>5. RunSound(p)'
    BY <2>1, <2>2, <2>3, <2>4 DEF RunSound, Sound, TreeInv, indexVars, treeVars
  <2> QED
    BY <2>1, <2>2, <2>3, <2>5 DEF FreshInv, TreeInv, Sound, indexVars, treeVars
<1>9. ASSUME NEW p \in Procs, BuildWrites(p) PROVE FreshInv'
  <2> SUFFICES ASSUME ~robbed PROVE FreshInv'
    BY <1>9 DEF BuildWrites, FreshInv, lockVars
  <2> DEFINE x == work[p].repo
  <2> DEFINE n == work[p].tree
  <2>1. /\ UNCHANGED <<robbed, treeVars, state, alive, loaded, current>>
        /\ alive[p] /\ pc[p] = "writing" /\ pc'[p] \in {"building", "built"}
        /\ \A q \in Procs \ {p} : pc'[q] = pc[q]
        /\ shard' = [shard EXCEPT ![x] = n] /\ built' = [built EXCEPT ![p] = built[p] \union {x}]
    BY <1>9 DEF BuildWrites, Goto, lockVars, TypeOK
  <2>2. p \in Holding /\ Holding' \subseteq {p}
    BY <1>0, <2>1 DEF Holding
  <2>3. RunSound(p) /\ TreeInv /\ \A r \in Repos : Sound(r, state[r])
    BY <2>2 DEF FreshInv
  <2>4. x \in Repos /\ n \in Nat
    BY <2>1 DEF InHand
  <2>5. /\ shard[x] <= n /\ n <= tree[x]
        /\ current[p][x] = git[x] => n = tree[x] \/ again[x]
    BY <2>1, <2>3 DEF RunSound
  <2> HIDE DEF x, n
  <2>6. ASSUME NEW r \in Repos
        PROVE  /\ shard'[r] <= tree[r] /\ (shard[r] = tree[r] => shard'[r] = tree[r])
               /\ shard'[r] = IF r = x THEN n ELSE shard[r]
    <3>1. shard[r] \in Nat /\ tree[r] \in Nat /\ shard[r] <= tree[r]
      BY <2>3 DEF TypeOK, TreeInv
    <3>2. shard'[r] = IF r = x THEN n ELSE shard[r]
      BY <2>1, <2>4 DEF TypeOK
    <3> QED
      BY <2>4, <2>5, <3>1, <3>2
  <2>7. TreeInv'
    BY <2>1, <2>3, <2>6 DEF TreeInv, treeVars
  <2>8. ASSUME NEW r \in Repos, NEW e, Sound(r, e)
        PROVE  /\ e.print \in past'[r] \union {None}
               /\ e.print = git'[r] => shard'[r] = tree'[r] \/ again'[r] \/ e.late
    BY <2>1, <2>6, <2>8 DEF Sound, treeVars
  <2>9. \A r \in Repos : Sound(r, state[r])'
    BY <2>1, <2>3, <2>8 DEF Sound
  <2>10. /\ \A r \in Repos : Sound(r, loaded[p][r]) /\ current[p][r] \in past[r] \union {None}
         /\ \A r \in built[p] : current[p][r] = git[r] => shard[r] = tree[r] \/ again[r]
    BY <2>1, <2>3 DEF RunSound
  <2>11. \A r \in Repos : Sound(r, loaded[p][r])' /\ current'[p][r] \in past'[r] \union {None}
    BY <2>1, <2>8, <2>10 DEF Sound, treeVars
  <2>12. \A r \in built'[p] : current'[p][r] = git'[r] => shard'[r] = tree'[r] \/ again'[r]
    <3>1. built'[p] = built[p] \union {x} /\ built[p] \subseteq Repos
      BY <2>1 DEF TypeOK
    <3>2. ASSUME NEW r \in built'[p], current[p][r] = git[r] PROVE shard'[r] = tree[r] \/ again[r]
      <4>1. CASE r = x
        BY <2>4, <2>5, <2>6, <3>2, <4>1
      <4>2. CASE r # x
        BY <2>6, <2>10, <3>1, <3>2, <4>2
      <4> QED
        BY <4>1, <4>2
    <3> QED
      BY <2>1, <3>2 DEF treeVars
  <2>13. RunSound(p)'
    BY <2>1, <2>11, <2>12 DEF RunSound
  <2> QED
    BY <2>2, <2>7, <2>9, <2>13 DEF FreshInv
<1>10. ASSUME NEW p \in Procs, Record(p) PROVE FreshInv'
  <2> SUFFICES ASSUME ~robbed PROVE FreshInv'
    BY <1>10 DEF Record, FreshInv, lockVars
  <2>1. /\ UNCHANGED <<robbed, treeVars, shard, alive>>
        /\ alive[p] /\ pc[p] = "built" /\ pc' = [pc EXCEPT ![p] = "indexed"]
    BY <1>10 DEF Record, Indexed, Goto, lockVars
  <2>2. p \in Holding /\ Holding' \subseteq {p} /\ pc'[p] = "indexed"
    <3>1. pc'[p] = "indexed" /\ \A q \in Procs \ {p} : pc'[q] = pc[q]
      BY <2>1 DEF TypeOK
    <3>2. p \in Holding
      BY <2>1 DEF Holding
    <3>3. Holding \subseteq {p}
      BY <1>0, <3>2
    <3> QED
      BY <2>1, <3>1, <3>2, <3>3 DEF Holding
  <2>3. RunSound(p) /\ TreeInv
    BY <2>2 DEF FreshInv
  <2>4. /\ \A r \in Repos : Sound(r, loaded[p][r]) /\ current[p][r] \in past[r] \union {None}
        /\ \A r \in built[p] : current[p][r] = git[r] => shard[r] = tree[r] \/ again[r]
    BY <2>1, <2>3 DEF RunSound
  <2>5. \A r \in Repos : state'[r] = loaded[p][r] \/ (r \in built[p] /\ state'[r] = FingerprintOf(p, r))
    BY <1>10 DEF Record
  <2>6. \A r \in built[p] : Sound(r, FingerprintOf(p, r))
    <3> SUFFICES ASSUME NEW r \in built[p] PROVE Sound(r, FingerprintOf(p, r))
      OBVIOUS
    <3>1. r \in Repos
      BY DEF TypeOK
    <3>2. CASE current[p][r] # None
      BY <2>4, <3>1, <3>2 DEF FingerprintOf, Sound
    <3>3. CASE current[p][r] = None
      BY <2>3, <3>1, <3>3 DEF FingerprintOf, Sound, TreeInv
    <3> QED
      BY <3>2, <3>3
  <2>7. \A r \in Repos : Sound(r, state'[r])
    BY <2>4, <2>5, <2>6
  <2>8. \A r \in Repos : Sound(r, state[r])'
    BY <2>1, <2>7 DEF Sound, treeVars
  <2>9. TreeInv'
    BY <2>1, <2>3 DEF TreeInv, treeVars
  <2>10. RunSound(p)'
    BY <2>2 DEF RunSound
  <2> QED
    BY <2>2, <2>8, <2>9, <2>10 DEF FreshInv
<1>11. ASSUME NEW h \in Hooks, OpenQueue(h) \/ \E r \in Repos : AppendLine(h, r) PROVE FreshInv'
  <2>1. UNCHANGED <<robbed, indexVars, pc, alive, loaded, current, built, work>>
    BY <1>11 DEF OpenQueue, AppendLine, lockVars, runVars
  <2> QED
    BY <2>1, FreshFrame DEF Holding
<1>12. ASSUME NEW r \in Repos, Change(r) PROVE FreshInv'
  <2>1. PICK g \in Prints : Altered({r}, [x \in Repos |-> g])
    BY <1>12 DEF Change
  <2>2. UNCHANGED <<robbed, shard, state, pc, alive, loaded, current, built, work>>
    BY <1>12 DEF Change, lockVars, runVars
  <2>3. Holding' = Holding
    BY <2>2 DEF Holding
  <2>4. [x \in Repos |-> g] \in [Repos -> Prints] /\ {r} \in SUBSET Repos
    OBVIOUS
  <2> QED
    BY <2>1, <2>2, <2>3, <2>4, AlteredKeeps
<1>13. ASSUME NEW p \in Procs, Pull(p) PROVE FreshInv'
  <2>1. PICK S \in SUBSET targets[p], new \in [Repos -> Prints] : Altered(S, new)
    BY <1>13 DEF Pull
  <2>2. /\ UNCHANGED <<robbed, shard, state, alive, loaded, current, built, work>>
        /\ pc[p] = "locked" /\ pc' = [pc EXCEPT ![p] = "pulled"]
    BY <1>13 DEF Pull, Goto, lockVars
  <2>3. Holding' \subseteq Holding /\ \A q \in Holding : pc'[q] \in Building => pc'[q] = pc[q]
    BY <2>2 DEF Holding, TypeOK
  <2>4. S \in SUBSET Repos
    BY DEF TypeOK
  <2> QED
    BY <2>1, <2>2, <2>3, <2>4, AlteredKeeps
<1>14. ASSUME UNCHANGED vars PROVE FreshInv'
  <2>1. UNCHANGED <<robbed, indexVars, pc, alive, loaded, current, built, work>>
    BY <1>14 DEF vars, lockVars, runVars
  <2> QED
    BY <2>1, FreshFrame DEF Holding
<1> QED
  BY <1>1, <1>2, <1>3, <1>4, <1>5, <1>6, <1>7, <1>8, <1>9, <1>10, <1>11, <1>12, <1>13, <1>14
    DEF Next, LockStep, RunStep

(* ------------------------------- Theorems -------------------------------- *)

\* Every step keeps the types, what a process has in hand and whose the lock is.
THEOREM LockInductive == Spec => [](TypeOK /\ InHand /\ LockInv)
<1>1. Init => TypeOK /\ InHand /\ LockInv
  BY InitInv
<1>2. TypeOK /\ InHand /\ LockInv /\ [Next]_vars => (TypeOK /\ InHand /\ LockInv)'
  BY TypeStep, LockInvStep
<1> QED
  BY <1>1, <1>2, PTL DEF Spec

\* The state has its types and a claim that was read is there until Release
\* removes it (queue.go Claim, Release).
THEOREM TypeCorrect == Spec => []TypeOK
BY LockInductive, PTL

\* Two processes hold the lock at once only if one was robbed (lock.go).
THEOREM ExclusiveUnlessRobbedAlways == Spec => []ExclusiveUnlessRobbed
<1>1. TypeOK /\ LockInv => ExclusiveUnlessRobbed
  <2> SUFFICES ASSUME TypeOK, LockInv, ~robbed PROVE Cardinality(Holding) <= 1
    BY DEF ExclusiveUnlessRobbed
  <2>1. Holding \subseteq {lockFile}
    BY DEF LockInv
  <2>2. IsFiniteSet({lockFile}) /\ Cardinality({lockFile}) = 1
    BY FS_Singleton
  <2> QED
    BY <2>1, <2>2, FS_Subset
<1> QED
  BY <1>1, LockInductive, PTL

\* A stale shard shows, but for a change whose fingerprint is an old one or was recorded
\* late (syncer.go, reindex.go, index.go).
THEOREM StaleShowsAlways == Spec => []StaleShows
<1> DEFINE Inv == TypeOK /\ InHand /\ LockInv /\ FreshInv
<1>1. Init => Inv
  BY InitInv
<1>2. Inv /\ [Next]_vars => Inv'
  BY TypeStep, LockInvStep, FreshStep
<1>3. Inv => StaleShows
  BY DEF FreshInv, Sound, StaleShows, Shows, Hidden
<1> QED
  BY <1>1, <1>2, <1>3, PTL DEF Spec
=============================================================================
