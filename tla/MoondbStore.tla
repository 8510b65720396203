------------------------------ MODULE MoondbStore ------------------------------
(***************************************************************************)
(* What moondb's store promises its single writer and its readers,         *)
(* whatever log and index stand behind it (store/local/local.go): a        *)
(* register per record id.  A fact (an edit, a delta, a snapshot, a commit *)
(* link) is written once; a document (a session, a turn, an agent) may be  *)
(* replaced.  A record is loose as long as a power loss can take it back.  *)
(***************************************************************************)
CONSTANTS
  Facts,  \* ids of the records AppendEdit, AppendDelta, ... write once
  Docs,   \* ids of the records PutSession, PutTurn, PutAgent replace
  Vals,   \* what a record can say
  None    \* no record

VARIABLES
  kept,   \* the record the store has under each id, or None
  loose   \* the ids whose record a power loss can take back

storeVars == <<kept, loose>>

Ids == Facts \cup Docs

StoreInit ==
  /\ kept = [i \in Ids |-> None]
  /\ loose = {}

(***************************************************************************)
(* A write the caller hears the success of.  It is safe at once, and it    *)
(* may make loose records safe.                                            *)
(***************************************************************************)
Write(i, v) ==
  /\ i \in Facts => kept[i] = None
  /\ kept' = [kept EXCEPT ![i] = v]
  /\ loose' \in SUBSET (loose \ {i})

\* A write that was cut short by a crash, or reported as failed, may turn up.
TurnUp(i, v) ==
  /\ i \in Facts => kept[i] = None
  /\ kept' = [kept EXCEPT ![i] = v]
  /\ loose' = loose \cup {i}

\* Loose records become safe.
Harden ==
  /\ loose' \in SUBSET loose
  /\ UNCHANGED kept

\* A power loss leaves every record that is not loose as it was; a record it
\* spared may be in the files for good, or be spared once more.
LosePower ==
  /\ kept' \in [Ids -> Vals \cup {None}]
  /\ \A i \in Ids \ loose : kept'[i] = kept[i]
  /\ \A f \in Facts : kept'[f] \in {kept[f], None}
  /\ loose' \in SUBSET loose

StoreNext ==
  \/ \E i \in Ids, v \in Vals : Write(i, v) \/ TurnUp(i, v)
  \/ Harden
  \/ LosePower

StoreSpec == StoreInit /\ [][StoreNext]_storeVars
================================================================================
