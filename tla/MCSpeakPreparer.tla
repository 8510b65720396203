--------------------------- MODULE MCSpeakPreparer ---------------------------
(* Instances of SpeakPreparer for TLC: two clips, one or two workers, one or   *)
(* two fetches, and the item lists that documents of these clips ask for.    *)
EXTENDS SpeakPreparer, TLC

CONSTANTS a, b

\* A part that is read twice appears twice in its document's items.
TwoClips == {<<a, b>>, <<b, b>>}

Symmetry == Permutations(Workers) \union Permutations(Callers)
===============================================================================
