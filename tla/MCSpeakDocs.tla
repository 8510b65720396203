----------------------------- MODULE MCSpeakDocs ------------------------------
(* Instances of SpeakDocs for TLC: two clips, a document that reads one of    *)
(* them and a document that reads both.                                       *)
EXTENDS SpeakDocs, TLC

CONSTANTS a, b, one, both

\* One document's parts are among the other's.
Sharing == (one :> <<a>>) @@ (both :> <<a, b>>)
SharingLists == {Sharing[d] : d \in Docs}
===============================================================================
