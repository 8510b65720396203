--------------------------- MODULE MCSpeakPlayback -------------------------
(* Instances of SpeakPlayback for TLC: which goroutine belongs to which    *)
(* process, and the symmetry of the workers' slots.                        *)
EXTENDS SpeakPlayback, TLC

CONSTANTS e1, e2, c1, c2, w1, w2, w3, w4

AllTools == {"speak", "pause", "resume", "stop"}

\* One process with two tool calls at a time.
HomeOne == [x \in {c1, c2, w1, w2} |-> e1]

\* Two processes, each with one call at a time and two worker slots.
HomeTwo == (c1 :> e1 @@ w1 :> e1 @@ w2 :> e1) @@ (c2 :> e2 @@ w3 :> e2 @@ w4 :> e2)

\* In one process the calls are alike, and so are the worker slots.
Symmetry == Permutations({c1, c2}) \union Permutations({w1, w2})

\* The provider answers every first part sooner or later.
AnsweringSpec == LiveSpec /\ \A c \in Calls : WF_vars(Answer(c))
=============================================================================
