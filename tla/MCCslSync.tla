------------------------------ MODULE MCCslSync -----------------------------
(* Instances of CslSync for TLC.  A run evaluates every repo of the model, or  *)
(* Options.Only names one that the model does not follow.                    *)
EXTENDS CslSync, TLC

CONSTANTS web, p1, p2, a, b, h1, clean, dirty

AllOrAnother == {Repos, {}}

\* Fingerprints are alike, so nothing is lost by naming the first one.
CleanInit == Init /\ git = [r \in Repos |-> clean]

CleanAtFirst == CleanInit /\ [][Next]_vars /\ Fairness
=============================================================================
