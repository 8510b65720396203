------------------------- MODULE MCPresentTerminal ------------------------
(* Instances of PresentTerminal for TLC: every connection asks for the one  *)
(* session name of one page.                                                *)
EXTENDS PresentTerminal, TLC

CONSTANT key

OneKey == [c \in Conns |-> key]
=============================================================================
