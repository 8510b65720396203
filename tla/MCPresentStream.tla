-------------------------- MODULE MCPresentStream -------------------------
(* Instances of PresentStream for TLC.                                      *)
EXTENDS PresentStream, TLC

CONSTANTS v1, v2
=============================================================================
