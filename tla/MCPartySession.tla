--------------------------- MODULE MCPartySession ---------------------------
(* TLC instances of PartySession: nodes are model values. *)
EXTENDS PartySession, TLC

CONSTANTS n1, n2
=============================================================================
