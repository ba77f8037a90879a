---------------------------- MODULE MCKeygenFlow ----------------------------
(* TLC instances of KeygenFlow: nodes, wallets and curves are model values. *)
EXTENDS KeygenFlow, TLC

CONSTANTS n1, n2, w1, ecdsa, eddsa

MCNodes == {n1, n2}
MCSymmetry == Permutations(MCNodes)
=============================================================================
