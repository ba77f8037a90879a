-------------------------- MODULE MCRequestStream --------------------------
(* TLC instance of RequestStream: nodes and requests are model values. *)
EXTENDS RequestStream

CONSTANTS n1, n2, q1
=============================================================================
