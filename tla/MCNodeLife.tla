----------------------------- MODULE MCNodeLife -----------------------------
(* TLC instance of NodeLife: the consumers are named. *)
EXTENDS NodeLife

MCConsumers == {"keygen", "signing", "resharing"}
MCImpatient == {"resharing"}
=============================================================================
