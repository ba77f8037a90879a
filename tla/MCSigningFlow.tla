--------------------------- MODULE MCSigningFlow ---------------------------
(* TLC instances of SigningFlow: nodes and transactions are model values. *)
EXTENDS SigningFlow, TLC

CONSTANTS n1, n2, n3, t1

MCNodes2 == {n1, n2}
MCNodes3 == {n1, n2, n3}

\* Participants are interchangeable.
MCSymmetry3 == Permutations(MCNodes3)

\* The nodes that have heard of the request.
MCHearers == {n \in Nodes : \E d \in Deliveries : pc(n, d) # "idle"}

\* Bound: when all the nodes hear of a request, it is a genuine one whose bridge waits,
\* there is no crash and no refused result, and no error has been reported.
MCAllHearCalmly ==
    MCHearers = Nodes =>
        /\ forged = {}
        /\ budget = [restart |-> MaxRestarts, refusal |-> MaxRefusals]
        /\ \A d \in Deliveries : bridge[d].st = "waiting"
        /\ \A r \in results : r.ok

\* Bound: one node at most hears, of all the deliveries; its sessions wait for parties
\* that never start.
MCOneNodeHears == Cardinality(MCHearers) <= 1
=============================================================================
