-------------------------- MODULE MCResharingFlow --------------------------
(* TLC instance of ResharingFlow: nodes are model values. *)
EXTENDS ResharingFlow, TLC

CONSTANTS n1, n2, n3

\* n1 and n2 keep the key, n3 leaves.
MCSymmetry == Permutations({n1, n2})

MCHearers(d) == {n \in Nodes : pc(n, d) # "idle"}

\* No handler aborts or hangs and no watcher gets an error.
MCNoErrors ==
    /\ \A key \in results : key[2]
    /\ \A n \in Nodes, d \in Deliveries :
          pc(n, d) # "wedged" /\ \A r \in Roles : ses(n, d, r).watch # "error"

\* The old parties of every session are n1 and n2.
MCAgree ==
    \A n \in Nodes, d \in Deliveries, r \in Roles : ses(n, d, r).prot.old \subseteq {n1, n2}

\* Bound: either nothing fails and the bridge waits, or two nodes hear and agree.
MCFailuresOfTwo ==
    \/ MCNoErrors /\ faults = MaxFaults /\ bridge[1] \in {"none", "waiting"}
    \/ MCHearers(1) # Nodes /\ MCAgree

\* Bound: a redelivery comes while the bridge waits for the first one, without an error,
\* to two nodes that agree; or to n3 alone when the key has moved.
MCRedeliveryToTwo ==
    bridge[2] # "none" =>
        /\ MCNoErrors /\ MCAgree /\ ~lost
        /\ bridge[1] = "waiting"
        /\ n3 \notin MCHearers(1)
        /\ n3 \in MCHearers(2) => info.ver > 0 /\ MCHearers(2) = {n3} /\ faults = MaxFaults
=============================================================================
