----------------------------- MODULE MCRegistry -----------------------------
(* TLC instances of Registry: nodes are model values. *)
EXTENDS Registry

CONSTANTS n1, n2, n3

MCNodes3 == {n1, n2, n3}

\* n1 and n2 serve and have each other's key; n3 has not been started.
MCSettled ==
    LET pair == {n1, n2} IN
    /\ phase = [n \in Nodes |-> IF n \in pair THEN "serving" ELSE "down"]
    /\ gen = [n \in Nodes |-> IF n \in pair THEN 1 ELSE 0]
    /\ kv = pair
    /\ readyMap = [n \in Nodes |-> [p \in Nodes |->
                      IF n # p /\ {n, p} = pair THEN "up" ELSE "unseen"]]
    /\ readyCount = [n \in Nodes |-> IF n \in pair THEN 2 ELSE 1]
    /\ ready = [n \in Nodes |-> FALSE]
    /\ snapshot = [n \in Nodes |-> {}]
    /\ listed = {}
    /\ keys = [n \in Nodes |-> [p \in Nodes |-> IF n # p /\ {n, p} = pair THEN 1 ELSE 0]]
    /\ trigger = {}
    /\ ecdhMsgs = {}
    /\ restarts = 0
    /\ failures = 0
MCSettledSpec == MCSettled /\ [][Next]_vars /\ Fairness

\* Bounds: n1 and n2 go on serving; one fault; at most two of the watchers' lists,
\* the triggered exchanges and the senders of broadcasts are on their way at once.
MCPairServes == phase[n1] = "serving" /\ phase[n2] = "serving"
MCOneFault == restarts + failures <= 1
MCTwoOnTheirWay ==
    Cardinality(listed) + Cardinality(trigger) + Cardinality({m.from : m \in ecdhMsgs}) <= 2
=============================================================================
