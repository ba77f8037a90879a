------------------------------ MODULE Registry ------------------------------
(***************************************************************************)
(* The peer registry and the ECDH key exchange of the nodes: the ready keys *)
(* in Consul, each node's watcher of them (WatchPeersReady), its health     *)
(* checks, its broadcasts of an ephemeral public key and the symmetric keys *)
(* it derives from the broadcasts of the others.                            *)
(*                                                                         *)
(* Each start of a node generates a new key pair; gen[n] numbers starts.  A *)
(* symmetric key of n for p is the pair of n's key pair, which is always    *)
(* the current one, and the key pair of p that n saw last.                  *)
(***************************************************************************)
EXTENDS Naturals, FiniteSets

CONSTANTS
    Nodes,          \* the configured nodes; each has all others as peers
    Threshold,      \* mpc_threshold
    MaxRestarts,    \* bound: restarts of nodes, all together
    MaxListFailures \* bound: failed lists of the ready keys

ASSUME RegistryAssumption ==
    /\ IsFiniteSet(Nodes)
    /\ Threshold \in Nat \ {0}
    /\ MaxRestarts \in Nat
    /\ MaxListFailures \in Nat

VARIABLES
    phase,      \* node -> how far its start has come
    gen,        \* node -> how often it started, the number of its key pair
    kv,         \* nodes with a ready key in Consul
    readyMap,   \* node -> peer -> what its watcher last registered
    readyCount, \* node -> ready peers and itself
    ready,      \* node -> the watcher saw all peers
    snapshot,   \* node -> peers in the list its watcher is working on
    listed,     \* nodes whose watcher holds such a list
    keys,       \* node -> peer -> key pair of the peer it derived a key from, or 0
    trigger,    \* nodes with a triggerECDHExchange goroutine about to run
    ecdhMsgs,   \* broadcast public keys on their way: [from, to, gen]
    restarts,   \* restarts so far
    failures    \* failed lists so far

vars == <<phase, gen, kv, readyMap, readyCount, ready, snapshot, listed, keys, trigger,
          ecdhMsgs, restarts, failures>>

(***************************************************************************)
(* "booting": NewNode has started the watcher and the health checks;        *)
(* "keyed": Ready has generated the key pair and subscribed to broadcasts;   *)
(* "put": it has written the ready key; "serving": it answers health checks; *)
(* "panicked": a broadcast found no key pair.                                *)
(***************************************************************************)
Phases == {"down", "booting", "keyed", "put", "serving", "panicked"}
Running == {"booting", "keyed", "put", "serving"}
HasKeyPair == {"keyed", "put", "serving"}

Peers(n) == Nodes \ {n}
UpPeers(n) == {p \in Peers(n) : readyMap[n][p] = "up"}
KeyedPeers(n) == {p \in Peers(n) : keys[n][p] # 0}

TypeOK ==
    /\ phase \in [Nodes -> Phases]
    /\ gen \in [Nodes -> 0..(MaxRestarts + 1)]
    /\ kv \subseteq Nodes
    /\ readyMap \in [Nodes -> [Nodes -> {"unseen", "up", "down"}]]
    /\ readyCount \in [Nodes -> Nat]
    /\ ready \in [Nodes -> BOOLEAN]
    /\ snapshot \in [Nodes -> SUBSET Nodes]
    /\ listed \subseteq Nodes
    /\ keys \in [Nodes -> [Nodes -> 0..(MaxRestarts + 1)]]
    /\ trigger \subseteq Nodes
    /\ ecdhMsgs \subseteq [from : Nodes, to : Nodes, gen : 1..(MaxRestarts + 1)]
    /\ restarts \in 0..MaxRestarts
    /\ failures \in 0..MaxListFailures

Init ==
    /\ phase = [n \in Nodes |-> "down"]
    /\ gen = [n \in Nodes |-> 0]
    /\ kv = {}
    /\ readyMap = [n \in Nodes |-> [p \in Nodes |-> "unseen"]]
    /\ readyCount = [n \in Nodes |-> 1]
    /\ ready = [n \in Nodes |-> FALSE]
    /\ snapshot = [n \in Nodes |-> {}]
    /\ listed = {}
    /\ keys = [n \in Nodes |-> [p \in Nodes |-> 0]]
    /\ trigger = {}
    /\ ecdhMsgs = {}
    /\ restarts = 0
    /\ failures = 0

watchVars == <<readyMap, readyCount, ready, snapshot, listed>>
keyVars == <<keys, trigger, ecdhMsgs>>
boundVars == <<restarts, failures>>

-----------------------------------------------------------------------------
(***************************************************************************)
(* isECDHReady, ArePeersReady and AreMajorityReady compare numbers.         *)
(***************************************************************************)
isECDHReady(n) == Cardinality(KeyedPeers(n)) = readyCount[n] - 1

ArePeersReady(n) == ready[n] /\ isECDHReady(n)

AreMajorityReady(n) == readyCount[n] >= Threshold + 1 /\ isECDHReady(n)

\* BroadcastPublicKey: core NATS delivers to the nodes that are subscribed now.
Broadcast(n) ==
    ecdhMsgs' = ecdhMsgs \cup
        {[from |-> n, to |-> p, gen |-> gen[n]] : p \in {q \in Peers(n) : phase[q] \in HasKeyPair}}

-----------------------------------------------------------------------------
(***************************************************************************)
(* Start, Ready and the end of a node.                                     *)
(***************************************************************************)
\* NewRegistry and NewNode: the watcher and the health checks run from here on.
NewNode(n) ==
    /\ phase[n] = "down"
    /\ IF gen[n] = 0 THEN UNCHANGED restarts
       ELSE restarts < MaxRestarts /\ restarts' = restarts + 1
    /\ phase' = [phase EXCEPT ![n] = "booting"]
    /\ gen' = [gen EXCEPT ![n] = @ + 1]
    /\ UNCHANGED <<kv, watchVars, keyVars, failures>>

\* Ready, first part: startECDHExchange.
startECDHExchange(n) ==
    /\ phase[n] = "booting"
    /\ phase' = [phase EXCEPT ![n] = "keyed"]
    /\ Broadcast(n)
    /\ UNCHANGED <<gen, kv, watchVars, keys, trigger, boundVars>>

\* Ready, second part: the ready key.
PutReadyKey(n) ==
    /\ phase[n] = "keyed"
    /\ phase' = [phase EXCEPT ![n] = "put"]
    /\ kv' = kv \cup {n}
    /\ UNCHANGED <<gen, watchVars, keyVars, boundVars>>

\* Ready, last part: the health check listener.
ListenHealthCheck(n) ==
    /\ phase[n] = "put"
    /\ phase' = [phase EXCEPT ![n] = "serving"]
    /\ UNCHANGED <<gen, kv, watchVars, keyVars, boundVars>>

\* The process ends: nothing of its memory, and no message on its way to it, stays.
Forget(n) ==
    /\ phase' = [phase EXCEPT ![n] = "down"]
    /\ readyMap' = [readyMap EXCEPT ![n] = [p \in Nodes |-> "unseen"]]
    /\ readyCount' = [readyCount EXCEPT ![n] = 1]
    /\ ready' = [ready EXCEPT ![n] = FALSE]
    /\ snapshot' = [snapshot EXCEPT ![n] = {}]
    /\ listed' = listed \ {n}
    /\ keys' = [keys EXCEPT ![n] = [p \in Nodes |-> 0]]
    /\ trigger' = trigger \ {n}
    /\ ecdhMsgs' = {m \in ecdhMsgs : m.to # n}
    /\ UNCHANGED <<gen, boundVars>>

\* A signal: Resign deletes the ready key, then the process ends.
Resign(n) ==
    /\ phase[n] \in Running
    /\ Forget(n)
    /\ kv' = kv \ {n}

\* A crash leaves the ready key behind.
Crash(n) ==
    /\ phase[n] \in Running \cup {"panicked"}
    /\ Forget(n)
    /\ UNCHANGED kv

-----------------------------------------------------------------------------
(***************************************************************************)
(* One round of WatchPeersReady: list the ready keys, then compare.         *)
(***************************************************************************)
ListReadyKeys(n) ==
    /\ phase[n] \in Running
    /\ n \notin listed
    /\ snapshot' = [snapshot EXCEPT ![n] = kv \ {n}]
    /\ listed' = listed \cup {n}
    /\ UNCHANGED <<phase, gen, kv, readyMap, readyCount, ready, keyVars, boundVars>>

\* A failed list is logged and taken for an empty one.
ListReadyKeysFails(n) ==
    /\ phase[n] \in Running
    /\ n \notin listed
    /\ failures < MaxListFailures
    /\ failures' = failures + 1
    /\ snapshot' = [snapshot EXCEPT ![n] = {}]
    /\ listed' = listed \cup {n}
    /\ UNCHANGED <<phase, gen, kv, readyMap, readyCount, ready, keyVars, restarts>>

\* The list has as many nodes as there are peers.
AllListed(n) == Cardinality(snapshot[n]) = Cardinality(Peers(n))

\* Fault: every configured peer missing from the list counts as disconnected.
DisconnectedUnseen(n) ==
    IF AllListed(n) THEN {} ELSE Peers(n) \ snapshot[n]

\* Unless the list is complete, the peers missing from it are disconnected and
\* lose their symmetric keys.
Disconnected(n) ==
    IF AllListed(n) THEN {} ELSE UpPeers(n) \ snapshot[n]

\* Fault: a peer that comes back after a disconnect is not counted again.
ConnectedFirstTime(n) == {p \in snapshot[n] : readyMap[n][p] = "unseen"}

\* registerReadyPairs: the peers that come up; each starts a key exchange.
Connected(n) == snapshot[n] \ UpPeers(n)

\* What a round does apart from the ready flag.
CompareRest(n) ==
    /\ phase[n] \in Running
    /\ n \in listed
    /\ listed' = listed \ {n}
    /\ snapshot' = [snapshot EXCEPT ![n] = {}]
    /\ readyMap' = [readyMap EXCEPT ![n] = [p \in Nodes |->
                        IF p \in snapshot[n] THEN "up"
                        ELSE IF p \in Disconnected(n) THEN "down" ELSE readyMap[n][p]]]
    /\ readyCount' = [readyCount EXCEPT ![n] =
                        (@ - Cardinality(Disconnected(n))) + Cardinality(Connected(n))]
    /\ keys' = [keys EXCEPT ![n] = [p \in Nodes |->
                        IF p \in Disconnected(n) THEN 0 ELSE keys[n][p]]]
    /\ trigger' = IF Connected(n) # {} THEN trigger \cup {n} ELSE trigger
    /\ UNCHANGED <<phase, gen, kv, ecdhMsgs, boundVars>>

\* Fault: the flag is set and never cleared.
CompareStickyReady(n) ==
    /\ CompareRest(n)
    /\ ready' = [ready EXCEPT ![n] = @ \/ AllListed(n)]

CompareReadyPeers(n) ==
    /\ CompareRest(n)
    /\ ready' = [ready EXCEPT ![n] = AllListed(n)]

-----------------------------------------------------------------------------
(***************************************************************************)
(* Key exchange and health checks.                                         *)
(***************************************************************************)
\* The goroutine broadcasts; before Ready there is no key pair to broadcast.
triggerECDHExchange(n) ==
    /\ n \in trigger
    /\ trigger' = trigger \ {n}
    /\ IF phase[n] \in HasKeyPair
       THEN Broadcast(n) /\ UNCHANGED phase
       ELSE phase' = [phase EXCEPT ![n] = "panicked"] /\ UNCHANGED ecdhMsgs
    /\ UNCHANGED <<gen, kv, watchVars, keys, boundVars>>

\* The subscription of ListenKeyExchange: messages of one sender come in order.
ReceivePublicKey(n, m) ==
    /\ m \in ecdhMsgs
    /\ m.to = n
    /\ phase[n] \in HasKeyPair
    /\ \A o \in ecdhMsgs : (o.to = n /\ o.from = m.from) => m.gen <= o.gen
    /\ keys' = [keys EXCEPT ![n][m.from] = m.gen]
    /\ ecdhMsgs' = ecdhMsgs \ {m}
    /\ UNCHANGED <<phase, gen, kv, watchVars, trigger, boundVars>>

\* Fault: the peer does not broadcast again when n lacks keys.
CheckWithoutRetrigger(n, p) ==
    /\ phase[n] \in Running
    /\ p \in kv \ {n}
    /\ phase[p] # "serving"
    /\ kv' = kv \ {p}
    /\ UNCHANGED <<phase, gen, watchVars, keyVars, boundVars>>

\* checkPeersHealth, one listed peer: it hears whether n lacks keys and then
\* broadcasts again; if it has no listener its ready key is deleted.
CheckPeerHealth(n, p) ==
    /\ phase[n] \in Running
    /\ p \in kv \ {n}
    /\ IF phase[p] = "serving"
       THEN /\ ~isECDHReady(n)
            /\ trigger' = trigger \cup {p}
            /\ UNCHANGED kv
       ELSE kv' = kv \ {p} /\ UNCHANGED trigger
    /\ UNCHANGED <<phase, gen, watchVars, keys, ecdhMsgs, boundVars>>

-----------------------------------------------------------------------------
Next ==
    \E n \in Nodes :
        \/ NewNode(n)
        \/ startECDHExchange(n)
        \/ PutReadyKey(n)
        \/ ListenHealthCheck(n)
        \/ Resign(n)
        \/ Crash(n)
        \/ ListReadyKeys(n)
        \/ ListReadyKeysFails(n)
        \/ CompareReadyPeers(n)
        \/ triggerECDHExchange(n)
        \/ \E m \in ecdhMsgs : ReceivePublicKey(n, m)
        \/ \E p \in Nodes : CheckPeerHealth(n, p)

Spec == Init /\ [][Next]_vars

(***************************************************************************)
(* Ready runs to its end, the watcher and the health checks are endless     *)
(* loops, goroutines run and NATS delivers to subscribers.  A crashed node   *)
(* is started again.                                                         *)
(***************************************************************************)
Fairness ==
    \A n \in Nodes :
        /\ WF_vars(NewNode(n))
        /\ WF_vars(startECDHExchange(n))
        /\ WF_vars(PutReadyKey(n))
        /\ WF_vars(ListenHealthCheck(n))
        /\ WF_vars(ListReadyKeys(n))
        /\ WF_vars(CompareReadyPeers(n))
        /\ WF_vars(triggerECDHExchange(n))
        /\ \A p \in Peers(n) :
              /\ WF_vars(\E m \in ecdhMsgs : m.from = p /\ ReceivePublicKey(n, m))
              /\ WF_vars(CheckPeerHealth(n, p))

FairSpec == Spec /\ Fairness

-----------------------------------------------------------------------------
(***************************************************************************)
(* Properties.                                                             *)
(***************************************************************************)
\* The counter that signing and ECDH readiness are decided on never drifts from
\* the map it counts, over any sequence of connects, disconnects, failed lists
\* and restarts.
CountMatchesMap ==
    \A n \in Nodes : readyCount[n] = Cardinality(UpPeers(n)) + 1

\* ArePeersReady, the gate of key generation, holds only when the watcher has
\* registered every peer, so that GetReadyPeersIncludeSelf then returns all nodes.
ReadyMeansAllUp ==
    \A n \in Nodes : ArePeersReady(n) => UpPeers(n) = Peers(n)

\* Nodes that both serve and are listed end up seeing each other ready and holding
\* the same symmetric key, whatever crashes, restarts and late messages came before;
\* but a node that holds a key of a peer that is not ready may lack one of a peer that
\* is, since it counts its keys and never asks again.
KeysConverge ==
    <>[](\A n \in kv, p \in kv :
            (n # p /\ phase[n] = "serving" /\ phase[p] = "serving")
                => /\ readyMap[n][p] = "up"
                   /\ KeyedPeers(n) \subseteq UpPeers(n) => keys[n][p] = gen[p])

-----------------------------------------------------------------------------
(***************************************************************************)
(* What comments and documents say and the code does not do.               *)
(***************************************************************************)
\* registry.go: AreMajorityReady is true only if "symmetric keys are fully
\* established among all ready peers".
MajorityHasKeys ==
    \A n \in Nodes : AreMajorityReady(n) => \A p \in UpPeers(n) : keys[n][p] # 0
=============================================================================
