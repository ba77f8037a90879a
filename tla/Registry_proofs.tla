-------------------------- MODULE Registry_proofs --------------------------
(***************************************************************************)
(* Proofs about module Registry, for any finite set of nodes, any threshold *)
(* and any number of restarts and failed lists.                             *)
(***************************************************************************)
EXTENDS Registry, FiniteSetTheorems, TLAPS

(***************************************************************************)
(* The inductive invariant.  The counter agrees with the map only because a *)
(* list never names the node itself (getReadyPeersFromKVStore drops it),     *)
(* and the ready flag is about the map only because a list is a set of       *)
(* peers, so that one with as many members as there are peers has them all.  *)
(***************************************************************************)
SnapshotOfPeers == \A n \in Nodes : snapshot[n] \subseteq Peers(n)

FlagMeansAllUp == \A n \in Nodes : ready[n] => UpPeers(n) = Peers(n)

\* The key pairs of a node are numbered from its first start, and a node has
\* started once more than it restarted, at most.
Generations ==
    \A n \in Nodes : gen[n] <= restarts + 1 /\ (phase[n] \in Running => gen[n] # 0)

IInv ==
    /\ TypeOK
    /\ Generations
    /\ SnapshotOfPeers
    /\ CountMatchesMap
    /\ FlagMeansAllUp

-----------------------------------------------------------------------------
\* Peers and up peers are finite sets.
LEMMA PeersFinite ==
    ASSUME NEW n \in Nodes
    PROVE  /\ IsFiniteSet(Peers(n))
           /\ IsFiniteSet(UpPeers(n))
           /\ UpPeers(n) \subseteq Peers(n)
<1>1. Peers(n) \subseteq Nodes BY DEF Peers
<1>2. UpPeers(n) \subseteq Peers(n) BY DEF UpPeers
<1>3. IsFiniteSet(Peers(n)) BY <1>1, FS_Subset, RegistryAssumption
<1> QED BY <1>2, <1>3, FS_Subset

\* A list of peers that is as long as the list of all peers is that list.
LEMMA FullList ==
    ASSUME NEW n \in Nodes, snapshot[n] \subseteq Peers(n), AllListed(n)
    PROVE  snapshot[n] = Peers(n)
<1>1. IsFiniteSet(Peers(n)) BY PeersFinite
<1>2. Cardinality(snapshot[n]) = Cardinality(Peers(n)) BY DEF AllListed
<1> QED BY <1>1, <1>2, FS_Subset

\* What a round of the watcher does to a set of up peers and to its size: those
\* that left go, those that came are added.
LEMMA CountStep ==
    ASSUME NEW U, IsFiniteSet(U), NEW S, IsFiniteSet(S), NEW D, D \subseteq U,
           D \cap S = {}
    PROVE  /\ Cardinality((U \ D) \cup S) =
                (Cardinality(U) - Cardinality(D)) + Cardinality(S \ U)
           /\ Cardinality(D) \in Nat
           /\ Cardinality(S \ U) \in Nat
           /\ Cardinality(U) \in Nat
           /\ Cardinality((U \ D) \cup S) \in Nat
<1>1. IsFiniteSet(D) /\ IsFiniteSet(U \ D) /\ IsFiniteSet(S \ U)
  BY FS_Subset, FS_Difference
<1>2. (U \ D) \cup S = (U \ D) \cup (S \ U)
  OBVIOUS
<1>3. (U \ D) \cap (S \ U) = {}
  OBVIOUS
<1>4. Cardinality((U \ D) \cup (S \ U)) =
        Cardinality(U \ D) + Cardinality(S \ U) - Cardinality((U \ D) \cap (S \ U))
  BY <1>1, FS_Union
<1>5. Cardinality(U \ D) = Cardinality(U) - Cardinality(U \cap D)
  BY FS_Difference
<1>6. U \cap D = D
  OBVIOUS
<1>7. /\ Cardinality(D) \in Nat /\ Cardinality(S \ U) \in Nat /\ Cardinality(U) \in Nat
      /\ Cardinality(U \ D) \in Nat
  BY <1>1, FS_CardinalityType
<1>8. Cardinality((U \ D) \cap (S \ U)) = 0
  BY <1>3, FS_EmptySet
<1>9. IsFiniteSet((U \ D) \cup S)
  BY <1>1, FS_Union
<1>10. Cardinality((U \ D) \cup S) \in Nat
  BY <1>9, FS_CardinalityType
<1>11. Cardinality((U \ D) \cup S) = Cardinality(U \ D) + Cardinality(S \ U) - 0
  BY <1>2, <1>4, <1>8
<1>12. Cardinality(U \ D) = Cardinality(U) - Cardinality(D)
  BY <1>5, <1>6
<1>13. ASSUME NEW a \in Nat, NEW b \in Nat, NEW c \in Nat, NEW e \in Nat, NEW x,
              x = a + b - 0, a = c - e
       PROVE  x = (c - e) + b
  BY <1>13
<1>14. Cardinality((U \ D) \cup S) =
         (Cardinality(U) - Cardinality(D)) + Cardinality(S \ U)
  BY ONLY <1>7, <1>11, <1>12, <1>13
<1> QED BY <1>7, <1>10, <1>14

-----------------------------------------------------------------------------
\* The initial state satisfies the invariant: nobody is up, one node is counted.
LEMMA InitInv == Init => IInv
<1> SUFFICES ASSUME Init PROVE IInv
  OBVIOUS
<1>1. TypeOK
  BY RegistryAssumption DEF Init, TypeOK, Phases
<1>2. SnapshotOfPeers /\ Generations
  BY DEF Init, SnapshotOfPeers, Generations, Running
<1>3. CountMatchesMap
  <2> SUFFICES ASSUME NEW n \in Nodes PROVE readyCount[n] = Cardinality(UpPeers(n)) + 1
    BY DEF CountMatchesMap
  <2>1. UpPeers(n) = {}
    BY DEF Init, UpPeers, Peers
  <2>2. Cardinality(UpPeers(n)) = 0
    BY <2>1, FS_EmptySet
  <2> QED BY <2>2 DEF Init
<1>4. FlagMeansAllUp
  BY DEF Init, FlagMeansAllUp
<1> QED BY <1>1, <1>2, <1>3, <1>4 DEF IInv

\* A step that leaves the watcher's variables alone keeps what is about them.
LEMMA WatchUnchanged ==
    ASSUME IInv, UNCHANGED watchVars, TypeOK', Generations'
    PROVE  IInv'
<1>1. \A n \in Nodes : UpPeers(n)' = UpPeers(n)
  BY DEF UpPeers, watchVars
<1>2. SnapshotOfPeers'
  BY DEF IInv, SnapshotOfPeers, watchVars, Peers
<1>3. CountMatchesMap'
  BY <1>1 DEF IInv, CountMatchesMap, watchVars
<1>4. FlagMeansAllUp'
  BY <1>1 DEF IInv, FlagMeansAllUp, watchVars, Peers
<1> QED BY <1>2, <1>3, <1>4 DEF IInv

\* A broadcast puts well-typed messages on their way.
LEMMA BroadcastTypes ==
    ASSUME TypeOK, NEW n \in Nodes, gen[n] # 0, Broadcast(n)
    PROVE  ecdhMsgs' \subseteq [from : Nodes, to : Nodes, gen : 1..(MaxRestarts + 1)]
<1>1. gen[n] \in 1..(MaxRestarts + 1)
  BY RegistryAssumption DEF TypeOK
<1> QED BY <1>1 DEF TypeOK, Broadcast, Peers

\* The end of a process resets its watcher to one node, itself, and none up.
LEMMA ForgetInv ==
    ASSUME IInv, NEW n \in Nodes, Forget(n), kv' \subseteq Nodes
    PROVE  IInv'
<1> USE DEF IInv
<1>1. TypeOK'
  BY RegistryAssumption DEF TypeOK, Forget, Phases, boundVars
<1>2. Generations'
  BY DEF Forget, Generations, Running, boundVars, TypeOK
<1>3. SnapshotOfPeers'
  BY DEF SnapshotOfPeers, Forget, TypeOK, Peers
<1>4. UpPeers(n)' = {} /\ readyCount'[n] = 1 /\ ready'[n] = FALSE
  BY DEF Forget, UpPeers, TypeOK, Peers
<1>5. ASSUME NEW p \in Nodes, p # n
      PROVE  UpPeers(p)' = UpPeers(p) /\ readyCount'[p] = readyCount[p] /\ ready'[p] = ready[p]
  BY <1>5 DEF Forget, UpPeers, TypeOK
<1>6. Cardinality(UpPeers(n)') + 1 = readyCount'[n]
  BY <1>4, FS_EmptySet
<1>7. CountMatchesMap'
  BY <1>5, <1>6 DEF CountMatchesMap
<1>8. FlagMeansAllUp'
  BY <1>4, <1>5 DEF FlagMeansAllUp, Peers
<1> QED BY <1>1, <1>2, <1>3, <1>7, <1>8

\* A list that the watcher takes, or fails to take, leaves the map alone.
LEMMA ListInv ==
    ASSUME IInv, NEW n \in Nodes, ListReadyKeys(n) \/ ListReadyKeysFails(n)
    PROVE  IInv'
<1> USE DEF IInv
<1>1. TypeOK'
  BY RegistryAssumption DEF TypeOK, ListReadyKeys, ListReadyKeysFails, boundVars, keyVars
<1>2. Generations'
  BY DEF ListReadyKeys, ListReadyKeysFails, Generations, Running, boundVars
<1>3. SnapshotOfPeers'
  BY DEF SnapshotOfPeers, ListReadyKeys, ListReadyKeysFails, TypeOK, Peers
<1>4. UNCHANGED <<readyMap, readyCount, ready>>
  BY DEF ListReadyKeys, ListReadyKeysFails
<1>5. \A p \in Nodes : UpPeers(p)' = UpPeers(p)
  BY <1>4 DEF UpPeers
<1>6. CountMatchesMap' /\ FlagMeansAllUp'
  BY <1>4, <1>5 DEF CountMatchesMap, FlagMeansAllUp, Peers
<1> QED BY <1>1, <1>2, <1>3, <1>6

\* A round of the watcher: exactly the listed peers stay or come up, and the
\* counter moves by as many.
LEMMA CompareInv ==
    ASSUME IInv, NEW n \in Nodes, CompareReadyPeers(n)
    PROVE  IInv'
<1> USE DEF IInv
<1> DEFINE U == UpPeers(n)  S == snapshot[n]  D == Disconnected(n)
<1>1. S \subseteq Peers(n)
  BY DEF SnapshotOfPeers
<1>2. IsFiniteSet(U) /\ IsFiniteSet(S) /\ U \subseteq Peers(n)
  BY <1>1, PeersFinite, FS_Subset
<1>3. D \subseteq U /\ D \cap S = {}
  BY DEF Disconnected
<1>4. readyMap'[n] = [p \in Nodes |-> IF p \in S THEN "up"
                        ELSE IF p \in D THEN "down" ELSE readyMap[n][p]]
  BY DEF CompareReadyPeers, CompareRest, TypeOK
<1>5. UpPeers(n)' = (U \ D) \cup S
  BY <1>1, <1>3, <1>4 DEF UpPeers, Peers
<1>6. /\ Cardinality((U \ D) \cup S) =
           (Cardinality(U) - Cardinality(D)) + Cardinality(S \ U)
      /\ Cardinality(D) \in Nat
      /\ Cardinality(S \ U) \in Nat
      /\ Cardinality(U) \in Nat
      /\ Cardinality((U \ D) \cup S) \in Nat
  BY <1>2, <1>3, CountStep
<1>7. readyCount'[n] = (readyCount[n] - Cardinality(D)) + Cardinality(S \ U)
  BY DEF CompareReadyPeers, CompareRest, Connected, TypeOK
<1>8. readyCount[n] = Cardinality(U) + 1
  BY DEF CountMatchesMap
<1>9. ASSUME NEW a \in Nat, NEW b \in Nat, NEW c \in Nat, NEW x \in Nat, NEW y, NEW z,
             x = (a - b) + c, y = a + 1, z = (y - b) + c
      PROVE  z = x + 1 /\ z \in Nat
  BY <1>9
<1>10. /\ readyCount'[n] = Cardinality((U \ D) \cup S) + 1
       /\ readyCount'[n] \in Nat
  BY ONLY <1>6, <1>7, <1>8, <1>9
<1>11. ASSUME NEW p \in Nodes, p # n
       PROVE  /\ UpPeers(p)' = UpPeers(p)
              /\ readyCount'[p] = readyCount[p]
              /\ ready'[p] = ready[p]
  BY <1>11 DEF CompareReadyPeers, CompareRest, UpPeers, TypeOK
<1>12. readyCount' \in [Nodes -> Nat]
  BY <1>10 DEF CompareReadyPeers, CompareRest, TypeOK
<1>13. TypeOK'
  <2>1. readyMap' \in [Nodes -> [Nodes -> {"unseen", "up", "down"}]]
    BY DEF CompareReadyPeers, CompareRest, TypeOK
  <2>2. keys' \in [Nodes -> [Nodes -> 0..(MaxRestarts + 1)]]
    BY RegistryAssumption DEF CompareReadyPeers, CompareRest, TypeOK
  <2>3. ready' \in [Nodes -> BOOLEAN]
    BY Zenon DEF CompareReadyPeers, AllListed, TypeOK
  <2>4. snapshot' \in [Nodes -> SUBSET Nodes] /\ listed' \subseteq Nodes /\ trigger' \subseteq Nodes
    BY DEF CompareReadyPeers, CompareRest, TypeOK
  <2> QED BY <1>12, <2>1, <2>2, <2>3, <2>4 DEF CompareReadyPeers, CompareRest, TypeOK, boundVars
<1>14. Generations'
  BY DEF CompareReadyPeers, CompareRest, Generations, Running, boundVars
<1>15. SnapshotOfPeers'
  BY DEF CompareReadyPeers, CompareRest, SnapshotOfPeers, TypeOK, Peers
<1>16. CountMatchesMap'
  BY <1>5, <1>10, <1>11 DEF CountMatchesMap
<1>17. ready'[n] => UpPeers(n)' = Peers(n)
  <2>1. ASSUME AllListed(n) PROVE S = Peers(n)
    BY <1>1, <2>1, FullList
  <2>2. ready'[n] => AllListed(n)
    BY DEF CompareReadyPeers, TypeOK
  <2> QED BY <1>2, <1>5, <2>1, <2>2
<1>18. FlagMeansAllUp'
  BY <1>11, <1>17 DEF FlagMeansAllUp, Peers
<1> QED BY <1>13, <1>14, <1>15, <1>16, <1>18

\* Every step keeps the invariant; only the watcher and the end of a process
\* touch the map, the counter and the flag.
LEMMA NextInv == IInv /\ [Next]_vars => IInv'
<1> SUFFICES ASSUME IInv, [Next]_vars PROVE IInv'
  OBVIOUS
<1>1. ASSUME NEW n \in Nodes, NewNode(n) PROVE IInv'
  <2>1. gen'[n] \in 0..(MaxRestarts + 1) /\ gen'[n] # 0 /\ gen'[n] <= restarts' + 1
        /\ restarts' \in 0..MaxRestarts /\ restarts <= restarts'
    BY <1>1, RegistryAssumption DEF IInv, NewNode, Generations, Running, TypeOK
  <2>2. gen' \in [Nodes -> 0..(MaxRestarts + 1)]
    BY <1>1, <2>1 DEF IInv, NewNode, TypeOK
  <2>3. TypeOK'
    BY <1>1, <2>1, <2>2 DEF IInv, NewNode, TypeOK, Phases, watchVars, keyVars
  <2>4. Generations'
    BY <1>1, <2>1, RegistryAssumption DEF IInv, NewNode, Generations, Running, TypeOK
  <2> QED BY <1>1, <2>3, <2>4, WatchUnchanged DEF NewNode
<1>2. ASSUME NEW n \in Nodes, startECDHExchange(n) PROVE IInv'
  <2>1. gen[n] # 0
    BY <1>2 DEF IInv, Generations, Running, startECDHExchange
  <2>2. ecdhMsgs' \subseteq [from : Nodes, to : Nodes, gen : 1..(MaxRestarts + 1)]
    BY <1>2, <2>1, BroadcastTypes DEF IInv, startECDHExchange
  <2>3. TypeOK'
    BY <1>2, <2>2 DEF IInv, startECDHExchange, TypeOK, Phases, watchVars, boundVars
  <2>4. Generations'
    BY <1>2, <2>1 DEF IInv, startECDHExchange, Generations, Running, TypeOK, boundVars
  <2> QED BY <1>2, <2>3, <2>4, WatchUnchanged DEF startECDHExchange
<1>3. ASSUME NEW n \in Nodes, PutReadyKey(n) \/ ListenHealthCheck(n) PROVE IInv'
  <2>1. TypeOK'
    BY <1>3 DEF IInv, PutReadyKey, ListenHealthCheck, TypeOK, Phases, watchVars, keyVars, boundVars
  <2>2. Generations'
    BY <1>3 DEF IInv, PutReadyKey, ListenHealthCheck, Generations, Running, TypeOK, boundVars
  <2> QED BY <1>3, <2>1, <2>2, WatchUnchanged DEF PutReadyKey, ListenHealthCheck
<1>4. ASSUME NEW n \in Nodes, Resign(n) \/ Crash(n) PROVE IInv'
  BY <1>4, ForgetInv DEF IInv, TypeOK, Resign, Crash
<1>5. ASSUME NEW n \in Nodes, ListReadyKeys(n) \/ ListReadyKeysFails(n) PROVE IInv'
  BY <1>5, ListInv
<1>6. ASSUME NEW n \in Nodes, CompareReadyPeers(n) PROVE IInv'
  BY <1>6, CompareInv
<1>7. ASSUME NEW n \in Nodes, triggerECDHExchange(n) PROVE IInv'
  <2>1. CASE phase[n] \in HasKeyPair
    <3>1. gen[n] # 0
      BY <2>1 DEF IInv, Generations, Running, HasKeyPair
    <3>2. ecdhMsgs' \subseteq [from : Nodes, to : Nodes, gen : 1..(MaxRestarts + 1)]
      BY <1>7, <2>1, <3>1, BroadcastTypes DEF IInv, triggerECDHExchange
    <3>3. TypeOK'
      BY <1>7, <2>1, <3>2 DEF IInv, triggerECDHExchange, TypeOK, watchVars, boundVars
    <3>4. Generations'
      BY <1>7, <2>1 DEF IInv, triggerECDHExchange, Generations, Running, boundVars
    <3> QED BY <1>7, <3>3, <3>4, WatchUnchanged DEF triggerECDHExchange
  <2>2. CASE phase[n] \notin HasKeyPair
    <3>1. TypeOK'
      BY <1>7, <2>2 DEF IInv, triggerECDHExchange, TypeOK, Phases, watchVars, boundVars
    <3>2. Generations'
      BY <1>7, <2>2 DEF IInv, triggerECDHExchange, Generations, Running, TypeOK, boundVars
    <3> QED BY <1>7, <3>1, <3>2, WatchUnchanged DEF triggerECDHExchange
  <2> QED BY <2>1, <2>2
<1>8. ASSUME NEW n \in Nodes, NEW m \in ecdhMsgs, ReceivePublicKey(n, m) PROVE IInv'
  <2>1. m.from \in Nodes /\ m.gen \in 0..(MaxRestarts + 1)
    BY RegistryAssumption DEF IInv, TypeOK
  <2>2. TypeOK'
    BY <1>8, <2>1 DEF IInv, ReceivePublicKey, TypeOK, watchVars, boundVars
  <2>3. Generations'
    BY <1>8 DEF IInv, ReceivePublicKey, Generations, Running, boundVars
  <2> QED BY <1>8, <2>2, <2>3, WatchUnchanged DEF ReceivePublicKey
<1>9. ASSUME NEW n \in Nodes, NEW p \in Nodes, CheckPeerHealth(n, p) PROVE IInv'
  <2>1. TypeOK'
    BY <1>9 DEF IInv, CheckPeerHealth, TypeOK, watchVars, boundVars
  <2>2. Generations'
    BY <1>9 DEF IInv, CheckPeerHealth, Generations, Running, boundVars
  <2> QED BY <1>9, <2>1, <2>2, WatchUnchanged DEF CheckPeerHealth
<1>10. CASE UNCHANGED vars
  <2>1. TypeOK' /\ Generations' /\ UNCHANGED watchVars
    BY <1>10 DEF IInv, vars, TypeOK, Generations, Running, watchVars
  <2> QED BY <2>1, WatchUnchanged
<1> QED
  BY <1>1, <1>2, <1>3, <1>4, <1>5, <1>6, <1>7, <1>8, <1>9, <1>10 DEF Next

\* The invariant holds in every reachable state.
LEMMA Invariance == Spec => []IInv
  BY InitInv, NextInv, PTL DEF Spec

-----------------------------------------------------------------------------
\* Every variable of the registry keeps its type: in particular no sequence of
\* connects and disconnects takes the counter of ready peers below zero.
THEOREM TypeCorrect == Spec => []TypeOK
<1>1. IInv => TypeOK
  BY DEF IInv
<1> QED BY <1>1, Invariance, PTL

\* The counter that AreMajorityReady and isECDHReady read is the number of peers
\* the map has as up, and the node itself.
THEOREM CountCorrect == Spec => []CountMatchesMap
<1>1. IInv => CountMatchesMap
  BY DEF IInv
<1> QED BY <1>1, Invariance, PTL

\* When ArePeersReady lets a key generation start, every configured peer is up in
\* the map that GetReadyPeersIncludeSelf reads.
THEOREM ReadyCorrect == Spec => []ReadyMeansAllUp
<1>1. IInv => ReadyMeansAllUp
  BY DEF IInv, FlagMeansAllUp, ReadyMeansAllUp, ArePeersReady
<1> QED BY <1>1, Invariance, PTL
=============================================================================
