--------------------------- MODULE ResharingFlow ---------------------------
(***************************************************************************)
(* The resharing of one key, of a wallet and key type: the bridge of          *)
(* resharingConsumer, the handlers of the nodes that hear of a delivery, each *)
(* with a session for the old committee, for the new one or for both, and the *)
(* shares and the key info that they move from one version to the next.       *)
(*                                                                         *)
(* The stream is that of RequestStream, reduced to what a resharing can tell: *)
(* until the request is acked it may be delivered again, even while an earlier *)
(* delivery is still being served, since the bridge waits longer for a reply   *)
(* than JetStream waits for the ack.  Unlike the other flows, a node may reply *)
(* without a result.                                                         *)
(***************************************************************************)
EXTENDS Naturals, FiniteSets

CONSTANTS
    Nodes,                  \* the MPC nodes
    OldPeers,               \* ParticipantPeerIDs of version 0, from key generation
    OldThreshold,           \* its threshold
    NewPeers,               \* NodeIDs of the request
    NewThreshold,           \* its NewThreshold
    MaxConcurrentResharing, \* slots of the resharing semaphore
    MaxDeliver,             \* the stream consumer's MaxDeliver
    MaxFaults               \* bound: node crashes and refused results

ASSUME ResharingAssumption ==
    /\ IsFiniteSet(Nodes)
    /\ OldPeers \subseteq Nodes /\ OldPeers # {}
    /\ NewPeers \subseteq Nodes /\ NewPeers # {}
    /\ OldThreshold \in Nat \ {0}
    /\ NewThreshold \in Nat \ {0}
    /\ MaxConcurrentResharing \in Nat \ {0}
    /\ MaxDeliver \in Nat \ {0}
    /\ MaxFaults \in Nat

VARIABLES
    bridge,  \* delivery -> the bridge handler and its reply inbox
    acked,   \* the request is gone from the stream
    results, \* what the result queue accepted: <<delivery, success>>
    lost,    \* the queue refused a result
    hand,    \* node -> delivery -> the event handler and its sessions
    share,   \* node -> versions of the key whose share is in its key-value store
    info,    \* the key info in Consul
    sent,    \* party messages ever sent: <<party, protocol>>
    faults   \* what is left of the bound

requestVars == <<bridge, acked, results, lost, faults>>
nodeVars == <<hand, share, info, sent>>
vars == <<requestVars, nodeVars>>

Deliveries == 1..MaxDeliver

Roles == {"old", "new"}
Party == Nodes \X Roles

\* The committee and the threshold of a version.
PeersOf(ver) == IF ver = 0 THEN OldPeers ELSE NewPeers
ThresholdOf(ver) == IF ver = 0 THEN OldThreshold ELSE NewThreshold

(***************************************************************************)
(* handleResharingEvent: queued in resharingMsgChan; past the reads of the    *)
(* key info for the old session; past those for the new one; listening and    *)
(* warming up; in wg.Wait; blocked on an ErrCh that nobody receives from yet; *)
(* returned.                                                                *)
(***************************************************************************)
HandlerStates == {"idle", "queued", "opening", "opened", "listening", "waiting", "wedged",
                  "ended"}
Busy == {"opening", "opened", "listening", "waiting", "wedged"}

\* The parties of a protocol: those of the old committee, and the version that the
\* ids of all of them are derived from.
Protocol == [old : SUBSET Nodes, ver : Nat]
PartiesOf(p) == (p.old \X {"old"}) \cup (NewPeers \X {"new"})

\* ver: the version of the key info that the session was created from; got: the
\* parties whose messages it has.  st and watch as in KeygenFlow.
SessionStates == {"off", "open", "listening", "running", "stored", "done"}
Session == [st : SessionStates, watch : {"off", "waiting", "done", "error"},
            ver : Nat, prot : Protocol, got : SUBSET Party]
NoSession == [st |-> "off", watch |-> "off", ver |-> 0,
              prot |-> [old |-> {}, ver |-> 0], got |-> {}]

Handler == [pc : HandlerStates, ses : [Roles -> Session]]
NoHandler(state) == [pc |-> state, ses |-> [r \in Roles |-> NoSession]]

TypeOK ==
    /\ bridge \in [Deliveries -> {"none", "waiting", "replied", "ended"}]
    /\ acked \in BOOLEAN
    /\ results \subseteq (0..MaxDeliver) \X BOOLEAN
    /\ lost \in BOOLEAN
    /\ hand \in [Nodes -> [Deliveries -> Handler]]
    /\ share \in [Nodes -> SUBSET Nat]
    /\ info \in [ver : Nat, com : SUBSET Nodes]
    /\ sent \subseteq Party \X Protocol
    /\ faults \in 0..MaxFaults

\* The key has been generated, and the initiator has submitted the request.
Init ==
    /\ bridge = [d \in Deliveries |-> "none"]
    /\ acked = FALSE
    /\ results = {}
    /\ lost = FALSE
    /\ hand = [n \in Nodes |-> [d \in Deliveries |-> NoHandler("idle")]]
    /\ share = [n \in Nodes |-> IF n \in OldPeers THEN {0} ELSE {}]
    /\ info = [ver |-> 0, com |-> OldPeers]
    /\ sent = {}
    /\ faults = MaxFaults

-----------------------------------------------------------------------------
(***************************************************************************)
(* resharingConsumer.handleResharingEvent and the results.                  *)
(***************************************************************************)
\* JetStream hands out the request, again if it is not acked.
Delivered(d) ==
    /\ ~acked
    /\ bridge[d] = "none"
    /\ d > 1 => bridge[d - 1] # "none"

Fault == faults > 0 /\ faults' = faults - 1

\* The queue keeps one result for each idempotent key; or it refuses.
Enqueue(key) ==
    \/ results' = results \cup {key} /\ UNCHANGED <<lost, faults>>
    \/ Fault /\ lost' = TRUE /\ UNCHANGED results

\* Errors are filed under walletID:SessionID of the delivery, successes under the
\* request's SessionID:SessionID, so a delivery may have one of each.
composeResharingResultIdempotentKey(d, ok) == <<d, ok>>

\* The request does not parse: an error result under the bare wallet id, and an ack.
RejectResharing(d) ==
    /\ Delivered(d)
    /\ Enqueue(<<0, FALSE>>)
    /\ bridge' = [bridge EXCEPT ![d] = "ended"]
    /\ acked' = TRUE
    /\ UNCHANGED nodeVars

\* The inbox subscription or the publish failed: a nak.
PublishFails(d) ==
    /\ Delivered(d)
    /\ bridge' = [bridge EXCEPT ![d] = "ended"]
    /\ UNCHANGED <<acked, results, lost, faults, nodeVars>>

\* MPCResharingEvent is published; the nodes in heard are connected and get it.
PublishResharing(d, heard) ==
    /\ Delivered(d)
    /\ bridge' = [bridge EXCEPT ![d] = "waiting"]
    /\ hand' = [n \in Nodes |-> IF n \in heard
                                THEN [hand[n] EXCEPT ![d] = NoHandler("queued")]
                                ELSE hand[n]]
    /\ UNCHANGED <<acked, results, lost, faults, share, info, sent>>

\* A reply: the request is acked.
BridgeReply(d) ==
    /\ bridge[d] = "replied"
    /\ bridge' = [bridge EXCEPT ![d] = "ended"]
    /\ acked' = TRUE
    /\ UNCHANGED <<results, lost, faults, nodeVars>>

\* resharingResponseTimeout is over, or the node stops: a nak, or no answer at all.
BridgeTimeout(d) ==
    /\ bridge[d] \in {"waiting", "replied"}
    /\ bridge' = [bridge EXCEPT ![d] = "ended"]
    /\ UNCHANGED <<acked, results, lost, faults, nodeVars>>

\* A core NATS publish to the inbox, which is there only while the bridge waits.  A
\* failed publish is logged.
sendReplyToRemoveMsg(d) ==
    \/ bridge[d] = "waiting" /\ bridge' = [bridge EXCEPT ![d] = "replied"]
    \/ UNCHANGED bridge

\* Fault: the error is only logged.
ReplyOnly(d) ==
    /\ sendReplyToRemoveMsg(d)
    /\ UNCHANGED <<acked, results, lost, faults>>

\* Enqueue an error result, reply whatever came of it.
handleResharingSessionError(d) ==
    /\ Enqueue(composeResharingResultIdempotentKey(d, FALSE))
    /\ sendReplyToRemoveMsg(d)
    /\ UNCHANGED acked

-----------------------------------------------------------------------------
(***************************************************************************)
(* eventConsumer.handleResharingEvent on each node that heard the event.     *)
(***************************************************************************)
pc(n, d) == hand[n][d].pc
ses(n, d, r) == hand[n][d].ses[r]

\* startResharingEventWorker takes a slot of the semaphore before it starts a handler.
SlotFree(n) ==
    Cardinality({d \in Deliveries : pc(n, d) \in Busy}) < MaxConcurrentResharing

Starts(n, d) == pc(n, d) = "queued" /\ SlotFree(n)

SetPc(n, d, state) ==
    hand' = [hand EXCEPT ![n][d].pc = state] /\ UNCHANGED <<share, info, sent>>

\* The request does not verify, its SessionID is empty or its key type unknown, or
\* a session is not created or does not find its share.
Abort(n, d) ==
    /\ Starts(n, d) \/ pc(n, d) \in {"opening", "opened"}
    /\ handleResharingSessionError(d)
    /\ SetPc(n, d, "ended")

\* The views a registry may return: ready peers, the node itself included.
ReadyViews(n) == {peers \in SUBSET Nodes : n \in peers}

\* node.CreateResharingSession: the new committee can hold the key, and is ready.
NewPeersReady(ready) ==
    /\ Cardinality(NewPeers) >= NewThreshold + 1
    /\ NewPeers \subseteq ready

\* Enough of those that hold the key now are ready, by a later read of the registry.
EnoughHolders(peers) ==
    Cardinality(info.com \cap peers) >= ThresholdOf(info.ver) + 1

\* Fault: only the holders that leave are made parties.
OpenLegacySession(peers) ==
    [NoSession EXCEPT !.st = "open", !.ver = info.ver,
                      !.prot = [old |-> (info.com \ NewPeers) \cap peers, ver |-> info.ver]]

\* What the sessions of both roles are made of: the key info of this moment.
OpenSession(peers) ==
    [NoSession EXCEPT !.st = "open", !.ver = info.ver,
                      !.prot = [old |-> info.com \cap peers, ver |-> info.ver]]

\* What getVersion returns for a session: the version of the key info, read once more
\* at some time between the first read and now, or the default if that fails.
getVersion(s) == {0, s.ver, info.ver} \cup (s.ver..info.ver)

\* The ids of the session's parties.
keygenPartyIDs(s, version) ==
    IF s.st = "open" THEN [s EXCEPT !.prot = [old |-> s.prot.old, ver |-> version]] ELSE s

\* The session of the old committee, if the node is in it.
CreateOldSession(n, d, ready, peers) ==
    /\ Starts(n, d)
    /\ NewPeersReady(ready)
    /\ n \in info.com => EnoughHolders(peers)
    /\ hand' = [hand EXCEPT ![n][d] =
                  [@ EXCEPT !.pc = "opening",
                            !.ses["old"] = IF n \in info.com THEN OpenSession(peers)
                                           ELSE NoSession]]
    /\ UNCHANGED <<requestVars, share, info, sent>>

\* Init of an old session needs the share of the session's version.
LoadOldShareDataGeneric(n, ver) == ver \in share[n]

\* Init and the listeners, of a session that there is.
InitAndListen(s) == [s EXCEPT !.st = IF @ = "off" THEN "off" ELSE "listening"]

\* The old session has its party ids; the session of the new committee is made from
\* a key info that is read anew.
CreateNewSession(n, d, ready, peers, version) ==
    LET old == ses(n, d, "old")
        new == IF n \in NewPeers THEN OpenSession(peers) ELSE NoSession
    IN
    /\ pc(n, d) = "opening"
    /\ NewPeersReady(ready)
    /\ n \in NewPeers => EnoughHolders(peers)
    /\ old.st # "off" \/ n \in NewPeers
    /\ hand' = [hand EXCEPT ![n][d] =
                  [pc |-> "opened",
                   ses |-> [r \in Roles |-> IF r = "old" THEN keygenPartyIDs(old, version)
                                            ELSE new]]]
    /\ UNCHANGED <<requestVars, share, info, sent>>

\* The new session has its party ids; Init of both sessions and their listeners.
InitSessions(n, d, version) ==
    LET old == ses(n, d, "old")
        new == keygenPartyIDs(ses(n, d, "new"), version)
    IN
    /\ pc(n, d) = "opened"
    /\ old.st # "off" => LoadOldShareDataGeneric(n, old.ver)
    /\ hand' = [hand EXCEPT ![n][d] =
                  [pc |-> "listening",
                   ses |-> [r \in Roles |-> InitAndListen(IF r = "old" THEN old ELSE new)]]]
    /\ UNCHANGED <<requestVars, share, info, sent>>

\* The node is in neither committee: it replies at once, without a result.
NotParticipating(n, d) ==
    /\ pc(n, d) = "opening"
    /\ ses(n, d, "old").st = "off"
    /\ n \notin NewPeers
    /\ sendReplyToRemoveMsg(d)
    /\ SetPc(n, d, "ended")
    /\ UNCHANGED <<acked, results, lost, faults>>

\* A subscription fails: the error has no receiver before the warm-up is over.
ListenFails(n, d) ==
    /\ pc(n, d) = "listening"
    /\ SetPc(n, d, "wedged")
    /\ UNCHANGED requestVars

\* The warm-up is over: the Reshare goroutines and their watchers start.
WarmUp(n, d) ==
    /\ pc(n, d) = "listening"
    /\ hand' = [hand EXCEPT ![n][d] =
                  [pc |-> "waiting",
                   ses |-> [r \in Roles |-> IF ses(n, d, r).st = "off" THEN NoSession
                                            ELSE [ses(n, d, r) EXCEPT !.watch = "waiting"]]]]
    /\ UNCHANGED <<requestVars, share, info, sent>>

\* wg.Wait is over: no watcher is left.
AllDone(n, d) ==
    /\ pc(n, d) = "waiting"
    /\ \A r \in Roles : ses(n, d, r).watch # "waiting"

\* A node with a new session enqueues a success, even after an error; the others only
\* reply.
ReshareFinished(n, d) ==
    /\ AllDone(n, d)
    /\ results' = IF ses(n, d, "new").st = "off" THEN results
                  ELSE results \cup {composeResharingResultIdempotentKey(d, TRUE)}
    /\ sendReplyToRemoveMsg(d)
    /\ SetPc(n, d, "ended")
    /\ UNCHANGED <<acked, lost, faults>>

\* The queue refuses it, and maybe the error that follows.
ReshareRefused(n, d) ==
    /\ AllDone(n, d)
    /\ ses(n, d, "new").st # "off"
    /\ Fault
    /\ lost' = TRUE
    /\ results' \in {results, results \cup {composeResharingResultIdempotentKey(d, FALSE)}}
    /\ sendReplyToRemoveMsg(d)
    /\ SetPc(n, d, "ended")
    /\ UNCHANGED acked

-----------------------------------------------------------------------------
(***************************************************************************)
(* The sessions and their watchers.                                        *)
(***************************************************************************)
SetSession(n, d, r, s) == hand' = [hand EXCEPT ![n][d].ses[r] = s]

\* The context of the session is done: Reshare has called done.
WatchDone(n, d, r) ==
    /\ ses(n, d, r).watch = "waiting"
    /\ ses(n, d, r).st = "done"
    /\ SetSession(n, d, r, [ses(n, d, r) EXCEPT !.watch = "done"])
    /\ UNCHANGED <<requestVars, share, info, sent>>

\* An error of the session, which is reported at once.  The session goes on, or it
\* takes no further step: Reshare returns when it cannot store the share or the key
\* info, and blocks on an error that comes after the watcher has left.
SessionError(n, d, r) ==
    /\ ses(n, d, r).watch = "waiting"
    /\ handleResharingSessionError(d)
    /\ SetSession(n, d, r, [ses(n, d, r) EXCEPT !.watch = "error"])
    /\ UNCHANGED <<share, info, sent>>

\* The nodes whose direct messages the session of a role subscribes to: those of its
\* own committee, and for a new session GetLegacyCommitteePeers too.
ListensTo(r, p) == IF r = "old" THEN p.old ELSE NewPeers \cup p.old

\* tss-lib, as one abstract round: the party sends its messages once, on topics named
\* by the wallet; the sessions that listen to its node at that moment and were built
\* for the same parties take them, the node's own other session among them.
Reshare(n, d, r) ==
    LET p == ses(n, d, r).prot
        takes(m, e, q) == /\ <<m, e, q>> # <<n, d, r>>
                          /\ ses(m, e, q).st \in {"listening", "running"}
                          /\ ses(m, e, q).prot = p
                          /\ n \in ListensTo(q, p)
    IN
    /\ ses(n, d, r).st = "listening"
    /\ ses(n, d, r).watch # "off"
    /\ sent' = sent \cup {<<<<n, r>>, p>>}
    /\ hand' = [m \in Nodes |-> [e \in Deliveries |-> [pc |-> pc(m, e),
          ses |-> [q \in Roles |->
             CASE m = n /\ e = d /\ q = r -> [ses(m, e, q) EXCEPT !.st = "running"]
               [] takes(m, e, q) -> [ses(m, e, q) EXCEPT !.got = @ \cup {<<n, r>>}]
               [] OTHER -> ses(m, e, q)]]]]
    /\ UNCHANGED <<requestVars, share, info>>

\* endCh delivers: the party has the messages of all the others.
ReshareReady(n, d, r) ==
    /\ ses(n, d, r).st = "running"
    /\ PartiesOf(ses(n, d, r).prot) \ {<<n, r>>} \subseteq ses(n, d, r).got

\* A party of the old committee has nothing to store.
OldPartyEnds(n, d) ==
    /\ ReshareReady(n, d, "old")
    /\ SetSession(n, d, "old", [ses(n, d, "old") EXCEPT !.st = "done"])
    /\ UNCHANGED <<requestVars, share, info, sent>>

\* Fault: the loop stores what it has without waiting for endCh.
PutTooEarly(n, d) ==
    /\ ses(n, d, "new").st = "running"
    /\ share' = [share EXCEPT ![n] = @ \cup {ses(n, d, "new").ver + 1}]
    /\ SetSession(n, d, "new", [ses(n, d, "new") EXCEPT !.st = "stored"])
    /\ UNCHANGED <<requestVars, info, sent>>

\* Kvstore.Put under the next version.
PutShare(n, d) ==
    /\ ReshareReady(n, d, "new")
    /\ share' = [share EXCEPT ![n] = @ \cup {ses(n, d, "new").ver + 1}]
    /\ SetSession(n, d, "new", [ses(n, d, "new") EXCEPT !.st = "stored"])
    /\ UNCHANGED <<requestVars, info, sent>>

\* Fault: the ids of the parties are saved instead of those of their nodes.
SavePartyIDs(n, d) ==
    /\ ses(n, d, "new").st = "stored"
    /\ info' = [ver |-> ses(n, d, "new").ver + 1, com |-> PartiesOf(ses(n, d, "new").prot)]
    /\ SetSession(n, d, "new", [ses(n, d, "new") EXCEPT !.st = "done"])
    /\ UNCHANGED <<requestVars, share, sent>>

\* KeyinfoStore.Save, then the public key, done() and Close.
SaveKeyInfo(n, d) ==
    /\ ses(n, d, "new").st = "stored"
    /\ info' = [ver |-> ses(n, d, "new").ver + 1, com |-> NewPeers]
    /\ SetSession(n, d, "new", [ses(n, d, "new") EXCEPT !.st = "done"])
    /\ UNCHANGED <<requestVars, share, sent>>

\* A node crashes and comes back: its shares are on disk, the key infos in Consul.
Restart(n) ==
    /\ Fault
    /\ hand' = [hand EXCEPT ![n] = [d \in Deliveries |->
                    NoHandler(IF pc(n, d) = "idle" THEN "idle" ELSE "ended")]]
    /\ UNCHANGED <<bridge, acked, results, lost, share, info, sent>>

-----------------------------------------------------------------------------
BridgeStep(d) ==
    \/ RejectResharing(d)
    \/ PublishFails(d)
    \/ \E heard \in SUBSET Nodes : PublishResharing(d, heard)
    \/ BridgeReply(d)
    \/ BridgeTimeout(d)

HandlerStep(n, d) ==
    \/ Abort(n, d)
    \/ \E ready, peers \in ReadyViews(n) :
          \/ CreateOldSession(n, d, ready, peers)
          \/ \E version \in getVersion(ses(n, d, "old")) :
                CreateNewSession(n, d, ready, peers, version)
    \/ \E version \in getVersion(ses(n, d, "new")) : InitSessions(n, d, version)
    \/ NotParticipating(n, d)
    \/ ListenFails(n, d)
    \/ WarmUp(n, d)
    \/ ReshareFinished(n, d)
    \/ ReshareRefused(n, d)

SessionStep(n, d, r) ==
    \/ WatchDone(n, d, r)
    \/ SessionError(n, d, r)
    \/ Reshare(n, d, r)

StoreStep(n, d) ==
    \/ OldPartyEnds(n, d)
    \/ PutShare(n, d)
    \/ SaveKeyInfo(n, d)

Next ==
    \/ \E d \in Deliveries : BridgeStep(d)
    \/ \E n \in Nodes, d \in Deliveries :
          \/ HandlerStep(n, d)
          \/ StoreStep(n, d)
          \/ \E r \in Roles : SessionStep(n, d, r)
    \/ \E n \in Nodes : Restart(n)

Spec == Init /\ [][Next]_vars

-----------------------------------------------------------------------------
(***************************************************************************)
(* Properties.                                                             *)
(***************************************************************************)
\* All the parties of a protocol ran it.
AllRan(p) == \A party \in PartiesOf(p) : <<party, p>> \in sent

\* The key info moves to the new committee only with threshold+1 of those that held
\* the version before: they and all the new participants ran the protocol as the
\* same parties, though each node took them from its own registry, read the key info
\* four times and the key may have moved in between; and one of the new participants
\* has its share of that version.
MovedByQuorum ==
    info.ver > 0 =>
        /\ \E n \in info.com : info.ver \in share[n]
        /\ \E p \in {t[2] : t \in sent} :
              /\ AllRan(p)
              /\ p.old \subseteq PeersOf(info.ver - 1)
              /\ Cardinality(p.old) >= ThresholdOf(info.ver - 1) + 1

\* A reply ends the request, and it never comes without an answer to the initiator,
\* except if the queue refused one, or if the replying node is not in the new
\* committee and has nothing to say.
ReplyExplained ==
    \A d \in Deliveries : bridge[d] = "replied" =>
        \/ <<d, TRUE>> \in results \/ <<d, FALSE>> \in results
        \/ lost
        \/ \E n \in Nodes \ NewPeers : pc(n, d) = "ended"

(***************************************************************************)
(* Resharing implements WalletKeys: a committee has made the key when all    *)
(* its members ran one protocol.                                            *)
(***************************************************************************)
Key == "key"

WK == INSTANCE WalletKeys WITH
    made  <- IF \E t \in sent : AllRan(t[2]) THEN {<<Key, NewPeers>>} ELSE {},
    share <- [n \in Nodes |-> {Key} \X share[n]],
    info  <- [k \in {Key} |-> info]

\* The shares and key infos that resharings leave behind, with their crashes, failing
\* stores and redeliveries, are those that WalletKeys allows.
WalletKeysSpec == WK!Spec
=============================================================================
