---------------------------- MODULE SigningFlow ----------------------------
(***************************************************************************)
(* The life of a signing request (module RequestStream has what it shares    *)
(* with other requests): the signing consumer's decision to forward it, the  *)
(* event consumer's signing handler with its semaphore and session manager,  *)
(* and the signing sessions.                                                *)
(*                                                                         *)
(* What a node's peer registry answers changes with Consul at any time      *)
(* (module Registry); here each read of it may return any set of peers that *)
(* has the node itself.                                                     *)
(***************************************************************************)
EXTENDS RequestStream

CONSTANTS
    Participants,        \* keyinfo.ParticipantPeerIDs of the wallet
    Threshold,           \* keyinfo.Threshold, also the configured mpc_threshold
    MaxConcurrentSigning \* slots of the signing semaphore

ASSUME FlowAssumption ==
    /\ Participants \subseteq Nodes
    /\ Threshold \in Nat \ {0}
    /\ MaxConcurrentSigning \in Nat \ {0}

VARIABLES
    sess,   \* node -> delivery -> the event handler and its session
    active, \* node -> activeSessions of the session manager
    watch,  \* node -> delivery -> the error watcher of the session
    sent,   \* party messages ever sent: <<tx, node, committee>>
    forged  \* requests whose initiator signature does not verify

nodeVars == <<sess, active, watch, sent>>
vars == <<requestVars, nodeVars, forged>>

(***************************************************************************)
(* handleSigningEvent for one MPC event on one node: queued in              *)
(* signingMsgChan; past HasSession; past CreateSigningSession; past Init    *)
(* and AddSession, setting up its listeners and warming up; then Sign runs  *)
(* in a goroutine of its own.  "wedged" is a handler that is blocked for    *)
(* ever on the session's unbuffered ErrCh; "ended" a handler that returned, *)
(* or a Sign goroutine that finished or is blocked.                         *)
(***************************************************************************)
HandlerStates == {"idle", "queued", "checked", "created", "listening", "signing",
                  "wedged", "ended"}

\* Fault: the slot is released when Sign returns.
BusyWhileSigning == {"checked", "created", "listening", "signing", "wedged"}

\* A handler with a slot of the semaphore; Sign runs without one.
Busy == {"checked", "created", "listening", "wedged"}
Listening == {"listening", "signing"}

\* com: the session's ParticipantPeerIDs; got: the parties whose messages it has.
Session == [pc : HandlerStates, com : SUBSET Nodes, got : SUBSET Nodes]
NoSession(state) == [pc |-> state, com |-> {}, got |-> {}]

\* The goroutine that receives from the session's ErrCh, which outlives its handler:
\* it waits, or has an error that it has yet to report; "none" before it starts and
\* after it returned.
WatchStates == {"none", "watching", "reporting"}

NodeTypeOK ==
    /\ sess \in [Nodes -> [Deliveries -> Session]]
    /\ active \in [Nodes -> SUBSET Requests]
    /\ watch \in [Nodes -> [Deliveries -> WatchStates]]
    /\ sent \subseteq Requests \X Nodes \X SUBSET Nodes

TypeOK == RequestTypeOK /\ NodeTypeOK /\ forged \subseteq Requests

Init ==
    /\ RequestInit
    /\ sess = [n \in Nodes |-> [d \in Deliveries |-> NoSession("idle")]]
    /\ active = [n \in Nodes |-> {}]
    /\ watch = [n \in Nodes |-> [d \in Deliveries |-> "none"]]
    /\ sent = {}
    /\ forged \in SUBSET Requests

-----------------------------------------------------------------------------
(***************************************************************************)
(* The initiator and signingConsumer.handleSigningEvent.                    *)
(***************************************************************************)
SignTransaction(tx) == PublishMessage(tx) /\ UNCHANGED nodeVars

\* The views a registry may return: ready peers, the node itself included.
ReadyViews(n) == {peers \in SUBSET Nodes : n \in peers}

\* registry.AreMajorityReady for a view and for a complete or incomplete key count.
AreMajorityReady(peers, keyed) == Cardinality(peers) >= Threshold + 1 /\ keyed

\* Not enough peers are ready.
RejectSigning(d, peers, keyed) ==
    /\ ~AreMajorityReady(peers, keyed)
    /\ BridgeReject(d)
    /\ UNCHANGED nodeVars

\* MPCSignEvent is published; the nodes in heard are connected and get it.
PublishSigning(d, peers, keyed, heard) ==
    /\ AreMajorityReady(peers, keyed)
    /\ BridgePublish(d)
    /\ sess' = [n \in Nodes |-> IF n \in heard
                                THEN [sess[n] EXCEPT ![d] = NoSession("queued")]
                                ELSE sess[n]]
    /\ UNCHANGED <<active, watch, sent>>

-----------------------------------------------------------------------------
(***************************************************************************)
(* eventConsumer.handleSigningEvent on each node that heard the event.      *)
(***************************************************************************)
pc(n, d) == sess[n][d].pc

\* The handler moves on, with no session yet or none any more.
Goto(n, d, state) == sess' = [sess EXCEPT ![n][d] = NoSession(state)]

\* The handler reports an error and returns.
Abort(n, d) ==
    /\ handleSessionError(d)
    /\ Goto(n, d, "ended")
    /\ UNCHANGED <<stream, delivered, active, watch, sent>>

\* startSigningEventWorker takes a slot of the semaphore before it starts a handler.
SlotFree(n) ==
    Cardinality({d \in Deliveries : pc(n, d) \in Busy}) < MaxConcurrentSigning

HasSession(n, tx) == tx \in active[n]

\* VerifyInitiatorMessage fails: the handler returns without a word.
RejectInvalid(n, d) ==
    /\ pc(n, d) = "queued"
    /\ SlotFree(n)
    /\ d[1] \in forged
    /\ Goto(n, d, "ended")
    /\ UNCHANGED <<stream, delivered, bridge, active, watch, sent, resultVars>>

DuplicateSession(n, d) ==
    /\ pc(n, d) = "queued"
    /\ SlotFree(n)
    /\ d[1] \notin forged
    /\ HasSession(n, d[1])
    /\ Abort(n, d)

\* Fault: the initiator's signature is not looked at.
PassUnverified(n, d) ==
    /\ pc(n, d) = "queued"
    /\ SlotFree(n)
    /\ ~HasSession(n, d[1])
    /\ Goto(n, d, "checked")
    /\ UNCHANGED <<stream, delivered, bridge, active, watch, sent, resultVars>>

PassDuplicateCheck(n, d) ==
    /\ pc(n, d) = "queued"
    /\ SlotFree(n)
    /\ d[1] \notin forged
    /\ ~HasSession(n, d[1])
    /\ Goto(n, d, "checked")
    /\ UNCHANGED <<stream, delivered, bridge, active, watch, sent, resultVars>>

\* node.CreateSigningSession: the wallet's participants that are ready now.
getReadyPeersForSession(peers) == Participants \cap peers

\* Fault: threshold participants are taken to be enough.
FewerThanThreshold(peers) ==
    Cardinality(getReadyPeersForSession(peers)) < Threshold

NotEnoughPeers(peers) ==
    Cardinality(getReadyPeersForSession(peers)) < Threshold + 1

\* Too few of the participants are ready; an error like any other to the handler,
\* since it is not ErrNotEnoughParticipants.
CreateNotEnough(n, d, peers) ==
    /\ pc(n, d) = "checked"
    /\ NotEnoughPeers(peers)
    /\ Abort(n, d)

\* keyinfoStore.Get failed.
KeyInfoFails(n, d) ==
    /\ pc(n, d) = "checked"
    /\ Abort(n, d)

\* ensureNodeIsParticipant, which comes after the count: a node outside the
\* wallet's committee skips the request, without a result or a reply.
SkipNotParticipant(n, d, peers) ==
    /\ pc(n, d) = "checked"
    /\ ~NotEnoughPeers(peers)
    /\ n \notin Participants
    /\ Goto(n, d, "ended")
    /\ UNCHANGED <<stream, delivered, bridge, active, watch, sent, resultVars>>

CreateSigningSession(n, d, peers) ==
    /\ pc(n, d) = "checked"
    /\ ~NotEnoughPeers(peers)
    /\ n \in Participants
    /\ sess' = [sess EXCEPT ![n][d] = [NoSession("created") EXCEPT
                                          !.com = getReadyPeersForSession(peers)]]
    /\ UNCHANGED <<stream, delivered, bridge, active, watch, sent, resultVars>>

\* session.Init: keyinfo or the node's share could not be read.
InitFails(n, d) ==
    /\ pc(n, d) = "created"
    /\ Abort(n, d)

\* Fault: the session is registered under its SessionID instead of its TxID.
RegisterBySessionID(n, d) ==
    /\ pc(n, d) = "created"
    /\ active' = [active EXCEPT ![n] = @ \cup {d}]
    /\ watch' = [watch EXCEPT ![n][d] = "watching"]
    /\ sess' = [sess EXCEPT ![n][d].pc = "listening"]
    /\ UNCHANGED <<stream, delivered, bridge, sent, resultVars>>

\* session.Init, then AddSession, the error watcher and the listeners.
InitSession(n, d) ==
    /\ pc(n, d) = "created"
    /\ active' = [active EXCEPT ![n] = @ \cup {d[1]}]
    /\ watch' = [watch EXCEPT ![n][d] = "watching"]
    /\ sess' = [sess EXCEPT ![n][d].pc = "listening"]
    /\ UNCHANGED <<stream, delivered, bridge, sent, resultVars>>

-----------------------------------------------------------------------------
(***************************************************************************)
(* The signing session.                                                    *)
(***************************************************************************)
\* The session's error watcher receives an error from ErrCh, if it still waits for
\* one.
TakeError(n, d) ==
    watch' = [watch EXCEPT ![n][d] = IF @ = "watching" THEN "reporting" ELSE @]

\* Setting up a listener, a message of another party or Sign fails; the session
\* itself goes on.
SessionError(n, d) ==
    /\ pc(n, d) \in Listening
    /\ watch[n][d] = "watching"
    /\ TakeError(n, d)
    /\ UNCHANGED <<requestVars, sess, active, sent>>

\* Nobody receives a second error, reported or not yet: its sender, the handler
\* setting up a listener or Sign in HandleTssMessage, blocks.
SecondError(n, d) ==
    /\ pc(n, d) \in Listening
    /\ watch[n][d] # "watching"
    /\ Goto(n, d, IF pc(n, d) = "listening" THEN "wedged" ELSE "ended")
    /\ UNCHANGED <<stream, delivered, bridge, active, watch, sent, resultVars>>

\* The watcher calls handleSigningSessionError and returns, whatever its handler and
\* its session have done since.
ReportError(n, d) ==
    /\ watch[n][d] = "reporting"
    /\ watch' = [watch EXCEPT ![n][d] = "none"]
    /\ handleSessionError(d)
    /\ UNCHANGED <<stream, delivered, sess, active, sent>>

\* tss-lib, as one abstract round: after the warm-up the party sends its messages
\* once, on topics named by the transaction; the sessions that listen at that
\* moment and were built for the same parties take them.
StartSign(n, d) ==
    LET com == sess[n][d].com
        takes(m, e) == /\ m # n /\ e[1] = d[1]
                       /\ pc(m, e) \in Listening /\ sess[m][e].com = com
    IN
    /\ pc(n, d) = "listening"
    /\ sent' = sent \cup {<<d[1], n, com>>}
    /\ sess' = [m \in Nodes |-> [e \in Deliveries |->
                  CASE m = n /\ e = d -> [sess[m][e] EXCEPT !.pc = "signing"]
                    [] takes(m, e) -> [sess[m][e] EXCEPT !.got = @ \cup {n}]
                    [] OTHER -> sess[m][e]]]
    /\ UNCHANGED <<stream, delivered, bridge, active, watch, resultVars>>

\* endCh delivers a signature: the party has the messages of all the others.
SignatureReady(n, d) ==
    /\ pc(n, d) = "signing"
    /\ sess[n][d].com \ {n} \subseteq sess[n][d].got

\* The signature verifies: enqueue it, close the session, stop the error watcher
\* if it has no error yet, and reply.
Sign(n, d) ==
    /\ SignatureReady(n, d)
    /\ results' = Accepted(composeIdempotentKey(d), TRUE)
    /\ sendReplyToRemoveMsg(d)
    /\ Goto(n, d, "ended")
    /\ watch' = [watch EXCEPT ![n][d] = IF @ = "watching" THEN "none" ELSE @]
    /\ UNCHANGED <<stream, delivered, active, lost, sent, budget>>

\* It does not verify: Sign sends that error and returns, or blocks with it.
SignFails(n, d) ==
    /\ SignatureReady(n, d)
    /\ TakeError(n, d)
    /\ Goto(n, d, "ended")
    /\ UNCHANGED <<requestVars, active, sent>>

\* The queue refuses the signature: the same.
SignRefused(n, d) ==
    /\ SignatureReady(n, d)
    /\ Refused(d[1])
    /\ TakeError(n, d)
    /\ Goto(n, d, "ended")
    /\ UNCHANGED <<stream, delivered, bridge, results, active, sent>>

\* cleanupStaleSessions: 30 minutes after AddSession; the model has no clock.
cleanupStaleSessions(n, tx) ==
    /\ HasSession(n, tx)
    /\ active' = [active EXCEPT ![n] = @ \ {tx}]
    /\ UNCHANGED <<stream, delivered, bridge, sess, watch, sent, resultVars>>

\* A node crashes and comes back: all it keeps is on disk and in Consul.
Restart(n) ==
    /\ BridgeCrash(n)
    /\ sess' = [sess EXCEPT ![n] = [d \in Deliveries |->
                    NoSession(IF pc(n, d) = "idle" THEN "idle" ELSE "ended")]]
    /\ active' = [active EXCEPT ![n] = {}]
    /\ watch' = [watch EXCEPT ![n] = [d \in Deliveries |-> "none"]]
    /\ UNCHANGED sent

-----------------------------------------------------------------------------
\* The steps of module RequestStream.
CommonStep ==
    /\ \/ \E tx \in Requests : StreamStep(tx) \/ handleDeadlineExceeded(tx)
       \/ \E d \in Deliveries : BridgeStep(d)
    /\ UNCHANGED nodeVars

ForwardStep(d) ==
    \E peers \in ReadyViews(bridge[d].node), keyed \in BOOLEAN :
        \/ RejectSigning(d, peers, keyed)
        \/ \E heard \in SUBSET Nodes : PublishSigning(d, peers, keyed, heard)

HandlerStep(n, d) ==
    \/ RejectInvalid(n, d)
    \/ DuplicateSession(n, d)
    \/ PassDuplicateCheck(n, d)
    \/ KeyInfoFails(n, d)
    \/ \E peers \in ReadyViews(n) :
          \/ CreateNotEnough(n, d, peers)
          \/ SkipNotParticipant(n, d, peers)
          \/ CreateSigningSession(n, d, peers)
    \/ InitFails(n, d)
    \/ InitSession(n, d)
    \/ StartSign(n, d)

SessionStep(n, d) ==
    \/ SessionError(n, d)
    \/ SecondError(n, d)
    \/ ReportError(n, d)
    \/ Sign(n, d)
    \/ SignFails(n, d)
    \/ SignRefused(n, d)

NodeStep(n) ==
    \/ \E tx \in Requests : cleanupStaleSessions(n, tx)
    \/ Restart(n)

Next ==
    /\ \/ \E tx \in Requests : SignTransaction(tx)
       \/ CommonStep
       \/ \E d \in Deliveries : ForwardStep(d)
       \/ \E n \in Nodes, d \in Deliveries : HandlerStep(n, d) \/ SessionStep(n, d)
       \/ \E n \in Nodes : NodeStep(n)
    /\ UNCHANGED forged

Spec == Init /\ [][Next]_vars

\* The handler's goroutine runs until it blocks: nothing it calls waits for peers or
\* for the protocol.  Sessions and the queue may hang or fail for ever.
FairSpec == Spec /\ \A n \in Nodes, d \in Deliveries : WF_nodeVars(HandlerStep(n, d))

-----------------------------------------------------------------------------
(***************************************************************************)
(* Properties.                                                             *)
(***************************************************************************)
\* A signature reaches the initiator only if a committee of at least threshold+1
\* of the wallet's participants, all of them agreeing on that committee, ran the
\* protocol, though each computed it from its own registry at its own time.
SuccessHasQuorum ==
    \A r \in results : r.ok =>
        \E C \in SUBSET Participants :
            /\ Cardinality(C) >= Threshold + 1
            /\ \A m \in C : <<r.key[1], m, C>> \in sent

\* A request whose initiator signature does not verify gets no answer from any
\* session and no reply: each of its deliveries ends in a timeout or in the
\* bridge's own error, whatever is redelivered to whom.
ForgedNeverHandled ==
    \A d \in Deliveries : d[1] \in forged =>
        /\ bridge[d].st # "replied"
        /\ \A r \in results : r.key # d
        /\ \A n \in Nodes : d[1] \notin active[n]

\* A handler that hangs for ever on the session's error channel, with a slot of the
\* semaphore, leaves the initiator an answer all the same: a result of this delivery
\* is in the queue or was refused there, or the watcher that took the first error is
\* still on its way to report it.
WedgedIsReported ==
    \A n \in Nodes, d \in Deliveries : pc(n, d) = "wedged" =>
        \/ watch[n][d] = "reporting"
        \/ \E r \in results : r.key = d
        \/ d[1] \in lost

\* Slots of the semaphore come back: an event in signingMsgChan is taken up by a
\* handler, however many sessions hang without an error, unless handlers blocked on
\* ErrCh hold every slot.
QueuedIsServed ==
    \A n \in Nodes, d \in Deliveries :
        pc(n, d) = "queued" ~>
            \/ pc(n, d) # "queued"
            \/ Cardinality({e \in Deliveries : pc(n, e) = "wedged"}) = MaxConcurrentSigning

-----------------------------------------------------------------------------
(***************************************************************************)
(* What a comment in the code says and the code does not do.               *)
(***************************************************************************)
\* event.go: "Check for duplicate session": a node never runs two sessions for
\* one transaction.
OneSessionPerTx ==
    \A n \in Nodes : \A d, e \in Deliveries :
        (d[1] = e[1] /\ pc(n, d) \in Listening /\ pc(n, e) \in Listening) => d = e
=============================================================================
