---------------------------- MODULE KeygenFlow ----------------------------
(***************************************************************************)
(* A key generation request: the bridge of keygenConsumer, the handlers of  *)
(* the nodes that hear of it, each with an ECDSA and an EdDSA session, and   *)
(* what they leave on disk (shares) and in Consul (key infos).              *)
(*                                                                         *)
(* A handler waits for its sessions for KeyGenTimeOut only; the sessions     *)
(* know nothing of it and run on.                                           *)
(***************************************************************************)
EXTENDS RequestStream

CONSTANTS
    Curves,             \* the key types, ECDSA and EdDSA
    Threshold,          \* the configured threshold
    MaxConcurrentKeygen \* slots of the keygen semaphore

ASSUME KeygenAssumption ==
    /\ IsFiniteSet(Curves) /\ Curves # {}
    /\ Threshold \in Nat \ {0}
    /\ MaxConcurrentKeygen \in Nat \ {0}

VARIABLES
    gen,   \* node -> delivery -> the event handler and its two sessions
    share, \* node -> the shares in its key-value store
    info,  \* the key infos in Consul: wallet and curve -> participants
    sent   \* party messages ever sent: <<wallet, curve, node, committee>>

nodeVars == <<gen, share, info, sent>>
vars == <<requestVars, nodeVars>>

KeyIDs == Requests \X Curves

(***************************************************************************)
(* handleKeyGenEvent: queued in keygenMsgChan; setting up its listeners and  *)
(* warming up; waiting for the watchers or the timeout; blocked on an ErrCh  *)
(* that nobody receives from any more; returned.                            *)
(***************************************************************************)
HandlerStates == {"idle", "queued", "listening", "waiting", "wedged", "ended"}
Busy == {"listening", "waiting", "wedged"}

\* st: subscribed; GenerateKey runs; the share is stored; the key info too; it has
\* failed or is blocked.  watch: what the watcher goroutine left its select with.
\* com: ParticipantPeerIDs; got: the parties whose messages it has.
SessionStates == {"off", "listening", "running", "stored", "done", "over"}
Session == [st : SessionStates,
            watch : {"off", "waiting", "key", "nokey", "error"},
            com : SUBSET Nodes, got : SUBSET Nodes]
NoSession == [st |-> "off", watch |-> "off", com |-> {}, got |-> {}]

\* late: KeyGenTimeOut is over.
Handler == [pc : HandlerStates, late : BOOLEAN, ses : [Curves -> Session]]
NoHandler(state) == [pc |-> state, late |-> FALSE, ses |-> [c \in Curves |-> NoSession]]

NodeTypeOK ==
    /\ gen \in [Nodes -> [Deliveries -> Handler]]
    /\ share \in [Nodes -> SUBSET KeyIDs]
    /\ info \in [KeyIDs -> SUBSET Nodes]
    /\ sent \subseteq Requests \X Curves \X Nodes \X SUBSET Nodes

TypeOK == RequestTypeOK /\ NodeTypeOK

\* A key info without participants is one that was never saved.
Init ==
    /\ RequestInit
    /\ gen = [n \in Nodes |-> [d \in Deliveries |-> NoHandler("idle")]]
    /\ share = [n \in Nodes |-> {}]
    /\ info = [k \in KeyIDs |-> {}]
    /\ sent = {}

-----------------------------------------------------------------------------
(***************************************************************************)
(* The initiator and keygenConsumer.handleKeygenEvent.                      *)
(***************************************************************************)
CreateWallet(w) == PublishMessage(w) /\ UNCHANGED nodeVars

\* ArePeersReady is false, on the node that has the delivery.
RejectKeygen(d) == BridgeReject(d) /\ UNCHANGED nodeVars

\* MPCGenerateEvent is published; the nodes in heard are connected and get it.
PublishKeygen(d, heard) ==
    /\ BridgePublish(d)
    /\ gen' = [n \in Nodes |-> IF n \in heard
                               THEN [gen[n] EXCEPT ![d] = NoHandler("queued")]
                               ELSE gen[n]]
    /\ UNCHANGED <<share, info, sent>>

-----------------------------------------------------------------------------
(***************************************************************************)
(* eventConsumer.handleKeyGenEvent on each node that heard the event.       *)
(***************************************************************************)
pc(n, d) == gen[n][d].pc
ses(n, d, c) == gen[n][d].ses[c]

\* startKeyGenEventWorker takes a slot of the semaphore before it starts a handler.
SlotFree(n) ==
    Cardinality({d \in Deliveries : pc(n, d) \in Busy}) < MaxConcurrentKeygen

\* The worker may start the handler.
Starts(n, d) == pc(n, d) = "queued" /\ SlotFree(n)

\* The handler reports an error and returns; its sessions, if any, go on.
Abort(n, d) ==
    /\ handleSessionError(d)
    /\ gen' = [gen EXCEPT ![n][d].pc = "ended"]
    /\ UNCHANGED <<stream, delivered, share, info, sent>>

\* The initiator signature does not verify, ArePeersReady is false, or a key info was
\* read: "key already exists".
CreateFails(n, d) ==
    /\ Starts(n, d)
    /\ Abort(n, d)

\* The views a registry may return: ready peers, the node itself included.
ReadyViews(n) == {peers \in SUBSET Nodes : n \in peers}

\* node.CreateKeyGenSession for one curve after the other, each with the peers of its
\* own moment: no key info is there, or it could not be read, an error that is dropped.
\* Then Init, the watchers and the listeners.
CreateKeyGenSession(n, d, peers, unread) ==
    /\ Starts(n, d)
    /\ \A c \in Curves \ unread : info[<<d[1], c>>] = {}
    /\ gen' = [gen EXCEPT ![n][d].pc = "listening",
                          ![n][d].ses = [c \in Curves |->
                              [st |-> "listening", watch |-> "waiting",
                               com |-> peers[c], got |-> {}]]]
    /\ UNCHANGED <<requestVars, share, info, sent>>

\* The warm-up is over: both GenerateKey goroutines start, the handler waits.
WarmUp(n, d) ==
    /\ pc(n, d) = "listening"
    /\ gen' = [gen EXCEPT ![n][d].pc = "waiting"]
    /\ UNCHANGED <<requestVars, share, info, sent>>

\* KeyGenTimeOut ends baseCtx, and the contexts of the sessions with it.
TimeOut(n, d) ==
    /\ pc(n, d) \in Busy
    /\ ~gen[n][d].late
    /\ gen' = [gen EXCEPT ![n][d].late = TRUE]
    /\ UNCHANGED <<requestVars, share, info, sent>>

\* The handler returns.
Return(n, d) == gen' = [gen EXCEPT ![n][d].pc = "ended"] /\ UNCHANGED <<share, info, sent>>

\* Both watchers are done: doneAll is closed.
AllDone(n, d) ==
    /\ pc(n, d) = "waiting"
    /\ \A c \in Curves : ses(n, d, c).watch # "waiting"

\* One of them left an error in errorChan, and has reported it.
KeygenFails(n, d) ==
    /\ AllDone(n, d)
    /\ \E c \in Curves : ses(n, d, c).watch = "error"
    /\ Return(n, d)
    /\ UNCHANGED requestVars

\* None did: the public keys are enqueued as they are.
KeygenSucceeds(n, d) ==
    /\ AllDone(n, d)
    /\ \A c \in Curves : ses(n, d, c).watch # "error"
    /\ results' = Accepted(composeIdempotentKey(d), TRUE)
    /\ sendReplyToRemoveMsg(d)
    /\ Return(n, d)
    /\ UNCHANGED <<stream, delivered, lost, budget>>

\* The queue refuses them; so it may the error that follows.
KeygenRefused(n, d) ==
    /\ AllDone(n, d)
    /\ \A c \in Curves : ses(n, d, c).watch # "error"
    /\ Refused(d[1])
    /\ results' \in {results, Accepted(composeIdempotentKey(d), FALSE)}
    /\ sendReplyToRemoveMsg(d)
    /\ Return(n, d)
    /\ UNCHANGED <<stream, delivered>>

\* baseCtx is done.  A handler that is parked in its select then takes this case, since
\* the parent's channel is closed before those of the sessions; one that comes to the
\* select later may find doneAll closed as well, and takes either.
KeygenTimesOut(n, d) ==
    /\ pc(n, d) = "waiting"
    /\ gen[n][d].late
    /\ Abort(n, d)

-----------------------------------------------------------------------------
(***************************************************************************)
(* The sessions and their watchers.                                        *)
(***************************************************************************)
SetSession(n, d, c, s) == gen' = [gen EXCEPT ![n][d].ses[c] = s]

\* The watcher's select: the context of the session is done.
WatchDone(n, d, c) ==
    /\ ses(n, d, c).watch = "waiting"
    /\ ses(n, d, c).st = "done" \/ gen[n][d].late \/ pc(n, d) = "ended"
    /\ SetSession(n, d, c, [ses(n, d, c) EXCEPT
                              !.watch = IF ses(n, d, c).st = "done" THEN "key" ELSE "nokey"])
    /\ UNCHANGED <<requestVars, share, info, sent>>

\* Or an error of the session, which is reported at once.  The session goes on,
\* except if it could not store the share or the key info.
SessionError(n, d, c, st) ==
    /\ ses(n, d, c).watch = "waiting"
    /\ st = ses(n, d, c).st \/ (st = "over" /\ ses(n, d, c).st \in {"running", "stored"})
    /\ handleSessionError(d)
    /\ SetSession(n, d, c, [ses(n, d, c) EXCEPT !.watch = "error", !.st = st])
    /\ UNCHANGED <<stream, delivered, share, info, sent>>

\* An error after the watcher has left: its sender blocks, the handler while it sets
\* up the listeners, or GenerateKey.
UnheardError(n, d, c) ==
    /\ ses(n, d, c).watch # "waiting"
    /\ \/ /\ pc(n, d) = "listening"
          /\ gen' = [gen EXCEPT ![n][d].pc = "wedged"]
       \/ /\ ses(n, d, c).st \in {"running", "stored"}
          /\ SetSession(n, d, c, [ses(n, d, c) EXCEPT !.st = "over"])
    /\ UNCHANGED <<requestVars, share, info, sent>>

\* tss-lib, as one abstract round: the party sends its messages once, on topics named
\* by wallet and curve; the sessions that listen at that moment and were built for the
\* same parties take them.
GenerateKey(n, d, c) ==
    LET com == ses(n, d, c).com
        takes(m, e) == /\ m # n /\ e[1] = d[1]
                       /\ ses(m, e, c).st \in {"listening", "running"}
                       /\ ses(m, e, c).com = com
    IN
    /\ ses(n, d, c).st = "listening"
    /\ pc(n, d) \in {"waiting", "ended"}
    /\ Cardinality(com) >= Threshold
    /\ sent' = sent \cup {<<d[1], c, n, com>>}
    /\ gen' = [m \in Nodes |-> [e \in Deliveries |->
                  CASE m = n /\ e = d -> [gen[m][e] EXCEPT !.ses[c].st = "running"]
                    [] takes(m, e) -> [gen[m][e] EXCEPT !.ses[c].got = @ \cup {n}]
                    [] OTHER -> gen[m][e]]]
    /\ UNCHANGED <<requestVars, share, info>>

\* endCh delivers the save data: the party has the messages of all the others.
KeyReady(n, d, c) ==
    /\ ses(n, d, c).st = "running"
    /\ ses(n, d, c).com \ {n} \subseteq ses(n, d, c).got

\* Fault: an error of Kvstore.Put is not looked at.
PutErrorIgnored(n, d, c) ==
    /\ KeyReady(n, d, c)
    /\ SetSession(n, d, c, [ses(n, d, c) EXCEPT !.st = "stored"])
    /\ UNCHANGED <<requestVars, share, info, sent>>

\* Fault: the share is filed under the delivery's SessionID.
PutBySessionID(n, d, c) ==
    /\ KeyReady(n, d, c)
    /\ share' = [share EXCEPT ![n] = @ \cup {d}]
    /\ SetSession(n, d, c, [ses(n, d, c) EXCEPT !.st = "stored"])
    /\ UNCHANGED <<requestVars, info, sent>>

\* Fault: the loop stores what it has without waiting for endCh.
PutTooEarly(n, d, c) ==
    /\ ses(n, d, c).st = "running"
    /\ share' = [share EXCEPT ![n] = @ \cup {<<d[1], c>>}]
    /\ SetSession(n, d, c, [ses(n, d, c) EXCEPT !.st = "stored"])
    /\ UNCHANGED <<requestVars, info, sent>>

\* Kvstore.Put
PutShare(n, d, c) ==
    /\ KeyReady(n, d, c)
    /\ share' = [share EXCEPT ![n] = @ \cup {<<d[1], c>>}]
    /\ SetSession(n, d, c, [ses(n, d, c) EXCEPT !.st = "stored"])
    /\ UNCHANGED <<requestVars, info, sent>>

\* KeyinfoStore.Save, then the public key, Close and done().  Its encoding does not fail.
SaveKeyInfo(n, d, c) ==
    /\ ses(n, d, c).st = "stored"
    /\ info' = [info EXCEPT ![<<d[1], c>>] = ses(n, d, c).com]
    /\ SetSession(n, d, c, [ses(n, d, c) EXCEPT !.st = "done"])
    /\ UNCHANGED <<requestVars, share, sent>>

\* A node crashes and comes back: its shares are on disk, the key infos in Consul.
Restart(n) ==
    /\ BridgeCrash(n)
    /\ gen' = [gen EXCEPT ![n] = [d \in Deliveries |->
                    NoHandler(IF pc(n, d) = "idle" THEN "idle" ELSE "ended")]]
    /\ UNCHANGED <<share, info, sent>>

-----------------------------------------------------------------------------
\* The steps of module RequestStream.
CommonStep ==
    /\ \/ \E w \in Requests : StreamStep(w) \/ handleDeadlineExceeded(w)
       \/ \E d \in Deliveries : BridgeStep(d)
    /\ UNCHANGED nodeVars

HandlerStep(n, d) ==
    \/ CreateFails(n, d)
    \/ \E peers \in [Curves -> ReadyViews(n)], unread \in SUBSET Curves :
          CreateKeyGenSession(n, d, peers, unread)
    \/ WarmUp(n, d)
    \/ TimeOut(n, d)
    \/ KeygenFails(n, d)
    \/ KeygenSucceeds(n, d)
    \/ KeygenRefused(n, d)
    \/ KeygenTimesOut(n, d)

SessionStep(n, d, c) ==
    \/ WatchDone(n, d, c)
    \/ \E st \in SessionStates : SessionError(n, d, c, st)
    \/ UnheardError(n, d, c)
    \/ GenerateKey(n, d, c)
    \/ PutShare(n, d, c)
    \/ SaveKeyInfo(n, d, c)

Next ==
    \/ \E w \in Requests : CreateWallet(w)
    \/ CommonStep
    \/ \E d \in Deliveries :
          RejectKeygen(d) \/ \E heard \in SUBSET Nodes : PublishKeygen(d, heard)
    \/ \E n \in Nodes, d \in Deliveries :
          HandlerStep(n, d) \/ \E c \in Curves : SessionStep(n, d, c)
    \/ \E n \in Nodes : Restart(n)

Spec == Init /\ [][Next]_vars

-----------------------------------------------------------------------------
(***************************************************************************)
(* Properties.                                                             *)
(***************************************************************************)
\* A key info in Consul, by which every node will select the signers of the wallet,
\* is backed: one of the participants it names has stored its share, and all of them
\* ran the protocol with one and the same committee, though each computed it from its
\* own registry.  Crashes and failing stores do not change that.
InfoBacked ==
    \A k \in KeyIDs : info[k] # {} =>
        /\ \E m \in info[k] : k \in share[m]
        /\ \A m \in info[k] : <<k[1], k[2], m, info[k]>> \in sent

(***************************************************************************)
(* Key generation implements WalletKeys, with version 0 only: a committee    *)
(* has made a key when all its members ran the protocol with it.             *)
(***************************************************************************)
WK == INSTANCE WalletKeys WITH
    made  <- {kc \in KeyIDs \X ((SUBSET Nodes) \ {{}}) :
                 \A m \in kc[2] : <<kc[1][1], kc[1][2], m, kc[2]>> \in sent},
    share <- [n \in Nodes |-> share[n] \X {0}],
    info  <- [k \in KeyIDs |-> [ver |-> 0, com |-> info[k]]]

\* The shares and key infos that key generations leave behind, with their timeouts,
\* crashes and failing stores, are those that WalletKeys allows.
WalletKeysSpec == WK!Spec

-----------------------------------------------------------------------------
(***************************************************************************)
(* What a test says and the code does not do.                              *)
(***************************************************************************)
\* keygen_test.go: a result without an error has both public keys, so that some node
\* has generated and stored them.
SuccessHasKeys ==
    \A r \in results : r.ok =>
        \A c \in Curves : \E n \in Nodes : <<r.key[1], c>> \in share[n]
=============================================================================
