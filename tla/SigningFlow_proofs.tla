------------------------- MODULE SigningFlow_proofs -------------------------
(***************************************************************************)
(* Proofs about module SigningFlow, for any finite set of nodes, any set of *)
(* requests and participants, any threshold, MaxDeliver and number of slots, *)
(* and any number of crashes and refused results.                           *)
(***************************************************************************)
EXTENDS SigningFlow, RequestStream_proofs, FiniteSetTheorems

-----------------------------------------------------------------------------
\* Changing one field of a session.
LEMMA SessionUpdates ==
    ASSUME NEW s \in Session
    PROVE  /\ \A state \in HandlerStates :
                 /\ [s EXCEPT !.pc = state] \in Session
                 /\ [s EXCEPT !.pc = state].pc = state
                 /\ [s EXCEPT !.pc = state].com = s.com
                 /\ [s EXCEPT !.pc = state].got = s.got
           /\ \A n \in Nodes :
                 /\ [s EXCEPT !.got = @ \cup {n}] \in Session
                 /\ [s EXCEPT !.got = @ \cup {n}].pc = s.pc
                 /\ [s EXCEPT !.got = @ \cup {n}].com = s.com
                 /\ [s EXCEPT !.got = @ \cup {n}].got = s.got \cup {n}
BY DEF Session

\* A session that takes a message of a party is a session.
LEMMA GotUpdate ==
    ASSUME NEW s \in Session, NEW n \in Nodes, NEW t, t = [s EXCEPT !.got = @ \cup {n}]
    PROVE  t.pc = s.pc /\ t.com = s.com /\ t.got = s.got \cup {n}
BY DEF Session

\* The same for the session of n and d.
LEMMA SessUpdates ==
    ASSUME NodeTypeOK, NEW m \in Nodes, NEW e \in Deliveries, NEW n \in Nodes
    PROVE  /\ sess[m][e] \in Session
           /\ \A state \in {"listening", "signing"} :
                 /\ [sess[m][e] EXCEPT !.pc = state] \in Session
                 /\ [sess[m][e] EXCEPT !.pc = state].pc = state
                 /\ [sess[m][e] EXCEPT !.pc = state].com = sess[m][e].com
                 /\ [sess[m][e] EXCEPT !.pc = state].got = sess[m][e].got
           /\ [sess[m][e] EXCEPT !.got = @ \cup {n}] \in Session
           /\ [sess[m][e] EXCEPT !.got = @ \cup {n}].pc = sess[m][e].pc
           /\ [sess[m][e] EXCEPT !.got = @ \cup {n}].com = sess[m][e].com
           /\ [sess[m][e] EXCEPT !.got = @ \cup {n}].got = sess[m][e].got \cup {n}
<1>1. sess[m][e] \in Session
  BY DEF NodeTypeOK
<1>2. {"listening", "signing"} \subseteq HandlerStates
  BY DEF HandlerStates
<1> QED BY <1>1, <1>2, SessionUpdates, Zenon

\* Goto changes one handler and leaves it without a session.
LEMMA GotoFacts ==
    ASSUME NodeTypeOK, NEW n \in Nodes, NEW d \in Deliveries, NEW state \in HandlerStates,
           Goto(n, d, state)
    PROVE  /\ sess' \in [Nodes -> [Deliveries -> Session]]
           /\ sess'[n][d] = NoSession(state)
           /\ \A m \in Nodes, e \in Deliveries :
                 sess'[m][e] = sess[m][e] \/ (m = n /\ e = d)
<1>1. NoSession(state) \in Session
  BY DEF NoSession, Session
<1> QED BY <1>1 DEF NodeTypeOK, Goto

\* A step of one watcher: it waits, has an error or has returned.
LEMMA WatchFacts ==
    ASSUME NodeTypeOK, NEW n \in Nodes, NEW d \in Deliveries, NEW state \in WatchStates,
           watch' = [watch EXCEPT ![n][d] = state]
    PROVE  /\ watch' \in [Nodes -> [Deliveries -> WatchStates]]
           /\ watch'[n][d] = state
           /\ \A m \in Nodes, e \in Deliveries :
                 watch'[m][e] = watch[m][e] \/ (m = n /\ e = d)
BY DEF NodeTypeOK

\* An error of a session is taken by a watcher that waits, and by nobody else.
LEMMA TakeFacts ==
    ASSUME NodeTypeOK, NEW n \in Nodes, NEW d \in Deliveries, TakeError(n, d)
    PROVE  /\ watch' \in [Nodes -> [Deliveries -> WatchStates]]
           /\ \/ watch'[n][d] = watch[n][d]
              \/ watch[n][d] = "watching" /\ watch'[n][d] = "reporting"
           /\ \A m \in Nodes, e \in Deliveries :
                 watch'[m][e] = watch[m][e] \/ (m = n /\ e = d)
<1> DEFINE state == IF watch[n][d] = "watching" THEN "reporting" ELSE watch[n][d]
<1>1. state \in WatchStates
  BY DEF NodeTypeOK, WatchStates
<1>2. watch' = [watch EXCEPT ![n][d] = state]
  BY DEF TakeError
<1>3. state = watch[n][d] \/ (watch[n][d] = "watching" /\ state = "reporting")
  OBVIOUS
<1> HIDE DEF state
<1> QED BY <1>1, <1>2, <1>3, WatchFacts

-----------------------------------------------------------------------------
(***************************************************************************)
(* SigningFlow implements RequestStream: a handler or a session moves only   *)
(* after its delivery was forwarded, and what it does to a request is an     *)
(* answer, a refused answer or nothing.                                      *)
(***************************************************************************)
Handled ==
    \A n \in Nodes, d \in Deliveries :
        pc(n, d) # "idle" \/ watch[n][d] # "none" => Forwarded(d)

\* A handler step aborts the delivery or leaves the request alone.
LEMMA HandlerRequest ==
    ASSUME Handled, NEW n \in Nodes, NEW d \in Deliveries, HandlerStep(n, d)
    PROVE  Answer(d, FALSE) \/ UNCHANGED requestVars
<1>1. ASSUME Abort(n, d), pc(n, d) # "idle" PROVE Answer(d, FALSE)
  BY <1>1 DEF Abort, handleSessionError, Answer, Handled
<1>2. CASE DuplicateSession(n, d) \/ KeyInfoFails(n, d) \/ InitFails(n, d)
             \/ \E peers \in ReadyViews(n) : CreateNotEnough(n, d, peers)
  BY <1>1, <1>2 DEF DuplicateSession, KeyInfoFails, InitFails, CreateNotEnough
<1>3. CASE UNCHANGED <<stream, delivered, bridge, resultVars>>
  BY <1>3 DEF requestVars, resultVars
<1> QED
  BY <1>2, <1>3 DEF HandlerStep, RejectInvalid, PassDuplicateCheck, SkipNotParticipant,
                    CreateSigningSession, InitSession, StartSign

\* A session step reports a signature or an error, has one refused, or is silent.
LEMMA SessionRequest ==
    ASSUME Handled, NEW n \in Nodes, NEW d \in Deliveries, SessionStep(n, d)
    PROVE  (\E ok \in BOOLEAN : Answer(d, ok)) \/ AnswerRefused(d) \/ UNCHANGED requestVars
<1>1. Forwarded(d)
  <2>1. pc(n, d) # "idle" \/ watch[n][d] # "none"
    BY DEF SessionStep, SessionError, SecondError, ReportError, Sign, SignFails, SignRefused,
           SignatureReady, Listening
  <2> QED BY <2>1 DEF Handled
<1>2. CASE SessionError(n, d) \/ SignFails(n, d)
  BY <1>2 DEF SessionError, SignFails
<1>3. CASE SecondError(n, d)
  BY <1>3 DEF SecondError, requestVars, resultVars
<1>4. CASE Sign(n, d)
  BY <1>1, <1>4 DEF Sign, Answer, Enqueue
<1>5. CASE ReportError(n, d)
  BY <1>1, <1>5 DEF ReportError, handleSessionError, Answer
<1>6. CASE SignRefused(n, d)
  BY <1>1, <1>6 DEF SignRefused, AnswerRefused
<1> QED BY <1>2, <1>3, <1>4, <1>5, <1>6 DEF SessionStep

\* Every step of SigningFlow is a step of RequestStream or leaves the request alone.
LEMMA StepImplements ==
    ASSUME Handled, [Next]_vars
    PROVE  [RequestNext]_requestVars
<1>1. CASE UNCHANGED vars
  BY <1>1 DEF vars
<1>2. ASSUME NEW tx \in Requests, SignTransaction(tx) PROVE RequestNext
  BY <1>2 DEF SignTransaction, RequestNext
<1>3. CASE CommonStep
  BY <1>3 DEF CommonStep, RequestNext
<1>4. ASSUME NEW d \in Deliveries, ForwardStep(d) PROVE RequestNext
  BY <1>4 DEF ForwardStep, RejectSigning, PublishSigning, RequestNext
<1>5. ASSUME NEW n \in Nodes, NEW d \in Deliveries, HandlerStep(n, d)
      PROVE  RequestNext \/ UNCHANGED requestVars
  BY <1>5, HandlerRequest DEF RequestNext
<1>6. ASSUME NEW n \in Nodes, NEW d \in Deliveries, SessionStep(n, d)
      PROVE  RequestNext \/ UNCHANGED requestVars
  BY <1>6, SessionRequest DEF RequestNext
<1>7. ASSUME NEW n \in Nodes, NodeStep(n)
      PROVE  RequestNext \/ UNCHANGED requestVars
  <2>1. CASE Restart(n)
    BY <2>1 DEF Restart, RequestNext
  <2>2. ASSUME NEW tx \in Requests, cleanupStaleSessions(n, tx) PROVE UNCHANGED requestVars
    BY <2>2 DEF cleanupStaleSessions, requestVars, resultVars
  <2> QED BY <1>7, <2>1, <2>2 DEF NodeStep
<1> QED BY <1>1, <1>2, <1>3, <1>4, <1>5, <1>6, <1>7 DEF Next

-----------------------------------------------------------------------------
(***************************************************************************)
(* Whom an answer comes from.                                               *)
(***************************************************************************)
\* The event handler of n has verified d, or is about to.
Verified(n, d) ==
    \/ pc(n, d) \notin {"idle", "queued", "ended"}
    \/ watch[n][d] # "none"
    \/ d[1] \notin forged

NewReplies ==
    \A d \in Deliveries :
        bridge'[d].st = "replied" => bridge[d].st = "replied" \/ \E n \in Nodes : Verified(n, d)

NewResults ==
    \A r \in results' : r \notin results =>
        \/ ~r.ok /\ r.key \notin Deliveries
        \/ ~r.ok /\ \E n \in Nodes : Verified(n, r.key)
        \/ \E n \in Nodes, d \in Deliveries :
              SignatureReady(n, d) /\ r = [key |-> d, ok |-> TRUE]

Summary == sent \subseteq sent' /\ NewReplies /\ NewResults

\* handleSessionError of a verified delivery.
LEMMA ErrorFacts ==
    ASSUME RequestTypeOK, NEW n \in Nodes, NEW d \in Deliveries, Verified(n, d),
           handleSessionError(d), UNCHANGED sent
    PROVE  Summary
<1>1. d \in Keys /\ Enqueue(d, FALSE) /\ sendReplyToRemoveMsg(d)
  BY DeliveryTypes DEF handleSessionError, composeIdempotentKey
<1>2. \A r \in results' : r \in results \/ r = [key |-> d, ok |-> FALSE]
  BY <1>1, EnqueueFacts
<1>3. NewReplies
  BY <1>1, ReplyFacts DEF NewReplies
<1>4. NewResults
  BY <1>2 DEF NewResults
<1> QED BY <1>3, <1>4 DEF Summary

\* A step that leaves results and inboxes alone.
LEMMA SilentFacts ==
    ASSUME UNCHANGED <<bridge, results>>, sent \subseteq sent'
    PROVE  Summary
BY DEF Summary, NewReplies, NewResults

\* The bridge's own errors and the timeout consumer's carry no delivery's key.
LEMMA OwnErrorFacts ==
    ASSUME RequestTypeOK, UNCHANGED sent, NEW key \in Keys \ Deliveries, Enqueue(key, FALSE),
           \A d \in Deliveries : bridge'[d].st = "replied" => bridge[d].st = "replied"
    PROVE  Summary
<1>1. \A r \in results' : r \in results \/ r = [key |-> key, ok |-> FALSE]
  BY EnqueueFacts
<1>2. NewResults
  BY <1>1 DEF NewResults
<1> QED BY <1>2 DEF Summary, NewReplies

\* The stream, the timeout consumer and the bridge.
LEMMA CommonSummary ==
    ASSUME RequestTypeOK, CommonStep
    PROVE  Summary
<1>1. UNCHANGED sent
  BY DEF CommonStep, nodeVars
<1>2. ASSUME NEW tx \in Requests, handleDeadlineExceeded(tx) PROVE Summary
  BY <1>1, <1>2, KeyTypes, OwnErrorFacts DEF handleDeadlineExceeded
<1>3. ASSUME NEW tx \in Requests, StreamStep(tx) PROVE Summary
  <2>1. UNCHANGED results
    BY <1>3 DEF StreamStep, Deliver, AckWaitExpires, MaxDeliveries, Expire, resultVars
  <2>2. \A d \in Deliveries : bridge'[d].st = "replied" => bridge[d].st = "replied"
    <3>1. ASSUME NEW n \in Nodes, Deliver(n, tx), NEW d \in Deliveries,
                 bridge'[d].st = "replied"
          PROVE  bridge[d].st = "replied"
      <4>1. bridge'[d] = bridge[d] \/ bridge'[d] = [st |-> "buffered", node |-> n]
        BY <3>1 DEF Deliver, RequestTypeOK
      <4> QED BY <3>1, <4>1
    <3>2. CASE UNCHANGED bridge
      BY <3>2
    <3>3. UNCHANGED bridge \/ \E n \in Nodes : Deliver(n, tx)
      BY <1>3 DEF StreamStep, AckWaitExpires, MaxDeliveries, Expire
    <3> QED BY <3>1, <3>2, <3>3
  <2> QED BY <1>1, <2>1, <2>2 DEF Summary, NewReplies, NewResults
<1>4. ASSUME NEW d \in Deliveries, BridgeStep(d) PROVE Summary
  <2>1. BridgeEnds(d) /\ UNCHANGED results
    BY <1>4 DEF BridgeStep, BridgePublishFails, BridgeReply, BridgeTimeout, resultVars
  <2> QED BY <1>1, <2>1, EndFacts DEF Summary, NewReplies, NewResults
<1> QED BY <1>2, <1>3, <1>4 DEF CommonStep

\* The bridge's handler rejects or forwards a delivery.
LEMMA ForwardSummary ==
    ASSUME RequestTypeOK, NodeTypeOK, NEW d \in Deliveries, ForwardStep(d)
    PROVE  NodeTypeOK' /\ Summary
<1>d. d[1] \in Requests
  BY DeliveryTypes
<1>1. ASSUME NEW peers, NEW keyed, RejectSigning(d, peers, keyed)
      PROVE  NodeTypeOK' /\ Summary
  <2>1. /\ Enqueue(buildIdempotentKey(d[1]), FALSE) /\ BridgeEnds(d)
        /\ UNCHANGED <<sess, active, watch, sent>>
    BY <1>1 DEF RejectSigning, BridgeReject, nodeVars
  <2>2. Summary
    BY <1>d, <2>1, KeyTypes, EndFacts, OwnErrorFacts
  <2> QED BY <2>1, <2>2 DEF NodeTypeOK
<1>2. ASSUME NEW peers, NEW keyed, NEW heard \in SUBSET Nodes,
             PublishSigning(d, peers, keyed, heard)
      PROVE  NodeTypeOK' /\ Summary
  <2>1. UNCHANGED <<results, active, watch, sent>>
        /\ bridge' = [bridge EXCEPT ![d].st = "waiting"]
    BY <1>2 DEF PublishSigning, BridgePublish, resultVars
  <2>2. \A e \in Deliveries : bridge'[e].st = "replied" => bridge[e].st = "replied"
    BY <2>1 DEF RequestTypeOK, Bridge
  <2>3. NoSession("queued") \in Session
    BY DEF NoSession, Session, HandlerStates
  <2>4. sess' \in [Nodes -> [Deliveries -> Session]]
    BY <1>2, <2>3 DEF PublishSigning, NodeTypeOK
  <2> QED BY <2>1, <2>2, <2>4 DEF NodeTypeOK, Summary, NewReplies, NewResults
<1> QED BY <1>1, <1>2 DEF ForwardStep

\* A step of an event handler before its session runs.
LEMMA HandlerSummary ==
    ASSUME RequestTypeOK, NodeTypeOK, NEW n \in Nodes, NEW d \in Deliveries, HandlerStep(n, d)
    PROVE  NodeTypeOK' /\ Summary
<1>d. d[1] \in Requests
  BY DeliveryTypes
<1>1. ASSUME Abort(n, d), Verified(n, d) PROVE NodeTypeOK' /\ Summary
  <2>1. sess' \in [Nodes -> [Deliveries -> Session]]
    BY <1>1, GotoFacts DEF Abort, HandlerStates
  <2> QED BY <1>1, <2>1, ErrorFacts DEF Abort, NodeTypeOK
<1>2. ASSUME NEW state \in HandlerStates, Goto(n, d, state),
             UNCHANGED <<stream, delivered, bridge, active, watch, sent, resultVars>>
      PROVE  NodeTypeOK' /\ Summary
  <2>1. sess' \in [Nodes -> [Deliveries -> Session]]
    BY <1>2, GotoFacts
  <2> QED BY <1>2, <2>1, SilentFacts DEF NodeTypeOK, resultVars
<1>3. CASE DuplicateSession(n, d)
  BY <1>1, <1>3 DEF DuplicateSession, Verified
<1>4. CASE KeyInfoFails(n, d) \/ InitFails(n, d)
  BY <1>1, <1>4 DEF KeyInfoFails, InitFails, Verified
<1>5. ASSUME NEW peers, CreateNotEnough(n, d, peers) PROVE NodeTypeOK' /\ Summary
  BY <1>1, <1>5 DEF CreateNotEnough, Verified
<1>6. CASE RejectInvalid(n, d) \/ PassDuplicateCheck(n, d)
  BY <1>2, <1>6 DEF RejectInvalid, PassDuplicateCheck, HandlerStates
<1>7. ASSUME NEW peers, SkipNotParticipant(n, d, peers) PROVE NodeTypeOK' /\ Summary
  BY <1>2, <1>7 DEF SkipNotParticipant, HandlerStates
<1>8. ASSUME NEW peers \in ReadyViews(n), CreateSigningSession(n, d, peers)
      PROVE  NodeTypeOK' /\ Summary
  <2>1. getReadyPeersForSession(peers) \in SUBSET Nodes
    BY FlowAssumption DEF getReadyPeersForSession, ReadyViews
  <2>2. [NoSession("created") EXCEPT !.com = getReadyPeersForSession(peers)] \in Session
    BY <2>1 DEF NoSession, Session, HandlerStates
  <2>3. sess' \in [Nodes -> [Deliveries -> Session]]
    BY <1>8, <2>2 DEF CreateSigningSession, NodeTypeOK
  <2> QED BY <1>8, <2>3, SilentFacts DEF CreateSigningSession, NodeTypeOK, resultVars
<1>9. CASE InitSession(n, d)
  <2>1. [sess[n][d] EXCEPT !.pc = "listening"] \in Session
    BY SessUpdates, Zenon
  <2>2. sess' \in [Nodes -> [Deliveries -> Session]]
    BY <1>9, <2>1 DEF InitSession, NodeTypeOK
  <2>3. active' \in [Nodes -> SUBSET Requests]
    BY <1>9, <1>d DEF InitSession, NodeTypeOK
  <2>4. watch' \in [Nodes -> [Deliveries -> WatchStates]]
    BY <1>9, WatchFacts DEF InitSession, WatchStates
  <2> QED BY <1>9, <2>2, <2>3, <2>4, SilentFacts DEF InitSession, NodeTypeOK, resultVars
<1>10. CASE StartSign(n, d)
  <2>1. sess' \in [Nodes -> [Deliveries -> Session]]
    <3>1. ASSUME NEW m \in Nodes, NEW e \in Deliveries
          PROVE  /\ sess[m][e] \in Session
                 /\ [sess[m][e] EXCEPT !.pc = "signing"] \in Session
                 /\ [sess[m][e] EXCEPT !.got = @ \cup {n}] \in Session
      BY SessUpdates, Zenon
    <3> QED BY <1>10, <3>1 DEF StartSign
  <2>2. <<d[1], n, sess[n][d].com>> \in Requests \X Nodes \X SUBSET Nodes
    BY <1>d DEF NodeTypeOK, Session
  <2>3. sent' = sent \cup {<<d[1], n, sess[n][d].com>>}
    BY <1>10 DEF StartSign
  <2>4. UNCHANGED <<stream, delivered, bridge, active, watch, resultVars>>
    BY <1>10 DEF StartSign
  <2> QED BY <2>1, <2>2, <2>3, <2>4, SilentFacts DEF NodeTypeOK, resultVars
<1> QED BY <1>3, <1>4, <1>5, <1>6, <1>7, <1>8, <1>9, <1>10 DEF HandlerStep

\* A step of a running session: a signature, an error or nothing is reported.
LEMMA SessionSummary ==
    ASSUME RequestTypeOK, NodeTypeOK, NEW n \in Nodes, NEW d \in Deliveries, SessionStep(n, d)
    PROVE  NodeTypeOK' /\ Summary
<1>d. d[1] \in Requests /\ d \in Keys
  BY DeliveryTypes
<1>v. Verified(n, d)
  BY DEF SessionStep, SessionError, SecondError, ReportError, Sign, SignFails, SignRefused,
         SignatureReady, Listening, Verified
<1>1. CASE SessionError(n, d)
  <2>1. watch' \in [Nodes -> [Deliveries -> WatchStates]]
    BY <1>1, TakeFacts DEF SessionError
  <2>2. UNCHANGED <<bridge, results, sess, active, sent>>
    BY <1>1 DEF SessionError, requestVars
  <2> QED BY <2>1, <2>2, SilentFacts DEF NodeTypeOK
<1>2. CASE SecondError(n, d)
  <2>1. sess' \in [Nodes -> [Deliveries -> Session]]
    BY <1>2, GotoFacts DEF SecondError, HandlerStates
  <2> QED BY <1>2, <2>1, SilentFacts DEF SecondError, NodeTypeOK, resultVars
<1>3. CASE ReportError(n, d)
  <2>1. watch' \in [Nodes -> [Deliveries -> WatchStates]]
    BY <1>3, WatchFacts DEF ReportError, WatchStates
  <2> QED BY <1>3, <1>v, <2>1, ErrorFacts DEF ReportError, NodeTypeOK
<1>4. CASE Sign(n, d)
  <2>1. /\ Goto(n, d, "ended") /\ UNCHANGED <<active, sent>> /\ SignatureReady(n, d)
        /\ results' = Accepted(d, TRUE) /\ sendReplyToRemoveMsg(d)
    BY <1>4 DEF Sign, composeIdempotentKey
  <2>2. watch' \in [Nodes -> [Deliveries -> WatchStates]]
    BY <1>4 DEF Sign, NodeTypeOK, WatchStates
  <2>3. NodeTypeOK'
    BY <2>1, <2>2, GotoFacts DEF HandlerStates, NodeTypeOK
  <2>4. \A r \in results' : r \in results \/ r = [key |-> d, ok |-> TRUE]
    BY <1>d, <2>1, AcceptedFacts
  <2>5. NewResults
    BY <2>1, <2>4 DEF NewResults
  <2>6. NewReplies
    BY <1>v, <2>1, ReplyFacts DEF NewReplies
  <2> QED BY <2>1, <2>3, <2>5, <2>6 DEF Summary
<1>5. CASE SignFails(n, d) \/ SignRefused(n, d)
  <2>1. /\ Goto(n, d, "ended") /\ TakeError(n, d)
        /\ UNCHANGED <<active, sent, bridge, results>>
    BY <1>5 DEF SignFails, SignRefused, requestVars
  <2>2. NodeTypeOK'
    BY <2>1, GotoFacts, TakeFacts DEF HandlerStates, NodeTypeOK
  <2> QED BY <2>1, <2>2, SilentFacts
<1> QED BY <1>1, <1>2, <1>3, <1>4, <1>5 DEF SessionStep

\* Cleanup and a crash.
LEMMA NodeSummary ==
    ASSUME RequestTypeOK, NodeTypeOK, NEW n \in Nodes, NodeStep(n)
    PROVE  NodeTypeOK' /\ Summary
<1>1. ASSUME NEW tx \in Requests, cleanupStaleSessions(n, tx) PROVE NodeTypeOK' /\ Summary
  <2>1. active' \in [Nodes -> SUBSET Requests]
    BY <1>1 DEF cleanupStaleSessions, NodeTypeOK
  <2> QED BY <1>1, <2>1, SilentFacts DEF cleanupStaleSessions, NodeTypeOK, resultVars
<1>2. CASE Restart(n)
  <2>1. NoSession("idle") \in Session /\ NoSession("ended") \in Session
    BY DEF NoSession, Session, HandlerStates
  <2>2. \A e \in Deliveries : NoSession(IF pc(n, e) = "idle" THEN "idle" ELSE "ended") \in Session
    BY <2>1
  <2>3. sess' \in [Nodes -> [Deliveries -> Session]]
    BY <1>2, <2>2 DEF Restart, NodeTypeOK
  <2>4. /\ active' \in [Nodes -> SUBSET Requests] /\ UNCHANGED <<sent, results>>
        /\ watch' \in [Nodes -> [Deliveries -> WatchStates]]
    BY <1>2 DEF Restart, BridgeCrash, NodeTypeOK, WatchStates
  <2>5. \A e \in Deliveries : bridge'[e].st = "replied" => bridge[e].st = "replied"
    BY <1>2 DEF Restart, BridgeCrash
  <2> QED BY <2>3, <2>4, <2>5 DEF NodeTypeOK, Summary, NewReplies, NewResults
<1> QED BY <1>1, <1>2 DEF NodeStep

\* Every step keeps the nodes' types and is described by the summary.
LEMMA NextSummary ==
    ASSUME RequestTypeOK, NodeTypeOK, [Next]_vars
    PROVE  NodeTypeOK' /\ Summary
<1>1. ASSUME UNCHANGED nodeVars PROVE NodeTypeOK'
  BY <1>1 DEF nodeVars, NodeTypeOK
<1>2. CASE UNCHANGED vars
  BY <1>1, <1>2, SilentFacts DEF vars, requestVars, nodeVars
<1>3. ASSUME NEW tx \in Requests, SignTransaction(tx) PROVE NodeTypeOK' /\ Summary
  BY <1>1, <1>3, SilentFacts DEF SignTransaction, PublishMessage, nodeVars, resultVars
<1>4. CASE CommonStep
  BY <1>1, <1>4, CommonSummary DEF CommonStep
<1> QED
  BY <1>2, <1>3, <1>4, ForwardSummary, HandlerSummary, SessionSummary, NodeSummary DEF Next

-----------------------------------------------------------------------------
(***************************************************************************)
(* What any step may do to the event handlers, their sessions and the        *)
(* session managers.                                                         *)
(***************************************************************************)
SameCommittee(n, d) ==
    sess'[n][d].com = sess[n][d].com /\ sess'[n][d].got = sess[n][d].got

\* Nothing happens to the handler but messages of its committee coming in.
Keeps(n, d) ==
    /\ sess'[n][d].pc = sess[n][d].pc
    /\ sess'[n][d].com = sess[n][d].com
    /\ \A m \in sess'[n][d].got :
          m \in sess[n][d].got \/ <<d[1], m, sess[n][d].com>> \in sent'

\* It has no session, and its delivery was forwarded if it is not idle.
Leaves(n, d) ==
    /\ sess'[n][d].pc \in {"idle", "queued", "ended"}
    /\ sess'[n][d].pc # "idle" => (pc(n, d) # "idle" \/ Forwarded(d)')

\* It has no session and is verified.
Passes(n, d) ==
    /\ sess'[n][d].pc \in {"checked", "wedged"}
    /\ pc(n, d) # "idle"
    /\ Verified(n, d)

Creates(n, d) ==
    /\ pc(n, d) = "checked"
    /\ sess'[n][d].pc = "created"
    /\ sess'[n][d].com \subseteq Participants
    /\ ~(Cardinality(sess'[n][d].com) < Threshold + 1)
    /\ n \in sess'[n][d].com
    /\ sess'[n][d].got = {}

Listens(n, d) ==
    /\ pc(n, d) = "created"
    /\ sess'[n][d].pc = "listening"
    /\ SameCommittee(n, d)

Starts(n, d) ==
    /\ pc(n, d) = "listening"
    /\ sess'[n][d].pc = "signing"
    /\ SameCommittee(n, d)
    /\ <<d[1], n, sess[n][d].com>> \in sent'

Moves(n, d) ==
    Keeps(n, d) \/ Leaves(n, d) \/ Passes(n, d) \/ Creates(n, d) \/ Listens(n, d) \/ Starts(n, d)

\* A transaction comes into activeSessions, and its watcher starts, with the session
\* of a verified request.
ActiveNew ==
    \A n \in Nodes : \A tx \in active'[n] :
        tx \in active[n] \/ \E d \in Deliveries : d[1] = tx /\ pc(n, d) = "created"

\* What a step may do to a watcher whose handler has a session or is stuck with one.
Watched(n, d) == pc(n, d) \in {"listening", "signing", "wedged"}

WatcherMove(n, d) ==
    \/ sess'[n][d].pc \notin {"listening", "signing", "wedged"}
    \/ sess'[n][d].pc = "listening" /\ watch'[n][d] = "watching"
    \/ /\ Watched(n, d)
       /\ sess'[n][d].pc = "wedged" => pc(n, d) = "wedged" \/ watch[n][d] # "watching"
       /\ \/ watch'[n][d] = watch[n][d]
          \/ watch'[n][d] = "reporting"
          \/ watch'[n][d] = "none" /\ handleSessionError(d)

WatchNew(n, d) == watch'[n][d] = "none" \/ watch[n][d] # "none" \/ pc(n, d) = "created"

NodeMoves ==
    /\ \A n \in Nodes, d \in Deliveries : Moves(n, d) /\ WatchNew(n, d) /\ WatcherMove(n, d)
    /\ ActiveNew

\* A handler and a watcher to which nothing happens.
LEMMA SessionUnchanged ==
    ASSUME NEW n \in Nodes, NEW d \in Deliveries,
           sess'[n][d] = sess[n][d], watch'[n][d] = watch[n][d]
    PROVE  Moves(n, d) /\ WatchNew(n, d) /\ WatcherMove(n, d)
<1>1. Moves(n, d)
  BY DEF Moves, Keeps
<1>2. WatchNew(n, d)
  BY DEF WatchNew
<1>3. WatcherMove(n, d)
  BY DEF WatcherMove, Watched, pc
<1> QED BY <1>1, <1>2, <1>3

\* A step that leaves sessions and session managers alone.
LEMMA SessionsUnchanged ==
    ASSUME UNCHANGED <<sess, watch, active>>
    PROVE  NodeMoves
BY SessionUnchanged DEF NodeMoves, ActiveNew

\* The bridge handler queues the event at the nodes that hear of it.
LEMMA ForwardMoves ==
    ASSUME RequestTypeOK, NodeTypeOK, NEW d \in Deliveries, ForwardStep(d)
    PROVE  NodeMoves
<1>1. ASSUME NEW peers, NEW keyed, NEW heard \in SUBSET Nodes,
             PublishSigning(d, peers, keyed, heard)
      PROVE  NodeMoves
  <2>1. \A n \in Nodes, e \in Deliveries :
           sess'[n][e] = sess[n][e] \/ (e = d /\ sess'[n][e] = NoSession("queued"))
    BY <1>1 DEF PublishSigning, NodeTypeOK
  <2>2. NoSession("queued").pc = "queued"
    BY DEF NoSession
  <2>3. Forwarded(d)' /\ UNCHANGED <<active, watch>>
    BY <1>1 DEF PublishSigning, BridgePublish, Forwarded, RequestTypeOK, Bridge
  <2>4. ASSUME NEW n \in Nodes, NEW e \in Deliveries,
               e = d /\ sess'[n][e] = NoSession("queued")
        PROVE  Moves(n, e) /\ WatchNew(n, e) /\ WatcherMove(n, e)
    BY <2>2, <2>3, <2>4 DEF Moves, Leaves, WatchNew, WatcherMove
  <2>5. ASSUME NEW n \in Nodes, NEW e \in Deliveries
        PROVE  Moves(n, e) /\ WatchNew(n, e) /\ WatcherMove(n, e)
    BY <2>1, <2>3, <2>4, SessionUnchanged
  <2> QED BY <2>3, <2>5 DEF NodeMoves, ActiveNew
<1> QED BY <1>1, SessionsUnchanged DEF ForwardStep, RejectSigning, nodeVars

\* A step of one handler and its watcher that keeps the session manager.
LEMMA OneMove ==
    ASSUME NEW n \in Nodes, NEW d \in Deliveries,
           Moves(n, d), WatchNew(n, d), WatcherMove(n, d), UNCHANGED active,
           \A m \in Nodes, e \in Deliveries :
              (sess'[m][e] = sess[m][e] /\ watch'[m][e] = watch[m][e]) \/ (m = n /\ e = d)
    PROVE  NodeMoves
<1>1. ASSUME NEW m \in Nodes, NEW e \in Deliveries
      PROVE  Moves(m, e) /\ WatchNew(m, e) /\ WatcherMove(m, e)
  BY SessionUnchanged
<1> QED BY <1>1 DEF NodeMoves, ActiveNew

\* The moves of handlers that drop their session or have none; a watcher may take an
\* error or return with it.
LEMMA GotoMoves ==
    ASSUME NodeTypeOK, NEW n \in Nodes, NEW d \in Deliveries, NEW state \in HandlerStates,
           Goto(n, d, state), pc(n, d) # "idle", UNCHANGED active,
           \/ state = "ended"
           \/ state = "checked" /\ Verified(n, d)
           \/ state = "wedged" /\ Watched(n, d) /\ watch[n][d] # "watching" /\ UNCHANGED watch,
           WatchNew(n, d),
           \A m \in Nodes, e \in Deliveries : watch'[m][e] = watch[m][e] \/ (m = n /\ e = d)
    PROVE  NodeMoves
<1>1. NoSession(state).pc = state
  BY DEF NoSession
<1>2. /\ sess'[n][d].pc = state
      /\ \A m \in Nodes, e \in Deliveries : sess'[m][e] = sess[m][e] \/ (m = n /\ e = d)
  BY <1>1, GotoFacts
<1>3. Moves(n, d)
  BY <1>2 DEF Moves, Leaves, Passes, Verified, Watched
<1>4. WatcherMove(n, d)
  BY <1>2 DEF WatcherMove
<1> QED BY <1>2, <1>3, <1>4, OneMove

\* The same when the watcher is left alone.
LEMMA QuietMoves ==
    ASSUME NodeTypeOK, NEW n \in Nodes, NEW d \in Deliveries, NEW state \in {"ended", "checked"},
           Goto(n, d, state), pc(n, d) # "idle", UNCHANGED <<active, watch>>,
           Verified(n, d) \/ state = "ended"
    PROVE  NodeMoves
<1>1. WatchNew(n, d) /\ state \in HandlerStates
  BY DEF WatchNew, HandlerStates
<1> QED BY <1>1, GotoMoves

\* An event handler that has no running session moves on, leaves or creates one.
LEMMA HandlerMoves ==
    ASSUME NodeTypeOK, NEW n \in Nodes, NEW d \in Deliveries, HandlerStep(n, d)
    PROVE  NodeMoves
<1>1. ASSUME Abort(n, d), pc(n, d) # "idle" PROVE NodeMoves
  BY <1>1, QuietMoves DEF Abort, HandlerStates
<1>2. CASE DuplicateSession(n, d) \/ KeyInfoFails(n, d) \/ InitFails(n, d)
  BY <1>1, <1>2 DEF DuplicateSession, KeyInfoFails, InitFails
<1>3. ASSUME NEW peers, CreateNotEnough(n, d, peers) PROVE NodeMoves
  BY <1>1, <1>3 DEF CreateNotEnough
<1>4. CASE RejectInvalid(n, d)
  BY <1>4, QuietMoves DEF RejectInvalid, HandlerStates
<1>5. CASE PassDuplicateCheck(n, d)
  BY <1>5, QuietMoves DEF PassDuplicateCheck, HandlerStates, Verified
<1>6. ASSUME NEW peers, SkipNotParticipant(n, d, peers) PROVE NodeMoves
  BY <1>6, QuietMoves DEF SkipNotParticipant, HandlerStates
<1>7. ASSUME NEW peers \in ReadyViews(n), CreateSigningSession(n, d, peers) PROVE NodeMoves
  <2> DEFINE com == getReadyPeersForSession(peers)
             new == [NoSession("created") EXCEPT !.com = com]
  <2>1. new.pc = "created" /\ new.com = com /\ new.got = {}
    BY DEF NoSession
  <2>2. com \subseteq Participants /\ ~(Cardinality(com) < Threshold + 1) /\ n \in com
    BY <1>7 DEF CreateSigningSession, getReadyPeersForSession, NotEnoughPeers, ReadyViews
  <2>3. sess'[n][d] = new /\ \A m \in Nodes, e \in Deliveries :
                                 sess'[m][e] = sess[m][e] \/ (m = n /\ e = d)
    BY <1>7 DEF CreateSigningSession, NodeTypeOK
  <2> HIDE DEF com, new
  <2>4. Creates(n, d)
    BY <1>7, <2>1, <2>2, <2>3 DEF Creates, CreateSigningSession
  <2>5. WatcherMove(n, d) /\ WatchNew(n, d)
    BY <1>7, <2>4 DEF WatcherMove, WatchNew, Creates, CreateSigningSession
  <2> QED BY <1>7, <2>3, <2>4, <2>5, OneMove DEF CreateSigningSession, Moves
<1>8. CASE InitSession(n, d)
  <2>1. pc(n, d) = "created"
    BY <1>8 DEF InitSession
  <2>2. sess'[n][d] = [sess[n][d] EXCEPT !.pc = "listening"]
        /\ \A m \in Nodes, e \in Deliveries : sess'[m][e] = sess[m][e] \/ (m = n /\ e = d)
    BY <1>8 DEF InitSession, NodeTypeOK
  <2>3. sess'[n][d].pc = "listening" /\ SameCommittee(n, d)
    <3> DEFINE new == [sess[n][d] EXCEPT !.pc = "listening"]
    <3>1. new.pc = "listening" /\ new.com = sess[n][d].com /\ new.got = sess[n][d].got
      BY SessUpdates, Zenon
    <3> HIDE DEF new
    <3> QED BY <2>2, <3>1 DEF SameCommittee, new
  <2>4. active' = [active EXCEPT ![n] = @ \cup {d[1]}] /\ d[1] \in Requests
    BY <1>8, DeliveryTypes DEF InitSession
  <2>5. ActiveNew
    BY <2>1, <2>4 DEF ActiveNew, NodeTypeOK
  <2>6. /\ watch'[n][d] = "watching"
        /\ \A m \in Nodes, e \in Deliveries : watch'[m][e] = watch[m][e] \/ (m = n /\ e = d)
    BY <1>8, WatchFacts DEF InitSession, WatchStates
  <2>7. Moves(n, d) /\ WatchNew(n, d) /\ WatcherMove(n, d)
    BY <2>1, <2>3, <2>6 DEF Moves, Listens, WatchNew, WatcherMove
  <2>8. ASSUME NEW m \in Nodes, NEW e \in Deliveries
        PROVE  Moves(m, e) /\ WatchNew(m, e) /\ WatcherMove(m, e)
    BY <2>2, <2>6, <2>7, SessionUnchanged
  <2> QED BY <2>5, <2>8 DEF NodeMoves
<1>9. CASE StartSign(n, d)
  <2>1. UNCHANGED <<active, watch>> /\ pc(n, d) = "listening"
        /\ <<d[1], n, sess[n][d].com>> \in sent'
    BY <1>9 DEF StartSign
  <2>2. sess'[n][d] = [sess[n][d] EXCEPT !.pc = "signing"]
    BY <1>9 DEF StartSign
  <2>3. Starts(n, d)
    <3> DEFINE new == [sess[n][d] EXCEPT !.pc = "signing"]
    <3>1. new.pc = "signing" /\ new.com = sess[n][d].com /\ new.got = sess[n][d].got
      BY SessUpdates, Zenon
    <3> QED BY <2>1, <2>2, <3>1, Zenon DEF Starts, SameCommittee
  <2>4. ASSUME NEW m \in Nodes, NEW e \in Deliveries, ~(m = n /\ e = d)
        PROVE  \/ sess'[m][e] = sess[m][e]
               \/ /\ e[1] = d[1] /\ sess[m][e].com = sess[n][d].com
                  /\ sess'[m][e] = [sess[m][e] EXCEPT !.got = @ \cup {n}]
    BY <1>9, <2>4 DEF StartSign
  <2>5. ASSUME NEW m \in Nodes, NEW e \in Deliveries, ~(m = n /\ e = d)
        PROVE  Keeps(m, e) /\ sess'[m][e].pc = pc(m, e)
    <3>1. CASE sess'[m][e] = sess[m][e]
      BY <3>1 DEF Keeps, pc
    <3>2. CASE /\ e[1] = d[1] /\ sess[m][e].com = sess[n][d].com
               /\ sess'[m][e] = [sess[m][e] EXCEPT !.got = @ \cup {n}]
      <4>1. /\ sess'[m][e].pc = sess[m][e].pc /\ sess'[m][e].com = sess[m][e].com
            /\ sess'[m][e].got = sess[m][e].got \cup {n}
        <5>1. sess[m][e] \in Session
          BY DEF NodeTypeOK
        <5> QED BY <3>2, <5>1, GotUpdate, Zenon
      <4> QED BY <2>1, <3>2, <4>1 DEF Keeps, pc
    <3> QED BY <2>4, <2>5, <3>1, <3>2
  <2>6. ASSUME NEW m \in Nodes, NEW e \in Deliveries
        PROVE  Moves(m, e) /\ WatchNew(m, e) /\ WatcherMove(m, e)
    <3>1. WatchNew(m, e) /\ watch'[m][e] = watch[m][e]
      BY <2>1 DEF WatchNew
    <3>2. CASE m = n /\ e = d
      BY <2>1, <2>3, <3>1, <3>2 DEF Moves, Starts, WatcherMove, Watched
    <3>3. CASE ~(m = n /\ e = d)
      BY <2>5, <3>1, <3>3 DEF Moves, WatcherMove, Watched
    <3> QED BY <3>1, <3>2, <3>3
  <2> QED BY <2>1, <2>6 DEF NodeMoves, ActiveNew
<1> QED BY <1>2, <1>3, <1>4, <1>5, <1>6, <1>7, <1>8, <1>9 DEF HandlerStep

\* A running session keeps its committee until it ends.
LEMMA SessionMoves ==
    ASSUME NodeTypeOK, NEW n \in Nodes, NEW d \in Deliveries, SessionStep(n, d)
    PROVE  NodeMoves
<1>1. CASE SessionError(n, d)
  <2>1. /\ watch[n][d] = "watching" /\ watch'[n][d] \in {"watching", "reporting"}
        /\ \A m \in Nodes, e \in Deliveries : watch'[m][e] = watch[m][e] \/ (m = n /\ e = d)
        /\ UNCHANGED <<sess, active>> /\ pc(n, d) \in Listening
    BY <1>1, TakeFacts DEF SessionError
  <2>2. Moves(n, d) /\ WatchNew(n, d)
    BY <2>1 DEF Moves, Keeps, WatchNew
  <2>3. WatcherMove(n, d)
    BY <2>1 DEF WatcherMove, Watched, Listening, pc
  <2> QED BY <2>1, <2>2, <2>3, OneMove
<1>2. CASE SecondError(n, d)
  <2>1. pc(n, d) \in {"listening", "signing"} /\ UNCHANGED <<active, watch>>
        /\ watch[n][d] # "watching"
    BY <1>2 DEF SecondError, Listening
  <2>2. PICK state \in {"wedged", "ended"} : Goto(n, d, state)
    BY <1>2 DEF SecondError
  <2>3. state \in HandlerStates /\ Watched(n, d) /\ pc(n, d) # "idle" /\ WatchNew(n, d)
    BY <2>1, <2>2 DEF HandlerStates, Watched, WatchNew
  <2> QED BY <2>1, <2>2, <2>3, GotoMoves
<1>3. CASE ReportError(n, d)
  <2>1. /\ watch[n][d] = "reporting" /\ watch'[n][d] = "none"
        /\ \A m \in Nodes, e \in Deliveries : watch'[m][e] = watch[m][e] \/ (m = n /\ e = d)
        /\ UNCHANGED <<sess, active>> /\ handleSessionError(d)
    BY <1>3, WatchFacts DEF ReportError, WatchStates
  <2>2. Moves(n, d) /\ WatchNew(n, d)
    BY <2>1 DEF Moves, Keeps, WatchNew
  <2>3. WatcherMove(n, d)
    BY <2>1 DEF WatcherMove, Watched, pc
  <2> QED BY <2>1, <2>2, <2>3, OneMove
<1>4. CASE Sign(n, d) \/ SignFails(n, d) \/ SignRefused(n, d)
  <2>1. Goto(n, d, "ended") /\ UNCHANGED active /\ pc(n, d) = "signing"
    BY <1>4 DEF Sign, SignFails, SignRefused, SignatureReady
  <2>2. CASE Sign(n, d)
    <3>1. watch'[n][d] \in {"none", watch[n][d]}
          /\ \A m \in Nodes, e \in Deliveries : watch'[m][e] = watch[m][e] \/ (m = n /\ e = d)
      BY <2>2 DEF Sign, NodeTypeOK
    <3>2. WatchNew(n, d)
      BY <3>1 DEF WatchNew
    <3> QED BY <2>1, <3>1, <3>2, GotoMoves DEF HandlerStates
  <2>3. CASE SignFails(n, d) \/ SignRefused(n, d)
    <3>1. TakeError(n, d)
      BY <2>3 DEF SignFails, SignRefused
    <3>2. WatchNew(n, d)
          /\ \A m \in Nodes, e \in Deliveries : watch'[m][e] = watch[m][e] \/ (m = n /\ e = d)
      BY <3>1, TakeFacts DEF WatchNew
    <3> QED BY <2>1, <3>2, GotoMoves DEF HandlerStates
  <2> QED BY <1>4, <2>2, <2>3
<1> QED BY <1>1, <1>2, <1>3, <1>4 DEF SessionStep

\* Cleanup and a crash: only a crash ends handlers, and it ends all of its node's.
LEMMA NodeStepMoves ==
    ASSUME NodeTypeOK, NEW n \in Nodes, NodeStep(n)
    PROVE  NodeMoves
<1>1. ASSUME NEW tx \in Requests, cleanupStaleSessions(n, tx) PROVE NodeMoves
  <2>1. UNCHANGED <<sess, watch>> /\ active' = [active EXCEPT ![n] = @ \ {tx}]
    BY <1>1 DEF cleanupStaleSessions
  <2>2. ActiveNew
    BY <2>1 DEF ActiveNew, NodeTypeOK
  <2> QED BY <2>1, <2>2, SessionUnchanged DEF NodeMoves
<1>2. CASE Restart(n)
  <2>1. active' = [active EXCEPT ![n] = {}]
    BY <1>2 DEF Restart
  <2>2. \A e \in Deliveries :
           /\ sess'[n][e].pc \in {"idle", "ended"}
           /\ sess'[n][e].pc = "idle" <=> pc(n, e) = "idle"
           /\ watch'[n][e] = "none"
    BY <1>2 DEF Restart, NodeTypeOK, NoSession
  <2>3. \A m \in Nodes \ {n}, e \in Deliveries :
           sess'[m][e] = sess[m][e] /\ watch'[m][e] = watch[m][e]
    BY <1>2 DEF Restart, NodeTypeOK
  <2>4. ASSUME NEW e \in Deliveries
        PROVE  Moves(n, e) /\ WatchNew(n, e) /\ WatcherMove(n, e)
    BY <2>2 DEF Moves, Leaves, WatchNew, WatcherMove
  <2>5. ASSUME NEW m \in Nodes, NEW e \in Deliveries
        PROVE  Moves(m, e) /\ WatchNew(m, e) /\ WatcherMove(m, e)
    BY <2>3, <2>4, SessionUnchanged
  <2>6. ActiveNew
    BY <2>1 DEF ActiveNew, NodeTypeOK
  <2> QED BY <2>5, <2>6 DEF NodeMoves
<1> QED BY <1>1, <1>2 DEF NodeStep

\* Every step moves handlers and session managers in these ways.
LEMMA NextMoves ==
    ASSUME RequestTypeOK, NodeTypeOK, [Next]_vars
    PROVE  NodeMoves
<1>1. CASE UNCHANGED nodeVars
  BY <1>1, SessionsUnchanged DEF nodeVars
<1>2. UNCHANGED nodeVars \/ (\E d \in Deliveries : ForwardStep(d))
        \/ (\E n \in Nodes, d \in Deliveries : HandlerStep(n, d) \/ SessionStep(n, d))
        \/ (\E n \in Nodes : NodeStep(n))
  BY DEF Next, vars, SignTransaction, CommonStep
<1> QED
  BY <1>1, <1>2, ForwardMoves, HandlerMoves, SessionMoves, NodeStepMoves

-----------------------------------------------------------------------------
(***************************************************************************)
(* The inductive invariant: RequestStream's, and of the nodes                *)
(*  - Handled: nothing runs for a delivery that was not forwarded;           *)
(*  - Committees: what a session was created with, and whose messages it can *)
(*    have;                                                                  *)
(*  - ForgedUnverified: no handler passes the verification of an invalid     *)
(*    request;                                                               *)
(*  - WatchersReport: a watcher returns before its session's end only once it *)
(*    has reported an error, and no handler hangs while its watcher waits.   *)
(***************************************************************************)
CommitteeOK(n, d) ==
    pc(n, d) \in {"created", "listening", "signing"} =>
        /\ sess[n][d].com \subseteq Participants
        /\ ~(Cardinality(sess[n][d].com) < Threshold + 1)
        /\ n \in sess[n][d].com
        /\ \A m \in sess[n][d].got : <<d[1], m, sess[n][d].com>> \in sent
        /\ pc(n, d) = "signing" => <<d[1], n, sess[n][d].com>> \in sent

Committees == \A n \in Nodes, d \in Deliveries : CommitteeOK(n, d)

ForgedUnverified ==
    \A n \in Nodes, d \in Deliveries :
        d[1] \in forged => pc(n, d) \in {"idle", "queued", "ended"} /\ watch[n][d] = "none"

Reported(d) == (\E r \in results : r.key = d) \/ d[1] \in lost

WatchersReport ==
    \A n \in Nodes, d \in Deliveries :
        /\ Watched(n, d) /\ watch[n][d] = "none" => Reported(d)
        /\ pc(n, d) = "wedged" => watch[n][d] # "watching"

IInv ==
    /\ RequestInv
    /\ NodeTypeOK
    /\ forged \subseteq Requests
    /\ Handled
    /\ Committees
    /\ SuccessHasQuorum
    /\ ForgedUnverified
    /\ ForgedNeverHandled
    /\ WatchersReport

\* The initial state: no request, no delivery, no handler.
LEMMA InitInv == Init => IInv
<1> SUFFICES ASSUME Init PROVE IInv
  OBVIOUS
<1>1. NoSession("idle") \in Session /\ NoSession("idle").pc = "idle"
  BY DEF NoSession, Session, HandlerStates
<1>2. RequestInv
  BY RequestInitInv DEF Init
<1>3. NodeTypeOK /\ forged \subseteq Requests
  BY <1>1 DEF Init, NodeTypeOK, WatchStates
<1>4. \A n \in Nodes, d \in Deliveries : pc(n, d) = "idle" /\ watch[n][d] = "none"
  BY <1>1 DEF Init, pc
<1>5. Handled /\ Committees /\ ForgedUnverified /\ WatchersReport
  BY <1>4 DEF Handled, Committees, CommitteeOK, ForgedUnverified, WatchersReport, Watched
<1>6. SuccessHasQuorum /\ ForgedNeverHandled
  BY DEF Init, RequestInit, SuccessHasQuorum, ForgedNeverHandled
<1> QED BY <1>2, <1>3, <1>5, <1>6 DEF IInv

\* What every step does, for the lemmas below.
LEMMA StepFacts ==
    ASSUME IInv, [Next]_vars
    PROVE  RequestInv' /\ RequestMove /\ NodeTypeOK' /\ Summary /\ NodeMoves /\ forged' = forged
<1>1. RequestInv' /\ RequestMove
  BY StepImplements, RequestStepInv DEF IInv
<1>2. RequestTypeOK /\ NodeTypeOK
  BY DEF IInv, RequestInv
<1>3. forged' = forged
  BY DEF Next, vars
<1> QED BY <1>1, <1>2, <1>3, NextSummary, NextMoves

\* A session keeps the committee it was created with, and takes the messages of
\* parties that have the same one.
LEMMA CommitteeStep ==
    ASSUME IInv, [Next]_vars
    PROVE  Committees'
<1> SUFFICES ASSUME NEW n \in Nodes, NEW d \in Deliveries PROVE CommitteeOK(n, d)'
  BY DEF Committees
<1>1. Moves(n, d) /\ sent \subseteq sent' /\ CommitteeOK(n, d)
  BY StepFacts DEF IInv, NodeMoves, Summary, Committees
<1>2. CASE Keeps(n, d)
  BY <1>1, <1>2 DEF Keeps, CommitteeOK, pc
<1>3. CASE Leaves(n, d) \/ Passes(n, d)
  BY <1>3 DEF Leaves, Passes, CommitteeOK, pc
<1>4. CASE Creates(n, d)
  BY <1>4 DEF Creates, CommitteeOK, pc
<1>5. CASE Listens(n, d) \/ Starts(n, d)
  BY <1>1, <1>5 DEF Listens, Starts, SameCommittee, CommitteeOK, pc
<1> QED BY <1>1, <1>2, <1>3, <1>4, <1>5 DEF Moves

\* A signature comes out of a session that has the messages of its whole committee.
LEMMA QuorumStep ==
    ASSUME IInv, [Next]_vars
    PROVE  SuccessHasQuorum'
<1>1. Summary
  BY StepFacts
<1>2. ASSUME NEW n \in Nodes, NEW d \in Deliveries, SignatureReady(n, d)
      PROVE  \E C \in SUBSET Participants :
                /\ Cardinality(C) >= Threshold + 1
                /\ n \in C
                /\ \A m \in C : <<d[1], m, C>> \in sent
  <2> DEFINE C == sess[n][d].com
  <2>1. /\ C \subseteq Participants
        /\ ~(Cardinality(C) < Threshold + 1)
        /\ n \in C
        /\ \A m \in sess[n][d].got : <<d[1], m, C>> \in sent
        /\ <<d[1], n, C>> \in sent
    BY <1>2 DEF IInv, Committees, CommitteeOK, SignatureReady
  <2>2. IsFiniteSet(C)
    BY <2>1, FS_Subset, FlowAssumption, RequestAssumption
  <2>3. Cardinality(C) \in Nat
    BY <2>2, FS_CardinalityType
  <2>4. Cardinality(C) >= Threshold + 1
    BY <2>1, <2>3, FlowAssumption
  <2>5. \A m \in C : <<d[1], m, C>> \in sent
    BY <1>2, <2>1 DEF SignatureReady
  <2> QED BY <2>1, <2>4, <2>5
<1>3. ASSUME NEW r \in results', r.ok
      PROVE  \E C \in SUBSET Participants :
                /\ Cardinality(C) >= Threshold + 1
                /\ \A m \in C : <<r.key[1], m, C>> \in sent
  <2>1. CASE r \in results
    BY <1>3, <2>1 DEF IInv, SuccessHasQuorum
  <2>2. CASE r \notin results
    <3>1. PICK n \in Nodes, d \in Deliveries :
             SignatureReady(n, d) /\ r = [key |-> d, ok |-> TRUE]
      BY <1>1, <1>3, <2>2 DEF Summary, NewResults
    <3>2. r.key = d
      BY <3>1
    <3> QED BY <1>2, <3>1, <3>2
  <2> QED BY <2>1, <2>2
<1>4. sent \subseteq sent'
  BY <1>1 DEF Summary
<1> QED BY <1>3, <1>4 DEF SuccessHasQuorum

\* An invalid request is never verified, so no session answers or replies for it.
LEMMA ForgedStep ==
    ASSUME IInv, [Next]_vars
    PROVE  ForgedUnverified' /\ ForgedNeverHandled'
<1>1. Summary /\ NodeMoves /\ forged' = forged
  BY StepFacts
<1>2. ASSUME NEW n \in Nodes, NEW d \in Deliveries, d[1] \in forged
      PROVE  pc(n, d)' \in {"idle", "queued", "ended"} /\ watch'[n][d] = "none"
  BY <1>1, <1>2 DEF IInv, ForgedUnverified, NodeMoves, Moves, Keeps, Leaves, Passes, Creates,
                    Listens, Starts, Verified, WatchNew, pc
<1>3. ASSUME NEW d \in Deliveries, d[1] \in forged
      PROVE  \A n \in Nodes : ~Verified(n, d) /\ ~SignatureReady(n, d)
  BY <1>3 DEF IInv, ForgedUnverified, Verified, SignatureReady
<1>4. ASSUME NEW d \in Deliveries, d[1] \in forged PROVE bridge'[d].st # "replied"
  BY <1>1, <1>3, <1>4 DEF IInv, ForgedNeverHandled, Summary, NewReplies
<1>5. ASSUME NEW d \in Deliveries, d[1] \in forged, NEW r \in results' PROVE r.key # d
  <2>1. CASE r \in results
    BY <1>5, <2>1 DEF IInv, ForgedNeverHandled
  <2>2. ASSUME NEW n \in Nodes, NEW e \in Deliveries, SignatureReady(n, e),
               r = [key |-> e, ok |-> TRUE]
        PROVE  r.key # d
    <3>1. r.key = e
      BY <2>2
    <3> QED BY <1>3, <1>5, <2>2, <3>1
  <2>3. CASE r \notin results
    BY <1>1, <1>3, <1>5, <2>2, <2>3 DEF Summary, NewResults
  <2> QED BY <2>1, <2>3
<1>6. ASSUME NEW d \in Deliveries, d[1] \in forged, NEW n \in Nodes
      PROVE  d[1] \notin active'[n]
  <2>1. d[1] \notin active[n]
    BY <1>6 DEF IInv, ForgedNeverHandled
  <2>2. \A e \in Deliveries : e[1] = d[1] => pc(n, e) # "created"
    BY <1>6 DEF IInv, ForgedUnverified
  <2> QED BY <1>1, <2>1, <2>2 DEF NodeMoves, ActiveNew
<1>7. ForgedUnverified'
  BY <1>1, <1>2 DEF ForgedUnverified
<1>8. ForgedNeverHandled'
  BY <1>1, <1>4, <1>5, <1>6 DEF ForgedNeverHandled
<1> QED BY <1>7, <1>8

\* Only forwarded deliveries are handled.
LEMMA HandledStep ==
    ASSUME IInv, [Next]_vars
    PROVE  Handled'
<1>1. NodeMoves /\ RequestMove
  BY StepFacts
<1>2. ASSUME NEW n \in Nodes, NEW d \in Deliveries, pc(n, d)' # "idle" \/ watch'[n][d] # "none"
      PROVE  Forwarded(d)'
  <2>1. Moves(n, d) /\ WatchNew(n, d)
    BY <1>1 DEF NodeMoves
  <2>2. pc(n, d) # "idle" \/ watch[n][d] # "none" \/ Forwarded(d)'
    BY <1>2, <2>1 DEF Moves, Keeps, Leaves, Passes, Creates, Listens, Starts, WatchNew, pc
  <2> QED BY <1>1, <2>2 DEF IInv, Handled, RequestMove, BridgeMove
<1> QED BY <1>2 DEF Handled

\* A watcher that returns leaves a result or a refusal, which stay.
LEMMA WatcherStep ==
    ASSUME IInv, [Next]_vars
    PROVE  WatchersReport'
<1>1. RequestTypeOK /\ RequestMove /\ NodeMoves
  BY StepFacts DEF IInv, RequestInv
<1>2. ASSUME NEW n \in Nodes, NEW d \in Deliveries
      PROVE  /\ Watched(n, d)' /\ watch'[n][d] = "none" => Reported(d)'
             /\ pc(n, d)' = "wedged" => watch'[n][d] # "watching"
  <2>1. /\ WatcherMove(n, d)
        /\ Watched(n, d) /\ watch[n][d] = "none" => Reported(d)
        /\ pc(n, d) = "wedged" => watch[n][d] # "watching"
    BY <1>1 DEF IInv, WatchersReport, NodeMoves
  <2>2. Reported(d) => Reported(d)'
    BY <1>1 DEF Reported, RequestMove, AnswersMove
  <2>3. ASSUME handleSessionError(d) PROVE Reported(d)'
    <3>1. d \in Keys /\ Enqueue(d, FALSE)
      BY <2>3, DeliveryTypes DEF handleSessionError, composeIdempotentKey
    <3> QED BY <1>1, <3>1, EnqueueFacts DEF Reported
  <2> QED BY <2>1, <2>2, <2>3 DEF WatcherMove, Watched, pc
<1> QED BY <1>2 DEF WatchersReport

\* The invariant holds in every reachable state.
LEMMA Invariance == Spec => []IInv
<1>1. ASSUME IInv, [Next]_vars PROVE IInv'
  BY <1>1, StepFacts, CommitteeStep, QuorumStep, ForgedStep, HandledStep, WatcherStep DEF IInv
<1> QED BY <1>1, InitInv, PTL DEF Spec

-----------------------------------------------------------------------------
\* Every variable keeps its type: deliveries stay within MaxDeliver, sessions are
\* registered under transaction ids, results carry one of the three kinds of key.
THEOREM TypeCorrect == Spec => []TypeOK
<1>1. IInv => TypeOK
  BY DEF IInv, RequestInv, TypeOK
<1> QED BY <1>1, Invariance, PTL

\* SigningFlow implements RequestStream: whatever handlers, sessions and crashes do,
\* a signing request sees the stream, the bridge and answers, so that what is true
\* of every request is true of it.
THEOREM Implements == Spec => RequestSpec
<1>1. Init => RequestInit
  BY DEF Init
<1>2. IInv /\ [Next]_vars => [RequestNext]_requestVars
  BY StepImplements DEF IInv
<1> QED BY <1>1, <1>2, Invariance, PTL DEF Spec, RequestSpec

\* So an acked signing request has a result or a refused one, and a reply in an inbox
\* is about a result of that delivery.
THEOREM SigningAnswers == Spec => [](AckAnswered /\ ReplyHasResult)
BY Implements, RequestAnswers, PTL

\* Every signature comes from at least threshold + 1 participants that agreed on
\* the committee.
THEOREM SuccessNeedsQuorum == Spec => []SuccessHasQuorum
<1>1. IInv => SuccessHasQuorum
  BY DEF IInv
<1> QED BY <1>1, Invariance, PTL

\* No session ever answers, replies to or is registered for a request whose
\* initiator signature does not verify.
THEOREM ForgeriesUnhandled == Spec => []ForgedNeverHandled
<1>1. IInv => ForgedNeverHandled
  BY DEF IInv
<1> QED BY <1>1, Invariance, PTL

\* A handler that hangs for ever on its session's ErrCh, holding a slot of the
\* semaphore, has left a result of its delivery in the queue, or a refused one, unless
\* the watcher that took the first error has yet to report it.
THEOREM WedgedHandlersReported == Spec => []WedgedIsReported
<1>1. IInv => WedgedIsReported
  BY DEF IInv, NodeTypeOK, WatchStates, WatchersReport, Watched, Reported, WedgedIsReported
<1> QED BY <1>1, Invariance, PTL
=============================================================================
