--------------------------- MODULE RequestStream ---------------------------
(***************************************************************************)
(* What signing, key generation and resharing requests have in common: the  *)
(* JetStream work stream with its redeliveries, the handler of each node    *)
(* that forwards a delivery as an MPC event and waits for a reply (the       *)
(* "bridge"), the deduplicated result queue and the consumer of the          *)
(* MAX_DELIVERIES advisory.                                                 *)
(*                                                                         *)
(* A delivery <<q, k>> is the k-th time JetStream hands request q to a       *)
(* node.  Each delivery that is forwarded gets a fresh reply inbox and a     *)
(* fresh SessionID, so a delivery identifies both.                           *)
(*                                                                         *)
(* RequestSpec leaves the nodes that hear the event abstract: they may       *)
(* answer any delivery, but a reply goes with a result.  The flow modules    *)
(* say what the nodes do, and implement RequestSpec.                         *)
(***************************************************************************)
EXTENDS Naturals, FiniteSets

CONSTANTS
    Nodes,       \* the MPC nodes
    NoNode,      \* not a node
    Requests,    \* the requests an initiator submits, by transaction or wallet id
    MaxDeliver,  \* the stream consumer's MaxDeliver
    MaxRestarts, \* bound: node crashes
    MaxRefusals  \* bound: results the result queue refuses

ASSUME RequestAssumption ==
    /\ IsFiniteSet(Nodes)
    /\ NoNode \notin Nodes
    /\ MaxDeliver \in Nat \ {0}
    /\ MaxRestarts \in Nat
    /\ MaxRefusals \in Nat

VARIABLES
    stream,    \* request -> its state in the JetStream consumer
    delivered, \* request -> how often it was handed out
    bridge,    \* delivery -> the bridge handler serving it
    results,   \* what the result queue accepted
    lost,      \* requests one of whose results the queue refused
    budget     \* what is left of the two bounds

requestVars == <<stream, delivered, bridge, results, lost, budget>>
resultVars == <<results, lost, budget>>

Deliveries == Requests \X (1..MaxDeliver)

StreamStates == {"none", "pending", "inflight", "acked", "exhausted", "expired"}

\* A bridge handler: its message waits in the client's buffer; it waits for a
\* reply; the reply is in its inbox; it has returned.
BridgeStates == {"none", "buffered", "waiting", "replied", "ended"}
Bridge == [st : BridgeStates, node : Nodes \cup {NoNode}]

Keys == Requests \X (0..(MaxDeliver + 1))
Result == [key : Keys, ok : BOOLEAN]

Budget == [restart : 0..MaxRestarts, refusal : 0..MaxRefusals]

RequestTypeOK ==
    /\ stream \in [Requests -> StreamStates]
    /\ delivered \in [Requests -> 0..MaxDeliver]
    /\ bridge \in [Deliveries -> Bridge]
    /\ results \subseteq Result
    /\ lost \subseteq Requests
    /\ budget \in Budget

RequestInit ==
    /\ stream = [q \in Requests |-> "none"]
    /\ delivered = [q \in Requests |-> 0]
    /\ bridge = [d \in Deliveries |-> [st |-> "none", node |-> NoNode]]
    /\ results = {}
    /\ lost = {}
    /\ budget = [restart |-> MaxRestarts, refusal |-> MaxRefusals]

-----------------------------------------------------------------------------
(***************************************************************************)
(* The result queue and replies.                                           *)
(***************************************************************************)
\* Idempotent keys of the three kinds of result of a request: the bridge's own
\* errors carry the bare id (the stream message has no SessionID header), a
\* session's result id:SessionID, the timeout consumer's the raw id.
buildIdempotentKey(q) == <<q, 0>>
composeIdempotentKey(d) == d
timeoutIdempotentKey(q) == <<q, MaxDeliver + 1>>

\* Nats-Msg-Id: the stream keeps the first message of a key and drops the rest.
Accepted(key, ok) ==
    IF \E r \in results : r.key = key THEN results
    ELSE results \cup {[key |-> key, ok |-> ok]}

Refused(q) ==
    /\ budget.refusal > 0
    /\ budget' = [budget EXCEPT !.refusal = @ - 1]
    /\ lost' = lost \cup {q}

\* messageQueue.Enqueue: the queue accepts, or an error comes back.
Enqueue(key, ok) ==
    \/ /\ results' = Accepted(key, ok)
       /\ UNCHANGED <<lost, budget>>
    \/ /\ Refused(key[1])
       /\ UNCHANGED results

\* sendReplyToRemoveMsg: a core NATS publish to the inbox, which the bridge
\* handler subscribes to only while it waits.  A failed publish is logged.
sendReplyToRemoveMsg(d) ==
    \/ /\ bridge[d].st = "waiting"
       /\ bridge' = [bridge EXCEPT ![d].st = "replied"]
    \/ UNCHANGED bridge

\* Fault: the error is reported to the bridge but never enqueued.
ReplyWithoutResult(d) ==
    /\ sendReplyToRemoveMsg(d)
    /\ UNCHANGED resultVars

\* handleSigningSessionError and its like: enqueue an error result, reply whatever
\* came of it.
handleSessionError(d) ==
    /\ Enqueue(composeIdempotentKey(d), FALSE)
    /\ sendReplyToRemoveMsg(d)

-----------------------------------------------------------------------------
(***************************************************************************)
(* The JetStream work stream and the timeout consumer.                     *)
(***************************************************************************)
\* jetStreamBroker.PublishMessage
PublishMessage(q) ==
    /\ stream[q] = "none"
    /\ stream' = [stream EXCEPT ![q] = "pending"]
    /\ UNCHANGED <<delivered, bridge, resultVars>>

\* The durable consumer, shared by all nodes, hands a pending request to one.
Deliver(n, q) ==
    /\ stream[q] = "pending"
    /\ delivered[q] < MaxDeliver
    /\ stream' = [stream EXCEPT ![q] = "inflight"]
    /\ delivered' = [delivered EXCEPT ![q] = @ + 1]
    /\ bridge' = [bridge EXCEPT ![<<q, delivered[q] + 1>>] = [st |-> "buffered", node |-> n]]
    /\ UNCHANGED resultVars

\* AckWait runs out: it starts when the server sends the message, so it can run
\* out while the message waits in a client's buffer or its handler still runs.
AckWaitExpires(q) ==
    /\ stream[q] = "inflight"
    /\ stream' = [stream EXCEPT ![q] = "pending"]
    /\ UNCHANGED <<delivered, bridge, resultVars>>

\* A redelivery beyond MaxDeliver becomes an advisory instead.
MaxDeliveries(q) ==
    /\ stream[q] = "pending"
    /\ delivered[q] = MaxDeliver
    /\ stream' = [stream EXCEPT ![q] = "exhausted"]
    /\ UNCHANGED <<delivered, bridge, resultVars>>

\* The stream's MaxAge drops the request, delivered or not.
Expire(q) ==
    /\ stream[q] \in {"pending", "inflight", "exhausted"}
    /\ stream' = [stream EXCEPT ![q] = "expired"]
    /\ UNCHANGED <<delivered, bridge, resultVars>>

\* Fault: no handler is registered for the stream of the advisory.
AdvisoryIgnored(q) ==
    /\ stream[q] = "exhausted"
    /\ UNCHANGED requestVars

\* timeOutConsumer.handleDeadlineExceeded: each node that hears the advisory
\* fetches the request from the stream, unless it has expired there, and enqueues
\* a timeout result; the queue keeps the first of these.
handleDeadlineExceeded(q) ==
    /\ stream[q] = "exhausted"
    /\ Enqueue(timeoutIdempotentKey(q), FALSE)
    /\ UNCHANGED <<stream, delivered, bridge>>

\* Acks and naks name the stream sequence, so those of an old delivery count too.
Ack(q) ==
    stream' = IF stream[q] \in {"pending", "inflight"}
              THEN [stream EXCEPT ![q] = "acked"] ELSE stream

Nak(q) ==
    stream' = IF stream[q] = "inflight"
              THEN [stream EXCEPT ![q] = "pending"] ELSE stream

-----------------------------------------------------------------------------
(***************************************************************************)
(* The bridge: handleSigningEvent, handleKeygenEvent and                    *)
(* handleResharingEvent of the stream consumers.  Consume calls a handler    *)
(* for one message of a node after the other.                               *)
(***************************************************************************)
CallbackFree(n) ==
    \A d \in Deliveries : bridge[d].node = n => bridge[d].st \notin {"waiting", "replied"}

BridgeEnds(d) == bridge' = [bridge EXCEPT ![d] = [st |-> "ended", node |-> NoNode]]

\* The handler starts on d.
BridgeRuns(d) == bridge[d].st = "buffered" /\ CallbackFree(bridge[d].node)

\* The peers are not ready: an error result under the bare id, and an ack.
BridgeReject(d) ==
    /\ BridgeRuns(d)
    /\ Enqueue(buildIdempotentKey(d[1]), FALSE)
    /\ Ack(d[1])
    /\ BridgeEnds(d)
    /\ UNCHANGED delivered

\* The MPC event is published, once, with the inbox and the SessionID.
BridgePublish(d) ==
    /\ BridgeRuns(d)
    /\ bridge' = [bridge EXCEPT ![d].st = "waiting"]
    /\ UNCHANGED <<stream, delivered, resultVars>>

\* The inbox subscription or the publish failed.
BridgePublishFails(d) ==
    /\ BridgeRuns(d)
    /\ Nak(d[1])
    /\ BridgeEnds(d)
    /\ UNCHANGED <<delivered, resultVars>>

BridgeReply(d) ==
    /\ bridge[d].st = "replied"
    /\ Ack(d[1])
    /\ BridgeEnds(d)
    /\ UNCHANGED <<delivered, resultVars>>

\* Fault: a timeout acks the request.
TimeoutAcks(d) ==
    /\ bridge[d].st \in {"waiting", "replied"}
    /\ Ack(d[1])
    /\ BridgeEnds(d)
    /\ UNCHANGED <<delivered, resultVars>>

\* The response timeout is over, which is checked before the inbox is read, or
\* reading it failed.
BridgeTimeout(d) ==
    /\ bridge[d].st \in {"waiting", "replied"}
    /\ Nak(d[1])
    /\ BridgeEnds(d)
    /\ UNCHANGED <<delivered, resultVars>>

\* The process of n ends, and its bridge handlers with it.
BridgeCrash(n) ==
    /\ budget.restart > 0
    /\ budget' = [budget EXCEPT !.restart = @ - 1]
    /\ bridge' = [d \in Deliveries |->
                    IF bridge[d].node = n THEN [st |-> "ended", node |-> NoNode]
                    ELSE bridge[d]]
    /\ UNCHANGED <<stream, delivered, results, lost>>

-----------------------------------------------------------------------------
(***************************************************************************)
(* What the nodes that hear of a delivery may do, as far as a request can    *)
(* tell.                                                                    *)
(***************************************************************************)
\* The MPC event of d may have reached nodes.
Forwarded(d) == bridge[d].st \notin {"none", "buffered"}

\* Fault: the inbox is told of an answer that nobody enqueues.
AnswerWithoutResult(d, ok) ==
    /\ Forwarded(d)
    /\ ReplyWithoutResult(d)
    /\ UNCHANGED <<stream, delivered>>

\* A result is enqueued and the inbox is told, even if the queue refused.
Answer(d, ok) ==
    /\ Forwarded(d)
    /\ Enqueue(composeIdempotentKey(d), ok)
    /\ sendReplyToRemoveMsg(d)
    /\ UNCHANGED <<stream, delivered>>

\* The queue refuses a result; this error is answered like any other, or nobody
\* is left to answer it.
AnswerRefused(d) ==
    /\ Forwarded(d)
    /\ Refused(d[1])
    /\ \/ UNCHANGED <<results, bridge>>
       \/ /\ results' \in {results, Accepted(composeIdempotentKey(d), FALSE)}
          /\ sendReplyToRemoveMsg(d)
    /\ UNCHANGED <<stream, delivered>>

-----------------------------------------------------------------------------
StreamStep(q) ==
    \/ \E n \in Nodes : Deliver(n, q)
    \/ AckWaitExpires(q)
    \/ MaxDeliveries(q)
    \/ Expire(q)

BridgeStep(d) ==
    \/ BridgePublishFails(d)
    \/ BridgeReply(d)
    \/ BridgeTimeout(d)

RequestNext ==
    \/ \E q \in Requests :
          PublishMessage(q) \/ StreamStep(q) \/ handleDeadlineExceeded(q)
    \/ \E d \in Deliveries :
          \/ BridgeReject(d)
          \/ BridgePublish(d)
          \/ BridgeStep(d)
          \/ \E ok \in BOOLEAN : Answer(d, ok)
          \/ AnswerRefused(d)
    \/ \E n \in Nodes : BridgeCrash(n)

RequestSpec == RequestInit /\ [][RequestNext]_requestVars

(***************************************************************************)
(* JetStream keeps delivering, its timers run, and some node hears the       *)
(* advisory and runs its callback.  Nothing is assumed of peers, of the      *)
(* handlers, of the protocols or of replies.                                *)
(***************************************************************************)
RequestFairness ==
    \A q \in Requests :
        /\ WF_requestVars(\E n \in Nodes : Deliver(n, q))
        /\ WF_requestVars(AckWaitExpires(q))
        /\ WF_requestVars(MaxDeliveries(q))
        /\ WF_requestVars(handleDeadlineExceeded(q))

RequestFairSpec == RequestSpec /\ RequestFairness

-----------------------------------------------------------------------------
(***************************************************************************)
(* Properties.                                                             *)
(***************************************************************************)
Answered(q) == \E r \in results : r.key[1] = q

\* The bridge acks a request, so that it is never delivered again, only after
\* some node has put a result for it in the result queue, unless the queue
\* itself refused a result of this request (the error handlers of bridge and
\* event consumer only log that).
AckAnswered ==
    \A q \in Requests : stream[q] = "acked" => Answered(q) \/ q \in lost

\* A reply in a delivery's inbox is about a result that carries this delivery's
\* own SessionID: a late session of an earlier delivery never acks a later one.
ReplyHasResult ==
    \A d \in Deliveries : bridge[d].st = "replied" =>
        (\E r \in results : r.key = d) \/ d[1] \in lost

\* Every submitted request ends with a result for its initiator, unless the
\* stream dropped it by age or the queue refused its result.
RequestSettles ==
    \A q \in Requests :
        stream[q] = "pending" ~> (Answered(q) \/ q \in lost \/ stream[q] = "expired")
=============================================================================
