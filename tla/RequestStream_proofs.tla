------------------------ MODULE RequestStream_proofs ------------------------
(***************************************************************************)
(* Proofs about module RequestStream, for any set of requests and nodes, any *)
(* MaxDeliver and any number of crashes and refused results.                 *)
(***************************************************************************)
EXTENDS RequestStream, TLAPS

-----------------------------------------------------------------------------
\* A delivery names its request and is a key of the result queue.
LEMMA DeliveryTypes ==
    ASSUME NEW d \in Deliveries
    PROVE  /\ d[1] \in Requests
           /\ d[2] \in 1..MaxDeliver
           /\ d = <<d[1], d[2]>>
           /\ d \in Keys
<1>1. PICK q \in Requests, k \in 1..MaxDeliver : d = <<q, k>>
  BY DEF Deliveries
<1>2. k \in 0..(MaxDeliver + 1)
  BY RequestAssumption
<1> QED BY <1>1, <1>2 DEF Keys

\* The keys of bridge and timeout consumer are no deliveries.
LEMMA KeyTypes ==
    ASSUME NEW q \in Requests
    PROVE  /\ buildIdempotentKey(q) \in Keys \ Deliveries
           /\ timeoutIdempotentKey(q) \in Keys \ Deliveries
           /\ buildIdempotentKey(q)[1] = q
           /\ timeoutIdempotentKey(q)[1] = q
BY RequestAssumption DEF buildIdempotentKey, timeoutIdempotentKey, Keys, Deliveries

\* The queue takes a result for the key or has one already, and forgets none.
LEMMA AcceptedFacts ==
    ASSUME RequestTypeOK, NEW key \in Keys, NEW ok \in BOOLEAN
    PROVE  /\ Accepted(key, ok) \subseteq Result
           /\ results \subseteq Accepted(key, ok)
           /\ \E r \in Accepted(key, ok) : r.key = key
           /\ \A r \in Accepted(key, ok) : r \in results \/ r = [key |-> key, ok |-> ok]
<1>1. [key |-> key, ok |-> ok] \in Result
  BY DEF Result
<1>2. CASE \E r \in results : r.key = key
  BY <1>2 DEF Accepted, RequestTypeOK
<1>3. CASE ~ \E r \in results : r.key = key
  <2>1. Accepted(key, ok) = results \cup {[key |-> key, ok |-> ok]}
    BY <1>3 DEF Accepted
  <2>2. [key |-> key, ok |-> ok].key = key
    OBVIOUS
  <2> QED BY <1>1, <2>1, <2>2 DEF RequestTypeOK
<1> QED BY <1>2, <1>3

\* A refusal is counted and remembered.
LEMMA RefusedFacts ==
    ASSUME RequestTypeOK, NEW q \in Requests, Refused(q)
    PROVE  budget' \in Budget /\ lost' \subseteq Requests /\ lost \subseteq lost' /\ q \in lost'
<1>1. budget \in Budget /\ budget.refusal > 0 /\ budget' = [budget EXCEPT !.refusal = @ - 1]
  BY DEF Refused, RequestTypeOK
<1>2. budget' \in Budget
  BY <1>1, RequestAssumption DEF Budget
<1> QED BY <1>2 DEF Refused, RequestTypeOK

\* Enqueue leaves a result for the key or marks the request as lost.
LEMMA EnqueueFacts ==
    ASSUME RequestTypeOK, NEW key \in Keys, NEW ok \in BOOLEAN, Enqueue(key, ok)
    PROVE  /\ results' \subseteq Result /\ lost' \subseteq Requests /\ budget' \in Budget
           /\ results \subseteq results' /\ lost \subseteq lost'
           /\ (\E r \in results' : r.key = key) \/ key[1] \in lost'
           /\ \A r \in results' : r \in results \/ r = [key |-> key, ok |-> ok]
<1>1. CASE results' = Accepted(key, ok) /\ UNCHANGED <<lost, budget>>
  BY <1>1, AcceptedFacts DEF RequestTypeOK
<1>2. CASE Refused(key[1]) /\ UNCHANGED results
  <2>1. key[1] \in Requests
    BY DEF Keys
  <2> QED BY <1>2, <2>1, RefusedFacts DEF RequestTypeOK
<1> QED BY <1>1, <1>2 DEF Enqueue

\* A reply changes one inbox, from waiting to replied.
LEMMA ReplyFacts ==
    ASSUME RequestTypeOK, NEW d \in Deliveries, sendReplyToRemoveMsg(d)
    PROVE  /\ bridge' \in [Deliveries -> Bridge]
           /\ \A e \in Deliveries :
                 \/ bridge'[e] = bridge[e]
                 \/ e = d /\ bridge[e].st = "waiting" /\ bridge'[e].st = "replied"
BY DEF RequestTypeOK, sendReplyToRemoveMsg, Bridge, BridgeStates

\* The end of a bridge handler changes one bridge and keeps the others.
LEMMA EndFacts ==
    ASSUME RequestTypeOK, NEW d \in Deliveries, BridgeEnds(d)
    PROVE  /\ bridge' \in [Deliveries -> Bridge]
           /\ \A e \in Deliveries : bridge'[e] = bridge[e] \/ (e = d /\ bridge'[e].st = "ended")
BY DEF RequestTypeOK, BridgeEnds, Bridge, BridgeStates

-----------------------------------------------------------------------------
(***************************************************************************)
(* What any step may do to requests, replies, acks and results.              *)
(***************************************************************************)
\* Delivery d has not been made.
Unused(d) == bridge[d] = [st |-> "none", node |-> NoNode]

\* Results stay; a new reply goes with a result of its delivery, or a refused one.
AnswersMove ==
    /\ results \subseteq results' /\ lost \subseteq lost'
    /\ \A d \in Deliveries : bridge'[d].st = "replied" =>
          \/ bridge[d].st = "replied"
          \/ \E r \in results' : r.key = d
          \/ d[1] \in lost'

\* A request is submitted once, does not come back into the stream, and is acked
\* with an answer.
StreamMove ==
    \A q \in Requests :
        /\ stream'[q] = "none" => stream[q] = "none" /\ delivered'[q] = delivered[q]
        /\ stream'[q] \in {"pending", "inflight"} =>
              stream[q] \in {"none", "pending", "inflight"}
        /\ stream'[q] = "acked" =>
              \/ stream[q] = "acked"
              \/ Answered(q)'
              \/ q \in lost'
              \/ \E d \in Deliveries : d[1] = q /\ bridge[d].st = "replied"

\* A bridge is handed one delivery after the other, each once.
BridgeMove ==
    \A d \in Deliveries :
        /\ delivered[d[1]] <= delivered'[d[1]]
        /\ Unused(d) => Unused(d)' \/ d[2] <= delivered'[d[1]]
        /\ Forwarded(d) => Forwarded(d)'

RequestMove == AnswersMove /\ StreamMove /\ BridgeMove

\* Deliveries are made in order, and none before the request is submitted.
Fresh ==
    /\ \A q \in Requests : stream[q] = "none" => delivered[q] = 0
    /\ \A d \in Deliveries : delivered[d[1]] < d[2] => Unused(d)

\* PublishMessage, the timers and the timeout consumer: no bridge moves.
LEMMA TimerMoves ==
    ASSUME RequestTypeOK, NEW q \in Requests,
           PublishMessage(q) \/ AckWaitExpires(q) \/ MaxDeliveries(q) \/ Expire(q)
             \/ handleDeadlineExceeded(q)
    PROVE  RequestTypeOK' /\ RequestMove
<1>1. CASE PublishMessage(q) \/ AckWaitExpires(q) \/ MaxDeliveries(q) \/ Expire(q)
  <2> USE <1>1 DEF PublishMessage, AckWaitExpires, MaxDeliveries, Expire
  <2>1. UNCHANGED <<delivered, bridge, results, lost, budget>>
    BY DEF resultVars
  <2>2. stream' \in [Requests -> StreamStates]
    BY DEF RequestTypeOK, StreamStates
  <2>3. StreamMove
    BY <2>1 DEF StreamMove, RequestTypeOK
  <2>4. RequestTypeOK'
    BY <2>1, <2>2 DEF RequestTypeOK
  <2>5. AnswersMove
    BY <2>1 DEF AnswersMove
  <2>6. BridgeMove
    BY <2>1, DeliveryTypes DEF BridgeMove, Unused, Forwarded, RequestTypeOK
  <2> QED BY <2>3, <2>4, <2>5, <2>6 DEF RequestMove
<1>2. CASE handleDeadlineExceeded(q)
  <2> DEFINE key == timeoutIdempotentKey(q)
  <2>1. key \in Keys
    BY KeyTypes
  <2>2. Enqueue(key, FALSE) /\ UNCHANGED <<stream, delivered, bridge>>
    BY <1>2 DEF handleDeadlineExceeded
  <2> HIDE DEF key
  <2>3. /\ results' \subseteq Result /\ lost' \subseteq Requests /\ budget' \in Budget
        /\ results \subseteq results' /\ lost \subseteq lost'
    BY <2>1, <2>2, EnqueueFacts
  <2>4. RequestTypeOK'
    BY <2>2, <2>3 DEF RequestTypeOK
  <2>5. AnswersMove
    BY <2>2, <2>3 DEF AnswersMove
  <2>6. StreamMove
    BY <2>2 DEF StreamMove
  <2>7. BridgeMove
    BY <2>2, DeliveryTypes DEF BridgeMove, Unused, Forwarded, RequestTypeOK
  <2> QED BY <2>4, <2>5, <2>6, <2>7 DEF RequestMove
<1> QED BY <1>1, <1>2

\* A delivery: the next one of its request, which was not made before.
LEMMA DeliverMoves ==
    ASSUME RequestTypeOK, Fresh, NEW q \in Requests, NEW n \in Nodes, Deliver(n, q)
    PROVE  RequestTypeOK' /\ RequestMove
<1> DEFINE k == delivered[q] + 1
           new == <<q, k>>
<1>1. k \in 1..MaxDeliver /\ delivered[q] \in Nat
  BY RequestAssumption DEF Deliver, RequestTypeOK
<1>2. new \in Deliveries /\ new[1] = q /\ new[2] = k
  BY <1>1 DEF Deliveries
<1>3. /\ stream[q] = "pending"
      /\ stream' = [stream EXCEPT ![q] = "inflight"]
      /\ delivered' = [delivered EXCEPT ![q] = k]
      /\ bridge' = [bridge EXCEPT ![new] = [st |-> "buffered", node |-> n]]
      /\ UNCHANGED <<results, lost, budget>>
  BY DEF Deliver, resultVars
<1>4. Unused(new)
  BY <1>1, <1>2 DEF Fresh
<1> HIDE DEF k, new
<1>5. RequestTypeOK'
  BY <1>1, <1>2, <1>3 DEF RequestTypeOK, StreamStates, Bridge, BridgeStates
<1>6. StreamMove
  BY <1>3 DEF StreamMove, RequestTypeOK
<1>7. AnswersMove
  BY <1>2, <1>3 DEF AnswersMove, RequestTypeOK
<1>8. ASSUME NEW d \in Deliveries
      PROVE  /\ delivered[d[1]] <= delivered'[d[1]]
             /\ Unused(d) => Unused(d)' \/ d[2] <= delivered'[d[1]]
             /\ Forwarded(d) => Forwarded(d)'
  <2>1. d[1] \in Requests /\ d[2] \in Nat /\ delivered[d[1]] \in Nat
    BY DeliveryTypes, RequestAssumption DEF RequestTypeOK
  <2>2. delivered[d[1]] <= delivered'[d[1]]
    BY <1>1, <1>3, <2>1 DEF RequestTypeOK, k
  <2>3. CASE d = new
    <3>1. delivered'[d[1]] = k /\ d[2] = k
      BY <1>2, <1>3, <2>3 DEF RequestTypeOK
    <3> QED BY <1>1, <1>4, <2>2, <2>3, <3>1 DEF Unused, Forwarded
  <2>4. CASE d # new
    BY <1>3, <2>2, <2>4 DEF Unused, Forwarded, RequestTypeOK
  <2> QED BY <2>3, <2>4
<1>9. BridgeMove
  BY <1>8 DEF BridgeMove
<1> QED BY <1>5, <1>6, <1>7, <1>9 DEF RequestMove

\* A bridge handler that was started changes its own delivery only.
LEMMA OneBridge ==
    ASSUME RequestTypeOK, UNCHANGED delivered, NEW d \in Deliveries, bridge[d].st # "none",
           \A e \in Deliveries : bridge'[e] = bridge[e] \/ (e = d /\ Forwarded(e)')
    PROVE  BridgeMove
<1>1. ASSUME NEW e \in Deliveries
      PROVE  /\ delivered[e[1]] <= delivered'[e[1]]
             /\ Unused(e) => Unused(e)'
             /\ Forwarded(e) => Forwarded(e)'
  <2>1. delivered[e[1]] \in Nat
    BY DeliveryTypes DEF RequestTypeOK
  <2>2. Unused(e) => e # d
    BY DEF Unused
  <2> QED BY <2>1, <2>2 DEF Unused, Forwarded
<1> QED BY <1>1 DEF BridgeMove

\* Steps of the bridge: it acks only with a result of its own, a refused one, or a
\* reply in its inbox.
LEMMA BridgeMoves ==
    ASSUME RequestTypeOK, NEW d \in Deliveries,
           BridgeReject(d) \/ BridgePublish(d) \/ BridgeStep(d)
    PROVE  RequestTypeOK' /\ RequestMove
<1>d. d[1] \in Requests
  BY DeliveryTypes
<1>1. CASE BridgeReject(d)
  <2> DEFINE key == buildIdempotentKey(d[1])
  <2>1. key \in Keys /\ key[1] = d[1]
    BY <1>d, KeyTypes
  <2>2. Enqueue(key, FALSE) /\ Ack(d[1]) /\ BridgeEnds(d) /\ UNCHANGED delivered
        /\ bridge[d].st = "buffered"
    BY <1>1 DEF BridgeReject, BridgeRuns
  <2> HIDE DEF key
  <2>3. /\ results' \subseteq Result /\ lost' \subseteq Requests /\ budget' \in Budget
        /\ results \subseteq results' /\ lost \subseteq lost'
        /\ (\E r \in results' : r.key = key) \/ key[1] \in lost'
    BY <2>1, <2>2, EnqueueFacts
  <2>4. Answered(d[1])' \/ d[1] \in lost'
    BY <2>1, <2>3 DEF Answered
  <2>5. stream' \in [Requests -> StreamStates] /\ StreamMove
    BY <1>d, <2>2, <2>4 DEF StreamMove, Ack, RequestTypeOK, StreamStates
  <2>6. RequestTypeOK'
    BY <2>2, <2>3, <2>5, EndFacts DEF RequestTypeOK
  <2>7. AnswersMove
    BY <2>2, <2>3, EndFacts DEF AnswersMove
  <2>8. BridgeMove
    BY <2>2, EndFacts, OneBridge DEF Forwarded
  <2> QED BY <2>5, <2>6, <2>7, <2>8 DEF RequestMove
<1>2. CASE BridgePublish(d)
  <2>1. /\ bridge[d].st = "buffered"
        /\ bridge' = [bridge EXCEPT ![d].st = "waiting"]
        /\ UNCHANGED <<stream, delivered, results, lost, budget>>
    BY <1>2 DEF BridgePublish, BridgeRuns, resultVars
  <2>2. RequestTypeOK'
    BY <2>1 DEF RequestTypeOK, Bridge, BridgeStates
  <2>3. \A e \in Deliveries : bridge'[e] = bridge[e] \/ (e = d /\ bridge'[e].st = "waiting")
    BY <2>1 DEF RequestTypeOK, Bridge
  <2>4. AnswersMove
    BY <2>1, <2>3 DEF AnswersMove
  <2>5. StreamMove
    BY <2>1 DEF StreamMove
  <2>6. BridgeMove
    BY <2>1, <2>3, OneBridge DEF Forwarded
  <2> QED BY <2>2, <2>4, <2>5, <2>6 DEF RequestMove
<1>3. CASE BridgeStep(d)
  <2>1. /\ bridge[d].st # "none"
        /\ Nak(d[1]) \/ (Ack(d[1]) /\ bridge[d].st = "replied")
        /\ BridgeEnds(d)
        /\ UNCHANGED <<delivered, results, lost, budget>>
    BY <1>3 DEF BridgeStep, BridgePublishFails, BridgeReply, BridgeTimeout, BridgeRuns, resultVars
  <2>2. stream' \in [Requests -> StreamStates] /\ StreamMove
    BY <1>d, <2>1 DEF StreamMove, Ack, Nak, RequestTypeOK, StreamStates
  <2>3. RequestTypeOK'
    BY <2>1, <2>2, EndFacts DEF RequestTypeOK
  <2>4. AnswersMove
    BY <2>1, EndFacts DEF AnswersMove
  <2>5. BridgeMove
    BY <2>1, EndFacts, OneBridge DEF Forwarded
  <2> QED BY <2>2, <2>3, <2>4, <2>5 DEF RequestMove
<1> QED BY <1>1, <1>2, <1>3

\* Answers: a reply goes with a result or a refusal.
LEMMA AnswerMoves ==
    ASSUME RequestTypeOK, NEW d \in Deliveries,
           (\E ok \in BOOLEAN : Answer(d, ok)) \/ AnswerRefused(d)
    PROVE  RequestTypeOK' /\ RequestMove
<1>d. d[1] \in Requests /\ d \in Keys
  BY DeliveryTypes
<1>1. /\ UNCHANGED <<stream, delivered>> /\ Forwarded(d)
      /\ UNCHANGED bridge \/ sendReplyToRemoveMsg(d)
  BY DEF Answer, AnswerRefused
<1>2. /\ results' \subseteq Result /\ lost' \subseteq Requests /\ budget' \in Budget
      /\ results \subseteq results' /\ lost \subseteq lost'
      /\ (\E r \in results' : r.key = d) \/ d[1] \in lost'
  <2>1. ASSUME NEW ok \in BOOLEAN, Answer(d, ok)
        PROVE  Enqueue(d, ok)
    BY <2>1 DEF Answer, composeIdempotentKey
  <2>2. CASE AnswerRefused(d)
    <3>1. Refused(d[1]) /\ results' \in {results, Accepted(d, FALSE)}
      BY <2>2 DEF AnswerRefused, composeIdempotentKey
    <3> QED BY <1>d, <3>1, RefusedFacts, AcceptedFacts DEF RequestTypeOK
  <2> QED BY <1>d, <2>1, <2>2, EnqueueFacts
<1>3. bridge' \in [Deliveries -> Bridge]
      /\ \A e \in Deliveries : bridge'[e] = bridge[e] \/ (e = d /\ bridge'[e].st = "replied")
  BY <1>1, ReplyFacts DEF RequestTypeOK
<1>4. RequestTypeOK'
  BY <1>1, <1>2, <1>3 DEF RequestTypeOK
<1>5. AnswersMove
  BY <1>2, <1>3 DEF AnswersMove
<1>6. StreamMove
  BY <1>1 DEF StreamMove
<1>7. BridgeMove
  BY <1>1, <1>3, OneBridge DEF Forwarded
<1> QED BY <1>4, <1>5, <1>6, <1>7 DEF RequestMove

\* A crash ends the bridge handlers of its node, which have deliveries.
LEMMA CrashMoves ==
    ASSUME RequestTypeOK, NEW n \in Nodes, BridgeCrash(n)
    PROVE  RequestTypeOK' /\ RequestMove
<1>1. /\ UNCHANGED <<stream, delivered, results, lost>>
      /\ budget.restart > 0 /\ budget' = [budget EXCEPT !.restart = @ - 1]
  BY DEF BridgeCrash
<1>2. \A d \in Deliveries :
         \/ bridge'[d] = bridge[d]
         \/ bridge[d].node = n /\ bridge'[d] = [st |-> "ended", node |-> NoNode]
  BY DEF BridgeCrash
<1>3. bridge' \in [Deliveries -> Bridge]
  BY DEF BridgeCrash, RequestTypeOK, Bridge, BridgeStates
<1>4. budget' \in Budget
  BY <1>1, RequestAssumption DEF RequestTypeOK, Budget
<1>5. RequestTypeOK'
  BY <1>1, <1>3, <1>4 DEF RequestTypeOK
<1>6. AnswersMove
  BY <1>1, <1>2 DEF AnswersMove
<1>7. StreamMove
  BY <1>1 DEF StreamMove
<1>8. BridgeMove
  BY <1>1, <1>2, DeliveryTypes, RequestAssumption DEF BridgeMove, Unused, Forwarded, RequestTypeOK
<1> QED BY <1>5, <1>6, <1>7, <1>8 DEF RequestMove

\* Every step keeps the types and is one of these moves.
LEMMA NextRequestMove ==
    ASSUME RequestTypeOK, Fresh, [RequestNext]_requestVars
    PROVE  RequestTypeOK' /\ RequestMove
<1>1. CASE UNCHANGED requestVars
  <2>1. RequestTypeOK' /\ AnswersMove /\ StreamMove
    BY <1>1 DEF requestVars, RequestTypeOK, AnswersMove, StreamMove
  <2>2. BridgeMove
    BY <1>1, DeliveryTypes DEF requestVars, BridgeMove, Unused, Forwarded, RequestTypeOK
  <2> QED BY <2>1, <2>2 DEF RequestMove
<1>2. CASE RequestNext
  BY <1>2, TimerMoves, DeliverMoves, BridgeMoves, AnswerMoves, CrashMoves
     DEF RequestNext, StreamStep
<1> QED BY <1>1, <1>2

-----------------------------------------------------------------------------
(***************************************************************************)
(* The inductive invariant: acks follow replies, replies follow results, and *)
(* a delivery is handed out for the first time only.                         *)
(***************************************************************************)
RequestInv ==
    /\ RequestTypeOK
    /\ Fresh
    /\ ReplyHasResult
    /\ AckAnswered

\* No request, no delivery, no result.
LEMMA RequestInitInv == RequestInit => RequestInv
<1> SUFFICES ASSUME RequestInit PROVE RequestInv
  OBVIOUS
<1>1. RequestTypeOK
  BY RequestAssumption
     DEF RequestInit, RequestTypeOK, StreamStates, Bridge, BridgeStates, Budget
<1>2. Fresh
  BY DeliveryTypes DEF RequestInit, Fresh, Unused
<1>3. ReplyHasResult /\ AckAnswered
  BY DEF RequestInit, ReplyHasResult, AckAnswered
<1> QED BY <1>1, <1>2, <1>3 DEF RequestInv

\* Every step keeps the invariant.
LEMMA RequestStepInv ==
    ASSUME RequestInv, [RequestNext]_requestVars
    PROVE  RequestInv' /\ RequestMove
<1>1. RequestTypeOK' /\ RequestMove
  BY NextRequestMove DEF RequestInv
<1>2. ReplyHasResult'
  BY <1>1 DEF RequestInv, ReplyHasResult, RequestMove, AnswersMove
<1>3. AckAnswered'
  BY <1>1 DEF RequestInv, ReplyHasResult, AckAnswered, RequestMove, AnswersMove, StreamMove,
              Answered
<1>4. ASSUME NEW q \in Requests, stream'[q] = "none" PROVE delivered'[q] = 0
  BY <1>1, <1>4 DEF RequestInv, Fresh, RequestMove, StreamMove
<1>5. ASSUME NEW d \in Deliveries, delivered'[d[1]] < d[2] PROVE Unused(d)'
  <2>1. d[1] \in Requests /\ d[2] \in Nat
    BY DeliveryTypes
  <2>2. delivered[d[1]] \in Nat /\ delivered'[d[1]] \in Nat
    BY <1>1, <2>1 DEF RequestInv, RequestTypeOK
  <2>3. delivered[d[1]] < d[2]
    BY <1>1, <1>5, <2>1, <2>2 DEF RequestMove, BridgeMove
  <2>4. Unused(d)
    BY <2>3 DEF RequestInv, Fresh
  <2> QED BY <1>1, <1>5, <2>1, <2>2, <2>4 DEF RequestMove, BridgeMove
<1>6. Fresh'
  BY <1>4, <1>5 DEF Fresh
<1> QED BY <1>1, <1>2, <1>3, <1>6 DEF RequestInv

\* The invariant holds in every reachable state.
THEOREM RequestInvariance == RequestSpec => []RequestInv
<1>1. RequestInv /\ [RequestNext]_requestVars => RequestInv'
  BY RequestStepInv
<1> QED BY <1>1, RequestInitInv, PTL DEF RequestSpec

\* An acked request has a result, or the queue refused one of its results; replies
\* are about results of their own delivery.
THEOREM RequestAnswers == RequestSpec => [](AckAnswered /\ ReplyHasResult)
<1>1. RequestInv => AckAnswered /\ ReplyHasResult
  BY DEF RequestInv
<1> QED BY <1>1, RequestInvariance, PTL

\* A reply goes with a result of its own delivery, or a refusal: no handler's
\* sendReplyToRemoveMsg overtakes its result.
THEOREM RepliesHaveResults == RequestSpec => []ReplyHasResult
<1>1. RequestInv => ReplyHasResult
  BY DEF RequestInv
<1> QED BY <1>1, RequestInvariance, PTL
=============================================================================
