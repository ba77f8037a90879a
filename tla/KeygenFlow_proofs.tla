------------------------- MODULE KeygenFlow_proofs -------------------------
(***************************************************************************)
(* Proofs about module KeygenFlow, for any finite set of nodes, any set of  *)
(* requests and curves, any threshold, MaxDeliver and number of slots, and   *)
(* any number of crashes and refused results.                               *)
(***************************************************************************)
EXTENDS KeygenFlow, RequestStream_proofs

-----------------------------------------------------------------------------
(***************************************************************************)
(* What changes of one handler or one session leave alone.                  *)
(***************************************************************************)
\* Only the handler of n and d changes, to h.
OneHandler(n, d, h) == gen' = [gen EXCEPT ![n][d] = h]

\* The other handlers stay as they are.
LEMMA OneHandlerFacts ==
    ASSUME NodeTypeOK, NEW n \in Nodes, NEW d \in Deliveries, NEW h \in Handler,
           OneHandler(n, d, h)
    PROVE  /\ gen' \in [Nodes -> [Deliveries -> Handler]]
           /\ gen'[n][d] = h
           /\ \A m \in Nodes, e \in Deliveries : gen'[m][e] = gen[m][e] \/ (m = n /\ e = d)
BY DEF NodeTypeOK, OneHandler

\* A handler goes on to another state.
LEMMA GotoFacts ==
    ASSUME NodeTypeOK, NEW n \in Nodes, NEW d \in Deliveries, NEW state \in HandlerStates,
           gen' = [gen EXCEPT ![n][d].pc = state]
    PROVE  /\ gen' \in [Nodes -> [Deliveries -> Handler]]
           /\ gen'[n][d].pc = state
           /\ \A m \in Nodes, e \in Deliveries :
                 /\ gen'[m][e].ses = gen[m][e].ses
                 /\ gen'[m][e].pc = gen[m][e].pc \/ (m = n /\ e = d)
<1> DEFINE h == [gen[n][d] EXCEPT !.pc = state]
<1>1. gen[n][d] \in Handler
  BY DEF NodeTypeOK
<1>2. h \in Handler /\ h.ses = gen[n][d].ses /\ h.pc = state
  BY <1>1 DEF Handler
<1>3. OneHandler(n, d, h)
  BY DEF OneHandler, NodeTypeOK
<1> HIDE DEF h
<1> QED BY <1>2, <1>3, OneHandlerFacts

\* A session changes, and the state of no handler.
LEMMA SetFacts ==
    ASSUME NodeTypeOK, NEW n \in Nodes, NEW d \in Deliveries, NEW c \in Curves,
           NEW s \in Session, SetSession(n, d, c, s)
    PROVE  /\ gen' \in [Nodes -> [Deliveries -> Handler]]
           /\ gen'[n][d].ses[c] = s
           /\ \A m \in Nodes, e \in Deliveries :
                 /\ gen'[m][e].pc = gen[m][e].pc
                 /\ \A b \in Curves : gen'[m][e].ses[b] = gen[m][e].ses[b]
                                      \/ (m = n /\ e = d /\ b = c)
<1> DEFINE h == [gen[n][d] EXCEPT !.ses[c] = s]
<1>1. gen[n][d] \in Handler
  BY DEF NodeTypeOK
<1>2. /\ h \in Handler /\ h.pc = gen[n][d].pc /\ h.ses[c] = s
      /\ \A b \in Curves : b # c => h.ses[b] = gen[n][d].ses[b]
  BY <1>1 DEF Handler
<1>3. OneHandler(n, d, h)
  BY DEF OneHandler, SetSession, NodeTypeOK
<1> HIDE DEF h
<1> QED BY <1>2, <1>3, OneHandlerFacts

-----------------------------------------------------------------------------
(***************************************************************************)
(* How any step may move handlers, sessions and what they leave behind.      *)
(***************************************************************************)
\* Session s of (n, d, c) becomes t.
SessionMove(n, d, c, s, t) ==
    \/ t = NoSession
    \/ t.st = "listening" /\ n \in t.com /\ t.got = {}
    \/ /\ t.com = s.com
       /\ s.got \subseteq t.got
       /\ \A m \in t.got : m \in s.got \/ <<d[1], c, m, s.com>> \in sent'
       /\ \/ t.st = s.st
          \/ t.st = "over" /\ s.st # "off"
          \/ t.st = "running" /\ s.st = "listening" /\ <<d[1], c, n, s.com>> \in sent'
          \/ t.st = "stored" /\ KeyReady(n, d, c) /\ <<d[1], c>> \in share'[n]
          \/ t.st = "done" /\ s.st = "stored"

\* A handler appears when its delivery is forwarded, and stays.
HandlerMove(n, d) ==
    /\ pc(n, d)' # "idle" => pc(n, d) # "idle" \/ Forwarded(d)'
    /\ pc(n, d)' = "idle" =>
          pc(n, d) = "idle" /\ \A c \in Curves : ses(n, d, c)' \in {ses(n, d, c), NoSession}

\* Messages and shares stay; a key info is saved by a session that has its share.
Kept ==
    /\ sent \subseteq sent'
    /\ \A n \in Nodes : share[n] \subseteq share'[n]
    /\ \A k \in KeyIDs :
          \/ info'[k] = info[k]
          \/ \E n \in Nodes, d \in Deliveries, c \in Curves :
                k = <<d[1], c>> /\ ses(n, d, c).st = "stored" /\ info'[k] = ses(n, d, c).com

Moves ==
    /\ Kept
    /\ \A n \in Nodes, d \in Deliveries, c \in Curves :
          SessionMove(n, d, c, ses(n, d, c), ses(n, d, c)')
    /\ \A n \in Nodes, d \in Deliveries : HandlerMove(n, d)

\* A handler that has not heard of its delivery has no sessions.
IdleHasNone ==
    \A n \in Nodes, d \in Deliveries :
        pc(n, d) = "idle" => \A c \in Curves : ses(n, d, c) = NoSession

\* A session may stay as it is.
LEMMA SessionStays ==
    ASSUME NEW n, NEW d, NEW c, NEW s
    PROVE  SessionMove(n, d, c, s, s)
BY DEF SessionMove

\* A handler that stays, or is past idle and stays past it, moves rightly.
LEMMA HandlerStays ==
    ASSUME NEW n, NEW d,
           \/ pc(n, d)' = pc(n, d) /\ \A c \in Curves : ses(n, d, c)' = ses(n, d, c)
           \/ pc(n, d) # "idle" /\ pc(n, d)' # "idle"
    PROVE  HandlerMove(n, d)
BY Zenon DEF HandlerMove

StoreTypeOK ==
    /\ share \in [Nodes -> SUBSET KeyIDs]
    /\ info \in [KeyIDs -> SUBSET Nodes]
    /\ sent \subseteq Requests \X Curves \X Nodes \X SUBSET Nodes

\* Nothing is stored or sent.
LEMMA QuietStores ==
    ASSUME NodeTypeOK, UNCHANGED <<share, info, sent>>
    PROVE  StoreTypeOK' /\ Kept
BY DEF NodeTypeOK, StoreTypeOK, Kept

\* Sessions stay or move.
LEMMA SessionsMove ==
    ASSUME StoreTypeOK', Kept,
           gen' \in [Nodes -> [Deliveries -> Handler]],
           \A n \in Nodes, d \in Deliveries : HandlerMove(n, d),
           \A n \in Nodes, d \in Deliveries, c \in Curves :
              \/ ses(n, d, c)' = ses(n, d, c)
              \/ SessionMove(n, d, c, ses(n, d, c), ses(n, d, c)')
    PROVE  NodeTypeOK' /\ Moves
<1>1. NodeTypeOK'
  BY DEF NodeTypeOK, StoreTypeOK
<1>2. \A n \in Nodes, d \in Deliveries, c \in Curves :
         SessionMove(n, d, c, ses(n, d, c), ses(n, d, c)')
  BY SessionStays, Zenon
<1> QED BY <1>1, <1>2 DEF Moves

\* Nothing of the nodes changes.
LEMMA NodeUnchanged ==
    ASSUME NodeTypeOK, UNCHANGED nodeVars
    PROVE  NodeTypeOK' /\ Moves
<1>1. UNCHANGED <<gen, share, info, sent>> /\ gen' \in [Nodes -> [Deliveries -> Handler]]
  BY DEF nodeVars, NodeTypeOK
<1>2. \A n \in Nodes, d \in Deliveries :
         pc(n, d)' = pc(n, d) /\ \A c \in Curves : ses(n, d, c)' = ses(n, d, c)
  BY <1>1 DEF ses, pc
<1> QED BY <1>1, <1>2, HandlerStays, QuietStores, SessionsMove

\* A handler goes on, and nothing else changes.
LEMMA GotoMoves ==
    ASSUME NodeTypeOK, NEW n \in Nodes, NEW d \in Deliveries,
           NEW state \in HandlerStates \ {"idle"}, pc(n, d) # "idle",
           gen' = [gen EXCEPT ![n][d].pc = state], UNCHANGED <<share, info, sent>>
    PROVE  NodeTypeOK' /\ Moves
<1>1. \A m \in Nodes, e \in Deliveries, c \in Curves : ses(m, e, c)' = ses(m, e, c)
  BY GotoFacts DEF ses
<1>2. gen' \in [Nodes -> [Deliveries -> Handler]]
  BY GotoFacts
<1>3. \A m \in Nodes, e \in Deliveries :
         pc(m, e)' = pc(m, e) \/ (pc(m, e) # "idle" /\ pc(m, e)' # "idle")
  BY GotoFacts DEF pc
<1>4. \A m \in Nodes, e \in Deliveries : HandlerMove(m, e)
  BY <1>1, <1>3, HandlerStays
<1> QED BY <1>1, <1>2, <1>4, QuietStores, SessionsMove

\* A session that is there moves.
LEMMA SetMoves ==
    ASSUME NodeTypeOK, IdleHasNone, StoreTypeOK', Kept,
           NEW n \in Nodes, NEW d \in Deliveries, NEW c \in Curves,
           NEW s \in Session, SetSession(n, d, c, s),
           ses(n, d, c) # NoSession, SessionMove(n, d, c, ses(n, d, c), s)
    PROVE  NodeTypeOK' /\ Moves
<1>1. gen' \in [Nodes -> [Deliveries -> Handler]] /\ ses(n, d, c)' = s
  BY SetFacts DEF ses
<1>2. \A m \in Nodes, e \in Deliveries :
         /\ pc(m, e)' = pc(m, e)
         /\ \A b \in Curves : ses(m, e, b)' = ses(m, e, b) \/ (m = n /\ e = d /\ b = c)
  BY SetFacts DEF ses, pc
<1>3. pc(n, d) # "idle"
  BY DEF IdleHasNone
<1>4. \A m \in Nodes, e \in Deliveries : HandlerMove(m, e)
  BY <1>2, <1>3, HandlerStays
<1> QED BY <1>1, <1>2, <1>4, SessionsMove

-----------------------------------------------------------------------------
(***************************************************************************)
(* The moves of each action.                                               *)
(***************************************************************************)
\* The event of a delivery reaches some nodes.
LEMMA PublishMoves ==
    ASSUME NodeTypeOK, NEW d \in Deliveries, NEW heard \in SUBSET Nodes,
           PublishKeygen(d, heard), Forwarded(d)'
    PROVE  NodeTypeOK' /\ Moves
<1>1. NoHandler("queued") \in Handler
  BY DEF NoHandler, Handler, NoSession, Session, HandlerStates, SessionStates
<1>2. gen' \in [Nodes -> [Deliveries -> Handler]]
  BY <1>1 DEF PublishKeygen, NodeTypeOK
<1>3. \A n \in Nodes, e \in Deliveries :
         gen'[n][e] = gen[n][e] \/ (e = d /\ gen'[n][e] = NoHandler("queued"))
  BY DEF PublishKeygen, NodeTypeOK
<1>4. ASSUME NEW n \in Nodes, NEW e \in Deliveries
      PROVE  /\ HandlerMove(n, e)
             /\ \A c \in Curves : ses(n, e, c)' = ses(n, e, c) \/ ses(n, e, c)' = NoSession
  <2>1. CASE gen'[n][e] = gen[n][e]
    <3>1. pc(n, e)' = pc(n, e) /\ \A c \in Curves : ses(n, e, c)' = ses(n, e, c)
      BY <2>1 DEF pc, ses
    <3> QED BY <3>1, HandlerStays
  <2>2. CASE e = d /\ gen'[n][e] = NoHandler("queued")
    BY <2>2 DEF pc, ses, NoHandler, HandlerMove
  <2> QED BY <1>3, <2>1, <2>2
<1>5. UNCHANGED <<share, info, sent>>
  BY DEF PublishKeygen
<1>6. \A n \in Nodes, e \in Deliveries, c \in Curves :
         ses(n, e, c)' = ses(n, e, c) \/ SessionMove(n, e, c, ses(n, e, c), ses(n, e, c)')
  BY <1>4 DEF SessionMove
<1> QED BY <1>2, <1>4, <1>5, <1>6, QuietStores, SessionsMove

\* A crash ends the handlers and sessions of a node.
LEMMA RestartMoves ==
    ASSUME NodeTypeOK, NEW n \in Nodes, Restart(n)
    PROVE  NodeTypeOK' /\ Moves
<1> DEFINE h(d) == NoHandler(IF pc(n, d) = "idle" THEN "idle" ELSE "ended")
<1>1. \A d \in Deliveries : h(d) \in Handler
  BY DEF NoHandler, Handler, NoSession, Session, HandlerStates, SessionStates
<1>2. gen' = [gen EXCEPT ![n] = [d \in Deliveries |-> h(d)]] /\ UNCHANGED <<share, info, sent>>
  BY DEF Restart
<1> HIDE DEF h
<1>3. gen' \in [Nodes -> [Deliveries -> Handler]]
  BY <1>1, <1>2 DEF NodeTypeOK
<1>4. \A m \in Nodes, d \in Deliveries : gen'[m][d] = gen[m][d] \/ (m = n /\ gen'[m][d] = h(d))
  BY <1>2 DEF NodeTypeOK
<1>5. ASSUME NEW m \in Nodes, NEW d \in Deliveries
      PROVE  /\ HandlerMove(m, d)
             /\ \A c \in Curves : ses(m, d, c)' = ses(m, d, c) \/ ses(m, d, c)' = NoSession
  <2>1. CASE gen'[m][d] = gen[m][d]
    <3>1. pc(m, d)' = pc(m, d) /\ \A c \in Curves : ses(m, d, c)' = ses(m, d, c)
      BY <2>1 DEF pc, ses
    <3> QED BY <3>1, HandlerStays
  <2>2. CASE m = n /\ gen'[m][d] = h(d)
    <3>1. \A c \in Curves : ses(m, d, c)' = NoSession
      BY <2>2 DEF ses, h, NoHandler
    <3>2. pc(m, d)' = IF pc(m, d) = "idle" THEN "idle" ELSE "ended"
      BY <2>2 DEF pc, h, NoHandler
    <3> QED BY <3>1, <3>2 DEF HandlerMove
  <2> QED BY <1>4, <2>1, <2>2
<1>6. \A m \in Nodes, e \in Deliveries, c \in Curves :
         ses(m, e, c)' = ses(m, e, c) \/ SessionMove(m, e, c, ses(m, e, c), ses(m, e, c)')
  BY <1>5 DEF SessionMove
<1> QED BY <1>2, <1>3, <1>5, <1>6, QuietStores, SessionsMove

\* The timeout changes no session.
LEMMA TimeOutMoves ==
    ASSUME NodeTypeOK, NEW n \in Nodes, NEW d \in Deliveries, TimeOut(n, d)
    PROVE  NodeTypeOK' /\ Moves
<1> DEFINE h == [gen[n][d] EXCEPT !.late = TRUE]
<1>1. gen[n][d] \in Handler
  BY DEF NodeTypeOK
<1>2. h \in Handler /\ h.pc = gen[n][d].pc /\ h.ses = gen[n][d].ses
  BY <1>1 DEF Handler
<1>3. OneHandler(n, d, h) /\ UNCHANGED <<share, info, sent>>
  BY DEF OneHandler, TimeOut, NodeTypeOK
<1> HIDE DEF h
<1>4. /\ gen' \in [Nodes -> [Deliveries -> Handler]]
      /\ \A m \in Nodes, e \in Deliveries :
            pc(m, e)' = pc(m, e) /\ \A c \in Curves : ses(m, e, c)' = ses(m, e, c)
  BY <1>2, <1>3, OneHandlerFacts DEF pc, ses
<1> QED BY <1>3, <1>4, HandlerStays, QuietStores, SessionsMove

\* The sessions of a handler are created.
LEMMA CreateMoves ==
    ASSUME NodeTypeOK, NEW n \in Nodes, NEW d \in Deliveries,
           NEW peers \in [Curves -> ReadyViews(n)], NEW unread,
           CreateKeyGenSession(n, d, peers, unread)
    PROVE  NodeTypeOK' /\ Moves
<1> DEFINE new == [c \in Curves |-> [st |-> "listening", watch |-> "waiting",
                                     com |-> peers[c], got |-> {}]]
           h == [gen[n][d] EXCEPT !.pc = "listening", !.ses = new]
<1>1. gen[n][d] \in Handler
  BY DEF NodeTypeOK
<1>2. new \in [Curves -> Session]
  BY DEF ReadyViews, Session, SessionStates
<1>3. \A c \in Curves : new[c].st = "listening" /\ n \in new[c].com /\ new[c].got = {}
  BY DEF ReadyViews
<1>4. OneHandler(n, d, h) /\ UNCHANGED <<share, info, sent>> /\ pc(n, d) # "idle"
  BY DEF OneHandler, CreateKeyGenSession, Starts, NodeTypeOK
<1> HIDE DEF new
<1>5. h \in Handler /\ h.pc = "listening" /\ h.ses = new
  BY <1>1, <1>2 DEF Handler, HandlerStates
<1> HIDE DEF h
<1>6. gen' \in [Nodes -> [Deliveries -> Handler]]
  BY <1>4, <1>5, OneHandlerFacts
<1>7. ASSUME NEW m \in Nodes, NEW e \in Deliveries
      PROVE  /\ HandlerMove(m, e)
             /\ \A c \in Curves : \/ ses(m, e, c)' = ses(m, e, c)
                                  \/ SessionMove(m, e, c, ses(m, e, c), ses(m, e, c)')
  <2>1. CASE gen'[m][e] = gen[m][e]
    <3>1. pc(m, e)' = pc(m, e) /\ \A c \in Curves : ses(m, e, c)' = ses(m, e, c)
      BY <2>1 DEF pc, ses
    <3> QED BY <3>1, HandlerStays
  <2>2. CASE m = n /\ e = d /\ gen'[m][e] = h
    <3>1. pc(m, e)' # "idle" /\ \A c \in Curves : ses(m, e, c)' = new[c]
      BY <1>5, <2>2 DEF pc, ses
    <3>2. HandlerMove(m, e)
      BY <1>4, <2>2, <3>1, HandlerStays
    <3>3. ASSUME NEW c \in Curves PROVE SessionMove(m, e, c, ses(m, e, c), new[c])
      BY <1>3, <2>2 DEF SessionMove
    <3> QED BY <3>1, <3>2, <3>3
  <2> QED BY <1>4, <1>5, <2>1, <2>2, OneHandlerFacts
<1> QED BY <1>4, <1>6, <1>7, QuietStores, SessionsMove

\* The handler of an event goes on, answers or gives up.
LEMMA HandlerMoves ==
    ASSUME NodeTypeOK, NEW n \in Nodes, NEW d \in Deliveries, HandlerStep(n, d)
    PROVE  NodeTypeOK' /\ Moves
<1>1. CASE CreateFails(n, d) \/ KeygenTimesOut(n, d)
  <2>1. /\ pc(n, d) # "idle" /\ gen' = [gen EXCEPT ![n][d].pc = "ended"]
        /\ UNCHANGED <<share, info, sent>>
    BY <1>1 DEF CreateFails, KeygenTimesOut, Starts, Abort
  <2> QED BY <2>1, GotoMoves DEF HandlerStates
<1>2. CASE KeygenFails(n, d) \/ KeygenSucceeds(n, d) \/ KeygenRefused(n, d)
  <2>1. /\ pc(n, d) # "idle" /\ gen' = [gen EXCEPT ![n][d].pc = "ended"]
        /\ UNCHANGED <<share, info, sent>>
    BY <1>2 DEF KeygenFails, KeygenSucceeds, KeygenRefused, AllDone, Return
  <2> QED BY <2>1, GotoMoves DEF HandlerStates
<1>3. CASE WarmUp(n, d)
  <2>1. /\ pc(n, d) # "idle" /\ gen' = [gen EXCEPT ![n][d].pc = "waiting"]
        /\ UNCHANGED <<share, info, sent>>
    BY <1>3 DEF WarmUp
  <2> QED BY <2>1, GotoMoves DEF HandlerStates
<1>4. CASE TimeOut(n, d)
  BY <1>4, TimeOutMoves
<1>5. ASSUME NEW peers \in [Curves -> ReadyViews(n)], NEW unread,
             CreateKeyGenSession(n, d, peers, unread)
      PROVE  NodeTypeOK' /\ Moves
  BY <1>5, CreateMoves
<1> QED BY <1>1, <1>2, <1>3, <1>4, <1>5 DEF HandlerStep

\* A session that keeps its state or is over moves rightly.
LEMMA OverMoves ==
    ASSUME NEW n, NEW d, NEW c, NEW s, NEW t, t.com = s.com, t.got = s.got,
           t.st = s.st \/ (t.st = "over" /\ s.st # "off")
    PROVE  SessionMove(n, d, c, s, t)
BY DEF SessionMove

\* A watcher leaves its select.
LEMMA WatchMoves ==
    ASSUME NodeTypeOK, IdleHasNone, NEW n \in Nodes, NEW d \in Deliveries, NEW c \in Curves,
           \/ WatchDone(n, d, c)
           \/ \E st \in SessionStates : SessionError(n, d, c, st)
    PROVE  NodeTypeOK' /\ Moves
<1> DEFINE s == ses(n, d, c)
<1>1. s \in Session
  BY DEF NodeTypeOK, Handler, ses
<1>2. s # NoSession /\ UNCHANGED <<share, info, sent>>
  <2>1. s.watch = "waiting" /\ UNCHANGED <<share, info, sent>>
    BY DEF WatchDone, SessionError
  <2>2. NoSession.watch = "off"
    BY DEF NoSession
  <2> QED BY <2>1, <2>2
<1>3. PICK t : /\ SetSession(n, d, c, t)
               /\ \E w \in {"key", "nokey", "error"}, st \in SessionStates :
                     /\ st = s.st \/ (st = "over" /\ s.st # "off")
                     /\ t = [s EXCEPT !.watch = w] \/ t = [s EXCEPT !.watch = w, !.st = st]
  <2>1. CASE WatchDone(n, d, c)
    <3>1. s.st \in SessionStates
      BY <1>1 DEF Session
    <3> QED BY <2>1, <3>1 DEF WatchDone
  <2>2. CASE \E st \in SessionStates : SessionError(n, d, c, st)
    BY <2>2 DEF SessionError
  <2> QED BY <2>1, <2>2
<1> HIDE DEF s
<1>4. /\ t \in Session /\ t.com = s.com /\ t.got = s.got
      /\ t.st = s.st \/ (t.st = "over" /\ s.st # "off")
  <2>1. PICK w \in {"key", "nokey", "error"}, st \in SessionStates :
               /\ st = s.st \/ (st = "over" /\ s.st # "off")
               /\ t = [s EXCEPT !.watch = w] \/ t = [s EXCEPT !.watch = w, !.st = st]
    BY <1>3
  <2>2. CASE t = [s EXCEPT !.watch = w]
    BY <1>1, <2>2 DEF Session
  <2>3. CASE t = [s EXCEPT !.watch = w, !.st = st]
    BY <1>1, <2>1, <2>3 DEF Session
  <2> QED BY <2>1, <2>2, <2>3
<1>5. SessionMove(n, d, c, s, t)
  BY <1>4, OverMoves
<1> QED BY <1>2, <1>3, <1>4, <1>5, QuietStores, SetMoves DEF s

\* An error that nobody receives.
LEMMA UnheardMoves ==
    ASSUME NodeTypeOK, IdleHasNone, NEW n \in Nodes, NEW d \in Deliveries, NEW c \in Curves,
           UnheardError(n, d, c)
    PROVE  NodeTypeOK' /\ Moves
<1> DEFINE s == ses(n, d, c)
           t == [s EXCEPT !.st = "over"]
<1>1. UNCHANGED <<share, info, sent>>
  BY DEF UnheardError
<1>2. CASE pc(n, d) = "listening" /\ gen' = [gen EXCEPT ![n][d].pc = "wedged"]
  BY <1>1, <1>2, GotoMoves DEF HandlerStates
<1>3. CASE s.st \in {"running", "stored"} /\ SetSession(n, d, c, t)
  <2>1. s \in Session /\ s # NoSession
    BY <1>3 DEF NodeTypeOK, Handler, ses, NoSession
  <2>2. t \in Session /\ t.com = s.com /\ t.got = s.got /\ (t.st = s.st \/ t.st = "over")
    BY <2>1 DEF Session, SessionStates
  <2>3. SessionMove(n, d, c, s, t)
    BY <1>3, <2>2, OverMoves
  <2> QED BY <1>1, <1>3, <2>1, <2>2, <2>3, QuietStores, SetMoves
<1> QED BY <1>2, <1>3 DEF UnheardError

\* A share is stored.
LEMMA PutMoves ==
    ASSUME NodeTypeOK, IdleHasNone, NEW n \in Nodes, NEW d \in Deliveries, NEW c \in Curves,
           PutShare(n, d, c)
    PROVE  NodeTypeOK' /\ Moves
<1> DEFINE s == ses(n, d, c)
           t == [s EXCEPT !.st = "stored"]
<1>1. s \in Session /\ s # NoSession
  BY DEF PutShare, KeyReady, NodeTypeOK, Handler, ses, NoSession
<1>2. <<d[1], c>> \in KeyIDs
  BY DeliveryTypes DEF KeyIDs
<1>3. /\ share' \in [Nodes -> SUBSET KeyIDs] /\ <<d[1], c>> \in share'[n]
      /\ \A m \in Nodes : share[m] \subseteq share'[m]
  BY <1>2 DEF PutShare, NodeTypeOK
<1>4. StoreTypeOK' /\ Kept
  BY <1>3 DEF StoreTypeOK, Kept, NodeTypeOK, PutShare
<1>5. t \in Session /\ t.com = s.com /\ t.got = s.got /\ t.st = "stored"
  BY <1>1 DEF Session, SessionStates
<1>6. SessionMove(n, d, c, s, t)
  BY <1>3, <1>5 DEF SessionMove, PutShare
<1>7. SetSession(n, d, c, t)
  BY DEF PutShare
<1> QED BY <1>1, <1>4, <1>5, <1>6, <1>7, SetMoves

\* A key info is saved.
LEMMA SaveMoves ==
    ASSUME NodeTypeOK, IdleHasNone, NEW n \in Nodes, NEW d \in Deliveries, NEW c \in Curves,
           SaveKeyInfo(n, d, c)
    PROVE  NodeTypeOK' /\ Moves
<1> DEFINE s == ses(n, d, c)
           t == [s EXCEPT !.st = "done"]
<1>1. s \in Session /\ s # NoSession /\ s.st = "stored"
  BY DEF SaveKeyInfo, NodeTypeOK, Handler, ses, NoSession
<1>2. s.com \in SUBSET Nodes /\ <<d[1], c>> \in KeyIDs
  BY <1>1, DeliveryTypes DEF Session, KeyIDs
<1>3. info' = [info EXCEPT ![<<d[1], c>>] = s.com] /\ UNCHANGED <<share, sent>>
  BY DEF SaveKeyInfo
<1>4. /\ info' \in [KeyIDs -> SUBSET Nodes]
      /\ \A k \in KeyIDs : info'[k] = info[k] \/ (k = <<d[1], c>> /\ info'[k] = s.com)
  BY <1>2, <1>3 DEF NodeTypeOK
<1>5. StoreTypeOK' /\ Kept
  BY <1>1, <1>3, <1>4 DEF StoreTypeOK, Kept, NodeTypeOK
<1>6. t \in Session /\ t.com = s.com /\ t.got = s.got /\ t.st = "done"
  BY <1>1 DEF Session, SessionStates
<1>7. SessionMove(n, d, c, s, t)
  BY <1>1, <1>6 DEF SessionMove
<1>8. SetSession(n, d, c, t)
  BY DEF SaveKeyInfo
<1> QED BY <1>1, <1>5, <1>6, <1>7, <1>8, SetMoves

\* One session sends and the others of its committee take the message.
LEMMA GenerateMoves ==
    ASSUME NodeTypeOK, IdleHasNone, NEW n \in Nodes, NEW d \in Deliveries, NEW c \in Curves,
           GenerateKey(n, d, c)
    PROVE  NodeTypeOK' /\ Moves
<1> DEFINE com == ses(n, d, c).com
           msg == <<d[1], c, n, com>>
           takes(m, e) == /\ m # n /\ e[1] = d[1]
                          /\ ses(m, e, c).st \in {"listening", "running"}
                          /\ ses(m, e, c).com = com
           starts(m, e) == [gen[m][e] EXCEPT !.ses[c].st = "running"]
           hears(m, e) == [gen[m][e] EXCEPT !.ses[c].got = @ \cup {n}]
<1>1. \A m \in Nodes, e \in Deliveries :
         gen[m][e] \in Handler /\ \A b \in Curves : ses(m, e, b) \in Session
  BY DEF NodeTypeOK, Handler, ses
<1>2. /\ sent' = sent \cup {msg} /\ UNCHANGED <<share, info>>
      /\ ses(n, d, c).st = "listening"
  BY DEF GenerateKey
<1>3. /\ gen' = [m \in Nodes |-> [e \in Deliveries |-> gen'[m][e]]]
      /\ \A m \in Nodes, e \in Deliveries :
            \/ m = n /\ e = d /\ gen'[m][e] = starts(m, e)
            \/ takes(m, e) /\ gen'[m][e] = hears(m, e)
            \/ gen'[m][e] = gen[m][e]
  BY DEF GenerateKey
<1>4. StoreTypeOK' /\ Kept
  <2>1. msg \in Requests \X Curves \X Nodes \X SUBSET Nodes
    BY <1>1, DeliveryTypes DEF Session
  <2> QED BY <1>2, <2>1 DEF StoreTypeOK, Kept, NodeTypeOK
<1>5. ASSUME NEW m \in Nodes, NEW e \in Deliveries
      PROVE  /\ gen'[m][e] \in Handler
             /\ HandlerMove(m, e)
             /\ \A b \in Curves : \/ ses(m, e, b)' = ses(m, e, b)
                                  \/ SessionMove(m, e, b, ses(m, e, b), ses(m, e, b)')
  <2> DEFINE s == ses(m, e, c)
  <2>1. CASE m = n /\ e = d /\ gen'[m][e] = starts(m, e)
    <3> DEFINE t == [s EXCEPT !.st = "running"]
    <3>1. /\ gen'[m][e] \in Handler /\ gen'[m][e].pc = gen[m][e].pc
          /\ gen'[m][e].ses[c] = t
          /\ \A b \in Curves : b # c => gen'[m][e].ses[b] = gen[m][e].ses[b]
      <4>1. t \in Session
        BY <1>1 DEF Session, SessionStates
      <4>2. gen'[m][e] = [gen[m][e] EXCEPT !.ses[c] = t]
        BY <2>1 DEF ses
      <4> HIDE DEF t
      <4>3. gen[m][e] \in Handler
        BY <1>1
      <4> QED BY <4>1, <4>2, <4>3 DEF Handler
    <3>2. t.st = "running" /\ t.com = s.com /\ t.got = s.got
      BY <1>1 DEF Session
    <3>3. SessionMove(m, e, c, s, t)
      BY <1>2, <2>1, <3>2 DEF SessionMove
    <3>4. ses(m, e, c)' = t /\ pc(m, e)' = pc(m, e)
          /\ \A b \in Curves : b # c => ses(m, e, b)' = ses(m, e, b)
      BY <3>1 DEF ses, pc
    <3>5. pc(m, e) # "idle"
      BY <1>2, <2>1 DEF IdleHasNone, NoSession
    <3> QED BY <3>1, <3>3, <3>4, <3>5, HandlerStays
  <2>2. CASE takes(m, e) /\ gen'[m][e] = hears(m, e)
    <3> DEFINE t == [s EXCEPT !.got = @ \cup {n}]
    <3>1. /\ gen'[m][e] \in Handler /\ gen'[m][e].pc = gen[m][e].pc
          /\ gen'[m][e].ses[c] = t
          /\ \A b \in Curves : b # c => gen'[m][e].ses[b] = gen[m][e].ses[b]
      <4>1. t \in Session
        BY <1>1 DEF Session
      <4>2. gen'[m][e] = [gen[m][e] EXCEPT !.ses[c] = t]
        BY <2>2 DEF ses
      <4> HIDE DEF t
      <4>3. gen[m][e] \in Handler
        BY <1>1
      <4> QED BY <4>1, <4>2, <4>3 DEF Handler
    <3>2. t.st = s.st /\ t.com = s.com /\ t.got = s.got \cup {n}
      BY <1>1 DEF Session
    <3>3. SessionMove(m, e, c, s, t)
      BY <1>2, <2>2, <3>2 DEF SessionMove
    <3>4. ses(m, e, c)' = t /\ pc(m, e)' = pc(m, e)
          /\ \A b \in Curves : b # c => ses(m, e, b)' = ses(m, e, b)
      BY <3>1 DEF ses, pc
    <3>5. pc(m, e) # "idle"
      BY <2>2 DEF IdleHasNone, NoSession
    <3> QED BY <3>1, <3>3, <3>4, <3>5, HandlerStays
  <2>3. CASE gen'[m][e] = gen[m][e]
    <3>1. pc(m, e)' = pc(m, e) /\ \A b \in Curves : ses(m, e, b)' = ses(m, e, b)
      BY <2>3 DEF pc, ses
    <3> QED BY <1>1, <2>3, <3>1, HandlerStays
  <2> QED BY <1>3, <2>1, <2>2, <2>3
<1>6. gen' \in [Nodes -> [Deliveries -> Handler]]
  BY <1>3, <1>5
<1> QED BY <1>4, <1>5, <1>6, SessionsMove

\* Every step.
LEMMA NextMoves ==
    ASSUME NodeTypeOK, IdleHasNone, RequestTypeOK, [Next]_vars
    PROVE  NodeTypeOK' /\ Moves
<1>1. CASE UNCHANGED nodeVars
  BY <1>1, NodeUnchanged
<1>2. CASE UNCHANGED vars \/ CommonStep \/ (\E w \in Requests : CreateWallet(w))
             \/ (\E d \in Deliveries : RejectKeygen(d))
  BY <1>1, <1>2 DEF vars, CommonStep, CreateWallet, RejectKeygen
<1>3. ASSUME NEW d \in Deliveries, NEW heard \in SUBSET Nodes, PublishKeygen(d, heard)
      PROVE  NodeTypeOK' /\ Moves
  <2>1. Forwarded(d)'
    BY <1>3 DEF PublishKeygen, BridgePublish, Forwarded, RequestTypeOK, Bridge
  <2> QED BY <1>3, <2>1, PublishMoves
<1>4. ASSUME NEW n \in Nodes, NEW d \in Deliveries, NEW c \in Curves, SessionStep(n, d, c)
      PROVE  NodeTypeOK' /\ Moves
  BY <1>4, WatchMoves, UnheardMoves, GenerateMoves, PutMoves, SaveMoves DEF SessionStep
<1> QED BY <1>2, <1>3, <1>4, HandlerMoves, RestartMoves DEF Next

-----------------------------------------------------------------------------
(***************************************************************************)
(* KeygenFlow implements RequestStream.                                    *)
(***************************************************************************)
Handled == \A n \in Nodes, d \in Deliveries : pc(n, d) # "idle" => Forwarded(d)

\* A handler step answers the delivery, has its answer refused, or is silent.
LEMMA HandlerRequest ==
    ASSUME Handled, NEW n \in Nodes, NEW d \in Deliveries, HandlerStep(n, d)
    PROVE  (\E ok \in BOOLEAN : Answer(d, ok)) \/ AnswerRefused(d) \/ UNCHANGED requestVars
<1>1. Forwarded(d)
  <2>1. pc(n, d) # "idle"
    BY DEF HandlerStep, CreateFails, CreateKeyGenSession, WarmUp, TimeOut, KeygenFails,
           KeygenSucceeds, KeygenRefused, KeygenTimesOut, AllDone, Starts, Busy
  <2> QED BY <2>1 DEF Handled
<1>2. CASE CreateFails(n, d) \/ KeygenTimesOut(n, d)
  BY <1>1, <1>2 DEF CreateFails, KeygenTimesOut, Abort, handleSessionError, Answer
<1>3. CASE KeygenSucceeds(n, d)
  BY <1>1, <1>3 DEF KeygenSucceeds, Answer, Enqueue
<1>4. CASE KeygenRefused(n, d)
  BY <1>1, <1>4 DEF KeygenRefused, AnswerRefused
<1>5. CASE UNCHANGED requestVars
  BY <1>5
<1> QED
  BY <1>2, <1>3, <1>4, <1>5 DEF HandlerStep, CreateKeyGenSession, WarmUp, TimeOut, KeygenFails

\* A session step reports an error or is silent.
LEMMA SessionRequest ==
    ASSUME Handled, IdleHasNone, NEW n \in Nodes, NEW d \in Deliveries, NEW c \in Curves,
           SessionStep(n, d, c)
    PROVE  Answer(d, FALSE) \/ UNCHANGED requestVars
<1>1. ASSUME NEW st, SessionError(n, d, c, st) PROVE Answer(d, FALSE)
  <2>1. ses(n, d, c).watch = "waiting" /\ NoSession.watch = "off"
    BY <1>1 DEF SessionError, NoSession
  <2>2. Forwarded(d)
    BY <2>1 DEF Handled, IdleHasNone
  <2> QED BY <1>1, <2>2 DEF SessionError, handleSessionError, Answer
<1> QED
  BY <1>1 DEF SessionStep, WatchDone, UnheardError, GenerateKey, PutShare, SaveKeyInfo

\* Every step of KeygenFlow is a step of RequestStream or leaves the request alone.
LEMMA StepImplements ==
    ASSUME Handled, IdleHasNone, [Next]_vars
    PROVE  [RequestNext]_requestVars
<1>1. CASE UNCHANGED vars
  BY <1>1 DEF vars
<1>2. ASSUME NEW w \in Requests, CreateWallet(w) PROVE RequestNext
  BY <1>2 DEF CreateWallet, RequestNext
<1>3. CASE CommonStep
  BY <1>3 DEF CommonStep, RequestNext
<1>4. ASSUME NEW d \in Deliveries,
             RejectKeygen(d) \/ \E heard \in SUBSET Nodes : PublishKeygen(d, heard)
      PROVE  RequestNext
  BY <1>4 DEF RejectKeygen, PublishKeygen, RequestNext
<1>5. ASSUME NEW n \in Nodes, NEW d \in Deliveries, HandlerStep(n, d)
      PROVE  RequestNext \/ UNCHANGED requestVars
  BY <1>5, HandlerRequest DEF RequestNext
<1>6. ASSUME NEW n \in Nodes, NEW d \in Deliveries, NEW c \in Curves, SessionStep(n, d, c)
      PROVE  RequestNext \/ UNCHANGED requestVars
  BY <1>6, SessionRequest DEF RequestNext
<1>7. ASSUME NEW n \in Nodes, Restart(n) PROVE RequestNext
  BY <1>7 DEF Restart, RequestNext
<1> QED BY <1>1, <1>2, <1>3, <1>4, <1>5, <1>6, <1>7 DEF Next

-----------------------------------------------------------------------------
(***************************************************************************)
(* The inductive invariant.                                                *)
(***************************************************************************)
\* A session's committee has the node itself; what it received was sent by parties with
\* the same committee; it has sent once it runs; it has the messages of all others and
\* its share once it says so.
Committees ==
    \A n \in Nodes, d \in Deliveries, c \in Curves :
        LET s == ses(n, d, c) IN
        /\ s.st # "off" => n \in s.com
        /\ \A m \in s.got : <<d[1], c, m, s.com>> \in sent
        /\ s.st \in {"running", "stored"} => <<d[1], c, n, s.com>> \in sent
        /\ s.st = "stored" => <<d[1], c>> \in share[n] /\ s.com \ {n} \subseteq s.got

IInv ==
    /\ RequestInv
    /\ NodeTypeOK
    /\ IdleHasNone
    /\ Handled
    /\ Committees
    /\ InfoBacked

\* The initial state: no request, no handler, no share.
LEMMA InitInv == Init => IInv
<1> SUFFICES ASSUME Init PROVE IInv
  OBVIOUS
<1>1. RequestInv
  BY RequestInitInv DEF Init
<1>2. NoHandler("idle") \in Handler
  BY DEF NoHandler, Handler, NoSession, Session, HandlerStates, SessionStates
<1>3. NodeTypeOK
  BY <1>2 DEF Init, NodeTypeOK
<1>4. \A n \in Nodes, d \in Deliveries :
         pc(n, d) = "idle" /\ \A c \in Curves : ses(n, d, c) = NoSession
  BY DEF Init, pc, ses, NoHandler
<1>5. Committees
  BY <1>4 DEF Committees, NoSession
<1>6. InfoBacked
  BY DEF Init, InfoBacked
<1> QED BY <1>1, <1>3, <1>4, <1>5, <1>6 DEF IInv, IdleHasNone, Handled

\* What every step does, for the lemmas below.
LEMMA StepFacts ==
    ASSUME IInv, [Next]_vars
    PROVE  RequestInv' /\ RequestMove /\ NodeTypeOK' /\ Moves
<1>1. RequestInv' /\ RequestMove
  BY StepImplements, RequestStepInv DEF IInv
<1> QED BY <1>1, NextMoves DEF IInv, RequestInv

\* Handlers and sessions are there only for forwarded deliveries.
LEMMA HandledStep ==
    ASSUME IInv, [Next]_vars
    PROVE  IdleHasNone' /\ Handled'
<1>1. \A n \in Nodes, d \in Deliveries : HandlerMove(n, d) /\ (Forwarded(d) => Forwarded(d)')
  BY StepFacts DEF Moves, RequestMove, BridgeMove
<1>2. IdleHasNone'
  BY <1>1 DEF IInv, IdleHasNone, HandlerMove
<1>3. Handled'
  BY <1>1 DEF IInv, Handled, HandlerMove
<1> QED BY <1>2, <1>3

\* A session keeps its committee and takes the messages of parties that have it too.
LEMMA CommitteeStep ==
    ASSUME IInv, [Next]_vars
    PROVE  Committees'
<1> SUFFICES ASSUME NEW n \in Nodes, NEW d \in Deliveries, NEW c \in Curves
             PROVE  LET t == ses(n, d, c)' IN
                    /\ t.st # "off" => n \in t.com
                    /\ \A m \in t.got : <<d[1], c, m, t.com>> \in sent'
                    /\ t.st \in {"running", "stored"} => <<d[1], c, n, t.com>> \in sent'
                    /\ t.st = "stored" => <<d[1], c>> \in share'[n] /\ t.com \ {n} \subseteq t.got
  BY DEF Committees
<1> DEFINE s == ses(n, d, c)
           t == ses(n, d, c)'
<1>1. /\ s.st # "off" => n \in s.com
      /\ \A m \in s.got : <<d[1], c, m, s.com>> \in sent
      /\ s.st \in {"running", "stored"} => <<d[1], c, n, s.com>> \in sent
      /\ s.st = "stored" => <<d[1], c>> \in share[n] /\ s.com \ {n} \subseteq s.got
  BY DEF IInv, Committees
<1>2. SessionMove(n, d, c, s, t) /\ sent \subseteq sent' /\ share[n] \subseteq share'[n]
  BY StepFacts DEF Moves, Kept
<1>3. KeyReady(n, d, c) => s.st = "running" /\ s.com \ {n} \subseteq s.got
  BY DEF KeyReady
<1> HIDE DEF s, t
<1>4. CASE t = NoSession
  BY <1>4 DEF NoSession, t
<1>5. CASE t.st = "listening" /\ n \in t.com /\ t.got = {}
  BY <1>5 DEF t
<1>6. CASE t # NoSession /\ ~(t.st = "listening" /\ n \in t.com /\ t.got = {})
  <2>1. /\ t.com = s.com
        /\ s.got \subseteq t.got
        /\ \A m \in t.got : m \in s.got \/ <<d[1], c, m, s.com>> \in sent'
        /\ \/ t.st = s.st
           \/ t.st = "over" /\ s.st # "off"
           \/ t.st = "running" /\ s.st = "listening" /\ <<d[1], c, n, s.com>> \in sent'
           \/ t.st = "stored" /\ KeyReady(n, d, c) /\ <<d[1], c>> \in share'[n]
           \/ t.st = "done" /\ s.st = "stored"
    BY <1>2, <1>6 DEF SessionMove
  <2>2. t.st # "off" => n \in t.com
    BY <1>1, <1>3, <2>1
  <2>3. \A m \in t.got : <<d[1], c, m, t.com>> \in sent'
    BY <1>1, <1>2, <2>1
  <2>4. t.st \in {"running", "stored"} => <<d[1], c, n, t.com>> \in sent'
    BY <1>1, <1>2, <1>3, <2>1
  <2>5. t.st = "stored" => <<d[1], c>> \in share'[n] /\ t.com \ {n} \subseteq t.got
    BY <1>1, <1>2, <1>3, <2>1
  <2> QED BY <2>2, <2>3, <2>4, <2>5 DEF t
<1> QED BY <1>4, <1>5, <1>6

\* A key info is saved by a session that has its share and the messages of the rest.
LEMMA InfoStep ==
    ASSUME IInv, [Next]_vars
    PROVE  InfoBacked'
<1> SUFFICES ASSUME NEW k \in KeyIDs, info'[k] # {}
             PROVE  /\ \E m \in info'[k] : k \in share'[m]
                    /\ \A m \in info'[k] : <<k[1], k[2], m, info'[k]>> \in sent'
  BY DEF InfoBacked
<1>1. sent \subseteq sent' /\ \A m \in Nodes : share[m] \subseteq share'[m]
  BY StepFacts DEF Moves, Kept
<1>2. CASE info'[k] = info[k]
  <2>1. info[k] \subseteq Nodes
    BY DEF IInv, NodeTypeOK
  <2> QED BY <1>1, <1>2, <2>1 DEF IInv, InfoBacked
<1>3. ASSUME NEW n \in Nodes, NEW d \in Deliveries, NEW c \in Curves, k = <<d[1], c>>,
             ses(n, d, c).st = "stored", info'[k] = ses(n, d, c).com
      PROVE  /\ \E m \in info'[k] : k \in share'[m]
             /\ \A m \in info'[k] : <<k[1], k[2], m, info'[k]>> \in sent'
  <2> DEFINE s == ses(n, d, c)
  <2>1. /\ n \in s.com /\ <<d[1], c>> \in share[n] /\ s.com \ {n} \subseteq s.got
        /\ <<d[1], c, n, s.com>> \in sent
        /\ \A m \in s.got : <<d[1], c, m, s.com>> \in sent
    BY <1>3 DEF IInv, Committees
  <2> HIDE DEF s
  <2>2. \A m \in s.com : <<d[1], c, m, s.com>> \in sent
    BY <2>1
  <2>3. k[1] = d[1] /\ k[2] = c /\ info'[k] = s.com
    BY <1>3 DEF s
  <2> QED BY <1>1, <1>3, <2>1, <2>2, <2>3
<1> QED BY <1>2, <1>3, StepFacts DEF Moves, Kept

\* The invariant holds in every reachable state.
LEMMA Invariance == Spec => []IInv
<1>1. ASSUME IInv, [Next]_vars PROVE IInv'
  BY <1>1, StepFacts, HandledStep, CommitteeStep, InfoStep DEF IInv
<1> QED BY <1>1, InitInv, PTL DEF Spec

-----------------------------------------------------------------------------
\* Every variable keeps its type: shares and key infos are filed by wallet and curve.
THEOREM TypeCorrect == Spec => []TypeOK
<1>1. IInv => TypeOK
  BY DEF IInv, RequestInv, TypeOK
<1> QED BY <1>1, Invariance, PTL

\* KeygenFlow implements RequestStream: timeouts, sessions that run on after them and
\* crashes do nothing to a key generation request that a request does not allow.
THEOREM Implements == Spec => RequestSpec
<1>1. Init => RequestInit
  BY DEF Init
<1>2. IInv /\ [Next]_vars => [RequestNext]_requestVars
  BY StepImplements DEF IInv
<1> QED BY <1>1, <1>2, Invariance, PTL DEF Spec, RequestSpec

\* So the bridge acks a key generation only with a result, or a refused one, and a reply
\* in an inbox is about a result of that delivery, though sessions outlive handlers.
THEOREM KeygenAnswers == Spec => [](AckAnswered /\ ReplyHasResult)
BY Implements, RequestAnswers, PTL

\* Every key info names participants that all ran the protocol with this committee,
\* one of which has stored its share, through redeliveries, timeouts and crashes.
THEOREM KeyInfosBacked == Spec => []InfoBacked
<1>1. IInv => InfoBacked
  BY DEF IInv
<1> QED BY <1>1, Invariance, PTL

-----------------------------------------------------------------------------
(***************************************************************************)
(* KeygenFlow implements WalletKeys.  A step that neither stores a share nor  *)
(* saves a key info sends messages at most.                                  *)
(***************************************************************************)
\* What WalletKeys sees.
Made == {kc \in KeyIDs \X ((SUBSET Nodes) \ {{}}) :
            \A m \in kc[2] : <<kc[1][1], kc[1][2], m, kc[2]>> \in sent}
Shares == [n \in Nodes |-> share[n] \X {0}]
Infos == [k \in KeyIDs |-> [ver |-> 0, com |-> info[k]]]

LEMMA OnlySent ==
    ASSUME [Next]_vars
    PROVE  \/ sent \subseteq sent' /\ UNCHANGED <<share, info>>
           \/ \E n \in Nodes, d \in Deliveries, c \in Curves :
                 PutShare(n, d, c) \/ SaveKeyInfo(n, d, c)
<1>1. CASE UNCHANGED nodeVars
  BY <1>1 DEF nodeVars
<1>2. CASE UNCHANGED vars \/ CommonStep \/ (\E w \in Requests : CreateWallet(w))
             \/ (\E d \in Deliveries : RejectKeygen(d))
  BY <1>1, <1>2 DEF vars, CommonStep, CreateWallet, RejectKeygen
<1>3. ASSUME NEW d \in Deliveries, NEW heard \in SUBSET Nodes, PublishKeygen(d, heard)
      PROVE  UNCHANGED <<share, info, sent>>
  BY <1>3 DEF PublishKeygen
<1>4. ASSUME NEW n \in Nodes, NEW d \in Deliveries, HandlerStep(n, d)
      PROVE  UNCHANGED <<share, info, sent>>
  BY <1>4 DEF HandlerStep, CreateFails, KeygenTimesOut, Abort, CreateKeyGenSession, WarmUp,
              TimeOut, KeygenFails, KeygenSucceeds, KeygenRefused, Return
<1>5. ASSUME NEW n \in Nodes, NEW d \in Deliveries, NEW c \in Curves, SessionStep(n, d, c),
             ~ PutShare(n, d, c), ~ SaveKeyInfo(n, d, c)
      PROVE  sent \subseteq sent' /\ UNCHANGED <<share, info>>
  <2>1. CASE GenerateKey(n, d, c)
    <3>1. sent' = sent \cup {<<d[1], c, n, ses(n, d, c).com>>} /\ UNCHANGED <<share, info>>
      BY <2>1 DEF GenerateKey
    <3> QED BY <3>1
  <2> QED BY <1>5, <2>1 DEF SessionStep, WatchDone, SessionError, UnheardError
<1>6. ASSUME NEW n \in Nodes, Restart(n)
      PROVE  UNCHANGED <<share, info, sent>>
  BY <1>6 DEF Restart
<1> QED BY <1>2, <1>3, <1>4, <1>5, <1>6 DEF Next

\* The committee of a session that has heard the others has made its key.
LEMMA SessionMade ==
    ASSUME IInv, NEW n \in Nodes, NEW d \in Deliveries, NEW c \in Curves,
           KeyReady(n, d, c) \/ ses(n, d, c).st = "stored"
    PROVE  /\ n \in ses(n, d, c).com /\ <<d[1], c>> \in KeyIDs
           /\ <<<<d[1], c>>, ses(n, d, c).com>> \in Made
<1>1. PICK C : C = ses(n, d, c).com OBVIOUS
<1>2. /\ n \in C /\ C \ {n} \subseteq ses(n, d, c).got
      /\ \A m \in ses(n, d, c).got : <<d[1], c, m, C>> \in sent
      /\ <<d[1], c, n, C>> \in sent
  BY <1>1 DEF IInv, Committees, KeyReady
<1>3. \A m \in C : <<d[1], c, m, C>> \in sent BY <1>2
<1>4. ses(n, d, c) \in Session BY DEF IInv, NodeTypeOK, Handler, ses
<1>5. C \in (SUBSET Nodes) \ {{}} BY <1>1, <1>2, <1>4 DEF Session
<1>6. <<d[1], c>> \in KeyIDs BY DeliveryTypes DEF KeyIDs
<1>7. <<<<d[1], c>>, C>> \in Made BY <1>3, <1>5, <1>6 DEF Made
<1> QED BY <1>1, <1>2, <1>6, <1>7

LEMMA PutShareStores ==
    ASSUME IInv, NEW n \in Nodes, NEW d \in Deliveries, NEW c \in Curves, PutShare(n, d, c)
    PROVE  WK!Next
<1>1. PICK k : k = <<d[1], c>> OBVIOUS
<1>2. /\ n \in ses(n, d, c).com /\ k \in KeyIDs
      /\ <<k, ses(n, d, c).com>> \in Made
  BY <1>1, SessionMade DEF PutShare
<1>3. share' = [share EXCEPT ![n] = @ \cup {k}] /\ info' = info /\ sent' = sent
  BY <1>1 DEF PutShare
<1>4. share \in [Nodes -> SUBSET KeyIDs] BY DEF IInv, NodeTypeOK
<1>5. Shares' = [Shares EXCEPT ![n] = @ \cup {<<k, 0>>}]
  <2>1. \A m \in Nodes : share'[m] = IF m = n THEN share[m] \cup {k} ELSE share[m]
    BY <1>3, <1>4
  <2>2. \A S : (S \cup {k}) \X {0} = (S \X {0}) \cup {<<k, 0>>} OBVIOUS
  <2>3. \A m \in Nodes : share'[m] \X {0} =
           IF m = n THEN (share[m] \X {0}) \cup {<<k, 0>>} ELSE share[m] \X {0}
    BY <2>1, <2>2
  <2> QED BY <2>3 DEF Shares
<1>6. n \in DOMAIN Shares /\ <<k, 0>> \in Shares'[n] BY <1>3, <1>4 DEF Shares
<1>7. Made' = Made /\ Infos' = Infos BY <1>3 DEF Made, Infos
<1>8. \E m \in Made : m[1] = k /\ n \in m[2] BY <1>2
<1>9. WK!Store(k, 0, n) BY <1>5, <1>7, <1>8 DEF WK!Store, Made, Shares, Infos
<1> QED BY <1>6, <1>9 DEF WK!Next, Shares

LEMMA SaveKeyInfoSaves ==
    ASSUME IInv, NEW n \in Nodes, NEW d \in Deliveries, NEW c \in Curves, SaveKeyInfo(n, d, c)
    PROVE  WK!Next
<1>1. PICK k, C : k = <<d[1], c>> /\ C = ses(n, d, c).com OBVIOUS
<1>2. n \in C /\ k \in KeyIDs /\ <<k, C>> \in Made
  BY <1>1, SessionMade DEF SaveKeyInfo
<1>3. info' = [info EXCEPT ![k] = C] /\ share' = share /\ sent' = sent
  BY <1>1 DEF SaveKeyInfo
<1>4. info \in [KeyIDs -> SUBSET Nodes] BY DEF IInv, NodeTypeOK
<1>5. k \in share[n] BY <1>1 DEF SaveKeyInfo, IInv, Committees
<1>6. <<k, 0>> \in Shares[n] BY <1>5 DEF Shares
<1>7. Made' = Made /\ Shares' = Shares BY <1>3 DEF Made, Shares
<1>8. Infos' = [Infos EXCEPT ![k] = [ver |-> 0, com |-> C]] BY <1>3, <1>4 DEF Infos
<1>9. k \in DOMAIN Infos /\ Infos'[k].ver = 0 /\ Infos'[k].com = C
  BY <1>2, <1>3, <1>4 DEF Infos
<1>10. Infos' = [Infos EXCEPT ![k] = [ver |-> Infos'[k].ver, com |-> Infos'[k].com]]
  BY <1>8, <1>9
<1>11. <<k, Infos'[k].com>> \in Made /\ \E m \in Infos'[k].com : <<k, Infos'[k].ver>> \in Shares[m]
  BY <1>2, <1>6, <1>9
<1>12. \E j \in DOMAIN Infos :
          /\ <<j, Infos'[j].com>> \in Made
          /\ \E m \in Infos'[j].com : <<j, Infos'[j].ver>> \in Shares[m]
          /\ Infos' = [Infos EXCEPT ![j] = [ver |-> Infos'[j].ver, com |-> Infos'[j].com]]
          /\ Made' = Made /\ Shares' = Shares
  BY <1>7, <1>9, <1>10, <1>11
<1> QED BY <1>12 DEF WK!Next, WK!Save, Made, Shares, Infos

LEMMA SentRuns ==
    ASSUME sent \subseteq sent', UNCHANGED <<share, info>>
    PROVE  WK!Next
<1>1. Made \subseteq Made' BY DEF Made
<1>2. Shares' = Shares /\ Infos' = Infos BY DEF Shares, Infos
<1>3. WK!Run BY <1>1, <1>2 DEF WK!Run, Made, Shares, Infos
<1> QED BY <1>3 DEF WK!Next

\* The shares and key infos that GenerateKey leaves are those that WalletKeys allows,
\* however deliveries overlap, time out, crash and fail to store.
THEOREM KeysMade == Spec => WalletKeysSpec
<1>1. Init => WK!Init
  <2> SUFFICES ASSUME Init PROVE Made = {} BY DEF WK!Init, Made
  <2> QED BY DEF Init, Made
<1>2. IInv /\ [Next]_vars => [WK!Next]_(WK!vars)
  BY OnlySent, PutShareStores, SaveKeyInfoSaves, SentRuns
<1> QED BY <1>1, <1>2, Invariance, PTL DEF Spec, WalletKeysSpec, WK!Spec
=============================================================================
