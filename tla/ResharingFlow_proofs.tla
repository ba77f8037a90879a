----------------------- MODULE ResharingFlow_proofs -----------------------
(***************************************************************************)
(* Proofs about module ResharingFlow, for any committees and thresholds, any *)
(* number of deliveries that are served at once, and any number of crashes   *)
(* and refused results.                                                     *)
(***************************************************************************)
EXTENDS ResharingFlow, TLAPS

-----------------------------------------------------------------------------
(***************************************************************************)
(* The inductive invariant.  The key info moves with a quorum because every  *)
(* session carries a quorum of the version it was created from, however      *)
(* stale that is, and takes messages of parties of its own protocol only; a  *)
(* session that stores has heard all of them.                               *)
(***************************************************************************)
\* Old parties of a protocol that can move a key of this version.
QuorumOf(old, ver) ==
    old \subseteq PeersOf(ver) /\ Cardinality(old) >= ThresholdOf(ver) + 1

\* A session s of n in role r, when S was sent and n holds these shares.
Good(s, n, r, S, held) ==
    s.st # "off" =>
        /\ r = "new" => n \in NewPeers
        /\ QuorumOf(s.prot.old, s.ver)
        /\ s.st = "open" => s.got = {}
        /\ \A q \in s.got : <<q, s.prot>> \in S
        /\ s.st \in {"running", "stored", "done"} => <<<<n, r>>, s.prot>> \in S
        /\ (r = "new" /\ s.st \in {"stored", "done"}) =>
              /\ \A q \in PartiesOf(s.prot) : <<q, s.prot>> \in S
              /\ s.ver + 1 \in held

\* A handler h of n: its sessions, and that a new participant has a new session.
GoodHandler(h, n, S, held) ==
    /\ \A r \in Roles : Good(h.ses[r], n, r, S, held)
    /\ h.pc \in {"opened", "listening", "waiting"} /\ h.ses["new"].st = "off" => n \notin NewPeers

NodeTypeOK ==
    /\ hand \in [Nodes -> [Deliveries -> Handler]]
    /\ share \in [Nodes -> SUBSET Nat]
    /\ sent \subseteq Party \X Protocol

RequestTypeOK ==
    /\ bridge \in [Deliveries -> {"none", "waiting", "replied", "ended"}]
    /\ acked \in BOOLEAN
    /\ results \subseteq (0..MaxDeliver) \X BOOLEAN
    /\ lost \in BOOLEAN
    /\ faults \in 0..MaxFaults

KeyInv ==
    /\ info \in [ver : Nat, com : SUBSET Nodes]
    /\ info.com = PeersOf(info.ver)
    /\ MovedByQuorum

NodeInv ==
    /\ NodeTypeOK
    /\ \A n \in Nodes, d \in Deliveries : GoodHandler(hand[n][d], n, sent, share[n])
    /\ KeyInv

IInv ==
    /\ RequestTypeOK
    /\ NodeInv
    /\ ReplyExplained

-----------------------------------------------------------------------------
(***************************************************************************)
(* What steps leave alone.                                                 *)
(***************************************************************************)
\* Messages and shares stay.
Kept ==
    /\ sent \subseteq sent' /\ sent' \subseteq Party \X Protocol
    /\ share' \in [Nodes -> SUBSET Nat]
    /\ \A n \in Nodes : share[n] \subseteq share'[n]

\* A handler that has ended does not come back, except in a delivery that is made now.
PcKept ==
    \A n \in Nodes, d \in Deliveries :
        pc(n, d) = "ended" => pc(n, d)' = "ended" \/ bridge[d] = "none"

LEMMA GoodStays ==
    ASSUME NEW s, NEW n, NEW r, NEW S, NEW T, NEW held, NEW kept,
           S \subseteq T, held \subseteq kept, Good(s, n, r, S, held)
    PROVE  Good(s, n, r, T, kept)
BY DEF Good

LEMMA GoodHandlerStays ==
    ASSUME NEW h, NEW n, NEW S, NEW T, NEW held, NEW kept,
           S \subseteq T, held \subseteq kept, GoodHandler(h, n, S, held)
    PROVE  GoodHandler(h, n, T, kept)
BY GoodStays DEF GoodHandler

\* What was said of the key info stays true when it stays.
LEMMA KeyStays ==
    ASSUME NodeInv, Kept, UNCHANGED info
    PROVE  KeyInv'
<1>1. MovedByQuorum'
  <2> SUFFICES ASSUME info.ver > 0 PROVE MovedByQuorum'
    BY DEF MovedByQuorum
  <2>1. PICK n \in info.com : info.ver \in share[n]
    BY DEF NodeInv, KeyInv, MovedByQuorum
  <2>2. n \in Nodes BY DEF NodeInv, KeyInv
  <2>3. PICK p \in {t[2] : t \in sent} : AllRan(p) /\ QuorumOf(p.old, info.ver - 1)
    BY DEF NodeInv, KeyInv, MovedByQuorum, QuorumOf
  <2>4. p \in {t[2] : t \in sent'} BY DEF Kept
  <2>5. AllRan(p)' BY <2>3 DEF AllRan, Kept
  <2>6. info.ver \in share'[n] BY <2>1, <2>2 DEF Kept
  <2> QED BY <2>1, <2>3, <2>4, <2>5, <2>6 DEF MovedByQuorum, QuorumOf
<1> QED BY <1>1 DEF NodeInv, KeyInv, PeersOf

\* The handlers stay good if each of them stays as it is or becomes so.
LEMMA HandlersKeep ==
    ASSUME NodeInv, Kept, KeyInv',
           hand' \in [Nodes -> [Deliveries -> Handler]],
           \A n \in Nodes, d \in Deliveries :
              hand'[n][d] = hand[n][d] \/ GoodHandler(hand'[n][d], n, sent', share'[n])
    PROVE  NodeInv'
<1>1. NodeTypeOK' BY DEF NodeTypeOK, Kept
<1>2. ASSUME NEW n \in Nodes, NEW d \in Deliveries
      PROVE  GoodHandler(hand'[n][d], n, sent', share'[n])
  <2>1. CASE hand'[n][d] = hand[n][d]
    <3>1. GoodHandler(hand[n][d], n, sent, share[n]) BY DEF NodeInv
    <3> QED BY <2>1, <3>1, GoodHandlerStays DEF Kept
  <2> QED BY <1>2, <2>1
<1> QED BY <1>1, <1>2 DEF NodeInv

\* Only the handler of n and d changes, to h.
LEMMA OneHandler ==
    ASSUME NodeTypeOK, NEW n \in Nodes, NEW d \in Deliveries, NEW h \in Handler,
           hand' = [hand EXCEPT ![n][d] = h],
           pc(n, d) = "ended" => h.pc = "ended"
    PROVE  /\ hand' \in [Nodes -> [Deliveries -> Handler]]
           /\ \A m \in Nodes, e \in Deliveries :
                 hand'[m][e] = hand[m][e] \/ (m = n /\ e = d /\ hand'[m][e] = h)
           /\ hand'[n][d] = h
           /\ PcKept
<1>1. /\ hand' \in [Nodes -> [Deliveries -> Handler]]
      /\ \A m \in Nodes, e \in Deliveries :
            hand'[m][e] = hand[m][e] \/ (m = n /\ e = d /\ hand'[m][e] = h)
      /\ hand'[n][d] = h
  BY DEF NodeTypeOK
<1> QED BY <1>1 DEF PcKept, pc

LEMMA OneHandlerKeeps ==
    ASSUME NodeInv, Kept, KeyInv',
           NEW n \in Nodes, NEW d \in Deliveries, NEW h \in Handler,
           hand' = [hand EXCEPT ![n][d] = h],
           pc(n, d) = "ended" => h.pc = "ended",
           GoodHandler(h, n, sent', share'[n])
    PROVE  NodeInv' /\ PcKept
<1>1. NodeTypeOK BY DEF NodeInv
<1>2. /\ hand' \in [Nodes -> [Deliveries -> Handler]]
      /\ \A m \in Nodes, e \in Deliveries :
            hand'[m][e] = hand[m][e] \/ (m = n /\ e = d /\ hand'[m][e] = h)
      /\ PcKept
  BY <1>1, OneHandler
<1>3. NodeInv' BY <1>2, HandlersKeep
<1> QED BY <1>2, <1>3

\* Nothing is stored or sent.
LEMMA Quiet ==
    ASSUME NodeInv, UNCHANGED <<share, info, sent>>
    PROVE  Kept /\ KeyInv'
<1>1. Kept BY DEF NodeInv, NodeTypeOK, Kept
<1> QED BY <1>1, KeyStays

\* A handler goes on, without a session that is wanted.
LEMMA SetPcKeeps ==
    ASSUME NodeInv, NEW n \in Nodes, NEW d \in Deliveries, NEW state \in {"ended", "wedged"},
           SetPc(n, d, state), pc(n, d) # "ended"
    PROVE  NodeInv' /\ PcKept /\ pc(n, d)' = state
<1> DEFINE h == [hand[n][d] EXCEPT !.pc = state]
<1>1. hand[n][d] \in Handler BY DEF NodeInv, NodeTypeOK
<1>2. h \in Handler /\ h.ses = hand[n][d].ses /\ h.pc = state
  BY <1>1 DEF Handler, HandlerStates
<1>3. hand' = [hand EXCEPT ![n][d] = h] /\ UNCHANGED <<share, info, sent>>
  BY DEF SetPc, NodeInv, NodeTypeOK
<1>4. GoodHandler(hand[n][d], n, sent, share[n]) BY DEF NodeInv
<1>5. GoodHandler(h, n, sent', share'[n]) BY <1>2, <1>3, <1>4 DEF GoodHandler
<1> HIDE DEF h
<1>6. NodeInv' /\ PcKept BY <1>2, <1>3, <1>5, Quiet, OneHandlerKeeps
<1>7. hand'[n][d] = h BY <1>2, <1>3 DEF NodeInv, NodeTypeOK
<1> QED BY <1>2, <1>6, <1>7 DEF pc

\* A session changes, of a handler whose other session stays.
LEMMA SetSessionKeeps ==
    ASSUME NodeInv, Kept, KeyInv',
           NEW n \in Nodes, NEW d \in Deliveries, NEW r \in Roles, NEW s \in Session,
           SetSession(n, d, r, s), s.st = "off" => hand[n][d].ses[r].st = "off",
           Good(s, n, r, sent', share'[n])
    PROVE  NodeInv' /\ PcKept
<1> DEFINE h == [hand[n][d] EXCEPT !.ses[r] = s]
<1>1. hand[n][d] \in Handler BY DEF NodeInv, NodeTypeOK
<1>2. /\ h \in Handler /\ h.pc = hand[n][d].pc /\ h.ses[r] = s
      /\ \A q \in Roles : q # r => h.ses[q] = hand[n][d].ses[q]
  BY <1>1 DEF Handler
<1>3. hand' = [hand EXCEPT ![n][d] = h] BY DEF SetSession, NodeInv, NodeTypeOK
<1> HIDE DEF h
<1>4. GoodHandler(hand[n][d], n, sent', share'[n])
  <2>1. GoodHandler(hand[n][d], n, sent, share[n]) BY DEF NodeInv
  <2> QED BY <2>1, GoodHandlerStays DEF Kept
<1>5. GoodHandler(h, n, sent', share'[n]) BY <1>2, <1>4 DEF GoodHandler, Roles
<1> QED BY <1>2, <1>3, <1>5, OneHandlerKeeps DEF pc

-----------------------------------------------------------------------------
(***************************************************************************)
(* Each action keeps the nodes' part.                                      *)
(***************************************************************************)
LEMMA NoSessionType == NoSession \in Session /\ NoSession.st = "off"
BY DEF NoSession, Session, SessionStates, Protocol

LEMMA NoHandlerGood ==
    ASSUME NEW state \in HandlerStates \ {"opened", "listening", "waiting"}, NEW n, NEW S, NEW held
    PROVE  /\ NoHandler(state) \in Handler /\ NoHandler(state).pc = state
           /\ GoodHandler(NoHandler(state), n, S, held)
<1>1. NoHandler(state) \in Handler BY NoSessionType DEF NoHandler, Handler
<1>2. NoHandler(state).pc = state /\ \A r \in Roles : NoHandler(state).ses[r] = NoSession
  BY DEF NoHandler
<1> QED BY <1>1, <1>2, NoSessionType DEF GoodHandler, Good

\* The event of a delivery reaches some nodes.
LEMMA PublishKeeps ==
    ASSUME NodeInv, NEW d \in Deliveries, NEW heard \in SUBSET Nodes,
           PublishResharing(d, heard)
    PROVE  NodeInv' /\ PcKept
<1>1. hand' = [n \in Nodes |-> IF n \in heard
                               THEN [hand[n] EXCEPT ![d] = NoHandler("queued")]
                               ELSE hand[n]]
  BY DEF PublishResharing
<1>2. bridge[d] = "none" /\ UNCHANGED <<share, info, sent>>
  BY DEF PublishResharing, Delivered
<1>3. NoHandler("queued") \in Handler
  BY NoHandlerGood DEF HandlerStates
<1>4. /\ hand' \in [Nodes -> [Deliveries -> Handler]]
      /\ \A n \in Nodes, e \in Deliveries :
            hand'[n][e] = hand[n][e] \/ (e = d /\ hand'[n][e] = NoHandler("queued"))
  BY <1>1, <1>3 DEF NodeInv, NodeTypeOK
<1>5. \A n \in Nodes : GoodHandler(NoHandler("queued"), n, sent', share'[n])
  BY NoHandlerGood DEF HandlerStates
<1>6. NodeInv' BY <1>2, <1>4, <1>5, Quiet, HandlersKeep
<1>7. PcKept BY <1>2, <1>4 DEF PcKept, pc
<1> QED BY <1>6, <1>7

\* All the handlers of n change, to those of H.
LEMMA NodeHandlersKeep ==
    ASSUME NodeInv, Kept, KeyInv',
           NEW n \in Nodes, NEW H \in [Deliveries -> Handler],
           hand' = [hand EXCEPT ![n] = H],
           \A d \in Deliveries : GoodHandler(H[d], n, sent', share'[n]),
           \A d \in Deliveries : hand[n][d].pc = "ended" => H[d].pc = "ended"
    PROVE  NodeInv' /\ PcKept
<1>1. hand \in [Nodes -> [Deliveries -> Handler]] BY DEF NodeInv, NodeTypeOK
<1>2. hand' \in [Nodes -> [Deliveries -> Handler]] BY <1>1
<1>3. \A m \in Nodes : hand'[m] = IF m = n THEN H ELSE hand[m] BY <1>1
<1>4. NodeInv' BY <1>2, <1>3, HandlersKeep
<1>5. PcKept BY <1>3 DEF PcKept, pc
<1> QED BY <1>4, <1>5

\* A crash ends the handlers and sessions of a node.
LEMMA RestartKeeps ==
    ASSUME NodeInv, NEW n \in Nodes, Restart(n)
    PROVE  NodeInv' /\ PcKept
<1> DEFINE state(d) == IF pc(n, d) = "idle" THEN "idle" ELSE "ended"
           H == [d \in Deliveries |-> NoHandler(state(d))]
<1>1. hand' = [hand EXCEPT ![n] = H] /\ UNCHANGED <<share, info, sent>>
  BY DEF Restart
<1>2. \A d \in Deliveries : state(d) \in HandlerStates \ {"opened", "listening", "waiting"}
  BY DEF HandlerStates
<1>3. \A d \in Deliveries : hand[n][d].pc = "ended" => state(d) = "ended"
  BY DEF pc
<1> HIDE DEF state
<1>4. \A d \in Deliveries :
         /\ NoHandler(state(d)) \in Handler
         /\ NoHandler(state(d)).pc = state(d)
         /\ GoodHandler(NoHandler(state(d)), n, sent', share'[n])
  BY <1>2, NoHandlerGood
<1>5. H \in [Deliveries -> Handler] /\ \A d \in Deliveries : H[d] = NoHandler(state(d))
  BY <1>4
<1> HIDE DEF H
<1>6. \A d \in Deliveries : GoodHandler(H[d], n, sent', share'[n])
  BY <1>4, <1>5
<1>7. \A d \in Deliveries : hand[n][d].pc = "ended" => H[d].pc = "ended"
  BY <1>3, <1>4, <1>5
<1> QED BY <1>1, <1>5, <1>6, <1>7, Quiet, NodeHandlersKeep

\* A session that is opened has a quorum of the holders of this moment.
LEMMA OpenGood ==
    ASSUME NodeInv, NEW n \in Nodes, NEW r \in Roles, NEW S, NEW held,
           NEW peers \in SUBSET Nodes,
           EnoughHolders(peers), r = "new" => n \in NewPeers
    PROVE  /\ OpenSession(peers) \in Session
           /\ OpenSession(peers).st = "open"
           /\ Good(OpenSession(peers), n, r, S, held)
<1> DEFINE s == OpenSession(peers)
<1>1. info.ver \in Nat /\ info.com \subseteq Nodes /\ info.com = PeersOf(info.ver)
  BY DEF NodeInv, KeyInv
<1>3. [old |-> info.com \cap peers, ver |-> info.ver] \in Protocol
  BY <1>1 DEF Protocol
<1>4. NoSession \in Session /\ NoSession.got = {} BY NoSessionType DEF NoSession
<1>5. /\ s \in Session /\ s.st = "open" /\ s.ver = info.ver /\ s.got = {}
      /\ s.prot = [old |-> info.com \cap peers, ver |-> info.ver]
  BY <1>1, <1>3, <1>4 DEF OpenSession, Session, SessionStates
<1> HIDE DEF s
<1>6. QuorumOf(info.com \cap peers, info.ver) BY <1>1 DEF QuorumOf, EnoughHolders
<1>7. Good(s, n, r, S, held) BY <1>5, <1>6 DEF Good
<1> QED BY <1>5, <1>7 DEF s

LEMMA CreateOldKeeps ==
    ASSUME NodeInv, NEW n \in Nodes, NEW d \in Deliveries,
           NEW ready \in ReadyViews(n), NEW peers \in ReadyViews(n),
           CreateOldSession(n, d, ready, peers)
    PROVE  NodeInv' /\ PcKept
<1> DEFINE s == IF n \in info.com THEN OpenSession(peers) ELSE NoSession
           h == [hand[n][d] EXCEPT !.pc = "opening", !.ses["old"] = s]
<1>1. hand[n][d] \in Handler BY DEF NodeInv, NodeTypeOK
<1>2. peers \in SUBSET Nodes BY DEF ReadyViews
<1>3. pc(n, d) = "queued" /\ UNCHANGED <<share, info, sent>>
  BY DEF CreateOldSession, Starts
<1>4. s \in Session /\ Good(s, n, "old", sent', share'[n])
  <2>1. CASE n \in info.com
    BY <1>2, <2>1, OpenGood DEF CreateOldSession, Roles
  <2>2. CASE n \notin info.com
    BY <2>2, NoSessionType DEF Good
  <2> QED BY <2>1, <2>2
<1>5. hand' = [hand EXCEPT ![n][d] = h]
  BY DEF CreateOldSession, NodeInv, NodeTypeOK
<1> HIDE DEF s
<1>6. /\ h \in Handler /\ h.pc = "opening" /\ h.ses["old"] = s
      /\ h.ses["new"] = hand[n][d].ses["new"]
  BY <1>1, <1>4 DEF Handler, HandlerStates, Roles
<1> HIDE DEF h
<1>7. GoodHandler(hand[n][d], n, sent', share'[n]) BY <1>3 DEF NodeInv
<1>8. GoodHandler(h, n, sent', share'[n]) BY <1>4, <1>6, <1>7 DEF GoodHandler, Roles
<1> QED BY <1>3, <1>5, <1>6, <1>8, Quiet, OneHandlerKeeps

\* A session that goes back to listening needs less.
LEMMA ListenGood ==
    ASSUME NEW s \in Session, NEW n, NEW r, NEW S, NEW held, Good(s, n, r, S, held)
    PROVE  /\ InitAndListen(s) \in Session
           /\ InitAndListen(s).st = "off" <=> s.st = "off"
           /\ Good(InitAndListen(s), n, r, S, held)
<1> DEFINE t == InitAndListen(s)
<1>1. /\ t \in Session /\ t.ver = s.ver /\ t.prot = s.prot /\ t.got = s.got
      /\ t.st = IF s.st = "off" THEN "off" ELSE "listening"
  BY DEF InitAndListen, Session, SessionStates
<1> HIDE DEF t
<1>2. Good(t, n, r, S, held) BY <1>1 DEF Good
<1> QED BY <1>1, <1>2 DEF t

\* A version that getVersion may return.
LEMMA VersionType ==
    ASSUME NodeInv, NEW s \in Session, NEW version \in getVersion(s)
    PROVE  version \in Nat
<1>1. info.ver \in Nat /\ s.ver \in Nat BY DEF NodeInv, KeyInv, Session
<1> QED BY <1>1 DEF getVersion

\* The party ids of a session that has no messages yet can be made of any version.
LEMMA PartyIDsGood ==
    ASSUME NEW s \in Session, NEW version \in Nat, NEW n, NEW r, NEW S, NEW held,
           Good(s, n, r, S, held)
    PROVE  /\ keygenPartyIDs(s, version) \in Session
           /\ keygenPartyIDs(s, version).st = "off" <=> s.st = "off"
           /\ Good(keygenPartyIDs(s, version), n, r, S, held)
<1>1. CASE s.st # "open" BY <1>1 DEF keygenPartyIDs
<1>2. CASE s.st = "open"
  <2> DEFINE p == [old |-> s.prot.old, ver |-> version]
             t == keygenPartyIDs(s, version)
  <2>1. s.prot \in Protocol BY DEF Session
  <2>2. p \in Protocol /\ p.old = s.prot.old BY <2>1 DEF Protocol
  <2>3. t = [s EXCEPT !.prot = p] BY <1>2 DEF keygenPartyIDs
  <2> HIDE DEF p, t
  <2>4. t \in Session /\ t.st = s.st /\ t.ver = s.ver /\ t.got = s.got /\ t.prot = p
    BY <2>2, <2>3 DEF Session
  <2>5. Good(t, n, r, S, held) BY <1>2, <2>2, <2>4 DEF Good
  <2> QED BY <2>4, <2>5 DEF t
<1> QED BY <1>1, <1>2

\* A session of a handler that is not off, and what is known of it.
LEMMA SessionGood ==
    ASSUME NodeInv, NEW n \in Nodes, NEW d \in Deliveries, NEW r \in Roles
    PROVE  ses(n, d, r) \in Session /\ Good(ses(n, d, r), n, r, sent, share[n])
<1>1. hand[n][d] \in Handler BY DEF NodeInv, NodeTypeOK
<1>2. GoodHandler(hand[n][d], n, sent, share[n]) BY DEF NodeInv
<1> QED BY <1>1, <1>2 DEF ses, Handler, GoodHandler

\* Both sessions of a handler are set, and it goes on to a state after "opening".
LEMMA SetBothKeeps ==
    ASSUME NodeInv, NEW n \in Nodes, NEW d \in Deliveries, UNCHANGED <<share, info, sent>>,
           pc(n, d) # "ended", NEW state \in {"opened", "listening"},
           NEW old \in Session, NEW new \in Session,
           Good(old, n, "old", sent', share'[n]), Good(new, n, "new", sent', share'[n]),
           n \in NewPeers => new.st # "off",
           NEW f, f = [r \in Roles |-> IF r = "old" THEN old ELSE new],
           hand' = [hand EXCEPT ![n][d] = [pc |-> state, ses |-> f]]
    PROVE  NodeInv' /\ PcKept
<1> DEFINE h == [pc |-> state, ses |-> f]
<1>1. f["old"] = old /\ f["new"] = new BY DEF Roles
<1>2. f \in [Roles -> Session] OBVIOUS
<1>3. h \in Handler /\ h.pc = state /\ h.ses = f
  BY <1>2 DEF Handler, HandlerStates
<1>4. hand' = [hand EXCEPT ![n][d] = h] OBVIOUS
<1> HIDE DEF h
<1>5. GoodHandler(h, n, sent', share'[n]) BY <1>1, <1>3 DEF GoodHandler, Roles
<1> QED BY <1>3, <1>4, <1>5, Quiet, OneHandlerKeeps

LEMMA CreateNewKeeps ==
    ASSUME NodeInv, NEW n \in Nodes, NEW d \in Deliveries,
           NEW ready \in ReadyViews(n), NEW peers \in ReadyViews(n),
           NEW version \in getVersion(ses(n, d, "old")),
           CreateNewSession(n, d, ready, peers, version)
    PROVE  NodeInv' /\ PcKept
<1> DEFINE old == ses(n, d, "old")
           new == IF n \in NewPeers THEN OpenSession(peers) ELSE NoSession
           ids == keygenPartyIDs(old, version)
<1>1. peers \in SUBSET Nodes BY DEF ReadyViews
<1>2. PICK f : f = [r \in Roles |-> IF r = "old" THEN ids ELSE new] OBVIOUS
<1>3. /\ pc(n, d) = "opening" /\ hand' = [hand EXCEPT ![n][d] = [pc |-> "opened", ses |-> f]]
      /\ UNCHANGED <<share, info, sent>>
  BY <1>2 DEF CreateNewSession
<1>4. old \in Session /\ Good(old, n, "old", sent, share[n]) BY SessionGood DEF Roles
<1>5. version \in Nat BY <1>4, VersionType
<1>6. ids \in Session /\ Good(ids, n, "old", sent, share[n]) BY <1>4, <1>5, PartyIDsGood
<1>7. /\ new \in Session /\ Good(new, n, "new", sent', share'[n])
      /\ n \in NewPeers => new.st # "off"
  <2>1. CASE n \in NewPeers
    <3>1. EnoughHolders(peers) BY <2>1 DEF CreateNewSession
    <3> QED BY <1>1, <2>1, <3>1, OpenGood DEF Roles
  <2>2. CASE n \notin NewPeers
    BY <2>2, NoSessionType DEF Good
  <2> QED BY <2>1, <2>2
<1> HIDE DEF old, new, ids
<1>8. Good(ids, n, "old", sent', share'[n]) BY <1>3, <1>6
<1> QED BY <1>2, <1>3, <1>6, <1>7, <1>8, SetBothKeeps

LEMMA InitSessionsKeeps ==
    ASSUME NodeInv, NEW n \in Nodes, NEW d \in Deliveries,
           NEW version \in getVersion(ses(n, d, "new")), InitSessions(n, d, version)
    PROVE  NodeInv' /\ PcKept
<1> DEFINE old == ses(n, d, "old")
           ids == keygenPartyIDs(ses(n, d, "new"), version)
<1>1. PICK f : f = [r \in Roles |-> InitAndListen(IF r = "old" THEN old ELSE ids)] OBVIOUS
<1>2. /\ pc(n, d) = "opened" /\ hand' = [hand EXCEPT ![n][d] = [pc |-> "listening", ses |-> f]]
      /\ UNCHANGED <<share, info, sent>>
  BY <1>1 DEF InitSessions
<1>3. old \in Session /\ Good(old, n, "old", sent, share[n]) BY SessionGood DEF Roles
<1>4. ses(n, d, "new") \in Session /\ Good(ses(n, d, "new"), n, "new", sent, share[n])
  BY SessionGood DEF Roles
<1>5. version \in Nat BY <1>4, VersionType
<1>6. /\ ids \in Session /\ Good(ids, n, "new", sent, share[n])
      /\ ids.st = "off" <=> ses(n, d, "new").st = "off"
  BY <1>4, <1>5, PartyIDsGood
<1>7. n \in NewPeers => ses(n, d, "new").st # "off"
  <2>1. GoodHandler(hand[n][d], n, sent, share[n]) BY DEF NodeInv
  <2> QED BY <1>2, <2>1 DEF GoodHandler, pc, ses
<1> HIDE DEF old, ids
<1>8. f = [r \in Roles |-> IF r = "old" THEN InitAndListen(old) ELSE InitAndListen(ids)]
  BY <1>1
<1>9. InitAndListen(old) \in Session /\ Good(InitAndListen(old), n, "old", sent', share'[n])
  BY <1>2, <1>3, ListenGood
<1>10. /\ InitAndListen(ids) \in Session /\ Good(InitAndListen(ids), n, "new", sent', share'[n])
       /\ n \in NewPeers => InitAndListen(ids).st # "off"
  BY <1>2, <1>6, <1>7, ListenGood
<1> QED BY <1>2, <1>8, <1>9, <1>10, SetBothKeeps

LEMMA WarmUpKeeps ==
    ASSUME NodeInv, NEW n \in Nodes, NEW d \in Deliveries, WarmUp(n, d)
    PROVE  NodeInv' /\ PcKept
<1> DEFINE f == [r \in Roles |-> IF ses(n, d, r).st = "off" THEN NoSession
                                 ELSE [ses(n, d, r) EXCEPT !.watch = "waiting"]]
           h == [pc |-> "waiting", ses |-> f]
<1>1. hand[n][d] \in Handler BY DEF NodeInv, NodeTypeOK
<1>2. /\ pc(n, d) = "listening" /\ hand' = [hand EXCEPT ![n][d] = h]
      /\ UNCHANGED <<share, info, sent>>
  BY DEF WarmUp
<1>3. GoodHandler(hand[n][d], n, sent', share'[n]) BY <1>2 DEF NodeInv
<1>4. ASSUME NEW r \in Roles
      PROVE  /\ f[r] \in Session
             /\ f[r].st = "off" <=> ses(n, d, r).st = "off"
             /\ Good(f[r], n, r, sent', share'[n])
  <2>1. ses(n, d, r) \in Session BY <1>1 DEF ses, Handler
  <2>2. Good(ses(n, d, r), n, r, sent', share'[n]) BY <1>3 DEF GoodHandler, ses
  <2>3. CASE ses(n, d, r).st = "off"
    <3>1. f[r] = NoSession BY <2>3
    <3> QED BY <2>3, <3>1, NoSessionType DEF Good
  <2>4. CASE ses(n, d, r).st # "off"
    <3> DEFINE s == ses(n, d, r)
    <3>1. f[r] = [s EXCEPT !.watch = "waiting"] BY <2>4
    <3> HIDE DEF s, f
    <3>2. s \in Session BY <2>1 DEF s
    <3>3. /\ f[r] \in Session /\ f[r].st = s.st /\ f[r].ver = s.ver
          /\ f[r].prot = s.prot /\ f[r].got = s.got
      BY <3>1, <3>2 DEF Session
    <3>4. Good(s, n, r, sent', share'[n]) BY <2>2 DEF s
    <3>5. Good(f[r], n, r, sent', share'[n]) BY <3>3, <3>4 DEF Good
    <3> QED BY <3>3, <3>5 DEF s
  <2> QED BY <2>3, <2>4
<1>5. f \in [Roles -> Session] BY <1>4
<1> HIDE DEF f
<1>6. h \in Handler /\ h.pc = "waiting" /\ h.ses = f BY <1>5 DEF Handler, HandlerStates
<1> HIDE DEF h
<1>7. "new" \in Roles BY DEF Roles
<1>8. GoodHandler(h, n, sent', share'[n])
  BY <1>2, <1>3, <1>4, <1>6, <1>7 DEF GoodHandler, pc, ses
<1> QED BY <1>2, <1>6, <1>8, Quiet, OneHandlerKeeps

\* A watcher leaves.
LEMMA WatchKeeps ==
    ASSUME NodeInv, NEW n \in Nodes, NEW d \in Deliveries, NEW r \in Roles,
           NEW w \in {"done", "error"},
           SetSession(n, d, r, [ses(n, d, r) EXCEPT !.watch = w]),
           UNCHANGED <<share, info, sent>>
    PROVE  NodeInv' /\ PcKept
<1> DEFINE s == ses(n, d, r)
           t == [s EXCEPT !.watch = w]
<1>1. s \in Session /\ Good(s, n, r, sent', share'[n]) BY SessionGood
<1>2. s = hand[n][d].ses[r] /\ SetSession(n, d, r, t) BY DEF ses
<1> HIDE DEF s
<1>3. /\ t \in Session /\ t.st = s.st /\ t.ver = s.ver /\ t.prot = s.prot /\ t.got = s.got
  BY <1>1 DEF Session
<1> HIDE DEF t
<1>4. Good(t, n, r, sent', share'[n]) BY <1>1, <1>3 DEF Good
<1>5. Kept /\ KeyInv' BY Quiet
<1> QED BY <1>2, <1>3, <1>4, <1>5, SetSessionKeeps

\* An old party ends, having sent its messages.
LEMMA OldPartyEndsKeeps ==
    ASSUME NodeInv, NEW n \in Nodes, NEW d \in Deliveries, OldPartyEnds(n, d)
    PROVE  NodeInv' /\ PcKept
<1> DEFINE s == ses(n, d, "old")
           t == [s EXCEPT !.st = "done"]
<1>1. s \in Session /\ Good(s, n, "old", sent, share[n]) BY SessionGood DEF Roles
<1>2. s.st = "running" /\ SetSession(n, d, "old", t) /\ UNCHANGED <<share, info, sent>>
  BY DEF OldPartyEnds, ReshareReady
<1> HIDE DEF s
<1>3. /\ t \in Session /\ t.st = "done" /\ t.ver = s.ver /\ t.prot = s.prot /\ t.got = s.got
  BY <1>1 DEF Session, SessionStates
<1> HIDE DEF t
<1>4. Good(t, n, "old", sent', share'[n]) BY <1>1, <1>2, <1>3 DEF Good
<1>5. Kept /\ KeyInv' BY <1>2, Quiet
<1>6. "old" \in Roles BY DEF Roles
<1> QED BY <1>2, <1>3, <1>4, <1>5, <1>6, SetSessionKeeps

\* A new party stores its share when all the parties of its protocol have run.
LEMMA PutShareKeeps ==
    ASSUME NodeInv, NEW n \in Nodes, NEW d \in Deliveries, PutShare(n, d)
    PROVE  /\ NodeInv' /\ PcKept
           /\ AllRan(ses(n, d, "new").prot) /\ n \in NewPeers
<1> DEFINE s == ses(n, d, "new")
           t == [s EXCEPT !.st = "stored"]
<1>1. s \in Session /\ Good(s, n, "new", sent, share[n]) BY SessionGood DEF Roles
<1>2. /\ s.st = "running" /\ SetSession(n, d, "new", t) /\ UNCHANGED <<info, sent>>
      /\ share' = [share EXCEPT ![n] = @ \cup {s.ver + 1}]
      /\ PartiesOf(s.prot) \ {<<n, "new">>} \subseteq s.got
  BY DEF PutShare, ReshareReady
<1> HIDE DEF s
<1>3. /\ t \in Session /\ t.st = "stored" /\ t.ver = s.ver /\ t.prot = s.prot
      /\ t.got = s.got
  BY <1>1 DEF Session, SessionStates
<1> HIDE DEF t
<1>4. \A q \in PartiesOf(s.prot) : <<q, s.prot>> \in sent
  BY <1>1, <1>2 DEF Good
<1>5. n \in NewPeers BY <1>1, <1>2 DEF Good
<1>6. s.ver + 1 \in Nat BY <1>1 DEF Session
<1>7. /\ share' \in [Nodes -> SUBSET Nat] /\ s.ver + 1 \in share'[n]
      /\ \A m \in Nodes : share[m] \subseteq share'[m]
  BY <1>2, <1>6 DEF NodeInv, NodeTypeOK
<1>8. Kept BY <1>2, <1>7 DEF Kept, NodeInv, NodeTypeOK
<1>9. KeyInv' BY <1>2, <1>8, KeyStays
<1>10. Good(t, n, "new", sent', share'[n])
  BY <1>1, <1>2, <1>3, <1>4, <1>7 DEF Good
<1>11. "new" \in Roles BY DEF Roles
<1>12. NodeInv' /\ PcKept
  BY <1>2, <1>3, <1>8, <1>9, <1>10, <1>11, SetSessionKeeps
<1> QED BY <1>4, <1>5, <1>12 DEF AllRan, s

\* The key info moves to the version of which n has its share.
LEMMA SaveKeyInfoKeeps ==
    ASSUME NodeInv, NEW n \in Nodes, NEW d \in Deliveries, SaveKeyInfo(n, d)
    PROVE  /\ NodeInv' /\ PcKept
           /\ info'.com = NewPeers /\ info'.ver \in share[n] /\ n \in NewPeers
           /\ \E t \in sent : AllRan(t[2])
<1> DEFINE s == ses(n, d, "new")
           t == [s EXCEPT !.st = "done"]
<1>1. s \in Session /\ Good(s, n, "new", sent, share[n]) BY SessionGood DEF Roles
<1>2. /\ s.st = "stored" /\ SetSession(n, d, "new", t) /\ UNCHANGED <<share, sent>>
      /\ info' = [ver |-> s.ver + 1, com |-> NewPeers]
  BY DEF SaveKeyInfo
<1> HIDE DEF s
<1>3. /\ t \in Session /\ t.st = "done" /\ t.ver = s.ver /\ t.prot = s.prot
      /\ t.got = s.got
  BY <1>1 DEF Session, SessionStates
<1> HIDE DEF t
<1>0. PICK p : p = s.prot OBVIOUS
<1>4. /\ n \in NewPeers /\ QuorumOf(p.old, s.ver) /\ s.ver + 1 \in share[n]
      /\ \A q \in PartiesOf(p) : <<q, p>> \in sent
      /\ <<<<n, "new">>, p>> \in sent
  BY <1>0, <1>1, <1>2 DEF Good
<1>5. s.ver \in Nat /\ s.ver + 1 \in Nat /\ s.ver + 1 # 0 /\ (s.ver + 1) - 1 = s.ver
  BY <1>1 DEF Session
<1>6. AllRan(p) /\ AllRan(p)' BY <1>2, <1>4 DEF AllRan
<1>7. p \in {u[2] : u \in sent} BY <1>4
<1>8. MovedByQuorum'
  <2>1. \E m \in info'.com : info'.ver \in share'[m] BY <1>2, <1>4
  <2>2. QuorumOf(p.old, info'.ver - 1) BY <1>2, <1>4, <1>5
  <2>3. (\E u \in {v[2] : v \in sent} : AllRan(u) /\ QuorumOf(u.old, info.ver - 1))'
    BY <1>2, <1>6, <1>7, <2>2
  <2> QED BY <2>1, <2>3 DEF MovedByQuorum, QuorumOf
<1>9. KeyInv' BY <1>2, <1>5, <1>8, ResharingAssumption DEF KeyInv, PeersOf
<1>10. Kept BY <1>2 DEF Kept, NodeInv, NodeTypeOK
<1>11. Good(t, n, "new", sent', share'[n])
  BY <1>0, <1>1, <1>2, <1>3, <1>4 DEF Good
<1>12. "new" \in Roles BY DEF Roles
<1>13. NodeInv' /\ PcKept
  BY <1>2, <1>3, <1>9, <1>10, <1>11, <1>12, SetSessionKeeps
<1> QED BY <1>2, <1>4, <1>6, <1>7, <1>13

\* A party runs; the sessions that take its messages are those of its protocol.
LEMMA ReshareKeeps ==
    ASSUME NodeInv, NEW n \in Nodes, NEW d \in Deliveries, NEW r \in Roles, Reshare(n, d, r)
    PROVE  NodeInv' /\ PcKept
<1> DEFINE takes(m, e, q) == /\ <<m, e, q>> # <<n, d, r>>
                             /\ ses(m, e, q).st \in {"listening", "running"}
                             /\ ses(m, e, q).prot = ses(n, d, r).prot
                             /\ n \in ListensTo(q, ses(n, d, r).prot)
           S(m, e, q) ==
             CASE m = n /\ e = d /\ q = r -> [ses(m, e, q) EXCEPT !.st = "running"]
               [] takes(m, e, q) -> [ses(m, e, q) EXCEPT !.got = @ \cup {<<n, r>>}]
               [] OTHER -> ses(m, e, q)
           H(m, e) == [pc |-> pc(m, e), ses |-> [q \in Roles |-> S(m, e, q)]]
<1>1. /\ ses(n, d, r).st = "listening"
      /\ sent' = sent \cup {<<<<n, r>>, ses(n, d, r).prot>>}
      /\ hand' = [m \in Nodes |-> [e \in Deliveries |-> H(m, e)]]
      /\ UNCHANGED <<share, info>>
  BY DEF Reshare
<1>2. Kept
  <2>1. ses(n, d, r).prot \in Protocol BY SessionGood DEF Session
  <2>2. <<n, r>> \in Party BY DEF Party
  <2>3. sent \subseteq Party \X Protocol /\ share \in [Nodes -> SUBSET Nat]
    BY DEF NodeInv, NodeTypeOK
  <2>4. <<<<n, r>>, ses(n, d, r).prot>> \in Party \X Protocol BY <2>1, <2>2
  <2>6. sent' = sent \cup {<<<<n, r>>, ses(n, d, r).prot>>} BY DEF Reshare
  <2>5. share' = share BY <1>1
  <2> QED BY <2>3, <2>4, <2>5, <2>6 DEF Kept
<1>3. KeyInv' BY <1>1, <1>2, KeyStays
<1>4. ASSUME NEW m \in Nodes, NEW e \in Deliveries, NEW q \in Roles
      PROVE  /\ S(m, e, q) \in Session
             /\ S(m, e, q).st = "off" <=> ses(m, e, q).st = "off"
             /\ Good(S(m, e, q), m, q, sent', share'[m])
  <2> DEFINE s == ses(m, e, q)
             t == S(m, e, q)
  <2>1. s \in Session /\ Good(s, m, q, sent, share[m]) BY SessionGood
  <2>2. CASE m = n /\ e = d /\ q = r
    <3>1. t = [s EXCEPT !.st = "running"] BY <2>2
    <3>2. s.st = "listening" /\ <<<<m, q>>, s.prot>> \in sent' BY <1>1, <2>2
    <3> HIDE DEF s, t
    <3>3. /\ t \in Session /\ t.st = "running" /\ t.ver = s.ver /\ t.prot = s.prot
          /\ t.got = s.got
      BY <2>1, <3>1 DEF Session, SessionStates
    <3>4. Good(t, m, q, sent', share'[m])
      BY <1>1, <2>1, <3>2, <3>3 DEF Good
    <3> QED BY <3>2, <3>3, <3>4 DEF s, t
  <2>3. CASE ~ (m = n /\ e = d /\ q = r) /\ takes(m, e, q)
    <3>1. t = [s EXCEPT !.got = @ \cup {<<n, r>>}] BY <2>3
    <3>2. s.st \in {"listening", "running"} /\ <<<<n, r>>, s.prot>> \in sent'
      BY <1>1, <2>3
    <3>3. <<n, r>> \in Party BY DEF Party
    <3> HIDE DEF s, t
    <3>4. /\ t \in Session /\ t.st = s.st /\ t.ver = s.ver /\ t.prot = s.prot
          /\ t.got = s.got \cup {<<n, r>>}
      BY <2>1, <3>1, <3>3 DEF Session
    <3>5. Good(t, m, q, sent', share'[m])
      BY <1>1, <2>1, <3>2, <3>4 DEF Good
    <3> QED BY <3>4, <3>5 DEF s, t
  <2>4. CASE ~ (m = n /\ e = d /\ q = r) /\ ~ takes(m, e, q)
    <3>1. t = s BY <2>4
    <3>2. Good(s, m, q, sent', share'[m]) BY <1>1, <2>1, GoodStays
    <3> HIDE DEF s, t
    <3> QED BY <2>1, <3>1, <3>2 DEF s, t
  <2> QED BY <2>2, <2>3, <2>4
<1> HIDE DEF S
<1>5. ASSUME NEW m \in Nodes, NEW e \in Deliveries
      PROVE  /\ H(m, e) \in Handler /\ H(m, e).pc = pc(m, e)
             /\ GoodHandler(H(m, e), m, sent', share'[m])
  <2>1. GoodHandler(hand[m][e], m, sent, share[m]) BY DEF NodeInv
  <2>2. hand[m][e].pc \in HandlerStates BY DEF NodeInv, NodeTypeOK, Handler
  <2>3. H(m, e) \in Handler BY <1>4, <2>2 DEF Handler, pc
  <2>4. H(m, e).pc = pc(m, e) /\ \A q \in Roles : H(m, e).ses[q] = S(m, e, q)
    OBVIOUS
  <2> HIDE DEF H
  <2>5. "new" \in Roles BY DEF Roles
  <2>6. H(m, e).ses["new"].st = "off" <=> hand[m][e].ses["new"].st = "off"
    BY <1>4, <2>4, <2>5 DEF ses
  <2>7. \A q \in Roles : Good(H(m, e).ses[q], m, q, sent', share'[m])
    BY <1>4, <2>4
  <2>8. GoodHandler(H(m, e), m, sent', share'[m])
    BY <2>1, <2>4, <2>6, <2>7 DEF GoodHandler, pc
  <2> QED BY <2>3, <2>4, <2>8
<1> HIDE DEF H
<1>6. hand' \in [Nodes -> [Deliveries -> Handler]] BY <1>1, <1>5
<1>7. \A m \in Nodes, e \in Deliveries : hand'[m][e] = H(m, e) BY <1>1
<1>8. NodeInv' BY <1>2, <1>3, <1>5, <1>6, <1>7, HandlersKeep
<1>9. PcKept BY <1>5, <1>7 DEF PcKept, pc
<1> QED BY <1>8, <1>9

-----------------------------------------------------------------------------
(***************************************************************************)
(* The request's part.                                                     *)
(***************************************************************************)
Explained(d) ==
    \/ <<d, TRUE>> \in results \/ <<d, FALSE>> \in results
    \/ lost
    \/ \E n \in Nodes \ NewPeers : pc(n, d) = "ended"

\* Results are only added, and a refusal is not forgotten.
Grown == results \subseteq results' /\ (lost => lost')

LEMMA ExplainedStays ==
    ASSUME RequestTypeOK, ReplyExplained, PcKept, Grown,
           \A d \in Deliveries : bridge'[d] = "replied" => bridge[d] = "replied" \/ Explained(d)'
    PROVE  ReplyExplained'
<1> SUFFICES ASSUME NEW d \in Deliveries, bridge[d] = "replied"
             PROVE  Explained(d)'
  BY DEF ReplyExplained, Explained
<1>1. Explained(d) BY DEF ReplyExplained, Explained
<1>2. CASE \E n \in Nodes \ NewPeers : pc(n, d) = "ended"
  BY <1>2 DEF PcKept, Explained
<1>3. CASE <<d, TRUE>> \in results \/ <<d, FALSE>> \in results \/ lost
  BY <1>3 DEF Grown, Explained
<1> QED BY <1>1, <1>2, <1>3 DEF Explained

\* A step that leaves the request alone.
LEMMA RequestStays ==
    ASSUME RequestTypeOK, ReplyExplained, PcKept, UNCHANGED requestVars
    PROVE  RequestTypeOK' /\ ReplyExplained'
<1>1. /\ bridge' = bridge /\ acked' = acked /\ results' = results /\ lost' = lost
      /\ faults' = faults
  BY DEF requestVars
<1>2. RequestTypeOK' BY <1>1 DEF RequestTypeOK
<1>3. Grown BY <1>1 DEF Grown
<1> QED BY <1>1, <1>2, <1>3, ExplainedStays

LEMMA EnqueueAdds ==
    ASSUME RequestTypeOK, NEW key \in (0..MaxDeliver) \X BOOLEAN, Enqueue(key)
    PROVE  /\ results' \subseteq (0..MaxDeliver) \X BOOLEAN
           /\ lost' \in BOOLEAN /\ faults' \in 0..MaxFaults
           /\ Grown
           /\ key \in results' \/ lost'
<1>1. CASE results' = results \cup {key} /\ UNCHANGED <<lost, faults>>
  BY <1>1 DEF RequestTypeOK, Grown
<1>2. CASE Fault /\ lost' = TRUE /\ UNCHANGED results
  <2>1. faults' \in 0..MaxFaults
    BY <1>2, ResharingAssumption DEF RequestTypeOK, Fault
  <2> QED BY <1>2, <2>1 DEF RequestTypeOK, Grown
<1> QED BY <1>1, <1>2 DEF Enqueue

LEMMA ReplySends ==
    ASSUME RequestTypeOK, NEW d \in Deliveries, sendReplyToRemoveMsg(d)
    PROVE  /\ bridge' \in [Deliveries -> {"none", "waiting", "replied", "ended"}]
           /\ \A e \in Deliveries : bridge'[e] = "replied" => bridge[e] = "replied" \/ e = d
BY DEF RequestTypeOK, sendReplyToRemoveMsg

LEMMA KeysTyped ==
    ASSUME NEW d \in Deliveries, NEW ok \in BOOLEAN
    PROVE  composeResharingResultIdempotentKey(d, ok) \in (0..MaxDeliver) \X BOOLEAN
BY ResharingAssumption DEF Deliveries, composeResharingResultIdempotentKey

\* An error is reported: its result, or a refusal, explains the reply.
LEMMA ErrorKeeps ==
    ASSUME RequestTypeOK, ReplyExplained, PcKept, NEW d \in Deliveries,
           handleResharingSessionError(d)
    PROVE  RequestTypeOK' /\ ReplyExplained'
<1> DEFINE key == composeResharingResultIdempotentKey(d, FALSE)
<1>1. Enqueue(key) /\ sendReplyToRemoveMsg(d) /\ acked' = acked
  BY DEF handleResharingSessionError
<1>2. key \in (0..MaxDeliver) \X BOOLEAN /\ key = <<d, FALSE>>
  BY KeysTyped DEF composeResharingResultIdempotentKey
<1> HIDE DEF key
<1>3. /\ results' \subseteq (0..MaxDeliver) \X BOOLEAN
      /\ lost' \in BOOLEAN /\ faults' \in 0..MaxFaults
      /\ Grown /\ (key \in results' \/ lost')
  BY <1>1, <1>2, EnqueueAdds
<1>4. /\ bridge' \in [Deliveries -> {"none", "waiting", "replied", "ended"}]
      /\ \A e \in Deliveries : bridge'[e] = "replied" => bridge[e] = "replied" \/ e = d
  BY <1>1, ReplySends
<1>5. RequestTypeOK' BY <1>1, <1>3, <1>4 DEF RequestTypeOK
<1>6. Explained(d)' BY <1>2, <1>3 DEF Explained
<1> QED BY <1>3, <1>4, <1>5, <1>6, ExplainedStays

\* The bridge's own steps reply to nobody.
LEMMA BridgeKeeps ==
    ASSUME RequestTypeOK, ReplyExplained, PcKept, NEW d \in Deliveries, BridgeStep(d)
    PROVE  RequestTypeOK' /\ ReplyExplained'
<1>1. /\ \E state \in {"ended", "waiting"} : bridge' = [bridge EXCEPT ![d] = state]
      /\ acked' \in BOOLEAN
      /\ Enqueue(<<0, FALSE>>) \/ UNCHANGED <<results, lost, faults>>
  BY DEF RequestTypeOK, BridgeStep, RejectResharing, PublishFails, PublishResharing, BridgeReply,
         BridgeTimeout
<1>2. /\ bridge' \in [Deliveries -> {"none", "waiting", "replied", "ended"}]
      /\ \A e \in Deliveries : bridge'[e] = "replied" => bridge[e] = "replied"
  BY <1>1 DEF RequestTypeOK
<1>3. /\ results' \subseteq (0..MaxDeliver) \X BOOLEAN
      /\ lost' \in BOOLEAN /\ faults' \in 0..MaxFaults /\ Grown
  <2>0. 0 \in 0..MaxDeliver BY ResharingAssumption
  <2>1. <<0, FALSE>> \in (0..MaxDeliver) \X BOOLEAN BY <2>0, Zenon
  <2>2. CASE Enqueue(<<0, FALSE>>) BY <2>1, <2>2, EnqueueAdds
  <2>3. CASE UNCHANGED <<results, lost, faults>> BY <2>3 DEF RequestTypeOK, Grown
  <2> QED BY <1>1, <2>2, <2>3
<1>4. RequestTypeOK' BY <1>1, <1>2, <1>3 DEF RequestTypeOK
<1> QED BY <1>2, <1>3, <1>4, ExplainedStays

-----------------------------------------------------------------------------
(***************************************************************************)
(* The steps of a handler that end it.                                     *)
(***************************************************************************)
LEMMA AbortKeeps ==
    ASSUME IInv, NEW n \in Nodes, NEW d \in Deliveries, Abort(n, d)
    PROVE  IInv'
<1>1. pc(n, d) # "ended" /\ SetPc(n, d, "ended") /\ handleResharingSessionError(d)
  BY DEF Abort, Starts
<1>2. NodeInv' /\ PcKept BY <1>1, SetPcKeeps DEF IInv
<1> QED BY <1>1, <1>2, ErrorKeeps DEF IInv

\* A node of neither committee explains its reply.
LEMMA NotParticipatingKeeps ==
    ASSUME IInv, NEW n \in Nodes, NEW d \in Deliveries, NotParticipating(n, d)
    PROVE  IInv'
<1>1. /\ pc(n, d) # "ended" /\ SetPc(n, d, "ended") /\ sendReplyToRemoveMsg(d)
      /\ n \notin NewPeers /\ UNCHANGED <<acked, results, lost, faults>>
  BY DEF NotParticipating
<1>2. NodeInv' /\ PcKept /\ pc(n, d)' = "ended" BY <1>1, SetPcKeeps DEF IInv
<1>3. /\ bridge' \in [Deliveries -> {"none", "waiting", "replied", "ended"}]
      /\ \A e \in Deliveries : bridge'[e] = "replied" => bridge[e] = "replied" \/ e = d
  BY <1>1, ReplySends DEF IInv
<1>4. RequestTypeOK' BY <1>1, <1>3 DEF IInv, RequestTypeOK
<1>5. Grown BY <1>1 DEF Grown
<1>6. Explained(d)' BY <1>1, <1>2 DEF Explained
<1>7. ReplyExplained' BY <1>2, <1>3, <1>5, <1>6, ExplainedStays DEF IInv
<1> QED BY <1>2, <1>4, <1>7 DEF IInv

LEMMA ListenFailsKeeps ==
    ASSUME IInv, NEW n \in Nodes, NEW d \in Deliveries, ListenFails(n, d)
    PROVE  IInv'
<1>1. pc(n, d) # "ended" /\ SetPc(n, d, "wedged") /\ UNCHANGED requestVars
  BY DEF ListenFails
<1>2. NodeInv' /\ PcKept BY <1>1, SetPcKeeps DEF IInv
<1> QED BY <1>1, <1>2, RequestStays DEF IInv

\* A node without a new session is not in the new committee, and replies without a
\* result; the others have theirs.
LEMMA ReshareFinishedKeeps ==
    ASSUME IInv, NEW n \in Nodes, NEW d \in Deliveries, ReshareFinished(n, d)
    PROVE  IInv'
<1> DEFINE off == ses(n, d, "new").st = "off"
<1>1. /\ pc(n, d) = "waiting" /\ SetPc(n, d, "ended") /\ sendReplyToRemoveMsg(d)
      /\ results' = IF off THEN results
                    ELSE results \cup {composeResharingResultIdempotentKey(d, TRUE)}
      /\ UNCHANGED <<acked, lost, faults>>
  BY DEF ReshareFinished, AllDone
<1>2. off => n \notin NewPeers
  <2>1. GoodHandler(hand[n][d], n, sent, share[n]) BY DEF IInv, NodeInv
  <2> QED BY <1>1, <2>1 DEF GoodHandler, pc, ses
<1> HIDE DEF off
<1>3. NodeInv' /\ PcKept /\ pc(n, d)' = "ended" BY <1>1, SetPcKeeps DEF IInv
<1>4. /\ bridge' \in [Deliveries -> {"none", "waiting", "replied", "ended"}]
      /\ \A e \in Deliveries : bridge'[e] = "replied" => bridge[e] = "replied" \/ e = d
  BY <1>1, ReplySends DEF IInv
<1>5. /\ results' \subseteq (0..MaxDeliver) \X BOOLEAN /\ Grown
      /\ off \/ <<d, TRUE>> \in results'
  BY <1>1, KeysTyped DEF IInv, RequestTypeOK, Grown, composeResharingResultIdempotentKey
<1>6. RequestTypeOK' BY <1>1, <1>4, <1>5 DEF IInv, RequestTypeOK
<1>7. Explained(d)' BY <1>2, <1>3, <1>5 DEF Explained
<1>8. ReplyExplained' BY <1>3, <1>4, <1>5, <1>7, ExplainedStays DEF IInv
<1> QED BY <1>3, <1>6, <1>8 DEF IInv

LEMMA ReshareRefusedKeeps ==
    ASSUME IInv, NEW n \in Nodes, NEW d \in Deliveries, ReshareRefused(n, d)
    PROVE  IInv'
<1>1. /\ pc(n, d) = "waiting" /\ SetPc(n, d, "ended") /\ sendReplyToRemoveMsg(d)
      /\ results' \in {results, results \cup {composeResharingResultIdempotentKey(d, FALSE)}}
      /\ lost' = TRUE /\ Fault /\ acked' = acked
  BY DEF ReshareRefused, AllDone
<1>2. NodeInv' /\ PcKept BY <1>1, SetPcKeeps DEF IInv
<1>3. /\ bridge' \in [Deliveries -> {"none", "waiting", "replied", "ended"}]
      /\ \A e \in Deliveries : bridge'[e] = "replied" => bridge[e] = "replied" \/ e = d
  BY <1>1, ReplySends DEF IInv
<1>4. results' \subseteq (0..MaxDeliver) \X BOOLEAN /\ Grown
  BY <1>1, KeysTyped DEF IInv, RequestTypeOK, Grown
<1>5. faults' \in 0..MaxFaults
  BY <1>1, ResharingAssumption DEF IInv, RequestTypeOK, Fault
<1>6. RequestTypeOK' BY <1>1, <1>3, <1>4, <1>5 DEF IInv, RequestTypeOK
<1>7. Explained(d)' BY <1>1 DEF Explained
<1>8. ReplyExplained' BY <1>2, <1>3, <1>4, <1>7, ExplainedStays DEF IInv
<1> QED BY <1>2, <1>6, <1>8 DEF IInv

-----------------------------------------------------------------------------
LEMMA InitIInv == Init => IInv
<1> SUFFICES ASSUME Init PROVE IInv OBVIOUS
<1>0. RequestTypeOK
  <2>1. faults \in 0..MaxFaults BY ResharingAssumption DEF Init
  <2>2. bridge \in [Deliveries -> {"none", "waiting", "replied", "ended"}] BY DEF Init
  <2>3. acked \in BOOLEAN /\ lost \in BOOLEAN /\ results = {} BY DEF Init
  <2> QED BY <2>1, <2>2, <2>3 DEF RequestTypeOK
<1>1. ReplyExplained BY DEF Init, ReplyExplained
<1>2. NoHandler("idle") \in Handler BY NoHandlerGood DEF HandlerStates
<1>3. NodeTypeOK BY <1>2 DEF Init, NodeTypeOK
<1>4. \A n \in Nodes, d \in Deliveries : hand[n][d] = NoHandler("idle") BY DEF Init
<1>5. \A n \in Nodes, d \in Deliveries : GoodHandler(hand[n][d], n, sent, share[n])
  BY <1>4, NoHandlerGood DEF HandlerStates
<1>6. KeyInv BY ResharingAssumption DEF Init, KeyInv, PeersOf, MovedByQuorum
<1> QED BY <1>0, <1>1, <1>3, <1>5, <1>6 DEF IInv, NodeInv

\* A step that leaves the nodes alone.
LEMMA NodesStay ==
    ASSUME NodeInv, UNCHANGED nodeVars
    PROVE  NodeInv' /\ PcKept
<1>1. hand' = hand /\ UNCHANGED <<share, info, sent>> BY DEF nodeVars
<1>2. NodeInv' BY <1>1, Quiet, HandlersKeep DEF NodeInv, NodeTypeOK
<1> QED BY <1>1, <1>2 DEF PcKept, pc

LEMMA BridgeStepKeeps ==
    ASSUME IInv, NEW d \in Deliveries, BridgeStep(d)
    PROVE  IInv'
<1>1. NodeInv' /\ PcKept
  <2>1. CASE \E heard \in SUBSET Nodes : PublishResharing(d, heard)
    BY <2>1, PublishKeeps DEF IInv
  <2>2. CASE UNCHANGED nodeVars BY <2>2, NodesStay DEF IInv
  <2> QED BY <2>1, <2>2 DEF BridgeStep, RejectResharing, PublishFails, BridgeReply, BridgeTimeout
<1> QED BY <1>1, BridgeKeeps DEF IInv

LEMMA HandlerStepKeeps ==
    ASSUME IInv, NEW n \in Nodes, NEW d \in Deliveries, HandlerStep(n, d)
    PROVE  IInv'
<1>1. ASSUME NEW ready \in ReadyViews(n), NEW peers \in ReadyViews(n),
             \/ CreateOldSession(n, d, ready, peers)
             \/ \E version \in getVersion(ses(n, d, "old")) :
                   CreateNewSession(n, d, ready, peers, version)
      PROVE  IInv'
  <2>1. NodeInv' /\ PcKept BY <1>1, CreateOldKeeps, CreateNewKeeps DEF IInv
  <2>2. UNCHANGED requestVars BY <1>1 DEF CreateOldSession, CreateNewSession
  <2> QED BY <2>1, <2>2, RequestStays DEF IInv
<1>0. ASSUME NEW version \in getVersion(ses(n, d, "new")), InitSessions(n, d, version)
      PROVE  IInv'
  <2>1. NodeInv' /\ PcKept BY <1>0, InitSessionsKeeps DEF IInv
  <2>2. UNCHANGED requestVars BY <1>0 DEF InitSessions
  <2> QED BY <2>1, <2>2, RequestStays DEF IInv
<1>2. CASE WarmUp(n, d)
  <2>1. NodeInv' /\ PcKept BY <1>2, WarmUpKeeps DEF IInv
  <2>2. UNCHANGED requestVars BY <1>2 DEF WarmUp
  <2> QED BY <2>1, <2>2, RequestStays DEF IInv
<1> QED
  BY <1>0, <1>1, <1>2, AbortKeeps, NotParticipatingKeeps, ListenFailsKeeps, ReshareFinishedKeeps,
     ReshareRefusedKeeps DEF HandlerStep

LEMMA SessionStepKeeps ==
    ASSUME IInv, NEW n \in Nodes, NEW d \in Deliveries, NEW r \in Roles, SessionStep(n, d, r)
    PROVE  IInv'
<1>1. CASE WatchDone(n, d, r)
  <2>1. /\ SetSession(n, d, r, [ses(n, d, r) EXCEPT !.watch = "done"])
        /\ UNCHANGED <<share, info, sent>> /\ UNCHANGED requestVars
    BY <1>1 DEF WatchDone
  <2>2. NodeInv' /\ PcKept BY <2>1, WatchKeeps DEF IInv
  <2> QED BY <2>1, <2>2, RequestStays DEF IInv
<1>2. CASE SessionError(n, d, r)
  <2>1. /\ handleResharingSessionError(d)
        /\ SetSession(n, d, r, [ses(n, d, r) EXCEPT !.watch = "error"])
        /\ UNCHANGED <<share, info, sent>>
    BY <1>2 DEF SessionError
  <2>2. NodeInv' /\ PcKept BY <2>1, WatchKeeps DEF IInv
  <2> QED BY <2>1, <2>2, ErrorKeeps DEF IInv
<1>3. CASE Reshare(n, d, r)
  <2>1. NodeInv' /\ PcKept BY <1>3, ReshareKeeps DEF IInv
  <2>2. UNCHANGED requestVars BY <1>3 DEF Reshare
  <2> QED BY <2>1, <2>2, RequestStays DEF IInv
<1> QED BY <1>1, <1>2, <1>3 DEF SessionStep

LEMMA StoreStepKeeps ==
    ASSUME IInv, NEW n \in Nodes, NEW d \in Deliveries, StoreStep(n, d)
    PROVE  IInv'
<1>1. NodeInv' /\ PcKept
  BY OldPartyEndsKeeps, PutShareKeeps, SaveKeyInfoKeeps DEF IInv, StoreStep
<1>2. UNCHANGED requestVars BY DEF StoreStep, OldPartyEnds, PutShare, SaveKeyInfo
<1> QED BY <1>1, <1>2, RequestStays DEF IInv

LEMMA RestartStepKeeps ==
    ASSUME IInv, NEW n \in Nodes, Restart(n)
    PROVE  IInv'
<1>1. NodeInv' /\ PcKept BY RestartKeeps DEF IInv
<1>2. bridge' = bridge /\ UNCHANGED <<acked, results, lost>> /\ Fault BY DEF Restart
<1>3. RequestTypeOK' BY <1>2, ResharingAssumption DEF IInv, RequestTypeOK, Fault
<1>4. Grown BY <1>2 DEF Grown
<1>5. ReplyExplained' BY <1>1, <1>2, <1>4, ExplainedStays DEF IInv
<1> QED BY <1>1, <1>3, <1>5 DEF IInv

LEMMA NextIInv == IInv /\ [Next]_vars => IInv'
<1> SUFFICES ASSUME IInv, [Next]_vars PROVE IInv' OBVIOUS
<1>1. CASE UNCHANGED vars
  <2>1. UNCHANGED nodeVars /\ UNCHANGED requestVars BY <1>1 DEF vars
  <2> QED BY <2>1, NodesStay, RequestStays DEF IInv
<1>2. CASE Next
  BY <1>2, BridgeStepKeeps, HandlerStepKeeps, SessionStepKeeps, StoreStepKeeps, RestartStepKeeps
     DEF Next
<1> QED BY <1>1, <1>2

LEMMA Invariance == Spec => []IInv
BY InitIInv, NextIInv, PTL DEF Spec

\* Every variable of the resharing flow keeps its type, for any number of deliveries
\* that handleResharingEvent serves at once, of crashes and of refused results.
THEOREM TypeCorrect == Spec => []TypeOK
<1>1. IInv => TypeOK BY DEF IInv, NodeInv, RequestTypeOK, NodeTypeOK, KeyInv, TypeOK
<1> QED BY <1>1, Invariance, PTL

\* The key info that SaveKeyInfo leaves names a committee that took the key from a
\* quorum of the holders of the version before, and one of it has its share.
THEOREM QuorumMoves == Spec => []MovedByQuorum
<1>1. IInv => MovedByQuorum BY DEF IInv, NodeInv, KeyInv
<1> QED BY <1>1, Invariance, PTL

\* sendReplyToRemoveMsg never ends a request that has no answer, except for a refused
\* result or a node outside the new committee.
THEOREM RepliesExplained == Spec => []ReplyExplained
<1>1. IInv => ReplyExplained BY DEF IInv
<1> QED BY <1>1, Invariance, PTL

-----------------------------------------------------------------------------
(***************************************************************************)
(* The refinement.  A step that neither stores a share nor saves the key      *)
(* info sends messages at most, which is a run of WalletKeys.                 *)
(***************************************************************************)
Ran == \E t \in sent : AllRan(t[2])

LEMMA RanStays == (sent \subseteq sent') /\ Ran => Ran'
<1> SUFFICES ASSUME sent \subseteq sent', NEW t \in sent, AllRan(t[2])
             PROVE  Ran'
  BY DEF Ran
<1>1. PICK p : p = t[2] OBVIOUS
<1>2. AllRan(p)' BY <1>1 DEF AllRan
<1>3. t \in sent' OBVIOUS
<1> QED BY <1>1, <1>2, <1>3 DEF Ran

LEMMA OnlySent ==
    ASSUME IInv, [Next]_vars
    PROVE  \/ sent \subseteq sent' /\ UNCHANGED <<share, info>>
           \/ \E n \in Nodes, d \in Deliveries : PutShare(n, d) \/ SaveKeyInfo(n, d)
<1>1. ASSUME NEW d \in Deliveries, BridgeStep(d)
      PROVE  UNCHANGED <<share, info, sent>>
  BY <1>1 DEF BridgeStep, RejectResharing, PublishFails, PublishResharing, BridgeReply,
              BridgeTimeout, nodeVars
<1>2. ASSUME NEW n \in Nodes, NEW d \in Deliveries, HandlerStep(n, d)
      PROVE  UNCHANGED <<share, info, sent>>
  BY <1>2 DEF HandlerStep, Abort, CreateOldSession, CreateNewSession, InitSessions, NotParticipating,
              ListenFails, WarmUp, ReshareFinished, ReshareRefused, SetPc
<1>3. ASSUME NEW n \in Nodes, NEW d \in Deliveries, NEW r \in Roles, SessionStep(n, d, r)
      PROVE  sent \subseteq sent' /\ UNCHANGED <<share, info>>
  <2>1. CASE Reshare(n, d, r)
    <3>1. sent' = sent \cup {<<<<n, r>>, ses(n, d, r).prot>>} /\ UNCHANGED <<share, info>>
      BY <2>1 DEF Reshare
    <3> QED BY <3>1
  <2> QED BY <1>3, <2>1 DEF SessionStep, WatchDone, SessionError
<1>4. ASSUME NEW n \in Nodes, NEW d \in Deliveries, OldPartyEnds(n, d)
      PROVE  UNCHANGED <<share, info, sent>>
  BY <1>4 DEF OldPartyEnds
<1>5. ASSUME NEW n \in Nodes, Restart(n)
      PROVE  UNCHANGED <<share, info, sent>>
  BY <1>5 DEF Restart
<1>6. CASE UNCHANGED vars BY <1>6 DEF vars, nodeVars
<1>7. CASE Next BY <1>1, <1>2, <1>3, <1>4, <1>5, <1>7 DEF Next, StoreStep
<1> QED BY <1>6, <1>7

\* What WalletKeys sees.
Made == IF Ran THEN {<<Key, NewPeers>>} ELSE {}
Shares == [n \in Nodes |-> {Key} \X share[n]]
Infos == [k \in {Key} |-> info]

LEMMA MadeStays == sent \subseteq sent' => Made \subseteq Made'
BY RanStays DEF Made, Key

LEMMA KeyPairs ==
    ASSUME NEW S, NEW v
    PROVE  {Key} \X (S \cup {v}) = ({Key} \X S) \cup {<<Key, v>>}
OBVIOUS

LEMMA PutShareStores ==
    ASSUME NodeInv, NEW n \in Nodes, NEW d \in Deliveries, PutShare(n, d)
    PROVE  WK!Next
<1>1. AllRan(ses(n, d, "new").prot) /\ n \in NewPeers BY PutShareKeeps
<1>2. ses(n, d, "new").st = "running" /\ Good(ses(n, d, "new"), n, "new", sent, share[n])
  BY SessionGood DEF PutShare, ReshareReady, Roles
<1>3. <<<<n, "new">>, ses(n, d, "new").prot>> \in sent BY <1>2 DEF Good
<1>4. Ran BY <1>1, <1>3 DEF Ran
<1>5. PICK v : v = ses(n, d, "new").ver + 1 OBVIOUS
<1>6. share' = [share EXCEPT ![n] = @ \cup {v}] /\ info' = info /\ sent' = sent
  BY <1>5 DEF PutShare
<1>7. share \in [Nodes -> SUBSET Nat] BY DEF NodeInv, NodeTypeOK
<1>8. Shares' = [Shares EXCEPT ![n] = @ \cup {<<Key, v>>}]
  <2>1. \A m \in Nodes : share'[m] = IF m = n THEN share[m] \cup {v} ELSE share[m]
    BY <1>6, <1>7
  <2>2. \A m \in Nodes : {Key} \X share'[m] =
           IF m = n THEN ({Key} \X share[m]) \cup {<<Key, v>>} ELSE {Key} \X share[m]
    BY <2>1, KeyPairs
  <2> QED BY <2>2 DEF Shares
<1>9. <<Key, v>> \in Shares'[n] BY <1>6, <1>7 DEF Shares
<1>10. Ran' BY <1>4, <1>6, RanStays
<1>11. Made = {<<Key, NewPeers>>} /\ Made' = Made BY <1>4, <1>10 DEF Made, Key
<1>12. Infos' = Infos BY <1>6 DEF Infos, Key
<1>13. WK!Store(Key, v, n)
  BY <1>1, <1>8, <1>11, <1>12 DEF WK!Store, Made, Shares, Infos, Ran
<1>14. n \in DOMAIN Shares BY DEF Shares
<1> QED BY <1>9, <1>13, <1>14 DEF WK!Next, Shares

LEMMA SaveKeyInfoSaves ==
    ASSUME NodeInv, NEW n \in Nodes, NEW d \in Deliveries, SaveKeyInfo(n, d)
    PROVE  WK!Next
<1>1. /\ info'.com = NewPeers /\ info'.ver \in share[n] /\ n \in NewPeers /\ Ran
  BY SaveKeyInfoKeeps DEF Ran
<1>2. PICK v : v = info'.ver OBVIOUS
<1>3. info' = [ver |-> v, com |-> NewPeers] /\ share' = share /\ sent' = sent
  BY <1>2 DEF SaveKeyInfo
<1>4. Ran' BY <1>1, <1>3, RanStays
<1>5. Made = {<<Key, NewPeers>>} /\ Made' = Made BY <1>1, <1>4 DEF Made, Key
<1>6. Shares' = Shares /\ <<Key, v>> \in Shares[n] BY <1>1, <1>2, <1>3 DEF Shares
<1>7. Infos' = [Infos EXCEPT ![Key] = [ver |-> v, com |-> NewPeers]]
  BY <1>3 DEF Infos
<1>8. WK!Save(Key, v, NewPeers)
  BY <1>1, <1>5, <1>6, <1>7 DEF WK!Save, Made, Shares, Infos, Ran
<1>9. Key \in DOMAIN Infos /\ Infos'[Key].ver = v /\ Infos'[Key].com = NewPeers
  BY <1>3 DEF Infos
<1> QED BY <1>8, <1>9 DEF WK!Next, Infos

LEMMA SentRuns ==
    ASSUME sent \subseteq sent', UNCHANGED <<share, info>>
    PROVE  WK!Next
<1>1. Made \subseteq Made' BY MadeStays
<1>2. Shares' = Shares /\ Infos' = Infos BY DEF Shares, Infos
<1>3. WK!Run BY <1>1, <1>2 DEF WK!Run, Made, Shares, Infos, Ran
<1> QED BY <1>3 DEF WK!Next

\* The shares and key infos that resharings leave are those that WalletKeys allows,
\* however the deliveries of handleResharingEvent overlap, crash and fail.
THEOREM KeysMove == Spec => WalletKeysSpec
<1>1. Init => WK!Init BY DEF Init, WK!Init
<1>2. IInv /\ [Next]_vars => [WK!Next]_(WK!vars)
  BY OnlySent, PutShareStores, SaveKeyInfoSaves, SentRuns DEF IInv
<1> QED BY <1>1, <1>2, Invariance, PTL DEF Spec, WalletKeysSpec, WK!Spec
=============================================================================
