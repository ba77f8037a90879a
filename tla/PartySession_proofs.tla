------------------------ MODULE PartySession_proofs ------------------------
(***************************************************************************)
(* Proofs about the message transport of a session (module PartySession),  *)
(* for any nodes and committees and any number of faults.                  *)
(***************************************************************************)
EXTENDS PartySession, TLAPS

\* What a party is saying is its own.
OutIsOwn == \A p \in Parties : \A i \in out[p] : Script(flow)[i].by = p[2]

\* A loop that sends has a message of its party and recipients of it that are left.
LoopSends ==
    \A p \in Parties : loop[p].st = "sending" =>
        /\ loop[p].step \in Steps
        /\ Script(flow)[loop[p].step].by = p[2]
        /\ loop[p].todo # {} /\ loop[p].todo \subseteq To(Current(p))

\* A loop is only ever done with recipients of the message.
HandledIsAddressed == \A h \in handled : Addressed(h[1], h[2])

\* A session that closed has taken every message that there is for it.
ClosedHasEnded == \A p \in Parties : phase[p] = "closed" => Ended(p)

\* The inductive invariant.
SessionInv ==
    /\ TypeOK
    /\ OutIsOwn
    /\ LoopSends
    /\ HandledIsAddressed
    /\ ClosedHasEnded
    /\ LossReported

\* Where a message that a loop is done with is, or who reported it.
Reported(h) ==
    \/ h[1] \in got[h[2]]
    \/ \E c \in inbox[h[2]] : c.msg = h[1]
    \/ h \in missed
    \/ err[h[1].from] \/ err[h[2]]
    \/ phase[h[2]] = "dead"

-----------------------------------------------------------------------------
(***************************************************************************)
(* The script.                                                             *)
(***************************************************************************)
\* What depends on nothing but the flow does not change with the session.
LEMMA FlowFixed ==
    ASSUME flow' = flow
    PROVE  /\ Parties' = Parties /\ Steps' = Steps /\ Rounds' = Rounds
           /\ Messages' = Messages /\ Ciphers' = Ciphers
           /\ \A m : To(m)' = To(m)
           /\ \A m : IsBroadcast(m)' = IsBroadcast(m)
           /\ \A m, p : Addressed(m, p)' = Addressed(m, p)
           /\ \A p, g, r : Complete(p, g, r)' = Complete(p, g, r)
<1>1. Parties' = Parties /\ Steps' = Steps
    BY DEF Parties, Steps
<1>2. Messages' = Messages /\ Rounds' = Rounds
    BY <1>1 DEF Messages, Rounds
<1>3. Ciphers' = Ciphers
    BY <1>2 DEF Ciphers
<1>4. \A m : To(m)' = To(m) /\ IsBroadcast(m)' = IsBroadcast(m)
    BY <1>1 DEF To, IsBroadcast
<1>5. \A m, p : Addressed(m, p)' = Addressed(m, p)
    BY <1>4 DEF Addressed, Takes
<1>6. \A p, g, r : Complete(p, g, r)' = Complete(p, g, r)
    BY <1>2, <1>5 DEF Complete
<1>7. QED
    BY <1>1, <1>2, <1>3, <1>4, <1>5, <1>6

\* The steps of a script are numbered, and so are their rounds.
LEMMA ScriptNumbers ==
    ASSUME flow \in {"keygen", "resharing"}
    PROVE  /\ Steps \subseteq 1..4
           /\ \A i \in Steps : Script(flow)[i].round \in Nat
<1>1. CASE flow = "keygen"
    BY <1>1 DEF Steps, Script
<1>2. CASE flow = "resharing"
    BY <1>2 DEF Steps, Script
<1>3. QED
    BY <1>1, <1>2

\* A party that says something has a first step to say.
LEMMA FirstIsSaid ==
    ASSUME flow \in {"keygen", "resharing"}, NEW S \in SUBSET Steps, S # {}
    PROVE  First(S) \in S
<1>1. S \subseteq {1, 2, 3, 4}
    BY ScriptNumbers
<1>2. \E i \in S : \A j \in S : i <= j
    <2>1. CASE 1 \in S
        BY <1>1, <2>1
    <2>2. CASE 1 \notin S /\ 2 \in S
        BY <1>1, <2>2
    <2>3. CASE 1 \notin S /\ 2 \notin S /\ 3 \in S
        BY <1>1, <2>3
    <2>4. CASE S = {4}
        BY <2>4
    <2>5. QED
        BY <1>1, <2>1, <2>2, <2>3, <2>4
<1>3. QED
    BY <1>2 DEF First

\* A party that ended has every message that is addressed to it.
LEMMA EndedHasAll ==
    ASSUME flow \in {"keygen", "resharing"}, NEW p, Ended(p),
           NEW m \in Messages, Addressed(m, p)
    PROVE  m \in got[p]
<1>1. m.step \in Steps
    BY DEF Messages
<1>2. /\ Script(flow)[m.step].round \in Rounds
      /\ Script(flow)[m.step].round \in Nat
    BY <1>1, ScriptNumbers DEF Rounds
<1>3. Complete(p, got[p], Script(flow)[m.step].round + 1)
    BY <1>2 DEF Ended
<1>4. Script(flow)[m.step].round < Script(flow)[m.step].round + 1
    BY <1>2
<1>5. QED
    BY <1>3, <1>4 DEF Complete

\* What a party says is a set of its own steps.
LEMMA SaysOwn ==
    ASSUME NEW p, NEW before, NEW g
    PROVE  /\ Says(p, before, g) \subseteq Steps
           /\ \A i \in Says(p, before, g) : Script(flow)[i].by = p[2]
BY DEF Says, Spoken

\* The message of one of the party's own steps.
LEMMA OwnMessage ==
    ASSUME NEW p \in Parties, NEW i \in Steps, Script(flow)[i].by = p[2]
    PROVE  [step |-> i, from |-> p] \in Messages
BY DEF Messages

-----------------------------------------------------------------------------
(***************************************************************************)
(* What a step leaves alone keeps its part of the invariant.               *)
(***************************************************************************)
LEMMA OutFrame ==
    ASSUME SessionInv, flow' = flow,
           \A p \in Parties : \A i \in out'[p] : Script(flow)[i].by = p[2]
    PROVE  OutIsOwn'
BY FlowFixed DEF OutIsOwn

\* What is true of loops stays true while no loop moves.
LEMMA LoopFrame ==
    ASSUME SessionInv, flow' = flow,
           NEW p \in Parties, \A q \in Parties \ {p} : loop'[q] = loop[q],
           \/ loop'[p] = loop[p]
           \/ loop'[p].st # "sending"
           \/ /\ loop'[p].step \in Steps
              /\ Script(flow)[loop'[p].step].by = p[2]
              /\ loop'[p].todo # {}
              /\ loop'[p].todo \subseteq To([step |-> loop'[p].step, from |-> p])
    PROVE  LoopSends'
<1> SUFFICES ASSUME NEW q \in Parties, loop'[q].st = "sending"
             PROVE  /\ loop'[q].step \in Steps
                    /\ Script(flow)[loop'[q].step].by = q[2]
                    /\ loop'[q].todo # {}
                    /\ loop'[q].todo \subseteq To([step |-> loop'[q].step, from |-> q])
    BY FlowFixed DEF LoopSends, Current, To
<1>1. CASE loop'[q] = loop[q]
    BY <1>1 DEF SessionInv, LoopSends, Current
<1>2. QED
    BY <1>1

\* What is true of messages that a loop is done with stays true while none is added.
LEMMA HandledFrame ==
    ASSUME SessionInv, flow' = flow, \A h \in handled' \ handled : Addressed(h[1], h[2])
    PROVE  HandledIsAddressed'
BY FlowFixed DEF SessionInv, HandledIsAddressed

\* Messages that were taken stay taken; a session that closes has ended.
LEMMA ClosedFrame ==
    ASSUME SessionInv, flow' = flow,
           \A p \in Parties : got[p] \subseteq got'[p],
           \A p \in Parties : phase'[p] = "closed" => phase[p] = "closed" \/ Ended(p)
    PROVE  ClosedHasEnded'
<1> SUFFICES ASSUME NEW p \in Parties, phase'[p] = "closed", NEW r \in Rounds
             PROVE  Complete(p, got'[p], r + 1)
    BY FlowFixed DEF ClosedHasEnded, Ended
<1>1. Complete(p, got[p], r + 1)
    BY DEF SessionInv, ClosedHasEnded, Ended
<1>2. QED
    BY <1>1 DEF Complete

\* Nothing that is reported is forgotten, unless a goroutine that received a message
\* drops it.
LEMMA LossFrame ==
    ASSUME SessionInv, flow' = flow,
           \A p \in Parties : got[p] \subseteq got'[p],
           \A p \in Parties : err[p] => err'[p],
           \A p \in Parties : phase[p] = "dead" => phase'[p] = "dead",
           missed \subseteq missed',
           \A p \in Parties : \A c \in inbox[p] : Addressed(c.msg, p) =>
                \/ c \in inbox'[p] \/ c.msg \in got'[p] \/ <<c.msg, p>> \in missed'
                \/ err'[p] \/ phase'[p] = "dead",
           \A h \in handled' \ handled : Reported(h)'
    PROVE  LossReported'
<1> SUFFICES ASSUME NEW h \in handled'
             PROVE  Reported(h)'
    BY DEF LossReported, Reported
<1>1. CASE h \notin handled
    BY <1>1
<1>2. CASE h \in handled
    <2>1. h \in Messages \X Parties
        BY <1>2 DEF SessionInv, TypeOK
    <2>2. h[2] \in Parties /\ h[1].from \in Parties
        BY <2>1 DEF Messages
    <2>3. Reported(h)
        BY <1>2 DEF SessionInv, LossReported, Reported
    <2>4. Addressed(h[1], h[2])
        BY <1>2 DEF SessionInv, HandledIsAddressed
    <2>5. CASE \E c \in inbox[h[2]] : c.msg = h[1]
        <3>1. PICK c \in inbox[h[2]] : c.msg = h[1]
            BY <2>5
        <3>2. h = <<c.msg, h[2]>>
            BY <2>1, <3>1
        <3>3. QED
            BY <2>2, <2>4, <3>1, <3>2 DEF Reported
    <2>6. CASE ~\E c \in inbox[h[2]] : c.msg = h[1]
        BY <2>2, <2>3, <2>6 DEF Reported
    <2>7. QED
        BY <2>5, <2>6
<1>3. QED
    BY <1>1, <1>2

\* A step that touches neither what is said nor what is sent.
LEMMA QuietFrame ==
    ASSUME SessionInv, flow' = flow, TypeOK',
           UNCHANGED <<loop, out, got, handled>>, missed \subseteq missed',
           \A p \in Parties : err[p] => err'[p],
           \A p \in Parties : phase[p] = "dead" => phase'[p] = "dead",
           \A p \in Parties : phase'[p] = "closed" => phase[p] = "closed" \/ Ended(p),
           \A p \in Parties : \A c \in inbox[p] : Addressed(c.msg, p) =>
                c \in inbox'[p] \/ c.msg \in got[p] \/ err'[p] \/ <<c.msg, p>> \in missed'
    PROVE  SessionInv'
<1>1. OutIsOwn'
    <2>1. \A p \in Parties : \A i \in out'[p] : Script(flow)[i].by = p[2]
        BY DEF SessionInv, OutIsOwn
    <2>2. QED
        BY <2>1, OutFrame
<1>2. LoopSends'
    <2>1. CASE Parties = {}
        BY <2>1, FlowFixed DEF LoopSends
    <2>2. CASE Parties # {}
        <3>1. PICK p \in Parties : TRUE
            BY <2>2
        <3>2. QED
            BY <3>1, LoopFrame
    <2>3. QED
        BY <2>1, <2>2
<1>3. HandledIsAddressed'
    BY HandledFrame
<1>4. ClosedHasEnded'
    BY ClosedFrame
<1>5. LossReported'
    BY LossFrame
<1>6. QED
    BY <1>1, <1>2, <1>3, <1>4, <1>5 DEF SessionInv

-----------------------------------------------------------------------------
(***************************************************************************)
(* The event handler.                                                      *)
(***************************************************************************)
LEMMA HearsNodes ==
    ASSUME NEW p \in Parties
    PROVE  Hears(p) \subseteq Nodes
<1>1. \A q \in Parties : q[1] \in Nodes
    BY SessionAssumption DEF Parties, PartyIDs
<1>2. QED
    BY <1>1, SessionAssumption DEF Hears, PartyIDToNodeID

\* A fault uses up one of the faults there may be.
LEMMA FaultCounts ==
    ASSUME SessionInv, Fault
    PROVE  faults' \in 0..MaxFaults
BY SessionAssumption DEF SessionInv, TypeOK, Fault

\* Raising an error takes none back.
LEMMA RaiseKeeps ==
    ASSUME SessionInv, NEW p \in Parties, Raise(p)
    PROVE  /\ err' \in [Parties -> BOOLEAN]
           /\ err'[p]
           /\ \A q \in Parties : err[q] => err'[q]
BY Zenon DEF SessionInv, TypeOK, Raise

\* A session registers a handler of a direct topic.
LEMMA ListenStep ==
    ASSUME SessionInv, NEW p \in Parties, ListenToIncomingMessageAsync(p)
    PROVE  SessionInv'
<1>1. flow' = flow
    BY DEF ListenToIncomingMessageAsync
<1>2. TypeOK'
    BY <1>1, FlowFixed, HearsNodes DEF SessionInv, TypeOK, ListenToIncomingMessageAsync
<1>3. \A q \in Parties : phase'[q] = phase[q] \/ (phase[q] = "new" /\ phase'[q] = "listening")
    BY DEF SessionInv, TypeOK, ListenToIncomingMessageAsync, MayListen
<1>4. QED
    BY <1>1, <1>2, <1>3, QuietFrame DEF ListenToIncomingMessageAsync

\* A subscription fails, which is raised on ErrCh.
LEMMA ListenFailsStep ==
    ASSUME SessionInv, NEW p \in Parties, NEW ok \in SUBSET Nodes, ListenFails(p, ok)
    PROVE  SessionInv'
<1>1. flow' = flow
    BY DEF ListenFails
<1>2. TypeOK'
    <2>1. err' \in [Parties -> BOOLEAN] /\ faults' \in 0..MaxFaults
        BY FaultCounts, RaiseKeeps DEF ListenFails
    <2>2. QED
        BY <1>1, <2>1, FlowFixed DEF SessionInv, TypeOK, ListenFails
<1>3. \A q \in Parties : phase'[q] = phase[q]
                         \/ (phase[q] = "new" /\ phase'[q] \in {"listening", "wedged"})
    BY DEF SessionInv, TypeOK, ListenFails, MayListen
<1>4. \A q \in Parties : err[q] => err'[q]
    BY DEF SessionInv, TypeOK, ListenFails, Raise
<1>5. QED
    BY <1>1, <1>2, <1>3, <1>4, QuietFrame DEF ListenFails

\* A session subscribes to the broadcast topic.
LEMMA BroadcastSubStep ==
    ASSUME SessionInv, NEW p \in Parties, subscribeBroadcastAsync(p)
    PROVE  SessionInv'
<1>1. flow' = flow
    BY DEF subscribeBroadcastAsync
<1>2. TypeOK'
    <2>1. err' \in [Parties -> BOOLEAN] /\ faults' \in 0..MaxFaults
        BY FaultCounts, RaiseKeeps DEF subscribeBroadcastAsync, SessionInv, TypeOK
    <2>2. QED
        BY <1>1, <2>1, FlowFixed DEF SessionInv, TypeOK, subscribeBroadcastAsync
<1>3. \A q \in Parties : err[q] => err'[q]
    BY DEF SessionInv, TypeOK, subscribeBroadcastAsync, Raise
<1>4. QED
    BY <1>1, <1>2, <1>3, QuietFrame DEF subscribeBroadcastAsync

\* The party starts and says what its first round says.
LEMMA StartStep ==
    ASSUME SessionInv, NEW p \in Parties, Start(p)
    PROVE  SessionInv'
<1>1. flow' = flow
    BY DEF Start
<1>2. TypeOK'
    BY <1>1, FlowFixed, SaysOwn DEF SessionInv, TypeOK, Start
<1>3. OutIsOwn'
    <2>1. \A q \in Parties : \A i \in out'[q] : Script(flow)[i].by = q[2]
        BY SaysOwn DEF SessionInv, OutIsOwn, TypeOK, Start
    <2>2. QED
        BY <1>1, <2>1, OutFrame
<1>4. LoopSends'
    BY <1>1, LoopFrame DEF Start
<1>5. \A q \in Parties : phase'[q] = phase[q] \/ (phase[q] = "listening" /\ phase'[q] = "running")
    BY DEF SessionInv, TypeOK, Start
<1>6. HandledIsAddressed'
    BY <1>1, HandledFrame DEF Start
<1>7. ClosedHasEnded'
    BY <1>1, <1>5, ClosedFrame DEF Start
<1>8. LossReported'
    BY <1>1, <1>5, LossFrame DEF Start
<1>9. QED
    BY <1>2, <1>3, <1>4, <1>6, <1>7, <1>8 DEF SessionInv

-----------------------------------------------------------------------------
(***************************************************************************)
(* HandleTssMessage.                                                       *)
(***************************************************************************)
\* The first step that a party says is one of its own.
LEMMA FirstIsOwn ==
    ASSUME SessionInv, NEW p \in Parties, out[p] # {}
    PROVE  /\ First(out[p]) \in Steps
           /\ Script(flow)[First(out[p])].by = p[2]
           /\ [step |-> First(out[p]), from |-> p] \in Messages
<1>1. First(out[p]) \in out[p]
    BY FirstIsSaid DEF SessionInv, TypeOK
<1>2. First(out[p]) \in Steps /\ Script(flow)[First(out[p])].by = p[2]
    BY <1>1 DEF SessionInv, TypeOK, OutIsOwn
<1>3. QED
    BY <1>2, OwnMessage

\* Taking it leaves own steps.
LEMMA TakeKeeps ==
    ASSUME SessionInv, NEW p \in Parties, flow' = flow,
           out' = [out EXCEPT ![p] = @ \ {First(@)}]
    PROVE  OutIsOwn' /\ out' \in [Parties -> SUBSET Steps]
<1>1. out' \in [Parties -> SUBSET Steps] /\ \A q \in Parties : out'[q] \subseteq out[q]
    BY DEF SessionInv, TypeOK
<1>2. \A q \in Parties : \A i \in out'[q] : Script(flow)[i].by = q[2]
    BY <1>1 DEF SessionInv, OutIsOwn
<1>3. QED
    BY <1>1, <1>2, OutFrame

\* The loop takes a direct message and has its recipients to serve, if there are any.
LEMMA TakeDirectStep ==
    ASSUME SessionInv, NEW p \in Parties, TakeDirect(p)
    PROVE  SessionInv'
<1> DEFINE m == [step |-> First(out[p]), from |-> p]
<1>1. flow' = flow /\ out[p] # {} /\ out' = [out EXCEPT ![p] = @ \ {First(@)}]
    BY DEF TakeDirect
<1>2. First(out[p]) \in Steps /\ Script(flow)[First(out[p])].by = p[2]
    BY <1>1, FirstIsOwn
<1>3. loop' = [loop EXCEPT ![p] = IF To(m) = {} THEN Idle
                                  ELSE [st |-> "sending", step |-> First(out[p]), todo |-> To(m)]]
    BY DEF TakeDirect
<1>4. To(m) \subseteq Parties
    BY DEF To
<1>5. loop' \in [Parties -> [st : {"select", "sending", "wedged"}, step : {0} \cup Steps,
                             todo : SUBSET Parties]]
    <2>1. Idle \in [st : {"select", "sending", "wedged"}, step : {0} \cup Steps,
                    todo : SUBSET Parties]
        BY DEF Idle
    <2>2. [st |-> "sending", step |-> First(out[p]), todo |-> To(m)]
            \in [st : {"select", "sending", "wedged"}, step : {0} \cup Steps,
                 todo : SUBSET Parties]
        BY <1>2, <1>4
    <2> HIDE DEF m
    <2>3. QED
        BY <1>3, <2>1, <2>2 DEF SessionInv, TypeOK
<1>6. TypeOK'
    <2>1. out' \in [Parties -> SUBSET Steps]
        BY <1>1, TakeKeeps
    <2> HIDE DEF m
    <2>2. QED
        BY <1>1, <1>5, <2>1, FlowFixed DEF SessionInv, TypeOK, TakeDirect
<1>7. OutIsOwn'
    BY <1>1, TakeKeeps
<1>8. LoopSends'
    <2>1. \A q \in Parties \ {p} : loop'[q] = loop[q]
        BY <1>3 DEF SessionInv, TypeOK
    <2>2. loop'[p] = IF To(m) = {} THEN Idle
                     ELSE [st |-> "sending", step |-> First(out[p]), todo |-> To(m)]
        BY <1>3 DEF SessionInv, TypeOK
    <2>3. CASE To(m) = {}
        <3>1. loop'[p].st # "sending"
            BY <2>2, <2>3 DEF Idle
        <3>2. QED
            BY <1>1, <2>1, <3>1, LoopFrame
    <2>4. CASE To(m) # {}
        <3>1. loop'[p].step = First(out[p]) /\ loop'[p].todo = To(m)
            BY <2>2, <2>4
        <3>2. QED
            BY <1>1, <1>2, <2>1, <2>4, <3>1, LoopFrame
    <2>5. QED
        BY <2>3, <2>4
<1>9. HandledIsAddressed' /\ ClosedHasEnded' /\ LossReported'
    BY <1>1, HandledFrame, ClosedFrame, LossFrame DEF TakeDirect
<1>10. QED
    BY <1>6, <1>7, <1>8, <1>9 DEF SessionInv

\* What reaches a session is a cipher, and nothing that it received is lost.
LEMMA ReachesKeeps ==
    ASSUME SessionInv, NEW sessions, NEW c \in Ciphers, Reaches(sessions, c)
    PROVE  /\ inbox' \in [Parties -> SUBSET Ciphers]
           /\ \A q \in Parties : inbox[q] \subseteq inbox'[q]
           /\ \A q \in Parties \cap sessions : c \in inbox'[q]
BY DEF SessionInv, TypeOK, Reaches

\* A broadcast reaches the sessions that are subscribed.
LEMMA PublishStep ==
    ASSUME SessionInv, NEW p \in Parties, PublishBroadcast(p)
    PROVE  SessionInv'
<1> DEFINE m == [step |-> First(out[p]), from |-> p]
           hears == {q \in Parties : bsub[q] = "live" /\ Live(q)}
           c == [msg |-> m, key |-> Plain]
<1>1. /\ flow' = flow /\ out[p] # {} /\ out' = [out EXCEPT ![p] = @ \ {First(@)}]
      /\ IsBroadcast(m)
      /\ Reaches(hears, c)
      /\ handled' = handled \cup ({m} \X (Parties \ {p}))
      /\ missed' = missed \cup ({m} \X (Parties \ (hears \cup {p})))
      /\ UNCHANGED <<flow, phase, subs, bsub, loop, got, err, keys, faults>>
    BY DEF PublishBroadcast
<1>2. m \in Messages
    BY <1>1, FirstIsOwn
<1>3. c \in Ciphers
    BY <1>2 DEF Ciphers, Plain
<1>4. /\ m.from = p
      /\ c.msg = m
      /\ hears \subseteq Parties
    OBVIOUS
<1> HIDE DEF m, hears, c
<1>5. /\ inbox' \in [Parties -> SUBSET Ciphers]
      /\ \A q \in Parties : inbox[q] \subseteq inbox'[q]
      /\ \A q \in hears : c \in inbox'[q]
    BY <1>1, <1>3, <1>4, ReachesKeeps
<1>6. out' \in [Parties -> SUBSET Steps] /\ OutIsOwn'
    BY <1>1, TakeKeeps
<1>7. handled' \subseteq Messages \X Parties /\ missed' \subseteq Messages \X Parties
    BY <1>1, <1>2 DEF SessionInv, TypeOK
<1>8. TypeOK'
    BY <1>1, <1>5, <1>6, <1>7, FlowFixed DEF SessionInv, TypeOK
<1>9. LoopSends' /\ ClosedHasEnded'
    BY <1>1, LoopFrame, ClosedFrame
<1>10. \A h \in handled' \ handled : h[1] = m /\ h[2] \in Parties \ {p} /\ h = <<h[1], h[2]>>
    BY <1>1
<1>11. HandledIsAddressed'
    <2>1. \A h \in handled' \ handled : Addressed(h[1], h[2])
        BY <1>1, <1>4, <1>10 DEF Addressed, Takes
    <2>2. QED
        BY <1>1, <2>1, HandledFrame
<1>12. LossReported'
    <2>1. ASSUME NEW h \in handled' \ handled PROVE Reported(h)'
        <3>1. h[1] = m /\ h[2] \in Parties \ {p} /\ h = <<h[1], h[2]>>
            BY <1>10
        <3>2. CASE h[2] \in hears
            BY <1>4, <1>5, <3>1, <3>2 DEF Reported
        <3>3. CASE h[2] \notin hears
            <4>1. h \in {m} \X (Parties \ (hears \cup {p}))
                BY <3>1, <3>3
            <4>2. QED
                BY <1>1, <4>1 DEF Reported
        <3>4. QED
            BY <3>2, <3>3
    <2>2. QED
        BY <1>1, <1>5, <2>1, LossFrame
<1>13. QED
    BY <1>6, <1>8, <1>9, <1>11, <1>12 DEF SessionInv

\* A loop with another state in the middle of a function of loops, and a loop that hangs
\* or has one recipient less.
Loops == [st : {"select", "sending", "wedged"}, step : {0} \cup Steps, todo : SUBSET Parties]

\* One loop moves, the others stay.
LEMMA LoopUpdate ==
    ASSUME SessionInv, NEW p \in Parties, NEW l \in Loops, loop' = [loop EXCEPT ![p] = l]
    PROVE  /\ loop' \in [Parties -> Loops]
           /\ loop'[p] = l
           /\ \A q \in Parties \ {p} : loop'[q] = loop[q]
<1>1. loop \in [Parties -> Loops]
    BY DEF SessionInv, TypeOK, Loops
<1>2. QED
    BY <1>1

\* A loop whose state changes is a loop.
LEMMA LoopHangs ==
    ASSUME NEW l \in Loops, NEW st \in {"select", "sending", "wedged"}, NEW k,
           k = [l EXCEPT !.st = st]
    PROVE  k \in Loops /\ k.st = st
BY DEF Loops

\* A loop is done with one recipient.
LEMMA LoopShrinks ==
    ASSUME NEW l \in Loops, NEW q, NEW k, k = [l EXCEPT !.todo = l.todo \ {q}]
    PROVE  k \in Loops /\ k.step = l.step /\ k.todo = l.todo \ {q}
BY DEF Loops

\* A broadcast that fails is raised on ErrCh or blocks the loop.
LEMMA PublishFailsStep ==
    ASSUME SessionInv, NEW p \in Parties, PublishFails(p)
    PROVE  SessionInv'
<1> DEFINE m == [step |-> First(out[p]), from |-> p]
<1>1. /\ flow' = flow /\ out[p] # {} /\ out' = [out EXCEPT ![p] = @ \ {First(@)}]
      /\ loop[p].st = "select"
      /\ Fault /\ Raise(p)
      /\ IsBroadcast(m)
      /\ handled' = handled \cup ({m} \X (Parties \ {p}))
      /\ loop' = [loop EXCEPT ![p].st = IF err[p] THEN "wedged" ELSE @]
      /\ UNCHANGED <<flow, phase, subs, bsub, inbox, got, keys, missed>>
    BY DEF PublishFails
<1>2. m \in Messages /\ m.from = p
    BY <1>1, FirstIsOwn
<1> HIDE DEF m
<1>3. /\ err' \in [Parties -> BOOLEAN] /\ err'[p]
      /\ \A q \in Parties : err[q] => err'[q]
      /\ faults' \in 0..MaxFaults
    BY <1>1, FaultCounts, RaiseKeeps
<1>4. /\ loop' \in [Parties -> Loops]
      /\ \A q \in Parties \ {p} : loop'[q] = loop[q]
      /\ loop'[p].st # "sending"
    <2>1. loop[p] \in Loops
        BY DEF SessionInv, TypeOK, Loops
    <2>2. PICK st \in {"select", "wedged"} : loop' = [loop EXCEPT ![p] = [loop[p] EXCEPT !.st = st]]
        BY <1>1
    <2>3. PICK k : k = [loop[p] EXCEPT !.st = st]
        OBVIOUS
    <2>4. k \in Loops /\ k.st = st
        BY <2>1, <2>3, LoopHangs
    <2>5. loop' = [loop EXCEPT ![p] = k]
        BY <2>2, <2>3
    <2>6. QED
        BY <2>4, <2>5, LoopUpdate
<1>5. out' \in [Parties -> SUBSET Steps] /\ OutIsOwn'
    BY <1>1, TakeKeeps
<1>6. handled' \subseteq Messages \X Parties /\ missed' \subseteq Messages \X Parties
    BY <1>1, <1>2 DEF SessionInv, TypeOK
<1>7. TypeOK'
    BY <1>1, <1>3, <1>4, <1>5, <1>6, FlowFixed DEF SessionInv, TypeOK, Loops
<1>8. LoopSends' /\ ClosedHasEnded'
    BY <1>1, <1>4, LoopFrame, ClosedFrame
<1>9. \A h \in handled' \ handled : h[1] = m /\ h[2] \in Parties \ {p}
    BY <1>1
<1>10. HandledIsAddressed'
    <2>1. \A h \in handled' \ handled : Addressed(h[1], h[2])
        BY <1>1, <1>2, <1>9 DEF Addressed, Takes
    <2>2. QED
        BY <1>1, <2>1, HandledFrame
<1>11. LossReported'
    <2>1. \A h \in handled' \ handled : Reported(h)'
        BY <1>2, <1>3, <1>9 DEF Reported
    <2>2. QED
        BY <1>1, <1>3, <2>1, LossFrame
<1>12. QED
    BY <1>5, <1>7, <1>8, <1>10, <1>11 DEF SessionInv

\* The message that a loop sends, and the recipient that it has come to.
LEMMA SendingIsAddressed ==
    ASSUME SessionInv, NEW p \in Parties, NEW q, Sending(p, q)
    PROVE  /\ q \in loop[p].todo /\ q \in Parties
           /\ Current(p) \in Messages /\ Current(p).from = p
           /\ Addressed(Current(p), q)
<1>1. /\ loop[p].step \in Steps /\ Script(flow)[loop[p].step].by = p[2]
      /\ loop[p].todo # {} /\ loop[p].todo \subseteq To(Current(p))
    BY DEF SessionInv, LoopSends, Sending
<1>2. q \in loop[p].todo
    BY <1>1 DEF Sending
<1>3. Current(p) \in Messages /\ Current(p).from = p
    BY <1>1, OwnMessage DEF Current
<1>4. q \in Parties \ {p}
    BY <1>1, <1>2, <1>3 DEF To
<1>5. Addressed(Current(p), q)
    BY <1>1, <1>2, <1>3, <1>4 DEF Addressed, Takes
<1>6. QED
    BY <1>2, <1>3, <1>4, <1>5

\* The loop is done with a recipient: it goes on with the others or hangs.
DoneWith(p, q) ==
    \/ SentTo(p, q)
    \/ /\ loop' = [loop EXCEPT ![p].st = "wedged"]
       /\ handled' = handled \cup {<<Current(p), q>>}

\* A loop that is done with one recipient has others or is idle.
LEMMA DoneKeepsLoop ==
    ASSUME SessionInv, flow' = flow, NEW p \in Parties, NEW q, Sending(p, q), DoneWith(p, q)
    PROVE  loop' \in [Parties -> Loops] /\ LoopSends'
<1>1. loop[p] \in Loops /\ loop[p].st = "sending"
    BY DEF SessionInv, TypeOK, Sending, Loops
<1>2. CASE SentTo(p, q) /\ loop[p].todo \ {q} = {}
    <2>1. loop' = [loop EXCEPT ![p] = Idle]
        BY <1>2 DEF SentTo
    <2>2. Idle \in Loops /\ Idle.st # "sending"
        BY DEF Idle, Loops
    <2>3. QED
        BY <2>1, <2>2, LoopUpdate, LoopFrame
<1>3. CASE SentTo(p, q) /\ loop[p].todo \ {q} # {}
    <2>1. PICK l : l = [loop[p] EXCEPT !.todo = loop[p].todo \ {q}]
        OBVIOUS
    <2>2. l \in Loops /\ l.step = loop[p].step /\ l.todo = loop[p].todo \ {q}
        BY <1>1, <2>1, LoopShrinks
    <2>3. loop' = [loop EXCEPT ![p] = l]
        BY <1>3, <2>1 DEF SentTo
    <2>4. /\ loop' \in [Parties -> Loops]
          /\ loop'[p] = l
          /\ \A r \in Parties \ {p} : loop'[r] = loop[r]
        BY <2>3, <2>2, LoopUpdate
    <2>5. /\ loop[p].step \in Steps
          /\ Script(flow)[loop[p].step].by = p[2]
          /\ loop[p].todo # {}
          /\ loop[p].todo \subseteq To([step |-> loop[p].step, from |-> p])
        BY <1>1 DEF SessionInv, LoopSends, Current
    <2>6. l.todo # {}
        BY <1>3, <2>2, <2>5
    <2>7. QED
        BY <2>2, <2>4, <2>5, <2>6, LoopFrame
<1>4. CASE loop' = [loop EXCEPT ![p].st = "wedged"]
    <2>1. PICK l : l = [loop[p] EXCEPT !.st = "wedged"]
        OBVIOUS
    <2>2. l \in Loops /\ l.st = "wedged"
        BY <1>1, <2>1, LoopHangs
    <2>3. loop' = [loop EXCEPT ![p] = l]
        BY <1>4, <2>1
    <2>4. QED
        BY <2>2, <2>3, LoopUpdate, LoopFrame
<1>5. QED
    BY <1>2, <1>3, <1>4 DEF DoneWith

\* A step of the loop that is done with a recipient, and reported what it did.
LEMMA SendFrame ==
    ASSUME SessionInv, NEW p \in Parties, NEW q, Sending(p, q), DoneWith(p, q),
           UNCHANGED <<flow, phase, subs, bsub, out, got, keys>>,
           faults' \in 0..MaxFaults,
           inbox' \in [Parties -> SUBSET Ciphers],
           \A r \in Parties : inbox[r] \subseteq inbox'[r],
           err' \in [Parties -> BOOLEAN],
           \A r \in Parties : err[r] => err'[r],
           missed \subseteq missed', missed' \subseteq missed \cup {<<Current(p), q>>},
           \/ err'[p]
           \/ \E c \in inbox'[q] : c.msg = Current(p)
           \/ <<Current(p), q>> \in missed'
    PROVE  SessionInv'
<1>1. handled' = handled \cup {<<Current(p), q>>}
    BY DEF DoneWith, SentTo
<1>2. /\ q \in Parties
      /\ Current(p) \in Messages /\ Current(p).from = p
      /\ Addressed(Current(p), q)
    BY SendingIsAddressed
<1>3. loop' \in [Parties -> Loops] /\ LoopSends'
    BY DoneKeepsLoop
<1>4. handled' \subseteq Messages \X Parties /\ missed' \subseteq Messages \X Parties
    BY <1>1, <1>2 DEF SessionInv, TypeOK
<1>5. TypeOK'
    BY <1>3, <1>4, FlowFixed DEF SessionInv, TypeOK, Loops
<1>6. OutIsOwn'
    BY OutFrame DEF SessionInv, OutIsOwn
<1>7. ClosedHasEnded'
    BY ClosedFrame
<1>8. HandledIsAddressed'
    BY <1>1, <1>2, HandledFrame
<1>9. LossReported'
    <2>1. \A h \in handled' \ handled : Reported(h)'
        BY <1>1, <1>2 DEF Reported
    <2>2. QED
        BY <2>1, LossFrame
<1>10. QED
    BY <1>3, <1>5, <1>6, <1>7, <1>8, <1>9 DEF SessionInv

\* A message that is sealed, or not, is on its way as a cipher.
LEMMA CurrentCipher ==
    ASSUME SessionInv, NEW p \in Parties, NEW q, Sending(p, q), NEW k \in 0..3
    PROVE  /\ [msg |-> Current(p), key |-> k] \in Ciphers
           /\ [msg |-> Current(p), key |-> k].msg = Current(p)
BY SendingIsAddressed DEF Ciphers, Plain

\* The key that a message is sealed with is one of the receiver's generations or none.
LEMMA KeyForType ==
    ASSUME SessionInv, NEW p \in Parties, NEW q \in Parties
    PROVE  KeyFor(p, q) \in 0..3
<1>1. p[1] \in Nodes /\ q[1] \in Nodes
    BY SessionAssumption DEF Parties, PartyIDs
<1>2. KeyFor(p, q) \in 0..2
    BY <1>1 DEF SessionInv, TypeOK, KeyFor, PartyIDToNodeID
<1>3. QED
    BY <1>2

\* An error of a send is raised, whether the loop goes on or not.
LEMMA SendErrorKeeps ==
    ASSUME SessionInv, NEW p \in Parties, NEW q, NEW hangs, SendError(p, q, hangs)
    PROVE  /\ DoneWith(p, q)
           /\ err' \in [Parties -> BOOLEAN] /\ err'[p]
           /\ \A r \in Parties : err[r] => err'[r]
BY RaiseKeeps DEF SendError, DoneWith

\* A direct message to the node's own sessions goes through their handlers.
LEMMA SendToSelfStep ==
    ASSUME SessionInv, NEW p \in Parties, NEW q \in Parties, SendToSelf(p, q)
    PROVE  SessionInv'
<1>1. /\ Sending(p, q)
      /\ UNCHANGED <<flow, phase, subs, bsub, out, got, keys, faults>>
    BY DEF SendToSelf
<1>2. faults' \in 0..MaxFaults
    BY <1>1 DEF SessionInv, TypeOK
<1>3. CASE Handlers(p) = {}
    <2>1. SendError(p, q, err[p]) /\ UNCHANGED <<inbox, missed>>
        BY <1>3 DEF SendToSelf
    <2>2. inbox' \in [Parties -> SUBSET Ciphers]
        BY <2>1 DEF SessionInv, TypeOK
    <2>3. QED
        BY <1>1, <1>2, <2>1, <2>2, SendErrorKeeps, SendFrame
<1>4. CASE Handlers(p) # {}
    <2> DEFINE c == [msg |-> Current(p), key |-> Plain]
    <2>1. /\ Reaches(Handlers(p), c)
          /\ missed' = missed \cup ({<<Current(p), q>>} \ ({Current(p)} \X Handlers(p)))
          /\ SentTo(p, q)
          /\ err' = err
        BY <1>4 DEF SendToSelf
    <2>2. c \in Ciphers /\ c.msg = Current(p)
        <3>1. Plain \in 0..3
            BY DEF Plain
        <3>2. QED
            BY <1>1, <3>1, CurrentCipher
    <2> HIDE DEF c
    <2>3. /\ inbox' \in [Parties -> SUBSET Ciphers]
          /\ \A r \in Parties : inbox[r] \subseteq inbox'[r]
          /\ \A r \in Parties \cap Handlers(p) : c \in inbox'[r]
        BY <2>1, <2>2, ReachesKeeps
    <2>4. (\E d \in inbox'[q] : d.msg = Current(p)) \/ <<Current(p), q>> \in missed'
        BY <2>1, <2>2, <2>3
    <2>5. /\ missed \subseteq missed'
          /\ missed' \subseteq missed \cup {<<Current(p), q>>}
          /\ err' \in [Parties -> BOOLEAN]
        BY <2>1 DEF SessionInv, TypeOK
    <2>6. DoneWith(p, q)
        BY <2>1 DEF DoneWith
    <2>7. QED
        BY <1>1, <1>2, <2>1, <2>3, <2>4, <2>5, <2>6, SendFrame
<1>5. QED
    BY <1>3, <1>4

\* A direct message goes to another node, some session of which answers.
LEMMA SendToOtherStep ==
    ASSUME SessionInv, NEW p \in Parties, NEW q \in Parties, SendToOther(p, q)
    PROVE  SessionInv'
<1> DEFINE reached == Subscribers(PartyIDToNodeID(p), q)
           c == [msg |-> Current(p), key |-> KeyFor(p, q)]
<1>1. /\ Sending(p, q)
      /\ Reaches(reached, c)
      /\ missed' = missed \cup ({<<Current(p), q>>} \ ({Current(p)} \X reached))
      /\ err' = [err EXCEPT ![p] = @ \/ KeyFor(p, q) = 0]
      /\ SentTo(p, q)
      /\ UNCHANGED <<flow, phase, subs, bsub, out, got, keys, faults>>
    BY DEF SendToOther
<1>2. c \in Ciphers /\ c.msg = Current(p)
    BY <1>1, CurrentCipher, KeyForType
<1> HIDE DEF c, reached
<1>3. /\ inbox' \in [Parties -> SUBSET Ciphers]
      /\ \A r \in Parties : inbox[r] \subseteq inbox'[r]
      /\ \A r \in Parties \cap reached : c \in inbox'[r]
    BY <1>1, <1>2, ReachesKeeps
<1>4. (\E d \in inbox'[q] : d.msg = Current(p)) \/ <<Current(p), q>> \in missed'
    BY <1>1, <1>2, <1>3
<1>5. /\ missed \subseteq missed'
      /\ missed' \subseteq missed \cup {<<Current(p), q>>}
    BY <1>1
<1>6. err' \in [Parties -> BOOLEAN] /\ \A r \in Parties : err[r] => err'[r]
    BY <1>1, Zenon DEF SessionInv, TypeOK
<1>7. DoneWith(p, q) /\ faults' \in 0..MaxFaults
    BY <1>1 DEF DoneWith, SessionInv, TypeOK
<1>8. QED
    BY <1>1, <1>3, <1>4, <1>5, <1>6, <1>7, SendFrame

\* A message that cannot be sealed, or that no session subscribes to, ends in an error.
LEMMA SendFailsStep ==
    ASSUME SessionInv, NEW p \in Parties, NEW q \in Parties, SendFails(p, q)
    PROVE  SessionInv'
<1>1. /\ Sending(p, q)
      /\ SendError(p, q, err[p] \/ KeyFor(p, q) = 0)
      /\ UNCHANGED <<flow, phase, subs, bsub, out, inbox, got, keys, missed, faults>>
    BY DEF SendFails
<1>2. inbox' \in [Parties -> SUBSET Ciphers] /\ faults' \in 0..MaxFaults
    BY <1>1 DEF SessionInv, TypeOK
<1>3. /\ DoneWith(p, q)
      /\ err' \in [Parties -> BOOLEAN] /\ err'[p]
      /\ \A r \in Parties : err[r] => err'[r]
    BY <1>1, SendErrorKeeps
<1>4. QED
    BY <1>1, <1>2, <1>3, SendFrame

\* No answer comes in time, whether or not the message arrived; an error again.
LEMMA SendTimesOutStep ==
    ASSUME SessionInv, NEW p \in Parties, NEW q \in Parties, SendTimesOut(p, q)
    PROVE  SessionInv'
<1> DEFINE c == [msg |-> Current(p), key |-> KeyFor(p, q)]
<1>1. /\ Sending(p, q)
      /\ Fault
      /\ Reaches(Subscribers(PartyIDToNodeID(p), q), c) \/ UNCHANGED inbox
      /\ SendError(p, q, err[p] \/ KeyFor(p, q) = 0)
      /\ UNCHANGED <<flow, phase, subs, bsub, out, got, keys, missed>>
    BY DEF SendTimesOut
<1>2. c \in Ciphers
    BY <1>1, CurrentCipher, KeyForType
<1> HIDE DEF c
<1>3. /\ inbox' \in [Parties -> SUBSET Ciphers]
      /\ \A r \in Parties : inbox[r] \subseteq inbox'[r]
    BY <1>1, <1>2, ReachesKeeps DEF SessionInv, TypeOK
<1>4. /\ DoneWith(p, q)
      /\ err' \in [Parties -> BOOLEAN] /\ err'[p]
      /\ \A r \in Parties : err[r] => err'[r]
    BY <1>1, SendErrorKeeps
<1>5. faults' \in 0..MaxFaults
    BY <1>1, FaultCounts
<1>6. QED
    BY <1>1, <1>3, <1>4, <1>5, SendFrame

-----------------------------------------------------------------------------
(***************************************************************************)
(* The goroutines that receive, and the end of the session.                *)
(***************************************************************************)
\* A message that is taken from the inbox.
LEMMA ReceivedKeeps ==
    ASSUME SessionInv, NEW p \in Parties, NEW c, Received(p, c)
    PROVE  /\ inbox' \in [Parties -> SUBSET Ciphers]
           /\ \A q \in Parties : \A d \in inbox[q] : d \in inbox'[q] \/ (q = p /\ d = c)
BY DEF SessionInv, TypeOK, Received

\* A closed session has no use for what it still receives: it has it.
LEMMA ClosedHasAll ==
    ASSUME SessionInv, NEW p \in Parties, phase[p] = "closed", NEW c \in inbox[p],
           Addressed(c.msg, p)
    PROVE  c.msg \in got[p]
<1>1. c.msg \in Messages
    BY DEF SessionInv, TypeOK, Ciphers
<1>2. Ended(p) /\ flow \in {"keygen", "resharing"}
    BY DEF SessionInv, TypeOK, ClosedHasEnded
<1>3. QED
    BY <1>1, <1>2, EndedHasAll

\* A message that cannot be opened is raised on the receiver's ErrCh.
LEMMA ReceiveFailsStep ==
    ASSUME SessionInv, NEW p \in Parties, NEW c \in inbox[p], ReceiveFails(p, c)
    PROVE  SessionInv'
<1>1. /\ Received(p, c)
      /\ UNCHANGED <<flow, phase, subs, bsub, loop, out, got, keys, handled, missed, faults>>
    BY DEF ReceiveFails
<1>2. /\ err' \in [Parties -> BOOLEAN]
      /\ \A q \in Parties : err[q] => err'[q]
      /\ phase[p] = "closed" \/ err'[p]
    <2>1. CASE phase[p] = "closed"
        BY <2>1 DEF ReceiveFails, SessionInv, TypeOK
    <2>2. CASE phase[p] # "closed"
        BY <2>2, RaiseKeeps DEF ReceiveFails
    <2>3. QED
        BY <2>1, <2>2
<1>3. TypeOK'
    BY <1>1, <1>2, ReceivedKeeps, FlowFixed DEF SessionInv, TypeOK
<1>4. \A q \in Parties : \A d \in inbox[q] : Addressed(d.msg, q) =>
         d \in inbox'[q] \/ d.msg \in got[q] \/ err'[q]
    BY <1>1, <1>2, ReceivedKeeps, ClosedHasAll
<1>5. QED
    BY <1>1, <1>2, <1>3, <1>4, QuietFrame

\* A session drops a message that is for another party, or that comes after Close.
LEMMA ReceiveOthersStep ==
    ASSUME SessionInv, NEW p \in Parties, NEW c \in inbox[p], ReceiveOthers(p, c)
    PROVE  SessionInv'
<1>1. /\ Received(p, c)
      /\ ~Takes(c.msg, p) \/ phase[p] = "closed"
      /\ UNCHANGED <<flow, phase, subs, bsub, loop, out, got, err, keys, handled, missed, faults>>
    BY DEF ReceiveOthers
<1>2. TypeOK'
    BY <1>1, ReceivedKeeps, FlowFixed DEF SessionInv, TypeOK
<1>3. \A q \in Parties : \A d \in inbox[q] : Addressed(d.msg, q) =>
         d \in inbox'[q] \/ d.msg \in got[q]
    BY <1>1, ReceivedKeeps, ClosedHasAll DEF Addressed
<1>4. QED
    BY <1>1, <1>2, <1>3, QuietFrame

\* The party takes a message that is for it and says what follows.
LEMMA UpdateStep ==
    ASSUME SessionInv, NEW p \in Parties, NEW c \in inbox[p], Update(p, c)
    PROVE  SessionInv'
<1>1. /\ Received(p, c)
      /\ got' = [got EXCEPT ![p] = @ \cup {c.msg}]
      /\ UNCHANGED <<flow, phase, subs, bsub, loop, err, keys, handled, missed, faults>>
    BY DEF Update, UpdateFromBytes
<1>2. c.msg \in Messages
    BY DEF SessionInv, TypeOK, Ciphers
<1>3. /\ got' \in [Parties -> SUBSET Messages]
      /\ \A q \in Parties : got[q] \subseteq got'[q]
      /\ \A q \in Parties : \A m \in got'[q] \ got[q] : q = p /\ m = c.msg
      /\ c.msg \in got'[p]
    BY <1>1, <1>2 DEF SessionInv, TypeOK
<1> DEFINE said == IF phase[p] = "running" THEN Says(p, Spoken(p, got[p]), got'[p]) ELSE {}
<1>4. out' = [out EXCEPT ![p] = said]
    BY DEF Update
<1>5. said \subseteq Steps /\ \A i \in said : Script(flow)[i].by = p[2]
    BY SaysOwn
<1> HIDE DEF said
<1>6. out' \in [Parties -> SUBSET Steps]
    BY <1>4, <1>5 DEF SessionInv, TypeOK
<1>7. TypeOK'
    BY <1>1, <1>3, <1>6, ReceivedKeeps, FlowFixed DEF SessionInv, TypeOK
<1>8. OutIsOwn'
    <2>1. \A q \in Parties : \A i \in out'[q] : Script(flow)[i].by = q[2]
        BY <1>4, <1>5 DEF SessionInv, TypeOK, OutIsOwn
    <2>2. QED
        BY <1>1, <2>1, OutFrame
<1>9. LoopSends' /\ HandledIsAddressed'
    BY <1>1, LoopFrame, HandledFrame
<1>10. ClosedHasEnded'
    BY <1>1, <1>3, ClosedFrame
<1>11. LossReported'
    <2>1. \A q \in Parties : \A d \in inbox[q] : Addressed(d.msg, q) =>
             d \in inbox'[q] \/ d.msg \in got'[q]
        BY <1>1, <1>3, ReceivedKeeps
    <2>2. QED
        BY <1>1, <1>3, <2>1, LossFrame
<1>12. QED
    BY <1>7, <1>8, <1>9, <1>10, <1>11 DEF SessionInv

\* A message that the party refuses is missed.
LEMMA UpdateFailsStep ==
    ASSUME SessionInv, NEW p \in Parties, NEW c \in inbox[p], UpdateFails(p, c)
    PROVE  SessionInv'
<1>1. /\ Received(p, c)
      /\ missed' = IF Addressed(c.msg, p) THEN missed \cup {<<c.msg, p>>} ELSE missed
      /\ UNCHANGED <<flow, phase, subs, bsub, loop, out, got, err, keys, handled>>
      /\ faults' \in 0..MaxFaults
    BY FaultCounts DEF UpdateFails, UpdateFromBytes
<1>2. c.msg \in Messages
    BY DEF SessionInv, TypeOK, Ciphers
<1>3. missed \subseteq missed' /\ missed' \subseteq Messages \X Parties
    BY <1>1, <1>2 DEF SessionInv, TypeOK
<1>4. TypeOK'
    BY <1>1, <1>3, ReceivedKeeps, FlowFixed DEF SessionInv, TypeOK
<1>5. \A q \in Parties : \A d \in inbox[q] : Addressed(d.msg, q) =>
         d \in inbox'[q] \/ <<d.msg, q>> \in missed'
    BY <1>1, ReceivedKeeps
<1>6. QED
    BY <1>1, <1>3, <1>4, <1>5, QuietFrame

\* A session closes once its party has ended.
LEMMA CloseStep ==
    ASSUME SessionInv, NEW p \in Parties, Close(p)
    PROVE  SessionInv'
<1>1. /\ flow' = flow /\ phase[p] = "running" /\ Ended(p)
      /\ phase' = [phase EXCEPT ![p] = "closed"]
      /\ UNCHANGED <<flow, subs, bsub, loop, out, inbox, got, err, keys, handled, missed, faults>>
    BY DEF Close
<1>2. TypeOK'
    BY <1>1, FlowFixed DEF SessionInv, TypeOK
<1>3. \A q \in Parties : phase'[q] = phase[q] \/ (q = p /\ phase'[q] = "closed")
    BY <1>1 DEF SessionInv, TypeOK
<1>4. QED
    BY <1>1, <1>2, <1>3, QuietFrame

\* Close of a session whose broadcast subscription failed ends the process of its node.
LEMMA ClosePanicsStep ==
    ASSUME SessionInv, NEW p \in Parties, ClosePanics(p)
    PROVE  SessionInv'
<1> DEFINE died(q) == q \in PartiesAt(PartyIDToNodeID(p))
<1>1. /\ flow' = flow
      /\ phase' = [q \in Parties |-> IF died(q) THEN "dead" ELSE phase[q]]
      /\ inbox' = [q \in Parties |-> IF died(q) THEN {} ELSE inbox[q]]
      /\ loop' = [q \in Parties |-> IF died(q) THEN Idle ELSE loop[q]]
      /\ out' = [q \in Parties |-> IF died(q) THEN {} ELSE out[q]]
      /\ UNCHANGED <<flow, subs, bsub, got, err, keys, handled, missed, faults>>
    BY DEF ClosePanics
<1> HIDE DEF died
<1>2. Idle \in Loops /\ Idle.st # "sending"
    BY DEF Idle, Loops
<1>3. loop' \in [Parties -> Loops]
    BY <1>1, <1>2 DEF SessionInv, TypeOK, Loops
<1>4. TypeOK'
    <2>1. phase' \in [Parties -> {"new", "listening", "wedged", "running", "closed", "dead"}]
        BY <1>1 DEF SessionInv, TypeOK
    <2>2. inbox' \in [Parties -> SUBSET Ciphers] /\ out' \in [Parties -> SUBSET Steps]
        BY <1>1 DEF SessionInv, TypeOK
    <2>3. QED
        BY <1>1, <1>3, <2>1, <2>2, FlowFixed DEF SessionInv, TypeOK, Loops
<1>5. OutIsOwn'
    <2>1. \A q \in Parties : \A i \in out'[q] : Script(flow)[i].by = q[2]
        BY <1>1 DEF SessionInv, OutIsOwn
    <2>2. QED
        BY <1>1, <2>1, OutFrame
<1>6. LoopSends'
    <2> SUFFICES ASSUME NEW q \in Parties, loop'[q].st = "sending"
                 PROVE  /\ loop'[q].step \in Steps
                        /\ Script(flow)[loop'[q].step].by = q[2]
                        /\ loop'[q].todo # {}
                        /\ loop'[q].todo \subseteq To([step |-> loop'[q].step, from |-> q])
        BY <1>1, FlowFixed DEF LoopSends, Current, To
    <2>1. loop'[q] = loop[q]
        BY <1>1, <1>2
    <2>2. QED
        BY <2>1 DEF SessionInv, LoopSends, Current
<1>7. HandledIsAddressed'
    BY <1>1, HandledFrame
<1>8. ClosedHasEnded'
    BY <1>1, ClosedFrame
<1>9. LossReported'
    BY <1>1, LossFrame
<1>10. QED
    BY <1>4, <1>5, <1>6, <1>7, <1>8, <1>9 DEF SessionInv

\* A peer's symmetric key is replaced or removed.
LEMMA RekeyStep ==
    ASSUME SessionInv, NEW n \in Nodes, NEW m \in Nodes, NEW k \in 0..2, Rekey(n, m, k)
    PROVE  SessionInv'
<1>1. /\ keys' = [keys EXCEPT ![n][m] = k]
      /\ UNCHANGED <<flow, phase, subs, bsub, loop, out, inbox, got, err, handled, missed>>
      /\ faults' \in 0..MaxFaults
    BY FaultCounts DEF Rekey
<1>2. keys' \in [Nodes -> [Nodes -> 0..2]]
    BY <1>1 DEF SessionInv, TypeOK
<1>3. TypeOK'
    BY <1>1, <1>2, FlowFixed DEF SessionInv, TypeOK
<1>4. QED
    BY <1>1, <1>3, QuietFrame

-----------------------------------------------------------------------------
(***************************************************************************)
(* The theorems.                                                           *)
(***************************************************************************)
LEMMA SessionInvInit == Init => SessionInv
<1> SUFFICES ASSUME Init PROVE SessionInv
    OBVIOUS
<1>1. Idle \in Loops /\ Idle.st # "sending"
    BY DEF Idle, Loops
<1>2. TypeOK
    <2>1. loop \in [Parties -> Loops]
        BY <1>1 DEF Init
    <2>2. err \in [Parties -> BOOLEAN]
        BY Zenon DEF Init
    <2>3. keys \in [Nodes -> [Nodes -> 0..2]] /\ faults \in 0..MaxFaults
        BY SessionAssumption DEF Init
    <2>4. QED
        BY <2>1, <2>2, <2>3 DEF Init, TypeOK, Loops
<1>3. OutIsOwn /\ HandledIsAddressed /\ LossReported
    BY DEF Init, OutIsOwn, HandledIsAddressed, LossReported
<1>4. LoopSends
    BY <1>1 DEF Init, LoopSends
<1>5. ClosedHasEnded
    BY DEF Init, ClosedHasEnded
<1>6. QED
    BY <1>2, <1>3, <1>4, <1>5 DEF SessionInv

\* Every step of handlers, loops, receivers and peers keeps the invariant.
LEMMA SessionInvStep == SessionInv /\ [Next]_vars => SessionInv'
<1> SUFFICES ASSUME SessionInv, [Next]_vars PROVE SessionInv'
    OBVIOUS
<1>1. ASSUME NEW p \in Parties, SetupStep(p) PROVE SessionInv'
    BY <1>1, ListenStep, BroadcastSubStep, StartStep DEF SetupStep
<1>2. ASSUME NEW p \in Parties, LoopStep(p) PROVE SessionInv'
    BY <1>2, TakeDirectStep, PublishStep, SendToSelfStep, SendToOtherStep, SendFailsStep,
       CloseStep, ClosePanicsStep DEF LoopStep
<1>3. ASSUME NEW p \in Parties, ReceiveStep(p) PROVE SessionInv'
    BY <1>3, ReceiveFailsStep, ReceiveOthersStep, UpdateStep DEF ReceiveStep
<1>4. CASE FaultStep
    BY <1>4, ListenFailsStep, PublishFailsStep, SendTimesOutStep, UpdateFailsStep, RekeyStep
       DEF FaultStep
<1>5. CASE UNCHANGED vars
    <2>1. TypeOK'
        BY <1>5, FlowFixed DEF SessionInv, TypeOK, vars
    <2>2. QED
        BY <1>5, <2>1, QuietFrame DEF vars
<1>6. QED
    BY <1>1, <1>2, <1>3, <1>4, <1>5 DEF Next

\* The messages that HandleTssMessage, receiveTssMessage and Close handle are where the
\* session's phase, its loop and its recipients say they are.
THEOREM SessionInvariant == Spec => []SessionInv
<1>1. QED
    BY SessionInvInit, SessionInvStep, PTL DEF Spec

\* Every variable of the transport keeps its type, in key generations and resharings of
\* any committees.
THEOREM SessionTypes == Spec => []TypeOK
<1>1. SessionInv => TypeOK
    BY DEF SessionInv
<1>2. QED
    BY <1>1, SessionInvariant, PTL

\* A message that HandleTssMessage is done with is lost without an error only if its
\* receiver did not listen yet or its UpdateFromBytes refused it.
THEOREM NoSilentLoss == Spec => []LossReported
<1>1. SessionInv => LossReported
    BY DEF SessionInv
<1>2. QED
    BY <1>1, SessionInvariant, PTL
=============================================================================
