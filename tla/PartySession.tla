---------------------------- MODULE PartySession ----------------------------
(***************************************************************************)
(* The message transport of one multi-party session: PartySession of       *)
(* pkg/mpc/core over the direct messages and the broadcasts of             *)
(* pkg/messaging, sealed with the symmetric keys of pkg/identity.          *)
(*                                                                         *)
(* A session has a loop that takes the messages of its tss party from      *)
(* OutCh and sends them, and one goroutine for every message it receives,  *)
(* which updates the party under the session's mutex.  OutCh is not        *)
(* buffered: an update that makes the party speak holds the mutex until    *)
(* the loop has taken all it says.  ErrCh is not buffered either, and its  *)
(* reader takes one error.                                                 *)
(*                                                                         *)
(* A party is <<node, role>>.  In a resharing a node may run two sessions, *)
(* of its old and of its new party, which share every topic.               *)
(***************************************************************************)
EXTENDS Naturals, FiniteSets

CONSTANTS
    Nodes,    \* the nodes of a key generation
    Old,      \* the old committee of a resharing
    New,      \* its new committee
    MaxFaults \* bound on changed keys, sends that time out or fail, and refused messages

ASSUME SessionAssumption ==
    /\ IsFiniteSet(Nodes)
    /\ Old \subseteq Nodes /\ New \subseteq Nodes
    /\ MaxFaults \in Nat

VARIABLES
    flow,    \* "keygen" (a signing is alike) or "resharing"
    phase,   \* party -> how far the event handler and the session are
    subs,    \* party -> the nodes whose direct topic to it has a handler of the session
    bsub,    \* party -> BroadcastSub
    loop,    \* party -> what the loop over OutCh is doing
    out,     \* party -> what the party is saying: the steps that wait for OutCh, in order
    inbox,   \* party -> the messages of the goroutines that receive
    got,     \* party -> the messages its tss party took
    err,     \* party -> an error was raised on its ErrCh
    keys,    \* node -> node -> generation of the symmetric key, 0 for none
    handled, \* <<message, party>> that a loop is done with
    missed,  \* those that no error tells of: sent while the party did not listen, or
             \* refused by it
    faults

vars == <<flow, phase, subs, bsub, loop, out, inbox, got, err, keys, handled, missed, faults>>

Roles == {"gen", "old", "new"}
AllParties == Nodes \X Roles

PartyIDToNodeID(p) == p[1]

\* The party ids of the sessions of a flow.
PartyIDs(f) ==
    IF f = "keygen" THEN Nodes \X {"gen"} ELSE (Old \X {"old"}) \cup (New \X {"new"})

Parties == PartyIDs(flow)
PartiesAt(n) == {p \in Parties : PartyIDToNodeID(p) = n}

-----------------------------------------------------------------------------
(***************************************************************************)
(* The tss party: in a round it says what it has to say, once it has all    *)
(* the messages of the rounds before that are addressed to it.  The rounds  *)
(* are those of the EdDSA protocols.  A broadcast has no recipients.        *)
(***************************************************************************)
Script(f) ==
    IF f = "keygen"
    THEN << [round |-> 1, by |-> "gen", to |-> {}],
            [round |-> 2, by |-> "gen", to |-> {"gen"}],
            [round |-> 2, by |-> "gen", to |-> {}] >>
    ELSE << [round |-> 1, by |-> "old", to |-> {"new"}],
            [round |-> 2, by |-> "new", to |-> {"old"}],
            [round |-> 3, by |-> "old", to |-> {"new"}],
            [round |-> 4, by |-> "new", to |-> {"old", "new"}] >>

Steps == DOMAIN Script(flow)
Rounds == {Script(flow)[i].round : i \in Steps}
Messages == {m \in [step : Steps, from : Parties] : Script(flow)[m.step].by = m.from[2]}

\* routing.To: the other parties of the roles the message is for.
To(m) == {p \in Parties \ {m.from} : p[2] \in Script(flow)[m.step].to}
IsBroadcast(m) == Script(flow)[m.step].to = {}

\* isBroadcast || isToSelf of receiveTssMessage, which does not look at the sender: a
\* session takes its own broadcasts too.  The party waits for those of the others.
Takes(m, p) == IsBroadcast(m) \/ p \in To(m)
Addressed(m, p) == p # m.from /\ Takes(m, p)

\* With the messages g, party p is past every round before r.
Complete(p, g, r) ==
    \A m \in Messages : (Addressed(m, p) /\ Script(flow)[m.step].round < r) => m \in g

\* The steps of the rounds that p has entered with the messages g, and those that it
\* enters when its messages become g.
Spoken(p, g) == {i \in Steps : Script(flow)[i].by = p[2] /\ Complete(p, g, Script(flow)[i].round)}
Says(p, before, g) == Spoken(p, g) \ before
First(steps) == CHOOSE i \in steps : \A j \in steps : i <= j
Ended(p) == \A r \in Rounds : Complete(p, got[p], r + 1)

-----------------------------------------------------------------------------
Idle == [st |-> "select", step |-> 0, todo |-> {}]

\* A message on its way to a session: the cipher under the sender's key, where 0 is
\* the empty cipher of a failed encryption and Plain a message that is not sealed.
Plain == 3
Ciphers == [msg : Messages, key : 0..Plain]

TypeOK ==
    /\ flow \in {"keygen", "resharing"}
    /\ phase \in [Parties -> {"new", "listening", "wedged", "running", "closed", "dead"}]
    /\ subs \in [Parties -> SUBSET Nodes]
    /\ bsub \in [Parties -> {"none", "live", "failed"}]
    /\ loop \in [Parties -> [st : {"select", "sending", "wedged"}, step : {0} \cup Steps,
                             todo : SUBSET Parties]]
    /\ out \in [Parties -> SUBSET Steps]
    /\ inbox \in [Parties -> SUBSET Ciphers]
    /\ got \in [Parties -> SUBSET Messages]
    /\ err \in [Parties -> BOOLEAN]
    /\ keys \in [Nodes -> [Nodes -> 0..2]]
    /\ handled \subseteq Messages \X Parties
    /\ missed \subseteq Messages \X Parties
    /\ faults \in 0..MaxFaults

Init ==
    /\ flow \in {"keygen", "resharing"}
    /\ phase = [p \in Parties |-> "new"]
    /\ subs = [p \in Parties |-> {}]
    /\ bsub = [p \in Parties |-> "none"]
    /\ loop = [p \in Parties |-> Idle]
    /\ out = [p \in Parties |-> {}]
    /\ inbox = [p \in Parties |-> {}]
    /\ got = [p \in Parties |-> {}]
    /\ err = [p \in Parties |-> FALSE]
    /\ keys = [n \in Nodes |-> [m \in Nodes |-> 1]]
    /\ handled = {}
    /\ missed = {}
    /\ faults = MaxFaults

Fault == faults > 0 /\ faults' = faults - 1

\* The first error of a session is taken by the reader of its ErrCh.
Raise(p) == err' = [err EXCEPT ![p] = TRUE]

-----------------------------------------------------------------------------
(***************************************************************************)
(* The event handler: Listen, warm up, start the party.                    *)
(***************************************************************************)
\* Fault: the topics are composed from party ids.
HearsPartyIDs(p) == {r \in Parties : r[2] = p[2]}

\* ListenToIncomingMessageAsync subscribes to the nodes of the session's own party
\* ids; a new party of a resharing also to the old peers that are not among them.
Hears(p) ==
    LET own == {PartyIDToNodeID(q) : q \in {r \in Parties : r[2] = p[2]}}
    IN  IF p[2] = "new" THEN own \cup Old ELSE own

\* A node's old session listens before its new one.
MayListen(p) ==
    /\ phase[p] = "new"
    /\ \A q \in PartiesAt(PartyIDToNodeID(p)) :
          (p[2] = "new" /\ q[2] = "old") => phase[q] = "listening"

ListenToIncomingMessageAsync(p) ==
    /\ MayListen(p)
    /\ phase' = [phase EXCEPT ![p] = "listening"]
    /\ subs' = [subs EXCEPT ![p] = Hears(p)]
    /\ UNCHANGED <<flow, bsub, loop, out, inbox, got, err, keys, handled, missed, faults>>

\* One of the subscriptions fails.  The others go on, except in a resharing, where
\* nobody reads ErrCh yet and the handler hangs there; the topics are then those
\* before the one that failed.
ListenFails(p, ok) ==
    /\ MayListen(p)
    /\ Fault
    /\ Raise(p)
    /\ ok \subseteq Hears(p) /\ ok # Hears(p)
    /\ flow = "keygen" => Cardinality(Hears(p) \ ok) = 1
    /\ phase' = [phase EXCEPT ![p] = IF flow = "resharing" THEN "wedged" ELSE "listening"]
    /\ subs' = [subs EXCEPT ![p] = ok]
    /\ UNCHANGED <<flow, bsub, loop, out, inbox, got, keys, handled, missed>>

\* The goroutine of subscribeBroadcastAsync.
subscribeBroadcastAsync(p) ==
    /\ phase[p] \in {"listening", "wedged"}
    /\ bsub[p] = "none"
    /\ \/ /\ bsub' = [bsub EXCEPT ![p] = "live"]
          /\ UNCHANGED <<err, faults>>
       \/ /\ bsub' = [bsub EXCEPT ![p] = "failed"]
          /\ Fault
          /\ Raise(p)
    /\ UNCHANGED <<flow, phase, subs, loop, out, inbox, got, keys, handled, missed>>

\* warmUpSession is over, which is taken to be long enough for the node's own
\* subscriptions and for nobody else's: GenerateKey, Sign or Reshare starts the party.
Start(p) ==
    /\ \A q \in PartiesAt(PartyIDToNodeID(p)) :
          phase[q] \notin {"new", "wedged"} /\ bsub[q] # "none"
    /\ phase[p] = "listening"
    /\ phase' = [phase EXCEPT ![p] = "running"]
    /\ out' = [out EXCEPT ![p] = Says(p, {}, got[p])]
    /\ UNCHANGED <<flow, subs, bsub, loop, inbox, got, err, keys, handled, missed, faults>>

-----------------------------------------------------------------------------
(***************************************************************************)
(* HandleTssMessage.                                                       *)
(***************************************************************************)
Live(p) == phase[p] \notin {"closed", "dead"}

\* The sessions that a request on the topic from n to p's node reaches: NATS hands it
\* to every subscription, and the sender takes the first OK.
Subscribers(n, p) ==
    {q \in PartiesAt(PartyIDToNodeID(p)) : n \in subs[q] /\ Live(q)}

\* handlers[topic] of the node's own topic: sessions that were closed are still there.
Handlers(p) ==
    {q \in PartiesAt(PartyIDToNodeID(p)) :
        PartyIDToNodeID(p) \in subs[q] /\ phase[q] # "dead"}

Reaches(sessions, c) ==
    inbox' = [q \in Parties |-> IF q \in sessions THEN inbox[q] \cup {c} ELSE inbox[q]]

\* The loop takes a message with recipients, which are then sent to one by one, if any.
TakeDirect(p) ==
    /\ loop[p].st = "select" /\ out[p] # {}
    /\ LET m == [step |-> First(out[p]), from |-> p] IN
       /\ ~IsBroadcast(m)
       /\ loop' = [loop EXCEPT ![p] = IF To(m) = {} THEN Idle
                                      ELSE [st |-> "sending", step |-> m.step, todo |-> To(m)]]
    /\ out' = [out EXCEPT ![p] = @ \ {First(@)}]
    /\ UNCHANGED <<flow, phase, subs, bsub, inbox, got, err, keys, handled, missed, faults>>

\* A broadcast is signed and published; NATS hands it to the sender's own subscription
\* too.
PublishBroadcast(p) ==
    /\ loop[p].st = "select" /\ out[p] # {}
    /\ LET m == [step |-> First(out[p]), from |-> p]
           hears == {q \in Parties : bsub[q] = "live" /\ Live(q)}
       IN  /\ IsBroadcast(m)
           /\ Reaches(hears, [msg |-> m, key |-> Plain])
           /\ handled' = handled \cup ({m} \X (Parties \ {p}))
           /\ missed' = missed \cup ({m} \X (Parties \ (hears \cup {p})))
    /\ out' = [out EXCEPT ![p] = @ \ {First(@)}]
    /\ UNCHANGED <<flow, phase, subs, bsub, loop, got, err, keys, faults>>

\* Signing, marshalling or publishing it fails.
PublishFails(p) ==
    /\ loop[p].st = "select" /\ out[p] # {}
    /\ Fault
    /\ Raise(p)
    /\ LET m == [step |-> First(out[p]), from |-> p] IN
       /\ IsBroadcast(m)
       /\ handled' = handled \cup ({m} \X (Parties \ {p}))
    /\ loop' = [loop EXCEPT ![p].st = IF err[p] THEN "wedged" ELSE @]
    /\ out' = [out EXCEPT ![p] = @ \ {First(@)}]
    /\ UNCHANGED <<flow, phase, subs, bsub, inbox, got, keys, missed>>

\* The loop is done with the recipient q of its message.
Sending(p, q) == loop[p].st = "sending" /\ q = CHOOSE r \in loop[p].todo : TRUE
Current(p) == [step |-> loop[p].step, from |-> p]
SentTo(p, q) ==
    /\ LET left == loop[p].todo \ {q} IN
       loop' = [loop EXCEPT ![p] = IF left = {} THEN Idle ELSE [loop[p] EXCEPT !.todo = left]]
    /\ handled' = handled \cup {<<Current(p), q>>}

\* It raises an error, and hangs on ErrCh if that is not the first.
SendError(p, q, hangs) ==
    /\ Raise(p)
    /\ IF hangs THEN /\ loop' = [loop EXCEPT ![p].st = "wedged"]
                     /\ handled' = handled \cup {<<Current(p), q>>}
                ELSE SentTo(p, q)

SendToSelf(p, q) ==
    /\ Sending(p, q)
    /\ PartyIDToNodeID(q) = PartyIDToNodeID(p)
    /\ IF Handlers(p) = {}
       THEN SendError(p, q, err[p]) /\ UNCHANGED <<inbox, missed>>
       ELSE /\ Reaches(Handlers(p), [msg |-> Current(p), key |-> Plain])
            /\ missed' = missed \cup ({<<Current(p), q>>} \ ({Current(p)} \X Handlers(p)))
            /\ SentTo(p, q)
            /\ UNCHANGED err
    /\ UNCHANGED <<flow, phase, subs, bsub, out, got, keys, faults>>

\* EncryptMessage uses the key of the moment; when there is none, its error is
\* raised and the empty cipher is sent all the same.
KeyFor(p, q) == keys[PartyIDToNodeID(p)][PartyIDToNodeID(q)]
EncryptBlocks(p, q) == KeyFor(p, q) = 0 /\ err[p]

\* Fault: the receiver handles a message before it answers the request.
SendWaitsForReceiver(p, q) ==
    LET reached == Subscribers(PartyIDToNodeID(p), q) IN
    /\ Sending(p, q)
    /\ PartyIDToNodeID(q) # PartyIDToNodeID(p)
    /\ ~EncryptBlocks(p, q) /\ reached # {}
    /\ \A r \in reached : out[r] = {}
    /\ Reaches(reached, [msg |-> Current(p), key |-> KeyFor(p, q)])
    /\ missed' = missed \cup ({<<Current(p), q>>} \ ({Current(p)} \X reached))
    /\ err' = [err EXCEPT ![p] = @ \/ KeyFor(p, q) = 0]
    /\ SentTo(p, q)
    /\ UNCHANGED <<flow, phase, subs, bsub, out, got, keys, faults>>

SendToOther(p, q) ==
    LET reached == Subscribers(PartyIDToNodeID(p), q) IN
    /\ Sending(p, q)
    /\ PartyIDToNodeID(q) # PartyIDToNodeID(p)
    /\ ~EncryptBlocks(p, q) /\ reached # {}
    /\ Reaches(reached, [msg |-> Current(p), key |-> KeyFor(p, q)])
    /\ missed' = missed \cup ({<<Current(p), q>>} \ ({Current(p)} \X reached))
    /\ err' = [err EXCEPT ![p] = @ \/ KeyFor(p, q) = 0]
    /\ SentTo(p, q)
    /\ UNCHANGED <<flow, phase, subs, bsub, out, got, keys, faults>>

\* The three attempts find no subscription; or the error of EncryptMessage is the
\* second one.
SendFails(p, q) ==
    /\ Sending(p, q)
    /\ PartyIDToNodeID(q) # PartyIDToNodeID(p)
    /\ EncryptBlocks(p, q) \/ Subscribers(PartyIDToNodeID(p), q) = {}
    /\ SendError(p, q, err[p] \/ KeyFor(p, q) = 0)
    /\ UNCHANGED <<flow, phase, subs, bsub, out, inbox, got, keys, missed, faults>>

\* The three attempts time out, whether or not one arrived.
SendTimesOut(p, q) ==
    LET reached == Subscribers(PartyIDToNodeID(p), q) IN
    /\ Sending(p, q)
    /\ PartyIDToNodeID(q) # PartyIDToNodeID(p)
    /\ ~EncryptBlocks(p, q)
    /\ Fault
    /\ \/ Reaches(reached, [msg |-> Current(p), key |-> KeyFor(p, q)])
       \/ UNCHANGED inbox
    /\ SendError(p, q, err[p] \/ KeyFor(p, q) = 0)
    /\ UNCHANGED <<flow, phase, subs, bsub, out, got, keys, missed>>

-----------------------------------------------------------------------------
(***************************************************************************)
(* The goroutines that receive, and the end of the session.                *)
(***************************************************************************)
Received(p, c) == inbox' = [inbox EXCEPT ![p] = @ \ {c}]

\* DecryptMessage uses the key of the moment.
Opens(p, c) == c.key = Plain \/ (c.key # 0 /\ c.key = KeyFor(p, c.msg.from))

\* Fault: a message that cannot be opened is ignored.
ReceiveIgnores(p, c) ==
    /\ c \in inbox[p] /\ ~Opens(p, c)
    /\ Received(p, c)
    /\ UNCHANGED <<flow, phase, subs, bsub, loop, out, got, err, keys, handled, missed, faults>>

\* receiveP2PTssMessage: the message cannot be opened.
ReceiveFails(p, c) ==
    /\ c \in inbox[p] /\ ~Opens(p, c)
    /\ Received(p, c)
    /\ IF phase[p] = "closed" THEN UNCHANGED err ELSE Raise(p)
    /\ UNCHANGED <<flow, phase, subs, bsub, loop, out, got, keys, handled, missed, faults>>

\* receiveTssMessage: a message of a shared topic that is for another party.
ReceiveOthers(p, c) ==
    /\ c \in inbox[p] /\ Opens(p, c)
    /\ ~Takes(c.msg, p) \/ phase[p] = "closed"
    /\ Received(p, c)
    /\ UNCHANGED <<flow, phase, subs, bsub, loop, out, got, err, keys, handled, missed, faults>>

\* The session's mutex is free: the loop has taken all that the party said.
UpdateFromBytes(p, c) ==
    /\ c \in inbox[p] /\ Opens(p, c)
    /\ Takes(c.msg, p) /\ phase[p] # "closed"
    /\ out[p] = {}
    /\ Received(p, c)
    /\ UNCHANGED <<flow, phase, subs, bsub, loop, err, keys, handled>>

\* The party takes the message, and the mutex is held until the loop has taken all that
\* it says to it.
Update(p, c) ==
    /\ UpdateFromBytes(p, c)
    /\ got' = [got EXCEPT ![p] = @ \cup {c.msg}]
    /\ out' = [out EXCEPT ![p] =
                 IF phase[p] = "running" THEN Says(p, Spoken(p, got[p]), got'[p]) ELSE {}]
    /\ UNCHANGED <<missed, faults>>

\* The party refuses the message, which is only logged.
UpdateFails(p, c) ==
    /\ UpdateFromBytes(p, c)
    /\ Fault
    /\ missed' = IF Addressed(c.msg, p) THEN missed \cup {<<c.msg, p>>} ELSE missed
    /\ UNCHANGED <<got, out>>

\* endCh: the loop stores its result and closes the session.
Close(p) ==
    /\ phase[p] = "running" /\ loop[p].st = "select" /\ out[p] = {} /\ Ended(p)
    /\ bsub[p] = "live"
    /\ phase' = [phase EXCEPT ![p] = "closed"]
    /\ UNCHANGED <<flow, subs, bsub, loop, out, inbox, got, err, keys, handled, missed, faults>>

\* Close calls Unsubscribe of a BroadcastSub that was never set: the process ends.
ClosePanics(p) ==
    /\ phase[p] = "running" /\ loop[p].st = "select" /\ out[p] = {} /\ Ended(p)
    /\ bsub[p] = "failed"
    /\ LET died(q) == q \in PartiesAt(PartyIDToNodeID(p)) IN
       /\ phase' = [q \in Parties |-> IF died(q) THEN "dead" ELSE phase[q]]
       /\ inbox' = [q \in Parties |-> IF died(q) THEN {} ELSE inbox[q]]
       /\ loop' = [q \in Parties |-> IF died(q) THEN Idle ELSE loop[q]]
       /\ out' = [q \in Parties |-> IF died(q) THEN {} ELSE out[q]]
    /\ UNCHANGED <<flow, subs, bsub, got, err, keys, handled, missed, faults>>

\* The registry drops the key of a peer or a new exchange replaces it, on one side
\* before the other.
Rekey(n, m, k) ==
    /\ n # m /\ keys[n][m] # k
    /\ Fault
    /\ keys' = [keys EXCEPT ![n][m] = k]
    /\ UNCHANGED <<flow, phase, subs, bsub, loop, out, inbox, got, err, handled, missed>>

-----------------------------------------------------------------------------
SetupStep(p) ==
    \/ ListenToIncomingMessageAsync(p)
    \/ subscribeBroadcastAsync(p)
    \/ Start(p)

LoopStep(p) ==
    \/ TakeDirect(p)
    \/ PublishBroadcast(p)
    \/ \E q \in Parties : SendToSelf(p, q) \/ SendToOther(p, q) \/ SendFails(p, q)
    \/ Close(p)
    \/ ClosePanics(p)

ReceiveStep(p) ==
    \E c \in inbox[p] : ReceiveFails(p, c) \/ ReceiveOthers(p, c) \/ Update(p, c)

FaultStep ==
    \/ \E p \in Parties :
          \/ \E ok \in SUBSET Nodes : ListenFails(p, ok)
          \/ PublishFails(p)
          \/ \E q \in Parties : SendTimesOut(p, q)
          \/ \E c \in inbox[p] : UpdateFails(p, c)
    \/ \E n, m \in Nodes, k \in 0..2 : Rekey(n, m, k)

Next ==
    \/ \E p \in Parties : SetupStep(p) \/ LoopStep(p) \/ ReceiveStep(p)
    \/ FaultStep

Spec == Init /\ [][Next]_vars

\* Goroutines that can go on do, and NATS carries messages.
Fairness ==
    \A p \in AllParties :
        /\ WF_vars(p \in Parties /\ SetupStep(p))
        /\ WF_vars(p \in Parties /\ LoopStep(p))
        /\ WF_vars(p \in Parties /\ ReceiveStep(p))

FairSpec == Spec /\ Fairness

-----------------------------------------------------------------------------
(***************************************************************************)
(* Properties.                                                             *)
(***************************************************************************)
\* A message that a loop is done with gets lost in silence in two ways only, before the
\* session of its party listens and by a refusal of the party: otherwise the party has it
\* or is about to, or the sender or the receiver raised an error that its event handler
\* reports.
LossReported ==
    \A h \in handled :
        LET m == h[1]
            p == h[2]
        IN  \/ m \in got[p]
            \/ \E c \in inbox[p] : c.msg = m
            \/ h \in missed
            \/ err[m.from] \/ err[p]
            \/ phase[p] = "dead"

\* A run hangs in silence only after such a loss: all parties end, or an error is raised,
\* or a message was sent before its receiver listened or was refused.  The loops, which
\* wait for the receivers of their messages, never all wait for each other.
RunEnds ==
    <>(\/ \A p \in Parties : phase[p] = "closed"
       \/ \E p \in Parties : err[p]
       \/ missed # {})
=============================================================================
