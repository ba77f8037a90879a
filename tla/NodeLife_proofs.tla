--------------------------- MODULE NodeLife_proofs ---------------------------
(***************************************************************************)
(* Proofs about the life of a node's process (module NodeLife), for any    *)
(* consumers, any number of starts and any number of faults.               *)
(***************************************************************************)
EXTENDS NodeLife, FiniteSetTheorems, SequenceTheorems, TLAPS

AfterBadger == {"identity", "nats", "queues", "params", "node"}
StartStages == {"config", "badger", "backup", "events", "timeout", "ready", "consumers"}
                  \cup AfterBadger
Subscribing == {"timeout", "ready", "consumers", "serving"}

\* How many closes have been deferred when runNode comes to a stage, at most.
DeferredBy ==
    /\ main \in {"config", "badger"} \cup Ends => defers = <<>>
    /\ main = "backup" => Len(defers) <= 1
    /\ main \in AfterBadger => Len(defers) <= 2
    /\ main = "events" => Len(defers) <= 3
    /\ main = "timeout" => Len(defers) <= 5

\* Whatever is deferred runs before the database is closed.
Ordered(stack) == \A i \in DOMAIN stack : stack[i] = "badger" => i = Len(stack)
BadgerIsLast == Ordered(defers)

Items(stack) == {stack[i] : i \in DOMAIN stack}

\* What is open has a close that is still deferred.
OpenIsDeferred ==
    /\ (job # "none" /\ ~told) => "backup" \in Items(defers)
    /\ chans = "open" => "channels" \in Items(defers)
    /\ main \in {"events"} \cup Subscribing => "node" \in Items(defers)
    /\ (main = "closing" /\ resigned = "no") => "node" \in Items(defers)
    /\ (Alive /\ badger = "closed") => (main = "closing" /\ defers = <<>>)

\* Nothing runs beside runNode before the consumers are started or after its end.
QuietOutside ==
    main \in StartStages \cup Ends =>
        handler = "none" /\ ~cancelled /\ run = [c \in Consumers |-> "none"]

\* A ready key that this process put.
KeyOfProcess ==
    /\ main \in StartStages => resigned = "no"
    /\ put => main \in {"consumers", "serving", "closing"} \cup Ends
    /\ resigned = "yes" => ~key
    /\ (main = "exited" /\ put) => resigned # "no"

\* Who ends the process cancels the context first.
EndsCancelled ==
    /\ main = "closing" => cancelled
    /\ handler \notin {"none", "starting", "waiting"} => cancelled
    /\ \A c \in Consumers : run[c] = "returned" => cancelled

\* The node is subscribed from its event consumer's Run until it is cancelled.
SubscribedUntilCancelled ==
    (main \in Subscribing /\ ~cancelled) => events /\ chans = "open"

\* The inductive invariant.
LifeInv ==
    /\ TypeOK
    /\ DeferredBy
    /\ BadgerIsLast
    /\ OpenIsDeferred
    /\ QuietOutside
    /\ KeyOfProcess
    /\ EndsCancelled
    /\ SubscribedUntilCancelled

-----------------------------------------------------------------------------
(***************************************************************************)
(* The steps of starting and the deferred closes.                          *)
(***************************************************************************)
\* Starting lists each stage once, so a stage has one stage after it.
LEMMA StageAfter ==
    ASSUME NEW i \in 1..11
    PROVE  Next1(Starting[i]) = Starting[i + 1]
<1>1. \A j \in DOMAIN Starting : Starting[j] = Starting[i] => j = i
    BY DEF Starting
<1>2. i \in DOMAIN Starting
    BY DEF Starting
<1>3. (CHOOSE j \in DOMAIN Starting : Starting[j] = Starting[i]) = i
    BY <1>1, <1>2
<1>4. Next1(Starting[i]) = Starting[1 + i]
    BY <1>3, Zenon DEF Next1
<1>5. QED
    BY <1>4

\* The order of starting.
LEMMA StartOrder ==
    /\ Next1("config") = "badger"
           /\ Next1("badger") = "backup"
           /\ Next1("backup") = "identity"
           /\ Next1("identity") = "nats"
           /\ Next1("nats") = "queues"
           /\ Next1("queues") = "params"
           /\ Next1("params") = "node"
           /\ Next1("node") = "events"
           /\ Next1("events") = "timeout"
           /\ Next1("timeout") = "ready"
           /\ Next1("ready") = "consumers"
<1>1. \A i \in 1..11 : Next1(Starting[i]) = Starting[i + 1]
    BY StageAfter
<1> HIDE DEF Next1
<1>2. QED
    BY <1>1 DEF Starting

\* The stages by what has been started before them.
LEMMA StagesAre == Stages = StartStages \cup {"serving", "closing", "exited", "killed"}
BY DEF Stages, StartStages, AfterBadger, Starting, Ends

\* runNode defers six closes at most.
LEMMA SixCloses == IsFiniteSet(Closes) /\ Cardinality(Closes) = 6
<1>1. IsFiniteSet({"badger"}) /\ Cardinality({"badger"}) = 1
    BY FS_Singleton
<1>2. IsFiniteSet({"badger", "backup"}) /\ Cardinality({"badger", "backup"}) = 2
    <2>1. {"badger", "backup"} = {"badger"} \cup {"backup"}
        OBVIOUS
    <2>2. QED
        BY <1>1, <2>1, FS_AddElement
<1>3. /\ IsFiniteSet({"badger", "backup", "node"})
      /\ Cardinality({"badger", "backup", "node"}) = 3
    <2>1. {"badger", "backup", "node"} = {"badger", "backup"} \cup {"node"}
        OBVIOUS
    <2>2. QED
        BY <1>2, <2>1, FS_AddElement
<1>4. /\ IsFiniteSet({"badger", "backup", "node", "channels"})
      /\ Cardinality({"badger", "backup", "node", "channels"}) = 4
    <2>1. {"badger", "backup", "node", "channels"} = {"badger", "backup", "node"} \cup {"channels"}
        OBVIOUS
    <2>2. QED
        BY <1>3, <2>1, FS_AddElement
<1>5. /\ IsFiniteSet({"badger", "backup", "node", "channels", "events"})
      /\ Cardinality({"badger", "backup", "node", "channels", "events"}) = 5
    <2>1. {"badger", "backup", "node", "channels", "events"}
            = {"badger", "backup", "node", "channels"} \cup {"events"}
        OBVIOUS
    <2>2. QED
        BY <1>4, <2>1, FS_AddElement
<1>6. QED
    <2>1. Closes = {"badger", "backup", "node", "channels", "events"} \cup {"timeout"}
        BY DEF Closes
    <2>2. QED
        BY <1>5, <2>1, FS_AddElement

\* A close is deferred on top of the others.
LEMMA PushItem ==
    ASSUME NEW d \in Seq(Closes), NEW a \in Closes, NEW e, e = <<a>> \o d,
           Ordered(d), a # "badger" \/ d = <<>>
    PROVE  /\ e \in Seq(Closes) /\ Len(e) = Len(d) + 1 /\ Len(d) \in Nat
           /\ Items(e) = {a} \cup Items(d)
           /\ Ordered(e)
<1>1. /\ e \in Seq(Closes) /\ Len(e) = Len(d) + 1
      /\ e[1] = a
      /\ \A i \in 1..Len(d) : e[i + 1] = d[i]
      /\ \A i \in 2..Len(e) : e[i] = d[i - 1] /\ i - 1 \in 1..Len(d)
    BY ConcatProperties
<1>2. DOMAIN e = 1..Len(e) /\ DOMAIN d = 1..Len(d) /\ Len(d) \in Nat
    BY <1>1
<1>3. Items(e) = {a} \cup Items(d)
    <2>1. ASSUME NEW x \in Items(e) PROVE x \in {a} \cup Items(d)
        <3>1. PICK i \in 1..Len(e) : x = e[i]
            BY <1>2 DEF Items
        <3>2. CASE i = 1
            BY <1>1, <3>1, <3>2
        <3>3. CASE i # 1
            BY <1>1, <1>2, <3>1, <3>3 DEF Items
        <3>4. QED
            BY <3>2, <3>3
    <2>2. ASSUME NEW x \in Items(d) PROVE x \in Items(e)
        <3>1. PICK i \in 1..Len(d) : x = d[i]
            BY <1>2 DEF Items
        <3>2. i + 1 \in 1..Len(e) /\ e[i + 1] = x
            BY <1>1, <1>2, <3>1
        <3>3. QED
            BY <1>2, <3>2 DEF Items
    <2>3. a \in Items(e)
        BY <1>1, <1>2 DEF Items
    <2>4. QED
        BY <2>1, <2>2, <2>3
<1>4. ASSUME NEW i \in DOMAIN e, e[i] = "badger"
      PROVE  i = Len(e)
    <2>1. CASE i = 1
        BY <1>1, <1>2, <1>4, <2>1
    <2>2. CASE i # 1
        BY <1>1, <1>2, <1>4, <2>2 DEF Ordered
    <2>3. QED
        BY <2>1, <2>2
<1>5. QED
    BY <1>1, <1>2, <1>3, <1>4 DEF Ordered

\* The last one runs first, and takes only itself off.
LEMMA PopItem ==
    ASSUME NEW d \in Seq(Closes), d # <<>>, Ordered(d)
    PROVE  /\ Tail(d) \in Seq(Closes) /\ Len(Tail(d)) = Len(d) - 1
           /\ Head(d) \in Closes
           /\ Items(d) \ {Head(d)} \subseteq Items(Tail(d))
           /\ Ordered(Tail(d))
           /\ Head(d) = "badger" => Tail(d) = <<>>
<1>1. /\ Tail(d) \in Seq(Closes) /\ Len(Tail(d)) = Len(d) - 1
      /\ Head(d) = d[1] /\ Head(d) \in Closes
      /\ \A i \in 1..Len(d) - 1 : Tail(d)[i] = d[i + 1]
      /\ Len(d) \in Nat /\ Len(d) > 0
    BY HeadTailProperties
<1>2. DOMAIN d = 1..Len(d) /\ DOMAIN Tail(d) = 1..Len(d) - 1
    BY <1>1
<1>3. ASSUME NEW x \in Items(d), x # Head(d) PROVE x \in Items(Tail(d))
    <2>1. PICK i \in 1..Len(d) : x = d[i]
        BY <1>2 DEF Items
    <2>2. i # 1
        BY <1>1, <1>3, <2>1
    <2>3. i - 1 \in 1..Len(d) - 1 /\ Tail(d)[i - 1] = x
        BY <1>1, <2>1, <2>2
    <2>4. QED
        BY <1>2, <2>3 DEF Items
<1>4. Ordered(Tail(d))
    BY <1>1, <1>2 DEF Ordered
<1>5. Head(d) = "badger" => Tail(d) = <<>>
    BY <1>1, <1>2, EmptySeq DEF Ordered
<1>6. QED
    BY <1>1, <1>3, <1>4, <1>5

-----------------------------------------------------------------------------
(***************************************************************************)
(* Starting.  Each proof has a step for each part of the invariant.        *)
(***************************************************************************)
\* A call that fails uses up one of the faults there may be.
LEMMA FaultCounts ==
    ASSUME TypeOK, Fault
    PROVE  faults' \in 0..MaxFaults
BY LifeAssumption DEF TypeOK, Fault

\* A step that defers a close.
LEMMA DeferKeeps ==
    ASSUME LifeInv, NEW a \in Closes, defers' = <<a>> \o defers, a # "badger" \/ defers = <<>>
    PROVE  /\ defers' \in Seq(Closes)
           /\ Len(defers') = Len(defers) + 1 /\ Len(defers) \in Nat
           /\ Items(defers') = {a} \cup Items(defers)
           /\ Ordered(defers')
<1>1. defers \in Seq(Closes) /\ Ordered(defers)
    BY DEF LifeInv, TypeOK, BadgerIsLast
<1>2. QED
    BY <1>1, PushItem, Zenon

\* Steps that keep nothing open.
LEMMA LoadConfigStep ==
    ASSUME LifeInv, LoadConfig
    PROVE  LifeInv'
<1> USE DEF LifeInv, StartStages, AfterBadger, Subscribing, Ends, Alive
<1>1. TypeOK'
    BY StartOrder, StagesAre DEF LoadConfig, Proceed, procVars, TypeOK
<1>2. DeferredBy' /\ BadgerIsLast'
    BY StartOrder DEF LoadConfig, Proceed, procVars, DeferredBy, BadgerIsLast
<1>3. OpenIsDeferred'
    BY StartOrder DEF LoadConfig, Proceed, procVars, OpenIsDeferred
<1>4. QuietOutside' /\ KeyOfProcess'
    BY StartOrder DEF LoadConfig, Proceed, procVars, QuietOutside, KeyOfProcess
<1>5. EndsCancelled' /\ SubscribedUntilCancelled'
    BY StartOrder DEF LoadConfig, Proceed, procVars,
       QuietOutside, EndsCancelled, SubscribedUntilCancelled
<1>6. QED
    BY <1>1, <1>2, <1>3, <1>4, <1>5

\* The identity store is loaded: nothing is opened that has to be closed.
LEMMA NewFileStoreStep ==
    ASSUME LifeInv, NewFileStore
    PROVE  LifeInv'
<1> USE DEF LifeInv, StartStages, AfterBadger, Subscribing, Ends, Alive
<1>1. TypeOK'
    BY StartOrder, StagesAre DEF NewFileStore, Proceed, procVars, TypeOK
<1>2. DeferredBy' /\ BadgerIsLast'
    BY StartOrder DEF NewFileStore, Proceed, procVars, DeferredBy, BadgerIsLast
<1>3. OpenIsDeferred'
    BY StartOrder DEF NewFileStore, Proceed, procVars, OpenIsDeferred
<1>4. QuietOutside' /\ KeyOfProcess'
    BY StartOrder DEF NewFileStore, Proceed, procVars, QuietOutside, KeyOfProcess
<1>5. EndsCancelled' /\ SubscribedUntilCancelled'
    BY StartOrder DEF NewFileStore, Proceed, procVars,
       QuietOutside, EndsCancelled, SubscribedUntilCancelled
<1>6. QED
    BY <1>1, <1>2, <1>3, <1>4, <1>5

\* NATS is connected; its drain is the signal handler's.
LEMMA ConnectStep ==
    ASSUME LifeInv, Connect
    PROVE  LifeInv'
<1> USE DEF LifeInv, StartStages, AfterBadger, Subscribing, Ends, Alive
<1>1. TypeOK'
    BY StartOrder, StagesAre DEF Connect, Proceed, procVars, TypeOK
<1>2. DeferredBy' /\ BadgerIsLast'
    BY StartOrder DEF Connect, Proceed, procVars, DeferredBy, BadgerIsLast
<1>3. OpenIsDeferred'
    BY StartOrder DEF Connect, Proceed, procVars, OpenIsDeferred
<1>4. QuietOutside' /\ KeyOfProcess'
    BY StartOrder DEF Connect, Proceed, procVars, QuietOutside, KeyOfProcess
<1>5. EndsCancelled' /\ SubscribedUntilCancelled'
    BY StartOrder DEF Connect, Proceed, procVars,
       QuietOutside, EndsCancelled, SubscribedUntilCancelled
<1>6. QED
    BY <1>1, <1>2, <1>3, <1>4, <1>5

\* The queues need no close.
LEMMA NewMessageQueuesStep ==
    ASSUME LifeInv, NewMessageQueues
    PROVE  LifeInv'
<1> USE DEF LifeInv, StartStages, AfterBadger, Subscribing, Ends, Alive
<1>1. TypeOK'
    BY StartOrder, StagesAre DEF NewMessageQueues, Proceed, procVars, TypeOK
<1>2. DeferredBy' /\ BadgerIsLast'
    BY StartOrder DEF NewMessageQueues, Proceed, procVars, DeferredBy, BadgerIsLast
<1>3. OpenIsDeferred'
    BY StartOrder DEF NewMessageQueues, Proceed, procVars, OpenIsDeferred
<1>4. QuietOutside' /\ KeyOfProcess'
    BY StartOrder DEF NewMessageQueues, Proceed, procVars, QuietOutside, KeyOfProcess
<1>5. EndsCancelled' /\ SubscribedUntilCancelled'
    BY StartOrder DEF NewMessageQueues, Proceed, procVars,
       QuietOutside, EndsCancelled, SubscribedUntilCancelled
<1>6. QED
    BY <1>1, <1>2, <1>3, <1>4, <1>5

\* Pre-params are generated or were stored by an earlier life.
LEMMA PreParamsStep ==
    ASSUME LifeInv, generatePreParams
    PROVE  LifeInv'
<1> USE DEF LifeInv, StartStages, AfterBadger, Subscribing, Ends, Alive
<1>1. TypeOK'
    BY StartOrder, StagesAre DEF generatePreParams, procVars, TypeOK
<1>2. DeferredBy' /\ BadgerIsLast'
    BY StartOrder DEF generatePreParams, procVars, DeferredBy, BadgerIsLast
<1>3. OpenIsDeferred'
    BY StartOrder DEF generatePreParams, procVars, OpenIsDeferred
<1>4. QuietOutside' /\ KeyOfProcess'
    BY StartOrder DEF generatePreParams, procVars, QuietOutside, KeyOfProcess
<1>5. EndsCancelled' /\ SubscribedUntilCancelled'
    BY StartOrder DEF generatePreParams, procVars,
       QuietOutside, EndsCancelled, SubscribedUntilCancelled
<1>6. QED
    BY <1>1, <1>2, <1>3, <1>4, <1>5

\* A configuration that cannot be read ends runNode with nothing open.
LEMMA ConfigFailsStep ==
    ASSUME LifeInv, ConfigFails
    PROVE  LifeInv'
<1> USE DEF LifeInv, StartStages, AfterBadger, Subscribing, Ends, Alive
<1>1. TypeOK'
    <2>1. faults' \in 0..MaxFaults
        BY FaultCounts DEF ConfigFails
    <2>2. QED
        BY <2>1, StartOrder, StagesAre DEF ConfigFails, TypeOK, procVars
<1>2. DeferredBy' /\ BadgerIsLast'
    BY StartOrder DEF ConfigFails, procVars, DeferredBy, BadgerIsLast
<1>3. OpenIsDeferred'
    BY StartOrder DEF ConfigFails, procVars, OpenIsDeferred
<1>4. QuietOutside' /\ KeyOfProcess'
    BY StartOrder DEF ConfigFails, procVars, QuietOutside, KeyOfProcess
<1>5. EndsCancelled' /\ SubscribedUntilCancelled'
    BY StartOrder DEF ConfigFails, procVars, QuietOutside, EndsCancelled, SubscribedUntilCancelled
<1>6. QED
    BY <1>1, <1>2, <1>3, <1>4, <1>5

\* Steps that defer a close.
LEMMA NewBadgerKVStep ==
    ASSUME LifeInv, NewBadgerKV
    PROVE  LifeInv'
<1> USE DEF LifeInv, StartStages, AfterBadger, Subscribing, Ends, Alive
<1>1. /\ defers' \in Seq(Closes) /\ Len(defers') = 1
      /\ Ordered(defers')
      /\ Items(defers') = Items(defers) \cup {"badger"}
    <2>1. "badger" \in Closes /\ defers' = <<"badger">> \o defers
        BY DEF NewBadgerKV, Defer, Closes
    <2>2. defers = <<>> /\ defers \in Seq(Closes)
        BY DEF NewBadgerKV, Proceed, DeferredBy, TypeOK
    <2>3. QED
        BY <2>1, <2>2, DeferKeeps, EmptySeq
<1>2. TypeOK'
    BY <1>1, SixCloses, StartOrder, StagesAre DEF NewBadgerKV, Proceed, TypeOK
<1>3. DeferredBy' /\ BadgerIsLast'
    BY <1>1, StartOrder DEF NewBadgerKV, Proceed, DeferredBy, BadgerIsLast
<1>4. OpenIsDeferred'
    BY <1>1, StartOrder DEF NewBadgerKV, Proceed, OpenIsDeferred
<1>5. QuietOutside' /\ KeyOfProcess'
    BY StartOrder DEF NewBadgerKV, Proceed, QuietOutside, KeyOfProcess
<1>6. EndsCancelled' /\ SubscribedUntilCancelled'
    BY StartOrder DEF NewBadgerKV, Proceed, QuietOutside, EndsCancelled, SubscribedUntilCancelled
<1>7. QED
    BY <1>2, <1>3, <1>4, <1>5, <1>6

\* The backup job's stop is deferred above the close of the database.
LEMMA StartBackupStep ==
    ASSUME LifeInv, NEW enabled \in BOOLEAN, StartBackup(enabled)
    PROVE  LifeInv'
<1> USE DEF LifeInv, StartStages, AfterBadger, Subscribing, Ends, Alive
<1>1. /\ defers' \in Seq(Closes) /\ Len(defers') <= 2
      /\ Ordered(defers')
      /\ Items(defers) \subseteq Items(defers')
      /\ job' = job \/ (job' = "waiting" /\ "backup" \in Items(defers'))
    <2>1. Len(defers) <= 1 /\ defers \in Seq(Closes)
        BY DEF StartBackup, Proceed, DeferredBy, TypeOK
    <2>2. CASE enabled
        <3>1. "backup" \in Closes /\ defers' = <<"backup">> \o defers /\ job' = "waiting"
            BY <2>2 DEF StartBackup, Defer, Closes
        <3>2. QED
            BY <2>1, <3>1, DeferKeeps
    <2>3. CASE ~enabled
        <3>1. defers' = defers /\ job' = job
            BY <2>3 DEF StartBackup
        <3>2. QED
            BY <2>1, <3>1, LenProperties DEF BadgerIsLast
    <2>4. QED
        BY <2>2, <2>3
<1>2. /\ main = "backup" /\ main' = "identity"
      /\ UNCHANGED <<handler, cancelled, run, jsub, badger, told, queued, chans, events, advisory,
                     put, resigned, key, pre, lives, faults>>
    BY StartOrder DEF StartBackup, Proceed
<1>3. TypeOK'
    BY <1>1, <1>2, SixCloses, StagesAre DEF TypeOK
<1>4. DeferredBy' /\ BadgerIsLast'
    BY <1>1, <1>2 DEF DeferredBy, BadgerIsLast
<1>5. OpenIsDeferred'
    BY <1>1, <1>2 DEF OpenIsDeferred
<1>6. QuietOutside' /\ KeyOfProcess'
    BY <1>2 DEF QuietOutside, KeyOfProcess
<1>7. EndsCancelled' /\ SubscribedUntilCancelled'
    BY <1>2 DEF EndsCancelled, SubscribedUntilCancelled
<1>8. QED
    BY <1>3, <1>4, <1>5, <1>6, <1>7

\* The close of the node, which resigns, is deferred.
LEMMA NewNodeStep ==
    ASSUME LifeInv, NewNode
    PROVE  LifeInv'
<1> USE DEF LifeInv, StartStages, AfterBadger, Subscribing, Ends, Alive
<1>1. /\ defers' \in Seq(Closes) /\ Len(defers') <= 3
      /\ Ordered(defers')
      /\ Items(defers') = Items(defers) \cup {"node"}
    <2>1. "node" \in Closes /\ defers' = <<"node">> \o defers
        BY DEF NewNode, Defer, Closes
    <2>2. Len(defers) <= 2 /\ defers \in Seq(Closes)
        BY DEF NewNode, Proceed, DeferredBy, TypeOK
    <2>3. QED
        BY <2>1, <2>2, DeferKeeps
<1>2. TypeOK'
    BY <1>1, SixCloses, StartOrder, StagesAre DEF NewNode, Proceed, TypeOK
<1>3. DeferredBy' /\ BadgerIsLast'
    BY <1>1, StartOrder DEF NewNode, Proceed, DeferredBy, BadgerIsLast
<1>4. OpenIsDeferred'
    BY <1>1, StartOrder DEF NewNode, Proceed, OpenIsDeferred
<1>5. QuietOutside' /\ KeyOfProcess'
    BY StartOrder DEF NewNode, Proceed, QuietOutside, KeyOfProcess
<1>6. EndsCancelled' /\ SubscribedUntilCancelled'
    BY StartOrder DEF NewNode, Proceed, QuietOutside, EndsCancelled, SubscribedUntilCancelled
<1>7. QED
    BY <1>2, <1>3, <1>4, <1>5, <1>6

\* Run subscribes to every topic or fails; the channels' close is deferred first.
LEMMA RunEventConsumerStep ==
    ASSUME LifeInv, RunEventConsumer
    PROVE  LifeInv'
<1> USE DEF LifeInv, StartStages, AfterBadger, Subscribing, Ends, Alive
<1>1. /\ defers' \in Seq(Closes) /\ Len(defers') <= 5
      /\ Ordered(defers')
      /\ Items(defers) \cup {"channels"} \subseteq Items(defers')
    <2>1. PICK e : e = <<"events">> \o defers
        OBVIOUS
    <2>2. /\ "channels" \in Closes /\ "events" \in Closes
          /\ defers \in Seq(Closes) /\ Len(defers) <= 3
        BY DEF RunEventConsumer, Proceed, Closes, DeferredBy, TypeOK
    <2>3. defers' = <<"channels">> \o e
        <3>1. <<"channels", "events">> = <<"channels">> \o <<"events">>
            <4>1. PICK t : t = <<"channels">> \o <<"events">>
                OBVIOUS
            <4>2. <<"events">> \in Seq(Closes) /\ Len(<<"events">>) = 1
                BY <2>2
            <4>3. t \in Seq(Closes) /\ Len(t) = 2 /\ t[1] = "channels" /\ t[2] = "events"
                BY <2>2, <4>1, <4>2
            <4>4. QED
                BY <2>2, <4>1, <4>3, SeqEqual
        <3>2. <<"channels">> \in Seq(Closes) /\ <<"events">> \in Seq(Closes)
            BY <2>2
        <3>3. QED
            BY <2>1, <2>2, <3>1, <3>2, ConcatAssociative DEF RunEventConsumer
    <2>4. /\ e \in Seq(Closes) /\ Len(e) = Len(defers) + 1 /\ Len(defers) \in Nat
          /\ Items(e) = {"events"} \cup Items(defers)
          /\ Ordered(e)
        BY <2>1, <2>2, "events" # "badger", PushItem, Zenon DEF BadgerIsLast
    <2>5. /\ defers' \in Seq(Closes) /\ Len(defers') = Len(e) + 1
          /\ Items(defers') = {"channels"} \cup Items(e)
          /\ Ordered(defers')
        BY <2>2, <2>3, <2>4, "channels" # "badger", PushItem, Zenon
    <2>6. QED
        BY <2>2, <2>4, <2>5
<1>2. /\ main = "events" /\ main' = "timeout" /\ chans' = "open" /\ events' = TRUE
      /\ UNCHANGED <<handler, cancelled, run, jsub, badger, job, told, queued, advisory, put,
                     resigned, key, pre, lives, faults>>
    BY StartOrder DEF RunEventConsumer, Proceed
<1>3. TypeOK'
    BY <1>1, <1>2, SixCloses, StagesAre DEF TypeOK
<1>4. DeferredBy' /\ BadgerIsLast'
    BY <1>1, <1>2 DEF DeferredBy, BadgerIsLast
<1>5. OpenIsDeferred'
    BY <1>1, <1>2 DEF OpenIsDeferred
<1>6. QuietOutside' /\ KeyOfProcess'
    BY <1>2 DEF QuietOutside, KeyOfProcess
<1>7. EndsCancelled' /\ SubscribedUntilCancelled'
    BY <1>2 DEF EndsCancelled, SubscribedUntilCancelled
<1>8. QED
    BY <1>3, <1>4, <1>5, <1>6, <1>7

\* The timeout consumer subscribes to the advisories or ends the process.
LEMMA RunTimeOutConsumerStep ==
    ASSUME LifeInv, RunTimeOutConsumer
    PROVE  LifeInv'
<1> USE DEF LifeInv, StartStages, AfterBadger, Subscribing, Ends, Alive
<1>1. /\ defers' \in Seq(Closes) /\ Len(defers') <= 6
      /\ Ordered(defers')
      /\ Items(defers') = Items(defers) \cup {"timeout"}
    <2>1. "timeout" \in Closes /\ defers' = <<"timeout">> \o defers
        BY DEF RunTimeOutConsumer, Defer, Closes
    <2>2. Len(defers) <= 5 /\ defers \in Seq(Closes)
        BY DEF RunTimeOutConsumer, Proceed, DeferredBy, TypeOK
    <2>3. QED
        BY <2>1, <2>2, DeferKeeps
<1>2. TypeOK'
    <2>1. faults' \in 0..MaxFaults
        BY FaultCounts DEF RunTimeOutConsumer, TypeOK
    <2>2. advisory' \in BOOLEAN
        BY DEF RunTimeOutConsumer, TypeOK
    <2>3. QED
        BY <1>1, <2>1, <2>2, SixCloses, StartOrder, StagesAre
           DEF RunTimeOutConsumer, Proceed, TypeOK
<1>3. DeferredBy' /\ BadgerIsLast'
    BY <1>1, StartOrder DEF RunTimeOutConsumer, Proceed, DeferredBy, BadgerIsLast
<1>4. OpenIsDeferred'
    BY <1>1, StartOrder DEF RunTimeOutConsumer, Proceed, OpenIsDeferred
<1>5. QuietOutside' /\ KeyOfProcess'
    BY StartOrder DEF RunTimeOutConsumer, Proceed, QuietOutside, KeyOfProcess
<1>6. EndsCancelled' /\ SubscribedUntilCancelled'
    BY StartOrder DEF RunTimeOutConsumer, Proceed,
       QuietOutside, EndsCancelled, SubscribedUntilCancelled
<1>7. QED
    BY <1>2, <1>3, <1>4, <1>5, <1>6

\* Steps that let others run.
LEMMA ReadyStep ==
    ASSUME LifeInv, Ready
    PROVE  LifeInv'
<1> USE DEF LifeInv, StartStages, AfterBadger, Subscribing, Ends, Alive
<1>1. TypeOK'
    <2>1. faults' \in 0..MaxFaults
        BY FaultCounts DEF Ready, TypeOK
    <2>2. put' \in BOOLEAN /\ key' \in BOOLEAN
        BY DEF Ready, TypeOK
    <2>3. QED
        BY <2>1, <2>2, StartOrder, StagesAre DEF Ready, Proceed, TypeOK
<1>2. DeferredBy' /\ BadgerIsLast'
    BY StartOrder DEF Ready, Proceed, DeferredBy, BadgerIsLast
<1>3. OpenIsDeferred'
    BY StartOrder DEF Ready, Proceed, OpenIsDeferred
<1>4. QuietOutside' /\ KeyOfProcess'
    BY StartOrder DEF Ready, Proceed, QuietOutside, KeyOfProcess
<1>5. EndsCancelled' /\ SubscribedUntilCancelled'
    BY StartOrder DEF Ready, Proceed, QuietOutside, EndsCancelled, SubscribedUntilCancelled
<1>6. QED
    BY <1>1, <1>2, <1>3, <1>4, <1>5

\* The consumers and the signal handler are started, after Ready.
LEMMA StartConsumersStep ==
    ASSUME LifeInv, StartConsumers
    PROVE  LifeInv'
<1> USE DEF LifeInv, StartStages, AfterBadger, Subscribing, Ends, Alive
<1>1. TypeOK'
    BY StartOrder, StagesAre DEF StartConsumers, TypeOK
<1>2. DeferredBy' /\ BadgerIsLast'
    BY StartOrder DEF StartConsumers, DeferredBy, BadgerIsLast
<1>3. OpenIsDeferred'
    BY StartOrder DEF StartConsumers, OpenIsDeferred
<1>4. QuietOutside' /\ KeyOfProcess'
    BY StartOrder DEF StartConsumers, QuietOutside, KeyOfProcess
<1>5. EndsCancelled' /\ SubscribedUntilCancelled'
    BY StartOrder DEF StartConsumers, QuietOutside, EndsCancelled, SubscribedUntilCancelled
<1>6. QED
    BY <1>1, <1>2, <1>3, <1>4, <1>5

-----------------------------------------------------------------------------
(***************************************************************************)
(* The consumers and the end of runNode.                                   *)
(***************************************************************************)
\* A step of a consumer moves only its Run, which returns when it is cancelled.
LEMMA ConsumerFrame ==
    ASSUME LifeInv, NEW c \in Consumers, run[c] # "none",
           UNCHANGED ConsumerRest,
           NEW r \in {"subscribe", "consume", "returned", "failed"},
           run' = [run EXCEPT ![c] = r], r = "returned" => cancelled,
           jsub' \in [Consumers -> BOOLEAN], faults' \in 0..MaxFaults
    PROVE  LifeInv'
<1> USE DEF LifeInv, StartStages, AfterBadger, Subscribing, Ends, Alive
<1>1. TypeOK'
    <2>1. run' \in [Consumers -> {"none", "wait", "subscribe", "consume", "returned", "failed"}]
        BY DEF TypeOK
    <2>2. UNCHANGED <<main, defers, handler, cancelled, badger, job, told, queued, chans,
                      events, advisory, put, resigned, key, pre, lives>>
        BY DEF ConsumerRest
    <2>3. QED
        BY <2>1, <2>2 DEF TypeOK
<1>2. DeferredBy' /\ BadgerIsLast'
    BY DEF ConsumerRest, DeferredBy, BadgerIsLast
<1>3. OpenIsDeferred'
    BY DEF ConsumerRest, OpenIsDeferred
<1>4. QuietOutside' /\ KeyOfProcess'
    BY DEF ConsumerRest, QuietOutside, KeyOfProcess
<1>5. EndsCancelled' /\ SubscribedUntilCancelled'
    <2>1. \A d \in Consumers : run'[d] = IF d = c THEN r ELSE run[d]
        BY DEF TypeOK
    <2>2. QED
        BY <2>1 DEF ConsumerRest, EndsCancelled, SubscribedUntilCancelled
<1>6. QED
    BY <1>1, <1>2, <1>3, <1>4, <1>5

\* A consumer waits, subscribes, or returns once the context is cancelled.
LEMMA ConsumerStepKeeps ==
    ASSUME LifeInv, NEW c \in Consumers, ConsumerStep(c)
    PROVE  LifeInv'
<1>1. TypeOK
    BY DEF LifeInv
<1>2. CASE WaitEnds(c)
    <2>1. jsub' \in [Consumers -> BOOLEAN] /\ faults' \in 0..MaxFaults
        BY <1>1, <1>2 DEF WaitEnds, TypeOK
    <2>2. QED
        BY <1>2, <2>1, ConsumerFrame DEF WaitEnds
<1>3. CASE Subscribe(c)
    <2>1. jsub' \in [Consumers -> BOOLEAN]
        BY <1>1, <1>3, Zenon DEF Subscribe, TypeOK
    <2>2. faults' \in 0..MaxFaults
        BY <1>1, <1>3 DEF Subscribe, TypeOK
    <2>3. QED
        BY <1>3, <2>1, <2>2, ConsumerFrame DEF Subscribe
<1>4. CASE SubscribeFails(c)
    <2>1. jsub' \in [Consumers -> BOOLEAN]
        BY <1>1, <1>4 DEF SubscribeFails, TypeOK
    <2>2. faults' \in 0..MaxFaults
        BY <1>1, <1>4, FaultCounts DEF SubscribeFails, TypeOK
    <2>3. QED
        BY <1>4, <2>1, <2>2, ConsumerFrame DEF SubscribeFails
<1>5. CASE RunReturns(c)
    <2>1. jsub' \in [Consumers -> BOOLEAN]
        BY <1>1, <1>5, Zenon DEF RunReturns, TypeOK
    <2>2. faults' \in 0..MaxFaults
        BY <1>1, <1>5 DEF RunReturns, TypeOK
    <2>3. QED
        BY <1>5, <2>1, <2>2, ConsumerFrame DEF RunReturns
<1>6. QED
    BY <1>2, <1>3, <1>4, <1>5 DEF ConsumerStep

\* runNode leaves its loop only when the context is cancelled: because a consumer failed,
\* or because it was when the consumers returned, of which there is one.
LEMMA LeaveLoopStep ==
    ASSUME LifeInv, LeaveLoop
    PROVE  LifeInv'
<1> USE DEF LifeInv, StartStages, AfterBadger, Subscribing, Ends, Alive
<1>1. /\ main = "serving" /\ main' = "closing"
      /\ cancelled' = TRUE
      /\ UNCHANGED <<defers, handler, run, jsub, badger, job, told, queued, chans, events,
                     advisory, put, resigned, key, pre, lives, faults>>
    <2>1. CASE \E c \in Consumers : run[c] = "failed"
        BY <2>1, Zenon DEF LeaveLoop
    <2>2. CASE ~\E c \in Consumers : run[c] = "failed"
        <3>1. PICK c \in Consumers : run[c] = "returned"
            BY <2>2, LifeAssumption DEF LeaveLoop
        <3>2. cancelled
            BY <3>1 DEF EndsCancelled
        <3>3. QED
            BY <3>2, Zenon DEF LeaveLoop, TypeOK
    <2>3. QED
        BY <2>1, <2>2
<1>2. TypeOK'
    BY <1>1, StagesAre DEF TypeOK
<1>3. DeferredBy' /\ BadgerIsLast'
    BY <1>1 DEF DeferredBy, BadgerIsLast
<1>4. OpenIsDeferred'
    BY <1>1 DEF OpenIsDeferred
<1>5. QuietOutside' /\ KeyOfProcess'
    BY <1>1 DEF QuietOutside, KeyOfProcess
<1>6. EndsCancelled' /\ SubscribedUntilCancelled'
    BY <1>1 DEF EndsCancelled, SubscribedUntilCancelled
<1>7. QED
    BY <1>2, <1>3, <1>4, <1>5, <1>6

\* Resign takes the key out of Consul or says that it could not.
LEMMA ResignKeeps ==
    ASSUME TypeOK, Resign, resigned = "yes" => ~key
    PROVE  /\ key' \in BOOLEAN /\ resigned' \in {"yes", "failed"}
           /\ resigned' = "yes" => ~key'
           /\ faults' \in 0..MaxFaults
<1>1. faults' \in 0..MaxFaults
    BY FaultCounts DEF Resign, TypeOK
<1>2. CASE key' = FALSE /\ resigned' = "yes"
    BY <1>1, <1>2
<1>3. CASE UNCHANGED key /\ resigned' = (IF resigned = "yes" THEN "yes" ELSE "failed")
    BY <1>1, <1>3 DEF TypeOK
<1>4. QED
    BY <1>2, <1>3 DEF Resign

\* A deferred close takes off its own entry and what it closes; the database is closed
\* by the last one.
LEMMA RunDeferredStep ==
    ASSUME LifeInv, RunDeferred
    PROVE  LifeInv'
<1> USE DEF LifeInv, StartStages, AfterBadger, Subscribing, Ends, Alive
<1>1. /\ main = "closing" /\ main' = "closing" /\ defers' = Tail(defers)
      /\ defers # <<>> /\ badger # "closed"
      /\ UNCHANGED <<handler, cancelled, run, jsub, job, queued, put, pre, lives>>
    BY DEF RunDeferred, OpenIsDeferred
<1>2. /\ defers' \in Seq(Closes) /\ Len(defers') = Len(defers) - 1
      /\ Len(defers) \in Nat /\ Len(defers) <= 6
      /\ Items(defers) \ {Head(defers)} \subseteq Items(defers')
      /\ Ordered(defers')
      /\ Head(defers) = "badger" => defers' = <<>>
    BY <1>1, SixCloses, PopItem, LenProperties DEF TypeOK, BadgerIsLast
<1>3. PICK close : close = Head(defers)
    OBVIOUS
<1>4. CloseOf(close)
    BY <1>3 DEF RunDeferred
<1>5. /\ key' \in BOOLEAN /\ resigned' \in {"no", "yes", "failed"}
      /\ resigned' = "yes" => ~key'
      /\ resigned' = "no" => resigned = "no" /\ close # "node"
      /\ faults' \in 0..MaxFaults
    <2>1. CASE close = "node"
        BY <1>4, <2>1, ResignKeeps DEF CloseOf, KeyOfProcess
    <2>2. CASE close # "node"
        BY <1>4, <2>2 DEF CloseOf, KeyOfProcess, TypeOK
    <2>3. QED
        BY <2>1, <2>2
<1>6. events' \in BOOLEAN /\ advisory' \in BOOLEAN /\ told' \in BOOLEAN
    BY <1>4, Zenon DEF CloseOf, TypeOK
<1>7. /\ chans' = IF close = "channels" THEN "closed" ELSE chans
      /\ told' = (told \/ close = "backup")
      /\ badger' = IF close = "badger" THEN "closed" ELSE badger
    BY <1>4 DEF CloseOf
<1>8. TypeOK'
    BY <1>1, <1>2, <1>5, <1>6, <1>7, SixCloses DEF TypeOK
<1>9. DeferredBy' /\ BadgerIsLast'
    BY <1>1, <1>2 DEF DeferredBy, BadgerIsLast
<1>10. OpenIsDeferred'
    BY <1>1, <1>2, <1>3, <1>5, <1>7 DEF OpenIsDeferred
<1>11. QuietOutside' /\ KeyOfProcess'
    BY <1>1, <1>5 DEF QuietOutside, KeyOfProcess
<1>12. EndsCancelled' /\ SubscribedUntilCancelled'
    BY <1>1 DEF EndsCancelled, SubscribedUntilCancelled
<1>13. QED
    BY <1>8, <1>9, <1>10, <1>11, <1>12

\* The process is gone: nothing of it is left but the state of the database, the key that
\* it put and what came of its Resign.
LEMMA GoneKeeps ==
    ASSUME LifeInv, Gone, main' \in Ends, UNCHANGED <<key, pre, lives>>,
           faults' \in 0..MaxFaults, (main' = "exited" /\ put) => resigned # "no"
    PROVE  LifeInv'
<1> USE DEF LifeInv, StartStages, AfterBadger, Subscribing, Ends, Alive
<1>1. TypeOK'
    <2>1. run' \in [Consumers -> {"none", "wait", "subscribe", "consume", "returned", "failed"}]
        BY DEF Gone
    <2>2. jsub' \in [Consumers -> BOOLEAN]
        BY Zenon DEF Gone
    <2>3. defers' \in Seq(Closes) /\ Len(defers') <= Cardinality(Closes)
        BY SixCloses, EmptySeq DEF Gone
    <2>4. queued' \in 0..MaxQueued
        BY LifeAssumption DEF Gone
    <2>5. QED
        BY <2>1, <2>2, <2>3, <2>4, StagesAre DEF Gone, TypeOK
<1>2. DeferredBy' /\ BadgerIsLast'
    BY DEF Gone, DeferredBy, BadgerIsLast, Ordered
<1>3. OpenIsDeferred'
    BY DEF Gone, OpenIsDeferred
<1>4. QuietOutside' /\ KeyOfProcess'
    BY DEF Gone, QuietOutside, KeyOfProcess
<1>5. EndsCancelled' /\ SubscribedUntilCancelled'
    BY DEF Gone, EndsCancelled, SubscribedUntilCancelled
<1>6. QED
    BY <1>1, <1>2, <1>3, <1>4, <1>5

\* runNode ends when all its deferred closes have run.
LEMMA ExitStep ==
    ASSUME LifeInv, Exit
    PROVE  LifeInv'
<1>1. resigned # "no"
    <2>1. "node" \notin Items(<<>>)
        BY DEF Items
    <2>2. QED
        BY <2>1 DEF Exit, LifeInv, OpenIsDeferred
<1>2. faults' \in 0..MaxFaults
    BY DEF Exit, LifeInv, TypeOK
<1>3. QED
    BY <1>1, <1>2, GoneKeeps DEF Exit, Ends

\* A fatal error, a crash or a panic leaves nothing but the ready key and the pre-params.
LEMMA KilledStep ==
    ASSUME LifeInv, Fatal \/ Crash \/ EventPanics
    PROVE  LifeInv'
<1>1. /\ Gone /\ main' = "killed" /\ UNCHANGED <<key, pre, lives>>
      /\ faults' \in 0..MaxFaults
    BY FaultCounts DEF Fatal, Crash, EventPanics, LifeInv, TypeOK
<1>2. QED
    BY <1>1, GoneKeeps DEF Ends

-----------------------------------------------------------------------------
(***************************************************************************)
(* Signals, backups, peers and restarts.                                   *)
(***************************************************************************)
LEMMA InstallHandlerStep ==
    ASSUME LifeInv, InstallHandler
    PROVE  LifeInv'
<1> USE DEF LifeInv, StartStages, AfterBadger, Subscribing, Ends, Alive
<1>1. TypeOK'
    BY DEF InstallHandler, TypeOK
<1>2. DeferredBy' /\ BadgerIsLast'
    BY DEF InstallHandler, DeferredBy, BadgerIsLast
<1>3. OpenIsDeferred'
    BY DEF InstallHandler, OpenIsDeferred
<1>4. QuietOutside' /\ KeyOfProcess'
    BY DEF InstallHandler, QuietOutside, KeyOfProcess
<1>5. EndsCancelled' /\ SubscribedUntilCancelled'
    BY DEF InstallHandler, QuietOutside, EndsCancelled, SubscribedUntilCancelled
<1>6. QED
    BY <1>1, <1>2, <1>3, <1>4, <1>5

\* A signal cancels the context before anything else.
LEMMA SignalStep ==
    ASSUME LifeInv, Signal
    PROVE  LifeInv'
<1> USE DEF LifeInv, StartStages, AfterBadger, Subscribing, Ends, Alive
<1>1. TypeOK'
    BY DEF Signal, TypeOK
<1>2. DeferredBy' /\ BadgerIsLast'
    BY DEF Signal, DeferredBy, BadgerIsLast
<1>3. OpenIsDeferred'
    BY DEF Signal, OpenIsDeferred
<1>4. QuietOutside' /\ KeyOfProcess'
    BY DEF Signal, QuietOutside, KeyOfProcess
<1>5. EndsCancelled' /\ SubscribedUntilCancelled'
    BY DEF Signal, QuietOutside, EndsCancelled, SubscribedUntilCancelled
<1>6. QED
    BY <1>1, <1>2, <1>3, <1>4, <1>5

\* The signal handler resigns.
LEMMA HandlerResignsStep ==
    ASSUME LifeInv, HandlerResigns
    PROVE  LifeInv'
<1> USE DEF LifeInv, StartStages, AfterBadger, Subscribing, Ends, Alive
<1>1. /\ key' \in BOOLEAN /\ resigned' \in {"yes", "failed"}
      /\ resigned' = "yes" => ~key'
      /\ faults' \in 0..MaxFaults
    BY ResignKeeps DEF HandlerResigns, KeyOfProcess
<1>2. TypeOK'
    BY <1>1 DEF HandlerResigns, TypeOK
<1>3. DeferredBy' /\ BadgerIsLast'
    BY DEF HandlerResigns, DeferredBy, BadgerIsLast
<1>4. OpenIsDeferred'
    BY <1>1 DEF HandlerResigns, OpenIsDeferred
<1>5. QuietOutside' /\ KeyOfProcess'
    BY <1>1 DEF HandlerResigns, QuietOutside, KeyOfProcess
<1>6. EndsCancelled' /\ SubscribedUntilCancelled'
    BY DEF HandlerResigns, QuietOutside, EndsCancelled, SubscribedUntilCancelled
<1>7. QED
    BY <1>2, <1>3, <1>4, <1>5, <1>6

\* The signal handler closes the consumers.
LEMMA HandlerClosesStep ==
    ASSUME LifeInv, HandlerCloses
    PROVE  LifeInv'
<1> USE DEF LifeInv, StartStages, AfterBadger, Subscribing, Ends, Alive
<1>1. TypeOK'
    <2>1. jsub' \in [Consumers -> BOOLEAN]
        BY Zenon DEF HandlerCloses
    <2>2. QED
        BY <2>1 DEF HandlerCloses, TypeOK
<1>2. DeferredBy' /\ BadgerIsLast'
    BY DEF HandlerCloses, DeferredBy, BadgerIsLast
<1>3. OpenIsDeferred'
    BY DEF HandlerCloses, OpenIsDeferred
<1>4. QuietOutside' /\ KeyOfProcess'
    BY DEF HandlerCloses, QuietOutside, KeyOfProcess
<1>5. EndsCancelled' /\ SubscribedUntilCancelled'
    BY DEF HandlerCloses, QuietOutside, EndsCancelled, SubscribedUntilCancelled
<1>6. QED
    BY <1>1, <1>2, <1>3, <1>4, <1>5

\* The signal handler drains the connection.
LEMMA HandlerDrainsStep ==
    ASSUME LifeInv, HandlerDrains
    PROVE  LifeInv'
<1> USE DEF LifeInv, StartStages, AfterBadger, Subscribing, Ends, Alive
<1>1. TypeOK'
    BY DEF HandlerDrains, TypeOK
<1>2. DeferredBy' /\ BadgerIsLast'
    BY DEF HandlerDrains, DeferredBy, BadgerIsLast
<1>3. OpenIsDeferred'
    BY DEF HandlerDrains, OpenIsDeferred
<1>4. QuietOutside' /\ KeyOfProcess'
    BY DEF HandlerDrains, QuietOutside, KeyOfProcess
<1>5. EndsCancelled' /\ SubscribedUntilCancelled'
    BY DEF HandlerDrains, QuietOutside, EndsCancelled, SubscribedUntilCancelled
<1>6. QED
    BY <1>1, <1>2, <1>3, <1>4, <1>5

\* The drain is over and no subscription is left.
LEMMA DrainedStep ==
    ASSUME LifeInv, Drained
    PROVE  LifeInv'
<1> USE DEF LifeInv, StartStages, AfterBadger, Subscribing, Ends, Alive
<1>1. TypeOK'
    <2>1. jsub' \in [Consumers -> BOOLEAN]
        BY Zenon DEF Drained
    <2>2. QED
        BY <2>1 DEF Drained, TypeOK
<1>2. DeferredBy' /\ BadgerIsLast'
    BY DEF Drained, DeferredBy, BadgerIsLast
<1>3. OpenIsDeferred'
    BY DEF Drained, OpenIsDeferred
<1>4. QuietOutside' /\ KeyOfProcess'
    BY DEF Drained, QuietOutside, KeyOfProcess
<1>5. EndsCancelled' /\ SubscribedUntilCancelled'
    BY DEF Drained, QuietOutside, EndsCancelled, SubscribedUntilCancelled
<1>6. QED
    BY <1>1, <1>2, <1>3, <1>4, <1>5

\* The backup job starts and ends a backup.
LEMMA BackupRunsStep ==
    ASSUME LifeInv, BackupRuns
    PROVE  LifeInv'
<1> USE DEF LifeInv, StartStages, AfterBadger, Subscribing, Ends, Alive
<1>1. TypeOK'
    BY DEF BackupRuns, TypeOK
<1>2. DeferredBy' /\ BadgerIsLast'
    BY DEF BackupRuns, DeferredBy, BadgerIsLast
<1>3. OpenIsDeferred'
    BY DEF BackupRuns, OpenIsDeferred
<1>4. QuietOutside' /\ KeyOfProcess'
    BY DEF BackupRuns, QuietOutside, KeyOfProcess
<1>5. EndsCancelled' /\ SubscribedUntilCancelled'
    BY DEF BackupRuns, QuietOutside, EndsCancelled, SubscribedUntilCancelled
<1>6. QED
    BY <1>1, <1>2, <1>3, <1>4, <1>5

\* Events are queued and taken: whatever is open stays so.
LEMMA QueueStep ==
    ASSUME LifeInv, QueueEvent \/ WorkerTakes
    PROVE  LifeInv'
<1> USE DEF LifeInv, StartStages, AfterBadger, Subscribing, Ends, Alive
<1>1. /\ queued' \in 0..MaxQueued
      /\ UNCHANGED <<main, defers, handler, cancelled, run, jsub, badger, job, told, chans, events,
                     advisory, put, resigned, key, pre, lives, faults>>
    BY LifeAssumption DEF QueueEvent, WorkerTakes, TypeOK
<1>2. TypeOK'
    BY <1>1 DEF TypeOK
<1>3. DeferredBy' /\ BadgerIsLast'
    BY <1>1 DEF DeferredBy, BadgerIsLast
<1>4. OpenIsDeferred'
    BY <1>1 DEF OpenIsDeferred
<1>5. QuietOutside' /\ KeyOfProcess'
    BY <1>1 DEF QuietOutside, KeyOfProcess
<1>6. EndsCancelled' /\ SubscribedUntilCancelled'
    BY <1>1 DEF EndsCancelled, SubscribedUntilCancelled
<1>7. QED
    BY <1>2, <1>3, <1>4, <1>5, <1>6

\* A peer takes the node for dead and deletes its ready key.
LEMMA PeerDeletesKeyStep ==
    ASSUME LifeInv, PeerDeletesKey
    PROVE  LifeInv'
<1> USE DEF LifeInv, StartStages, AfterBadger, Subscribing, Ends, Alive
<1>1. TypeOK'
    <2>1. key' \in BOOLEAN
        BY DEF PeerDeletesKey
    <2>2. UNCHANGED <<main, defers, handler, cancelled, run, jsub, badger, job, told, queued,
                      chans, events, advisory, put, resigned, pre, lives, faults>>
        BY DEF PeerDeletesKey, procVars
    <2>3. QED
        BY <2>1, <2>2 DEF TypeOK
<1>2. DeferredBy' /\ BadgerIsLast'
    BY DEF PeerDeletesKey, procVars, DeferredBy, BadgerIsLast
<1>3. OpenIsDeferred'
    BY DEF PeerDeletesKey, procVars, OpenIsDeferred
<1>4. QuietOutside' /\ KeyOfProcess'
    BY DEF PeerDeletesKey, procVars, QuietOutside, KeyOfProcess
<1>5. EndsCancelled' /\ SubscribedUntilCancelled'
    BY DEF PeerDeletesKey, procVars, QuietOutside, EndsCancelled, SubscribedUntilCancelled
<1>6. QED
    BY <1>1, <1>2, <1>3, <1>4, <1>5

\* A new process starts from nothing but the ready key and the pre-params.
LEMMA RestartStep ==
    ASSUME LifeInv, Restart
    PROVE  LifeInv'
<1> USE DEF LifeInv, StartStages, AfterBadger, Subscribing, Ends, Alive
<1>1. TypeOK'
    <2>1. lives' \in 1..MaxLives
        BY LifeAssumption DEF Restart, TypeOK
    <2>2. QED
        BY <2>1, StagesAre DEF Restart, TypeOK
<1>2. DeferredBy' /\ BadgerIsLast'
    BY DEF Restart, DeferredBy, BadgerIsLast
<1>3. OpenIsDeferred'
    BY DEF Restart, OpenIsDeferred
<1>4. QuietOutside' /\ KeyOfProcess'
    BY DEF Restart, QuietOutside, KeyOfProcess
<1>5. EndsCancelled' /\ SubscribedUntilCancelled'
    BY DEF Restart, QuietOutside, EndsCancelled, SubscribedUntilCancelled
<1>6. QED
    BY <1>1, <1>2, <1>3, <1>4, <1>5

-----------------------------------------------------------------------------
(***************************************************************************)
(* The theorems.                                                           *)
(***************************************************************************)
LEMMA LifeInvInit == Init => LifeInv
<1> SUFFICES ASSUME Init PROVE LifeInv
    OBVIOUS
<1> USE DEF StartStages, AfterBadger, Subscribing, Ends, Alive, Init, FreshProcess
<1>1. TypeOK
    <2>1. run \in [Consumers -> {"none", "wait", "subscribe", "consume", "returned", "failed"}]
        OBVIOUS
    <2>2. jsub \in [Consumers -> BOOLEAN]
        BY Zenon
    <2>3. defers \in Seq(Closes) /\ Len(defers) <= Cardinality(Closes)
        BY SixCloses, EmptySeq
    <2>4. lives \in 1..MaxLives /\ faults \in 0..MaxFaults
        BY LifeAssumption
    <2>5. main \in Stages /\ pre \in 0..2 /\ queued \in 0..MaxQueued
        BY StagesAre, LifeAssumption
    <2>6. QED
        BY <2>1, <2>2, <2>3, <2>4, <2>5, Zenon DEF TypeOK
<1>2. DeferredBy /\ BadgerIsLast
    BY DEF DeferredBy, BadgerIsLast, Ordered
<1>3. OpenIsDeferred
    BY DEF OpenIsDeferred
<1>4. QuietOutside /\ KeyOfProcess
    BY DEF QuietOutside, KeyOfProcess
<1>5. EndsCancelled /\ SubscribedUntilCancelled
    BY DEF EndsCancelled, SubscribedUntilCancelled
<1>6. QED
    BY <1>1, <1>2, <1>3, <1>4, <1>5 DEF LifeInv

\* Every step of main, consumers, signal handler, job and peers keeps the invariant.
LEMMA LifeInvStep == LifeInv /\ [Next]_vars => LifeInv'
<1> SUFFICES ASSUME LifeInv, [Next]_vars PROVE LifeInv'
    OBVIOUS
<1>1. CASE StartStep
    BY <1>1, LoadConfigStep, NewBadgerKVStep, StartBackupStep, NewFileStoreStep, ConnectStep,
       NewMessageQueuesStep, PreParamsStep, NewNodeStep, RunEventConsumerStep,
       RunTimeOutConsumerStep, ReadyStep, StartConsumersStep DEF StartStep
<1>2. CASE ConfigFails
    BY <1>2, ConfigFailsStep
<1>3. CASE Fatal \/ Crash \/ EventPanics
    BY <1>3, KilledStep
<1>4. CASE \E c \in Consumers : ConsumerStep(c)
    BY <1>4, ConsumerStepKeeps
<1>5. CASE MainStep
    BY <1>5, LeaveLoopStep, RunDeferredStep, ExitStep DEF MainStep
<1>6. CASE HandlerStep
    BY <1>6, InstallHandlerStep, SignalStep, HandlerResignsStep, HandlerClosesStep,
       HandlerDrainsStep, DrainedStep DEF HandlerStep
<1>7. CASE QueueEvent \/ WorkerTakes \/ BackupRuns \/ PeerDeletesKey \/ Restart
    BY <1>7, QueueStep, BackupRunsStep, PeerDeletesKeyStep, RestartStep
<1>8. CASE UNCHANGED vars
    BY <1>8 DEF vars, procVars, LifeInv, TypeOK, DeferredBy, BadgerIsLast, OpenIsDeferred,
       QuietOutside, KeyOfProcess, EndsCancelled, SubscribedUntilCancelled, Alive
<1>9. QED
    BY <1>1, <1>2, <1>3, <1>4, <1>5, <1>6, <1>7, <1>8 DEF Next

\* What runNode has deferred, what is open and what is cancelled agree at every stage of
\* starting and ending.
THEOREM LifeInvariant == Spec => []LifeInv
<1>1. QED
    BY LifeInvInit, LifeInvStep, PTL DEF Spec

\* Every variable of the process keeps its type.
THEOREM LifeTypes == Spec => []TypeOK
<1>1. LifeInv => TypeOK
    BY DEF LifeInv
<1>2. QED
    BY <1>1, LifeInvariant, PTL

\* A process that ends with runNode has resigned, however far its signal handler came.
THEOREM ExitHasResigned == Spec => []ExitResigns
<1>1. LifeInv => ExitResigns
    BY DEF LifeInv, TypeOK, KeyOfProcess, ExitResigns
<1>2. QED
    BY <1>1, LifeInvariant, PTL

\* A node that is listed and not told to stop is subscribed to the MPC events.
THEOREM ListedNodesHear == Spec => []ListedIsSubscribed
<1>1. LifeInv => ListedIsSubscribed
    BY DEF LifeInv, KeyOfProcess, EndsCancelled, SubscribedUntilCancelled, Subscribing,
           ListedIsSubscribed, Alive
<1>2. QED
    BY <1>1, LifeInvariant, PTL

\* When the database is closed, no further event can be queued for a session on it and the
\* backup job has been cancelled: what opened after the database is closed before it,
\* wherever starting failed or ended.
THEOREM DatabaseClosedAfterSources == Spec => []SourcesStoppedFirst
<1>1. LifeInv => SourcesStoppedFirst
    <2> SUFFICES ASSUME LifeInv, Alive, badger = "closed"
                 PROVE  chans # "open" /\ (job # "none" => told)
        BY DEF SourcesStoppedFirst
    <2>1. defers = <<>> /\ Items(<<>>) = {}
        BY DEF LifeInv, OpenIsDeferred, Items
    <2>2. QED
        BY <2>1 DEF LifeInv, TypeOK, OpenIsDeferred
<1>2. QED
    BY <1>1, LifeInvariant, PTL
=============================================================================
