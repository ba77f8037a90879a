------------------------------ MODULE NodeLife ------------------------------
(***************************************************************************)
(* The life of one node's process: runNode of cmd/node, the goroutines it   *)
(* starts and the order in which they all end.                              *)
(*                                                                         *)
(* Starting is a sequence of steps that open something, most of which leave *)
(* a deferred close behind.  Ending is a race: the goroutine that waits for *)
(* a signal cancels the context and then resigns, closes the consumers and  *)
(* drains NATS, while the consumers return because of the same context,     *)
(* runNode returns because of them and runs its deferred closes, and the    *)
(* process ends with runNode, wherever the other goroutine is.              *)
(*                                                                         *)
(* logger.Fatal and a panic end the process without any deferred close.     *)
(***************************************************************************)
EXTENDS Naturals, Sequences, FiniteSets

CONSTANTS
    Consumers, \* the stream consumers: keygen, signing, resharing
    Impatient, \* those that do not wait for peers: resharing
    MaxLives,  \* bound on starts of the process
    MaxQueued, \* bound on buffered MPC events, 100 to 200 a channel in the code
    MaxFaults  \* bound on calls that fail

ASSUME LifeAssumption ==
    /\ IsFiniteSet(Consumers) /\ Consumers # {}
    /\ Impatient \subseteq Consumers
    /\ MaxLives \in Nat \ {0}
    /\ MaxQueued \in Nat \ {0}
    /\ MaxFaults \in Nat

VARIABLES
    main,      \* where runNode is
    defers,    \* its deferred closes, the last one first
    handler,   \* the goroutine of the signal handler
    cancelled, \* appContext
    run,       \* consumer -> where its Run is
    jsub,      \* consumer -> its JetStream subscription
    badger,    \* the database
    job,       \* the backup goroutine
    told,      \* backupCancel has been called
    queued,    \* MPC events in the message channels that no worker has taken
    chans,     \* the message channels of the event consumer
    events,    \* its subscriptions to the MPC events
    advisory,  \* the subscription of the timeout consumer
    put,       \* this process has put its ready key
    key,       \* the ready key is in Consul
    resigned,  \* what came of its Resign, of the better one if both were called
    pre,       \* pre-params stored in the database
    lives, faults

procVars == <<defers, handler, cancelled, run, jsub, badger, job, told, queued, chans, events,
              advisory, put, resigned>>
vars == <<main, procVars, key, pre, lives, faults>>

\* A fault: the node is made ready before it is subscribed to the MPC events.
ReadyFirst == <<"config", "badger", "backup", "identity", "nats", "queues", "params", "node",
                "ready", "events", "timeout", "consumers">>

\* runNode: the steps of starting, then the loop over errChan, then the deferred
\* closes.  "exited" is a return of main, "killed" any other end.
Starting == <<"config", "badger", "backup", "identity", "nats", "queues", "params", "node",
              "events", "timeout", "ready", "consumers">>

Ends == {"exited", "killed"}
Stages == {Starting[i] : i \in DOMAIN Starting} \cup {"serving", "closing"} \cup Ends
Alive == main \notin Ends

Closes == {"badger", "backup", "node", "channels", "events", "timeout"}

TypeOK ==
    /\ main \in Stages
    /\ defers \in Seq(Closes) /\ Len(defers) <= Cardinality(Closes)
    /\ handler \in {"none", "starting", "waiting", "resign", "close", "drain", "draining", "done"}
    /\ cancelled \in BOOLEAN
    /\ run \in [Consumers -> {"none", "wait", "subscribe", "consume", "returned", "failed"}]
    /\ jsub \in [Consumers -> BOOLEAN]
    /\ badger \in {"none", "open", "closed"}
    /\ job \in {"none", "waiting", "running", "stopped"}
    /\ told \in BOOLEAN
    /\ queued \in 0..MaxQueued
    /\ chans \in {"none", "open", "closed"}
    /\ events \in BOOLEAN
    /\ advisory \in BOOLEAN
    /\ put \in BOOLEAN /\ key \in BOOLEAN
    /\ resigned \in {"no", "yes", "failed"}
    /\ pre \in 0..2
    /\ lives \in 1..MaxLives /\ faults \in 0..MaxFaults

\* A process that has done nothing yet.
FreshProcess ==
    /\ defers = <<>>
    /\ handler = "none"
    /\ cancelled = FALSE
    /\ run = [c \in Consumers |-> "none"]
    /\ jsub = [c \in Consumers |-> FALSE]
    /\ badger = "none"
    /\ job = "none"
    /\ told = FALSE
    /\ queued = 0
    /\ chans = "none"
    /\ events = FALSE
    /\ advisory = FALSE
    /\ put = FALSE
    /\ resigned = "no"

Init ==
    /\ main = "config"
    /\ FreshProcess
    /\ key = FALSE
    /\ pre = 0
    /\ lives = 1
    /\ faults = MaxFaults

-----------------------------------------------------------------------------
(***************************************************************************)
(* Starting.                                                               *)
(***************************************************************************)
Fault == faults > 0 /\ faults' = faults - 1

Next1(stage) == Starting[1 + CHOOSE i \in DOMAIN Starting : Starting[i] = stage]
Proceed(stage) == main = stage /\ main' = Next1(stage)

Defer(close) == defers' = <<close>> \o defers

\* The process is gone, with all it had in memory and all its subscriptions.
Gone ==
    /\ defers' = <<>>
    /\ handler' = "none"
    /\ cancelled' = FALSE
    /\ run' = [c \in Consumers |-> "none"]
    /\ jsub' = [c \in Consumers |-> FALSE]
    /\ badger' = IF badger = "open" THEN "none" ELSE badger
    /\ job' = "none"
    /\ told' = FALSE
    /\ queued' = 0
    /\ chans' = "none"
    /\ events' = FALSE
    /\ advisory' = FALSE
    /\ UNCHANGED <<put, resigned>>

\* config.Load, the password file and the credentials: an error is returned.
LoadConfig ==
    /\ Proceed("config")
    /\ UNCHANGED <<procVars, key, pre, lives, faults>>

ConfigFails ==
    /\ main = "config"
    /\ Fault
    /\ main' = "exited"
    /\ UNCHANGED <<procVars, key, pre, lives>>

\* Steps that end the process if they fail: the required values, Consul and the peers in
\* it, the database, the identity store, NATS and the brokers, the result queues, the
\* pre-params, the subscriptions of the event consumer.
Fatal ==
    /\ main \in {"config", "badger", "identity", "nats", "queues", "params", "events"}
    /\ Fault
    /\ main' = "killed"
    /\ Gone
    /\ UNCHANGED <<key, pre, lives>>

NewBadgerKV ==
    /\ Proceed("badger")
    /\ badger' = "open"
    /\ Defer("badger")
    /\ UNCHANGED <<handler, cancelled, run, jsub, job, told, queued, chans, events, advisory,
                   put, resigned, key, pre, lives, faults>>

\* With backups enabled, a goroutine that runs one now and then.
StartBackup(enabled) ==
    /\ Proceed("backup")
    /\ IF enabled THEN job' = "waiting" /\ Defer("backup") ELSE UNCHANGED <<job, defers>>
    /\ UNCHANGED <<handler, cancelled, run, jsub, badger, told, queued, chans, events, advisory,
                   put, resigned, key, pre, lives, faults>>

NewFileStore ==
    /\ Proceed("identity")
    /\ UNCHANGED <<procVars, key, pre, lives, faults>>

Connect ==
    /\ Proceed("nats")
    /\ UNCHANGED <<procVars, key, pre, lives, faults>>

\* Closing a result queue of a node does nothing: a node never dequeues.
NewMessageQueues ==
    /\ Proceed("queues")
    /\ UNCHANGED <<procVars, key, pre, lives, faults>>

\* A fault: one more is generated than is used.
GenerateOneMore ==
    /\ main = "params"
    /\ IF pre <= 2 THEN pre' = pre + 1 /\ UNCHANGED main
                   ELSE main' = Next1("params") /\ UNCHANGED pre
    /\ UNCHANGED <<procVars, key, lives, faults>>

\* generatePreParams: load the two pre-params, or generate and save what is missing.
generatePreParams ==
    /\ main = "params"
    /\ IF pre < 2 THEN pre' = pre + 1 /\ UNCHANGED main
                  ELSE main' = Next1("params") /\ UNCHANGED pre
    /\ UNCHANGED <<procVars, key, lives, faults>>

NewNode ==
    /\ Proceed("node")
    /\ Defer("node")
    /\ UNCHANGED <<handler, cancelled, run, jsub, badger, job, told, queued, chans, events,
                   advisory, put, resigned, key, pre, lives, faults>>

\* A fault: the event consumer is never closed.
RunEventConsumerNoClose ==
    /\ Proceed("events")
    /\ chans' = "open"
    /\ events' = TRUE
    /\ UNCHANGED <<defers, handler, cancelled, run, jsub, badger, job, told, queued, advisory, put,
                   resigned, key, pre, lives, faults>>

\* NewEventConsumer and Run.  Close has two parts.
RunEventConsumer ==
    /\ Proceed("events")
    /\ chans' = "open"
    /\ events' = TRUE
    /\ defers' = <<"channels", "events">> \o defers
    /\ UNCHANGED <<handler, cancelled, run, jsub, badger, job, told, queued, advisory, put,
                   resigned, key, pre, lives, faults>>

\* An error of its subscription is only logged.
RunTimeOutConsumer ==
    /\ Proceed("timeout")
    /\ \/ advisory' = TRUE /\ UNCHANGED faults
       \/ UNCHANGED advisory /\ Fault
    /\ Defer("timeout")
    /\ UNCHANGED <<handler, cancelled, run, jsub, badger, job, told, queued, chans, events, put,
                   resigned, key, pre, lives>>

\* Ready puts the ready key and listens to health checks.  An error of its steps is
\* logged, and the node goes on.
Ready ==
    /\ Proceed("ready")
    /\ \/ put' = TRUE /\ key' = TRUE /\ UNCHANGED faults
       \/ UNCHANGED <<put, key>> /\ Fault
    /\ UNCHANGED <<defers, handler, cancelled, run, jsub, badger, job, told, queued, chans,
                   events, advisory, resigned, pre, lives>>

StartConsumers ==
    /\ main = "consumers" /\ main' = "serving"
    /\ handler' = "starting"
    /\ run' = [c \in Consumers |-> IF c \in Impatient THEN "subscribe" ELSE "wait"]
    /\ UNCHANGED <<defers, cancelled, jsub, badger, job, told, queued, chans, events, advisory,
                   put, resigned, key, pre, lives, faults>>

-----------------------------------------------------------------------------
(***************************************************************************)
(* The consumers and the end of runNode.                                   *)
(***************************************************************************)
ConsumerRest == <<main, defers, handler, cancelled, badger, job, told, queued, chans, events,
                  advisory, put, resigned, key, pre, lives>>

\* A fault: the wait for peers does not heed the context.
WaitIgnoresCancel(c) ==
    /\ run[c] = "wait" /\ ~cancelled
    /\ run' = [run EXCEPT ![c] = "subscribe"]
    /\ UNCHANGED <<jsub, faults, ConsumerRest>>

\* waitForSufficientPeers returns when the peers are ready, and when it is cancelled.
WaitEnds(c) ==
    /\ run[c] = "wait"
    /\ run' = [run EXCEPT ![c] = "subscribe"]
    /\ UNCHANGED <<jsub, faults, ConsumerRest>>

\* CreateSubscription, which a drained connection refuses, and its failure, for which a
\* cancelled context is enough.
Subscribe(c) ==
    /\ run[c] = "subscribe" /\ handler # "done"
    /\ run' = [run EXCEPT ![c] = "consume"]
    /\ jsub' = [jsub EXCEPT ![c] = TRUE]
    /\ UNCHANGED <<faults, ConsumerRest>>

SubscribeFails(c) ==
    /\ run[c] = "subscribe"
    /\ IF cancelled THEN UNCHANGED faults ELSE Fault
    /\ run' = [run EXCEPT ![c] = "failed"]
    /\ UNCHANGED <<jsub, ConsumerRest>>

\* Run blocks until the context is cancelled, closes its subscription and returns.
RunReturns(c) ==
    /\ run[c] = "consume" /\ cancelled
    /\ run' = [run EXCEPT ![c] = "returned"]
    /\ jsub' = [jsub EXCEPT ![c] = FALSE]
    /\ UNCHANGED <<faults, ConsumerRest>>

\* The loop over errChan ends with the first error, or when all consumers returned.
LeaveLoop ==
    /\ main = "serving"
    /\ \/ \E c \in Consumers : run[c] = "failed"
       \/ \A c \in Consumers : run[c] = "returned"
    /\ main' = "closing"
    /\ cancelled' = (cancelled \/ \E c \in Consumers : run[c] = "failed")
    /\ UNCHANGED <<defers, handler, run, jsub, badger, job, told, queued, chans, events,
                   advisory, put, resigned, key, pre, lives, faults>>

\* Resign deletes the ready key, or logs that it could not.
Resign ==
    \/ key' = FALSE /\ resigned' = "yes" /\ UNCHANGED faults
    \/ Fault /\ resigned' = (IF resigned = "yes" THEN "yes" ELSE "failed") /\ UNCHANGED key

\* Unsubscribe returns an error on a connection that drains.
Unsubscribes == handler # "draining"

\* A fault: Close of the node leaves its ready key to the signal handler.
CloseWithoutResign(close) ==
    /\ UNCHANGED <<key, resigned, faults>>
    /\ chans' = IF close = "channels" THEN "closed" ELSE chans
    /\ events' = (events /\ ~(close = "events" /\ Unsubscribes))
    /\ advisory' = (advisory /\ ~(close = "timeout" /\ Unsubscribes))
    /\ told' = (told \/ close = "backup")
    /\ badger' = IF close = "badger" THEN "closed" ELSE badger

\* The deferred closes run last in, first out; Close of the event consumer closes the
\* channels, with what is queued in them, before it unsubscribes, and stopBackup tells the
\* backup goroutine to stop without waiting for it.
CloseOf(close) ==
    /\ IF close = "node" THEN Resign ELSE UNCHANGED <<key, resigned, faults>>
    /\ chans' = IF close = "channels" THEN "closed" ELSE chans
    /\ events' = (events /\ ~(close = "events" /\ Unsubscribes))
    /\ advisory' = (advisory /\ ~(close = "timeout" /\ Unsubscribes))
    /\ told' = (told \/ close = "backup")
    /\ badger' = IF close = "badger" THEN "closed" ELSE badger

RunDeferred ==
    /\ main = "closing" /\ defers # <<>>
    /\ CloseOf(Head(defers))
    /\ defers' = Tail(defers)
    /\ UNCHANGED <<main, handler, cancelled, run, jsub, job, queued, put, pre, lives>>

Exit ==
    /\ main = "closing" /\ defers = <<>>
    /\ main' = "exited"
    /\ Gone
    /\ UNCHANGED <<key, pre, lives, faults>>

-----------------------------------------------------------------------------
(***************************************************************************)
(* Signals, events, backups, crashes and the peers.                        *)
(***************************************************************************)
InstallHandler ==
    /\ handler = "starting"
    /\ handler' = "waiting"
    /\ UNCHANGED <<main, defers, cancelled, run, jsub, badger, job, told, queued, chans, events,
                   advisory, put, resigned, key, pre, lives, faults>>

\* SIGTERM, once the handler waits for it.
Signal ==
    /\ handler = "waiting"
    /\ handler' = "resign"
    /\ cancelled' = TRUE
    /\ UNCHANGED <<main, defers, run, jsub, badger, job, told, queued, chans, events, advisory,
                   put, resigned, key, pre, lives, faults>>

HandlerResigns ==
    /\ handler = "resign"
    /\ handler' = "close"
    /\ Resign
    /\ UNCHANGED <<main, defers, cancelled, run, jsub, badger, job, told, queued, chans, events,
                   advisory, put, pre, lives>>

HandlerCloses ==
    /\ handler = "close"
    /\ handler' = "drain"
    /\ jsub' = [c \in Consumers |-> FALSE]
    /\ UNCHANGED <<main, defers, cancelled, run, badger, job, told, queued, chans, events,
                   advisory, put, resigned, key, pre, lives, faults>>

HandlerDrains ==
    /\ handler = "drain"
    /\ handler' = "draining"
    /\ UNCHANGED <<main, defers, cancelled, run, jsub, badger, job, told, queued, chans, events,
                   advisory, put, resigned, key, pre, lives, faults>>

\* Drain works in the background: what is pending is still handled, then no subscription
\* is left.
Drained ==
    /\ handler = "draining"
    /\ handler' = "done"
    /\ jsub' = [c \in Consumers |-> FALSE]
    /\ events' = FALSE
    /\ advisory' = FALSE
    /\ UNCHANGED <<main, defers, cancelled, run, badger, job, told, queued, chans, put,
                   resigned, key, pre, lives, faults>>

\* The callback of a subscription puts an MPC event in its channel, and waits while the
\* channel is full.
QueueEvent ==
    /\ events /\ chans = "open"
    /\ queued < MaxQueued
    /\ queued' = queued + 1
    /\ UNCHANGED <<main, defers, handler, cancelled, run, jsub, badger, job, told, chans, events,
                   advisory, put, resigned, key, pre, lives, faults>>

\* A worker takes an event and starts its handler.  The workers range over the channels,
\* so they go on with what is queued when the channels, or even the database, are closed.
WorkerTakes ==
    /\ queued > 0
    /\ queued' = queued - 1
    /\ UNCHANGED <<main, defers, handler, cancelled, run, jsub, badger, job, told, chans, events,
                   advisory, put, resigned, key, pre, lives, faults>>

\* An event for a closed channel, or one that waits while its channel is closed, is a panic.
EventPanics ==
    /\ events /\ chans = "closed"
    /\ main' = "killed"
    /\ Gone
    /\ UNCHANGED <<key, pre, lives, faults>>

\* The backup goroutine.  Its select takes a tick or Done, either one if both are there:
\* a job that is told to stop may back up once more, on a closed database too.
BackupRuns ==
    /\ \/ job = "waiting" /\ job' = "running"
       \/ job = "running" /\ job' = "waiting"
       \/ job = "waiting" /\ told /\ job' = "stopped"
    /\ UNCHANGED <<main, defers, handler, cancelled, run, jsub, badger, told, queued, chans, events,
                   advisory, put, resigned, key, pre, lives, faults>>

\* The process is killed: by a crash, or by a signal that nothing handles yet.
Crash ==
    /\ Alive
    /\ Fault
    /\ main' = "killed"
    /\ Gone
    /\ UNCHANGED <<key, pre, lives>>

\* checkPeersHealth of a peer finds nobody listening and deletes the ready key.
PeerDeletesKey ==
    /\ key /\ ~(Alive /\ put)
    /\ key' = FALSE
    /\ UNCHANGED <<main, procVars, pre, lives, faults>>

Restart ==
    /\ ~Alive /\ lives < MaxLives
    /\ lives' = lives + 1
    /\ main' = "config"
    /\ badger' = "none"
    /\ put' = FALSE
    /\ resigned' = "no"
    /\ UNCHANGED <<defers, handler, cancelled, run, jsub, job, told, queued, chans, events,
                   advisory, key, pre, faults>>

-----------------------------------------------------------------------------
StartStep ==
    \/ LoadConfig
    \/ NewBadgerKV
    \/ \E enabled \in BOOLEAN : StartBackup(enabled)
    \/ NewFileStore
    \/ Connect
    \/ NewMessageQueues
    \/ generatePreParams
    \/ NewNode
    \/ RunEventConsumer
    \/ RunTimeOutConsumer
    \/ Ready
    \/ StartConsumers

ConsumerStep(c) == WaitEnds(c) \/ Subscribe(c) \/ SubscribeFails(c) \/ RunReturns(c)
MainStep == LeaveLoop \/ RunDeferred \/ Exit
HandlerStep == InstallHandler \/ Signal \/ HandlerResigns \/ HandlerCloses \/ HandlerDrains
               \/ Drained

Next ==
    \/ StartStep
    \/ ConfigFails
    \/ Fatal
    \/ \E c \in Consumers : ConsumerStep(c)
    \/ MainStep
    \/ HandlerStep
    \/ QueueEvent
    \/ WorkerTakes
    \/ EventPanics
    \/ BackupRuns
    \/ Crash
    \/ PeerDeletesKey
    \/ Restart

Spec == Init /\ [][Next]_vars

\* The goroutines that end a process are not stopped.  Peers need not become ready: a
\* consumer that waits for them goes on only when it is cancelled.
Fairness ==
    /\ WF_vars(MainStep)
    /\ \A c \in Consumers :
          /\ WF_vars(cancelled /\ WaitEnds(c))
          /\ WF_vars(Subscribe(c) \/ SubscribeFails(c) \/ RunReturns(c))

FairSpec == Spec /\ Fairness

-----------------------------------------------------------------------------
(***************************************************************************)
(* Properties.                                                             *)
(***************************************************************************)
\* A process that ends with runNode has taken its ready key out of Consul, whether a
\* signal or a failed consumer ended it and however far the signal handler came.
ExitResigns ==
    (main = "exited" /\ put /\ resigned # "failed") => ~key

\* While a node is listed and not told to stop, it is subscribed to the MPC events that
\* its peers publish because it is listed.
ListedIsSubscribed ==
    (key /\ put /\ Alive /\ ~cancelled) => events /\ chans = "open"

\* The database is closed only after what feeds it was told to stop: no further MPC event
\* can be queued for a session on it, and the backup job has its cancellation.  What was
\* queued before, and a tick that is pending, may still reach the closed database.
SourcesStoppedFirst ==
    (Alive /\ badger = "closed") =>
        /\ chans # "open"
        /\ job # "none" => told

\* A node that is told to stop, or whose consumer failed, ends: nothing that it waits
\* for can keep it.
ShutdownEnds == cancelled ~> ~Alive
=============================================================================
