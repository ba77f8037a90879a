# TLA+ models of mpcium

This directory holds TLA+ specifications of the node software (`cmd/node`,
`pkg/`), TLC configurations that check them on small instances, and TLAPS proofs
of their safety properties for every number of nodes, requests and deliveries.
`PROJECT.json` maps every definition to the lines it models.

## 1. The system

An initiator publishes requests (create a wallet, sign a transaction, reshare a
wallet) to JetStream work streams. A set of nodes, each with a share of every
wallet's key, carries them out with the rounds of tss-lib over NATS and puts one
answer per request in a result queue, another JetStream stream. Consul holds
which nodes are ready and which nodes take part in which wallet.

| Component | State it keeps | Operations | Talks to |
|---|---|---|---|
| Initiator client (`pkg/client`) | none | publish a request, subscribe to results | work streams, result queues |
| Request bridge (`pkg/eventconsumer/{keygen,signing,resharing}.go`) | one handler per delivery, its reply inbox | reject, publish the MPC event, wait for a reply, ack or nak | JetStream, registry, event consumer |
| Event consumer (`pkg/eventconsumer/event.go`) | queues, semaphores, session manager | one handler per kind of request | node, sessions, result queue, bridge inbox |
| Timeout consumer (`pkg/eventconsumer/timeout.go`) | none | turn a MAX_DELIVERIES advisory into an error result | JetStream, result queue |
| Session manager (`pkg/session`) | `activeSessions` | add, look up, clean up every 5 minutes | event consumer |
| Node (`pkg/mpc/node.go`) | none besides its parts | create keygen, signing and resharing sessions | registry, key info, kv store |
| Sessions (`pkg/mpc/ecdsa`, `pkg/mpc/eddsa`, `pkg/mpc/core`) | party, committee, error channel, subscriptions | init, listen, run the protocol, store a share, report | tss-lib, NATS, kv store, key info |
| Peer registry (`pkg/mpc/registry.go`) | `readyMap`, `readyCount`, `ready` | Ready, Resign, watch, check health, answer readiness | Consul, ECDH exchange |
| ECDH exchange (`pkg/mpc/key_exchange_session.go`) | key pair, symmetric keys (in the identity store) | broadcast, receive, remove | NATS, registry |
| Messaging (`pkg/messaging`) | subscriptions, consumers | publish, subscribe, enqueue, dequeue | NATS, JetStream |
| Party session (`pkg/mpc/core/session.go`) | out channel, error channel, topic subscriptions | listen, send and receive party messages, close | tss-lib, messaging, identity store |
| Key info store (`pkg/keyinfo`) | none (Consul) | get, save | sessions, node |
| Key-value store and backup (`pkg/kvstore`) | shares on disk, backup files, `latest.version` | get, put, delete, back up, restore | sessions, backup job |
| Identity store (`pkg/identity`) | peers' public keys, initiator key, symmetric keys | sign, verify, encrypt, decrypt | all |
| Node process (`cmd/node`) | open resources and their deferred closes, signal handler | start, serve, shut down | all |

### What is hard

- **Redelivery.** A request is at-least-once; the bridge waits 30 s while
  sessions may run for longer; a late session of an old delivery meets the
  sessions of the new one.
- **Disagreement.** Every node computes a committee from its own registry at its
  own moment. No step makes the nodes agree.
- **One answer.** All nodes answer under one idempotent key and the queue keeps
  the first answer; acks depend on core NATS replies that may be lost.
- **Silence.** The MPC event is a core NATS publish, so any subset of the nodes
  hears it.
- **Counts instead of sets.** Readiness compares the number of keys, peers and
  listed nodes.
- **Start-up.** The watcher runs before the key pair exists; the ready key is
  written before anyone answers health checks.
- **Crashes** between any two steps, with the ready key left in Consul.
- **Two sessions of one node.** In a resharing a node may be an old and a new
  party at once; both sessions use the same topics, and handlers of closed
  sessions stay registered.
- **Unbuffered channels.** A party speaks while it holds its mutex, its loop waits
  for the receivers, an error channel has one reader that takes one error.
- **Shutdown is a race** of the signal handler, the consumers, `main` with its
  deferred closes and whatever still arrives.

`PROJECT.json` lists these as hazards, each at its line, with the properties
that would catch it going wrong.

### What makes each component correct

- Signing flow: an acked request has an answer; an answer of success had a
  quorum that agreed; a request that does not verify is never handled; every
  request settles; an event that is queued is taken up, whatever sessions hang.
- Registry: the counter agrees with the map; readiness for key generation means
  that every peer is up; keys converge once the churn ends, as far as counting them allows.
- Key generation flow: it does to a request what any request allows; a key info
  is backed by a share and by participants that agreed on the committee.
- Resharing: the key info moves only with a quorum of those that hold the
  version before and with all new participants; a reply stands for an answer.
- Keys of a wallet, however made: shares come from a protocol that a whole
  committee ran, a key info from a committee with a share.
- Party session transport: a message is taken by the party it is for or its loss is
  reported, unless it came too early or the party refused it; the send loops do not
  wait for each other.
- Backup: the watermark never runs ahead of the files, what the files restore is
  one state the database had, and they catch up.
- Node process: who leaves in order has resigned; who is listed is subscribed;
  the database is closed after its sources were told to stop; a shutdown ends.

## 2. Modules

| Module | What it is |
|---|---|
| `RequestStream` | what all kinds of request share: JetStream work stream, bridge, result queue, timeout consumer; the nodes that carry the request out are abstract |
| `MCRequestStream` | its TLC instance |
| `RequestStream_proofs` | its inductive invariant, and that acks and replies follow results |
| `SigningFlow` | extends `RequestStream` with what the nodes do for a signing request: handlers, sessions, session manager, crashes; implements `RequestSpec` |
| `MCSigningFlow` | its TLC instances |
| `SigningFlow_proofs` | that it implements `RequestSpec`, and what is true of signing only |
| `KeygenFlow` | extends `RequestStream` with what the nodes do for a key generation: handlers, two sessions each, timeouts, shares and key infos, crashes; implements `RequestSpec` |
| `MCKeygenFlow` | its TLC instances |
| `KeygenFlow_proofs` | that it implements `RequestSpec` and `WalletKeys`, and that key infos are backed |
| `Registry` | ready keys, watcher, health checks, ECDH exchange |
| `MCRegistry` | its TLC instances |
| `Registry_proofs` | three theorems about it |
| `WalletKeys` | abstract: what may happen to the shares and key infos of wallets; `KeygenFlow` and `ResharingFlow` implement it |
| `ResharingFlow`, `MCResharingFlow` | the resharing of one key: bridge, handlers, old and new sessions, versions of shares and key info |
| `ResharingFlow_proofs` | that the key moves by quorum and replies are explained, and that it implements `WalletKeys` |
| `PartySession`, `MCPartySession` | the messages of the parties of one session between its nodes |
| `PartySession_proofs` | that no message is lost in silence, unless it came too early or was refused |
| `Backup`, `MCBackup` | a node's database, its incremental backups and recovery from them |
| `Backup_proofs` | that the watermark skips nothing and the files restore a snapshot |
| `NodeLife`, `MCNodeLife` | a node's process from its configuration to its exit |
| `NodeLife_proofs` | that a process resigns before it exits, is subscribed while it is listed, and closes its database after it told its sources to stop |

Operators named `Fault: ...` in their comments are not part of a specification.
Each is the operation next to it with a plausible mistake in it, and shows that
a property notices that mistake.

### RequestStream

A *delivery* `<<q, k>>` is the `k`-th time JetStream hands request `q` to a
node. The bridge gives every delivery it forwards a new inbox and a new
`SessionID`, so a delivery stands for both.

| Variable | Code |
|---|---|
| `stream`, `delivered` | the request in its JetStream consumer: pending, in flight, acked, beyond MaxDeliver, expired by MaxAge |
| `bridge` | `handleSigningEvent` (`handleKeygenEvent`, `handleResharingEvent`) of the stream consumer for each delivery, and the node it runs on |
| `results` | the result queue, with the idempotent keys JetStream deduplicates by |
| `lost` | requests with a result the queue refused, so that properties can tell this case apart |
| `budget` | what is left of the bounds on crashes and refusals |

The bridge's actions are `BridgeReject`, `BridgePublish`, `BridgePublishFails`,
`BridgeReply`, `BridgeTimeout` and, with its node, `BridgeCrash`;
`handleDeadlineExceeded` is the timeout consumer. `Answer` and `AnswerRefused`
stand for whatever a node that heard of a forwarded delivery may do to the
request: enqueue a result and reply, at any time, any number of times, or never.
A reply may fail (`sendReplyToRemoveMsg` only logs it), and the bridge then waits on.
`RequestSpec` is therefore the abstract specification that every flow has to
implement, and what is proved of it is true of every flow that does.

### SigningFlow

| Variable | Code |
|---|---|
| `sess` | `eventConsumer.handleSigningEvent` and its session per node and delivery: program counter, committee, parties heard |
| `active` | `Manager.activeSessions`, keyed by transaction |
| `watch` | the goroutine that reads the session's `ErrCh`: it waits, has an error it has yet to report, or has returned |
| `sent` | party messages ever sent, each with the committee of its sender |
| `forged` | which requests carry a signature that does not verify; any of them may |

Every action is one handler step between two points at which other goroutines
or nodes can interfere: `RejectSigning` and `PublishSigning` are the bridge's
actions with signing's own readiness test and the nodes that hear the event;
`RejectInvalid`, `DuplicateSession`, `PassDuplicateCheck`, `KeyInfoFails`,
`CreateNotEnough`, `SkipNotParticipant`, `CreateSigningSession`, `InitFails`,
`InitSession`, `StartSign` are the event handler's; `SessionError`,
`SecondError`, `Sign`, `SignFails`, `SignRefused` the session's; `ReportError` the
watcher's, which takes an error in one step (`TakeError`) and enqueues and replies in
a later one; `cleanupStaleSessions` and `Restart` the node's.

The refinement mapping from `SigningFlow` to `RequestStream` is the identity on
the shared variables: an error or a signature is an `Answer`, a refused one an
`AnswerRefused`, a crash a `BridgeCrash`, everything inside a node a stutter.

Abstractions:

- A read of the registry returns any set of peers that has the node itself, and
  any verdict on the keys. This includes every state of `Registry` and the
  unsynchronised reads of `readyMap`.
- The rounds of tss-lib are one round: a party sends once, after its warm-up;
  sessions of the same transaction that listen then and have the same committee
  take the message; a signature needs the messages of the whole committee.
  Dropping messages (a party that missed one never finishes) and differing
  committees keep their effect; the mathematics is not modelled.
- The three kinds of idempotent key of a request are `<<q, 0>>` (the bridge),
  `<<q, k>>` (a session of delivery `k`) and `<<q, MaxDeliver + 1>>` (the
  timeout consumer). The queue's deduplication window of 2 minutes is taken to
  be longer than the distance between two results of one key.
- Time is left out: AckWait, the bridge's 30 s and MaxAge may end at any moment
  at which they are running, and `cleanupStaleSessions`, which removes by age alone,
  may remove any session.
- ECDSA and EdDSA sessions have the same control flow here and are one.

### KeygenFlow

| Variable | Code |
|---|---|
| `gen` | `eventConsumer.handleKeyGenEvent` per node and delivery: its state, whether `KeyGenTimeOut` is over, and for each curve the session, its committee, the parties heard and how its watcher goroutine left its select |
| `share` | shares in the node's key-value store |
| `info` | key infos in Consul, with their participants |
| `sent` | party messages ever sent, each with the committee of its sender |

`RejectKeygen` and `PublishKeygen` are the bridge's actions; `CreateFails`,
`CreateKeyGenSession`, `WarmUp`, `TimeOut`, `KeygenFails`, `KeygenSucceeds`,
`KeygenRefused`, `KeygenTimesOut` the handler's; `WatchDone` and `SessionError`
the watchers'; `GenerateKey`, `PutShare`, `SaveKeyInfo` the sessions';
`UnheardError` is an error sent after the watcher has left, which blocks its
sender for good; `Restart` keeps shares and key infos. A session does not know
of its handler's end and runs on after it.

- The two `CreateKeyGenSession` calls, `Init` and the listeners are one action:
  each call has its own view of the peers and its own read of the key info,
  which may fail unnoticed, so no order of these reads is lost. A call that
  fails, like a signature that does not verify, is `CreateFails`.
- A key with fewer parties than the threshold cannot be generated (tss-lib
  refuses), more parties can; otherwise the abstract round is that of signing.
- Encoding a public key that tss-lib produced does not fail.

### Registry

| Variable | Code |
|---|---|
| `phase` | how far `NewNode` and `Ready` have come |
| `gen` | number of the start, which names its ephemeral key pair |
| `kv` | ready keys in Consul |
| `readyMap`, `readyCount`, `ready` | the fields of `registry` |
| `snapshot`, `listed` | the list of ready keys a watcher round works on |
| `keys` | symmetric keys: which key pair of the peer each was derived from |
| `trigger` | pending `triggerECDHExchange` goroutines |
| `ecdhMsgs` | broadcast public keys on their way, in order per sender |

Listing the ready keys and comparing them are two actions, so the list may be
out of date. The comparison, which only its own goroutine writes, is one action.
A failed list is an empty list, as in the code. A health check (ask, then
re-broadcast or delete) is one action.

### WalletKeys

The abstract specification of the keys. A protocol run gets its last
participant (`Run`); a member of a committee that ran stores its share (`Store`);
a key info is published for a committee that ran and has a share on some disk
(`Save`). `KeygenFlow` and `ResharingFlow` instantiate it as `WK`: `made` is the
set of committees all of whose members have sent, `share` and `info` are theirs
(of a resharing: of its one key, with versions). Requests, errors, timeouts and
results of both flows are stutters, and nothing in it speaks of them; a node that
dies at any point leaves a state from which only these steps go on.

### ResharingFlow

| Variable | Code |
|---|---|
| `bridge`, `acked` | `resharingConsumer.handleResharingEvent` per delivery; the request in its stream |
| `results`, `lost` | the result queue with its idempotent keys; a refused result |
| `hand` | `eventConsumer.handleResharingEvent` per node and delivery, with the old and the new session and their watchers |
| `share`, `info` | versions of the share on each node; key info in Consul |
| `sent` | party messages, each with the protocol (old parties and version) of its sender |

Each session is made in two steps, since the node reads the key info twice for it: the
old committee and the version to move from are of the first read (`OpenSession`), the
party ids of the second (`keygenPartyIDs` with a version of `getVersion`, which answers
the default version on an error), and the key may move in between. `CreateOldSession`
has the first read of the old session, `CreateNewSession` the second and the first of
the new one, `InitSessions` the last read, the share (`LoadOldShareDataGeneric`) and the
listeners. Every read of the registry has its own view. `ReshareFinished` is what follows
`wg.Wait`, errors or not. The stream is reduced to what a resharing can tell: a
request may be delivered again until it is acked. Resharing does not extend
`RequestStream` since it does not implement `RequestSpec`: a node that is not in
the new committee replies without a result (`ReplyExplained` says exactly when).

### PartySession

| Variable | Code |
|---|---|
| `flow` | which protocol is run: key generation (signing is alike) or resharing |
| `phase`, `subs`, `bsub` | event handler and session; direct and broadcast subscriptions |
| `loop`, `out` | the goroutine over `OutCh`; the steps of the protocol that the tss party is saying, which the loop takes in their order |
| `inbox`, `got` | goroutines of `receiveP2PTssMessage` and `receiveBroadcastTssMessage`; messages the tss party took |
| `err`, `keys` | an error was raised on `ErrCh`; symmetric keys by generation |
| `handled`, `missed` | what a loop is done with, and what it sent while the receiver did not listen or what the receiver refused, for the properties |

A message carries the key it was sealed with; `DecryptMessage` needs the same
one. `SendToOther` ends when *some* session of the receiving node answers.
`SendToSelf` calls the handlers in memory, those of closed sessions too. A broadcast
comes back to its sender, whose session takes it like any other. `Update` is an
`UpdateFromBytes` that succeeds, `UpdateFails` one that the party refuses, which the
code only logs. The tss
party is external: it speaks in a round when it has the messages of the rounds
before, by the message flow of the EdDSA protocols (`Script`). It is taken to
consider messages that came before its start, and the warm-up to be long enough
for the node's own subscriptions, not for those of others.

### Backup

`log` has every write with its version. `Execute`, `CreateFile`, `WriteFile`,
`OpenVersionFile`, `SaveVersionInfo` are the steps of one backup between which
the process can die or a call can fail (`ExecuteFails`: an unfinished file stays
in the directory, a truncated `latest.version` stays torn), and between which
writes go on. `RestoreAllBackupsEncrypted` replaces the database by what the files
have; version numbers are then handed out anew. Badger's dump is taken to be what
its documentation says: the writes above `since`, and the highest of their versions.

### NodeLife

`main` is where `runNode` is: the stages of `Starting` (one action each), serving,
its deferred closes, its end. `handler` is the signal goroutine, `run` and `jsub`
the three consumers and their subscriptions, `job` the backup goroutine, `chans`,
`events`, `advisory` what the event and timeout consumers have open, `queued` the MPC
events buffered in the channels, `told` that the backup job's context is cancelled, `key`, `put`
and `resigned` the ready key, `pre` the stored pre-params, which survive a restart.
A failing stage returns an error (`ConfigFails`) or ends the process at once
(`Fatal`, without the deferred closes), as the code does. Workers take what is queued
after the channels are closed too (`WorkerTakes`), and the backup goroutine's select may
take a tick although it was told to stop (`BackupRuns`).

## 3. Runs

| Run | Instance | Checks |
|---|---|---|
| `request_answers` | 2 nodes, 3 deliveries, a crash, a refusal; fair | `AckAnswered`: no ack without an answer; `ReplyHasResult`: a reply is about a result of its own delivery; `RequestSettles` |
| `signing_implements` | 3 participants, threshold 1, a crash, a refusal | `SuccessHasQuorum`: a signature needs threshold + 1 participants that agree on the committee, though committees differ; `RequestSpec`: signing does to a request what `RequestStream` allows |
| `signing_redelivery` | 2 participants, an outsider, 2 deliveries, genuine or forged, one node that hears; fair | `TypeOK`; `ForgedNeverHandled`; `WedgedIsReported`: a handler blocks only on an error after one that is or will be reported; `QueuedIsServed`: a queued event is taken up although sessions hang |
| `keygen_stores` | 2 nodes, one curve, a crash, a refusal | `TypeOK`; `InfoBacked`: a key info has a share behind it and participants that agreed; `RequestSpec`; `WalletKeysSpec` |
| `registry_converges` | 2 nodes that serve, a third that comes and goes, a restart or a failed list; fair | `TypeOK`, `CountMatchesMap`, `ReadyMeansAllUp`; `KeysConverge`: listed nodes that serve see each other and share keys, except who holds the key of a peer that is not ready |
| `resharing_moves` | a key of 3 nodes, threshold 1, moved to 2 of them, 2 deliveries, a fault | `TypeOK`; `MovedByQuorum`; `ReplyExplained`; `WalletKeysSpec` |
| `session_delivers` | 2 nodes that generate a key, or move it from both to one; a fault; fair | `TypeOK`; `LossReported`; `RunEnds` |
| `backup_restores` | 2 keys, 3 writes, 2 faults; fair | `TypeOK`; `NothingSkipped`; `RestoreIsSnapshot`; `BackupCatchesUp` |
| `node_lifecycle` | 3 consumers, 2 lives, 2 faults; fair | `TypeOK`; `ExitResigns`; `ListedIsSubscribed`; `SourcesStoppedFirst`; `ShutdownEnds` |

Runs in which the code contradicts a comment or a document of the repository;
TLC shows a shortest behaviour:

| Run | What the text says | What the code does |
|---|---|---|
| `signing_duplicate` | "Check for duplicate session" | check and registration are two steps; two deliveries pass |
| `keygen_empty` | a result without an error has both public keys (`e2e/keygen_test.go`) | when the timeout ends both watchers before the handler reaches its select, the select may take the finished watchers instead of the timeout and report a success without keys |
| `registry_keys` | keys "fully established among all ready peers" | keys are counted, and a key of a node that is not ready counts |

### Observations without a run

Made while modelling; the models have these behaviours unless it says otherwise.

Signing and key generation:
- Too few ready participants is "RETRY LATER" in the handler (`event.go:432`), but
  the error is not `ErrNotEnoughParticipants` (`node.go:172`), so the request is
  answered with an error and acked.
- The error watcher of a signing session takes one error; the sender of a second
  one blocks, a handler among them with its slot, although `event.go:335` means to
  release it.
- A key generation ignores an error of reading the key info (`node.go:92`) and then
  files a new share over an existing one.
- A node outside the wallet's participants that sees too few of them answers with
  an error (`node.go:171` counts before it checks membership).
- An error reply acks the request although the comment at `signing.go:132` promises
  a nak; the signing consumer's own `threshold` is never set.

Registry:
- The symmetric key left over from a node that broadcast it but was never listed
  keeps `AreMajorityReady` false after that node is gone (`identity.go:375`
  compares counts).
- A key of a node that died before it was listed stands in for one that was removed
  when a list failed: the count is right, so nobody is asked to broadcast again, and
  the missing key does not come back. `KeysConverge` excepts this.
- An exchange that the watcher triggers before `Ready` uses a key pair that does not
  exist yet (`node.go:74`, `key_exchange_session.go:139`).

Resharing:
- A success is enqueued after an error was, under another idempotent key, with an
  empty public key (`event.go:737`); `e2e/resharing_test.go:267` expects one.
- The version is read apart from the participants, and is the default version if
  that read fails (`node.go:471`).
- Two deliveries may be served at once, as the bridge waits 60 s and AckWait is 30 s;
  both write the next version, and a late `Save` takes the version back (TLC reaches it in
  `resharing_moves`).
- A listening error before the watchers run blocks the handler (`session.go:311`);
  `wg.Wait` has no timeout.
- The comment of `LoadOldShareDataGeneric` describes a fallback the code lacks.
- A node that is new to the key is not among the topics of old sessions, so its
  direct messages reach an old session only through that node's new one.

Party session:
- A message to both parties of a node goes to one topic twice, and the first
  session that answers hides that the other does not listen (`missed`).
- A failed broadcast subscription leaves a nil `BroadcastSub`, on which `Close` panics.
- Errors of `UpdateFromBytes` are only logged: the party stays short of a message and the
  run hangs in silence. `LossReported` and `RunEnds` except this.
- A party takes its own broadcast, which NATS echoes; the sender is not checked.

Backup:
- A file left by a crash or a failed write makes every later restore fail; a torn
  `latest.version` makes every later backup fail (`BackupCatchesUp` excepts it).
- Not modelled: a database that is emptied while `latest.version` stays; several
  nodes that share a backup directory; loss of data that was not synced.

Node process:
- `main` may end before the signal goroutine resigns; `Node.Close` resigns again,
  which is why `ExitResigns` holds.
- An MPC event after `Close` has closed the channels panics, and the remaining closes
  are skipped; so does a signal before `signal.Notify`, with the ready key left.
- A consumer whose wait is cancelled returns without an error to `Run`, which then
  tries to subscribe with the cancelled context, so an orderly shutdown may end
  with an error (`signing.go:74`).
- A running backup is not awaited before the database is closed; events that are still
  queued, and a backup tick that is pending, reach the closed database too.

### Bounds, and why they are enough

- Two deliveries are the smallest number at which an old delivery meets a new
  one; every hazard of redelivery is about a pair. Three are used where the run
  is cheap (`request_answers`), so that a middle delivery exists.
- Three nodes with threshold 1 are the smallest instance in which two quorums
  with different committees exist: `signing_implements` and `resharing_moves` have
  them. Two nodes suffice where a property relates a node to one other.
- One request: requests share the semaphore slots and nothing else, and
  two deliveries of one request compete for the slots already.
- One crash, one refusal: a second adds no new order of the remaining steps.
- Where an instance is too large to exhaust, a state constraint of the MC module
  bounds it, and combines the hard cases in pairs instead of all at once:
  - `MCAllHearCalmly`: all three participants hear of a genuine request whose bridge
    waits, without crash, refusal or reported error; with those, two of them hear.
  - `MCOneNodeHears`: the redelivery run is about one node with two deliveries; what
    other nodes send could only end its sessions.
  - `MCFailuresOfTwo`: errors, faults and replies of a resharing come with two nodes that
    agree on the old committee, differing committees of three nodes without them.
  - `MCRedeliveryToTwo`: a resharing is redelivered while the bridge of the first delivery
    waits, and meets it at two nodes that agree, with a crash, or an outsider after the
    key has moved. TLC reaches a second move of the key, sessions of one handler that
    were made from different versions, and a version that goes back.
  - `MCPairServes`, `MCOneFault`, `MCTwoOnTheirWay`: the registry starts from `MCSettled`,
    a state that the start of two nodes leads to, and the two go on serving; a restart or
    a failed list; at most two lists, triggers and senders of broadcasts at once.
  The theorems about these modules have no such bound.
- Key generation of two nodes with both curves is too large to exhaust.
  `keygen_stores` has one curve: the two sessions of a handler share nothing but
  the wait for both, which `keygen_empty` has, and the theorems hold for any
  number of curves and deliveries.
- Two nodes of a session, one of which has both an old and a new party, have every
  relation of a sender to a receiver: another node, the other session of its own
  node, and another node with two sessions. Session and process faults are
  bounded by one and two: an error blocks only with a second one, which needs two
  failures or one that repeats.
- Three writes of two keys are the least with which a key is written, backed up,
  written again or deleted and backed up again; two faults allow a torn backup and
  a recovery. Two lives of a process let one leave its ready key to the next. One queued
  event (`MaxQueued`) is enough for one to be left when the channels are closed.

Symmetry is used in runs without liveness properties only; the permuted nodes are all
participants, all nodes, or those that keep the key in a resharing.

### Fairness

- `RequestStream!RequestFairSpec`: JetStream keeps delivering to some node, AckWait runs
  out, a redelivery beyond MaxDeliver becomes an advisory, some node handles it.
  These are promises of the server and of `CreateSubscription`. Nothing is
  assumed of handlers, sessions, peers or replies, so `RequestSettles` does not
  rest on the protocol.
- `SigningFlow!FairSpec`: each handler runs until it blocks; nothing it calls waits for
  peers or for the protocol. Sessions, watchers, the stream and replies are not fair.
- `Registry!Fairness`: `Ready` proceeds, the watcher and the health-check loops
  are endless, goroutines run, NATS delivers each sender's messages to subscribers, a
  stopped node is started again while restarts are left.
- `PartySession!FairSpec`: the handler, the loop and the receiving goroutines of each
  session are scheduled. Faults are not fair.
- `Backup!FairSpec`: the ticker keeps firing and `Execute` runs on.
- `NodeLife!FairSpec`: `main` and the consumers are scheduled, and a consumer's
  `select` sees a cancelled context. Nothing is assumed of signals, of the signal
  goroutine or of peers.

Where a run has a constraint and a liveness property, TLC checks the behaviours that
stay within the constraint.

Deadlock is not checked: a request that has settled needs no further step, and
nodes may stay down once the restarts are used up; the same holds of a session
that has ended, of writes and faults that are used up and of a process that has
ended.

## 4. Proofs

TLAPS checks every step. The constants are arbitrary up to the assumptions
`RequestAssumption`, `FlowAssumption`, `KeygenAssumption`, `RegistryAssumption` and
`ResharingAssumption` (finite set of nodes, committees are nodes, a threshold and a
delivery limit of at least 1), `BackupAssumption` (the bounds are natural numbers),
`SessionAssumption` (old and new committees of a finite set of nodes) and
`LifeAssumption` (a finite set of consumers that is not empty: `runNode` starts three,
and would end at once, without cancelling anything, if it started none). Each
inductive invariant was an invariant of a TLC run before it was proved.

`RequestStream_proofs`

- One lemma per group of actions shows that a step keeps the types and is a
  `RequestMove`: results and refusals stay, a new reply goes with a result or a
  refusal, a new ack with an answer or a reply, a request does not come back
  into the stream, deliveries are made once and in order.
- `RequestInv` is the types, `AckAnswered`, `ReplyHasResult` and `Fresh`
  (a delivery beyond the count was not made, and none before the submission),
  which is needed because a delivery overwrites the bridge it is given.
- `WaitsOnce`: a bridge handler that was forwarded and does not wait never waits again.
- Theorems: `RequestInvariance`, `RequestAnswers`, `RepliesHaveResults`.

`SigningFlow_proofs`

- `StepImplements`: every step is a step of `RequestNext` or leaves the request
  alone. It needs `Handled`, that nothing runs for a delivery that was not
  forwarded. All that is said about the stream and the bridge then comes from
  `RequestStream_proofs`.
- Two more lemmas describe *every* step: `NextSummary` (whom new results and
  replies come from) and `NextMoves` (how a handler and the session manager may
  move: a handler keeps its session, leaves it, passes a check, creates a
  session, listens or starts). The invariants are derived from these
  descriptions without looking at the actions again.
- The inductive invariant `IInv` is `RequestInv`, the nodes' types, `Handled`,
  `SuccessHasQuorum`, `ForgedNeverHandled` and three
  strengthenings: `Committees` (a session's committee is a set of threshold + 1
  or more participants with the node in it, what it received was sent under this
  committee, and a session that signs has sent), `ForgedUnverified` (a
  handler of an invalid request has no session) and `WatchersReport`.
- `WedgedIsReported` is not inductive: a handler wedges with its session's second
  error, before or long after the first is reported. `WatchersReport` says of every
  handler past its listeners that its watcher still waits, has an error to report, or
  that there is a result of the delivery or a refused one; `WatcherMove` describes how a
  watcher may move.
- Theorems: `TypeCorrect`, `Implements` (`Spec => RequestSpec`),
  `SigningAnswers`, `SuccessNeedsQuorum`, `ForgeriesUnhandled`,
  `WedgedHandlersReported`.

`KeygenFlow_proofs`

- One lemma per action shows that a step is one of the `Moves`: a session stays,
  is created, is dropped by a crash, or goes one step on with its committee;
  shares and messages stay; a key info is saved only by a session that has
  stored its share. `StepImplements` maps the steps to `RequestNext`.
- `IInv` is `RequestInv`, the nodes' types, `Handled`, `IdleHasNone` (no session
  without a handler, needed to know that a session's error is about a forwarded
  delivery), `InfoBacked` and `Committees`: what a session received was sent
  under its committee, and a session that has stored its share has heard
  everybody. Without it a key info could name parties that never took part.
- The refinement of `WalletKeys`: `OnlySent` says that every step but `PutShare` and
  `SaveKeyInfo` sends messages at most, a `Run`; `SessionMade`, from `Committees`, that
  the committee of a session that stores or saves has made the key.
- Theorems: `TypeCorrect`, `Implements`, `KeygenAnswers`, `KeyInfosBacked`, `KeysMade`.

`ResharingFlow_proofs`

- The theorems have any number of deliveries, served at once by nodes with stale key
  infos and different views of their peers.
- `IInv` is the types, `ReplyExplained`, `KeyInv` (`MovedByQuorum`, and the committee
  in the key info is that of its version) and `GoodHandler` of every handler. What
  makes `MovedByQuorum` inductive is `Good`: a session carries a quorum of the version
  it was *created* from, not of the current one; what it received was sent by parties
  of its own protocol; once it has stored, all of them have run and its share is on
  disk. `GoodHandler` also says that a handler without a new session is on a node
  outside the new committee, which `ReplyExplained` needs.
- The second read of the key info changes the version that a session's party ids are
  derived from, not its quorum (`PartyIDsGood`); `MovedByQuorum` therefore holds whatever
  that read returns.
- One lemma per action shows that the nodes' part is kept, and that an ended handler
  stays ended (`PcKept`), so that what explains a reply stays true.
- Theorems: `TypeCorrect`, `QuorumMoves`, `RepliesExplained`, `KeysMove`.

`Backup_proofs`

- `IInv` has `Covered`: up to the highest version in the files, every write has itself
  or a newer one of its key in them (`FilesCover`). A running backup promises this of
  its entries together with the files (`JobCovers`), and the watermark is 0 or a
  version that the files have (`WatermarkSaved`). That the newest write of a key exists
  (`NewestExists`) is well-founded induction over the bounded versions.
- Theorems: `TypeCorrect`, `NothingIsSkipped`, `RestoresSnapshot`.

`Registry_proofs`

- `CountMatchesMap` needs the arithmetic of finite sets (`CountStep`): removing
  the disconnected and adding the connected peers changes the count by their
  numbers. `SnapshotOfPeers` is needed for it (a list holds peers only).
  `ReadyMeansAllUp` needs `FlagMeansAllUp`: a complete list is the list of all
  peers (`FullList`), and the flag is cleared in every round in which it is
  not. `Generations` bounds the key pair numbers for the type invariant.
- Theorems: `TypeCorrect`, `CountCorrect`, `ReadyCorrect`.

`PartySession_proofs`

- A message is on its way from a party's mouth to another's ear in `out`, `loop`,
  `inbox` and `got`, each emptied by a goroutine of its own. `SessionInv` is the types,
  `LossReported` and what ties these places together: what a party
  is saying is its own (`OutIsOwn`); a loop that sends has a message of its party and
  recipients of it that are left (`LoopSends`, so that the loop is done with
  recipients only, `HandledIsAddressed`); a closed session has taken every message
  there is for it (`ClosedHasEnded`). Without the last one a message that reaches a
  closed session, which drops it without an error, would be lost in silence.
- One lemma per action, a refused message (`UpdateFailsStep`) and an own broadcast
  included; frame lemmas (`QuietFrame`, `LoopFrame`, `HandledFrame`, `LossFrame`) say which clauses a step cannot disturb.
- Theorems: `SessionInvariant`, `SessionTypes`, `NoSilentLoss`.

`NodeLife_proofs`

- None of the three properties is inductive: each is about what `runNode` deferred many
  steps before. `LifeInv` says for each stage how many closes are deferred
  (`DeferredBy`), that the database's is the last of the stack (`BadgerIsLast`), that
  what is open has its close in the stack (`OpenIsDeferred`), that nothing runs beside
  `runNode` before the consumers start or after its end (`QuietOutside`), where a ready
  key of this process can be (`KeyOfProcess`), that who ends the process has cancelled
  the context (`EndsCancelled`), and that until then the node is subscribed
  (`SubscribedUntilCancelled`).
- `SourcesStoppedFirst` follows from `BadgerIsLast` and `OpenIsDeferred`: when the
  database's close runs, no other is left.
- One lemma per action of `main`, consumers, signal handler, backup job, queue and peers.
- Theorems: `LifeInvariant`, `LifeTypes`, `ExitHasResigned`, `ListedNodesHear`,
  `DatabaseClosedAfterSources`.

Only model-checked: the liveness properties `RequestSettles`, `QueuedIsServed`, `KeysConverge`,
`RunEnds`, `BackupCatchesUp` and `ShutdownEnds` (fairness and ENABLED are outside the
prover's reach), and the runs that contradict a text. Every invariant and every
refinement that a passing run checks is a theorem.

## 5. Not modelled

- tss-lib, cryptography, signature and HKDF code, serialisation: the models use
  only whether a signature verifies and which key pair a key came from.
- The contents of configuration, command line, logging, benchmarks, examples, error
  codes: no state, and no decision of the program depends on them.
- The initiator's side of the result queues (`Dequeue`, callbacks): it passes results on.
- The timeout consumer for resharings: it is the one of `RequestStream`.
- The Go runtime's abort on concurrent map access (`readyMap`).
- JetStream's deduplication window and the other durations, except in their order
  where a module says so.
- Signing and resharing of one wallet at the same time: `SigningFlow` has a fixed key.

## 6. Plan

1. Proofs of what no step may do: shares and answers that are never taken back, acks
   that are final.
2. `SigningFlow` over `WalletKeys`, so that a session that reads the key info twice
   meets a resharing.
