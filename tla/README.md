# NexusRelay in TLA+

NexusRelay (`src/`) is a WebSocket publish/subscribe relay for wallets on the
Liquid network. Clients send JSON-RPC requests: they subscribe to topics
(arbitrary ones, an address, a transaction, an asset pair) and publish on them
(arbitrary text, a Liquidex proposal). A ZMQ listener feeds transactions and
blocks of an Elements node to the same topics, and proposals are validated
against a transaction asked of the node over REST.

This directory holds TLA+ modules for its parts, TLC instances that check them,
and proofs checked by TLAPS. `PROJECT.json` maps every definition to source lines.

## Inventory

The process runs a current-thread tokio runtime (`main.rs:14`): tasks interleave
only at awaits, so an action of a model is what a task does between two awaits.

| Part | State | Operations | Modules | Status |
|---|---|---|---|---|
| JSON-RPC requests (`jsonrpc.rs`) | none | `parse_id/method/params`, `validate_for_method`, `try_from`, topics, error codes; constructors and text of a request | `Requests`, `RequestHandling` | modelled |
| Dispatch (`process_message`) | none | one arm per method and params | `Requests!Dispatch`, `Connections!Handle*` | modelled |
| Topic registry (`TopicRegistry`) | topic → list of senders, under a mutex | `subscribe`, `publish` | `TopicRegistry` | modelled |
| Connection (`handle_connection`) | read loop, unbounded channel, forward task, socket halves, one set per client | connect, read a frame, answer, close, join; take, send, end | `Connections`, `PubSub` | modelled |
| Proposal publication (`proposal.rs`) | none of its own; suspended handler while the node is asked | ask, validate, publish, fail | `Connections`, `NexusRelay` | modelled |
| Node REST client (`node.rs`) | none | `tx` (no timeout); `is_spent` is never called | `Connections!NodeAnswers`, `NodeFails`, `NexusRelay!NodeAnswers`, `IsSpent` | modelled |
| Bounded set (`zmq.rs`) | hash set, deque, capacity | `contains`, `insert` | `BoundedSet`, `SlidingWindow` | modelled |
| ZMQ listener (`zmq.rs`) | the bounded set, the socket | start, rawtx, rawblock, publish | `ZmqListener`, `NexusRelay` | modelled |
| Server (`async_main`) | accept loop, one task per connection, the listener task | accept, spawn, exit | `NexusRelay`, `RelayProperties` | modelled |
| Runtime (`main.rs`) | — | poll | fairness, and the size of an action | partly |
| Configuration, logging, errors | none | — | — | not modelled: nothing changes |

**Interaction.** Handlers and the ZMQ listener share the registry and nothing
else. The registry holds clones of each client's sender; publishing writes to the
channels of other clients directly, and the forward task of each moves messages to
its socket. A handler and its forward task share the channel, the two halves of one
WebSocket, and the final join.

**What makes it hard.** (1) The lifetime of a channel depends on every clone of
its sender: two in the handler's frame, any number in the registry; the forward
task ends only when all are gone, or when a send fails. (2) Handlers suspend in the
middle of a request while the node is asked, and may panic there. (3) Clients
leave, stall or break the protocol at any time; both tasks learn about it
separately. (4) Acceptance of a request is decided three times (validation, topic,
dispatch). (5) Errors carry id 0, so order is all a client has. (6) The cache of
seen transactions keeps the same items in two containers, and stands for "was
announced before" while the node repeats itself. (7) What the node reports reaches a
wallet through a task that may never have started, a registry other clients change
meanwhile, and a channel whose handler may wait, have panicked or be gone.

**What makes each part correct.** Requests: one table of served requests, no panic
but on the one path the code leaves open, namespaces that do not mix. Registry and
connections: every subscriber gets every publication in a common order, answers
follow requests, a subscription holds until its client leaves, whoever else leaves, fails or
panics, a publication is acknowledged and a failed one is not made, a queue drains. Bounded set: a sliding window, with bounded memory. Listener: a
transaction is announced from the mempool before it is from a block and never after, not
again too soon, and each block is announced. The relay: nobody's handshake delays
another client, a watcher that stays hears the block, the tasks of one that left end with it, and
a wallet never sees a confirmed transaction fall back. The registry is not cleaned up with the
tasks: the publication that makes a forward task fail has succeeded, and its sender is retained
(`lib.rs:118`). A closed sender goes with the next publication on its topic, which for a
confirmed transaction may never come.

`PROJECT.json` "hazards" lists the hazards at their lines, and the properties for
each.

## Modules

### Requests, RequestHandling

`Requests` is pure: `Decide(text)` maps a frame to what has to be done with it.
It composes `TryFrom` (`IdAccepted`, `Methods`, `ParseParams`, `ValidateForMethod`,
in the code's order, so that the first failing check answers) and `Dispatch`
(`process_message`). An `unwrap()` on a body serde cannot read is the outcome
`Panic`. Errors keep their identity until `Code` turns them into a JSON-RPC code.
A string is a sequence of atoms, which is what the one property about names needs:
`"in:out"` against a string that contains a colon.

The constructors of `NexusRequest` and its `Display` (`NewPing`, ..., `ToText`) are the
other direction, which wallets use: `BuiltRequestsServed` holds the two together.

`RequestHandling` is the loop of one handler over all frames in `Texts`: receive,
handle, next. Its properties state the result in terms of the frame.

### TopicRegistry, Connections, ConnectionProperties, PubSub

`TopicRegistry` has the two operations on the shared map as operators on its value.
A list of senders is a bag (`topics[t][c]` senders of client `c`); its order cannot
be seen, since `publish` sends to distinct channels in one step.

`Connections` has the handler and the forward task of every client.

| Variable | Code |
|---|---|
| `topics` | `TopicRegistry.topics` |
| `chan[c]` | messages in the unbounded channel |
| `reader[c]` | where `handle_connection` is: `reading` at `ws_rx.next()`, `awaiting` at `client.tx(txid)`, `joining` at `forward_task.await` |
| `pending[c]` | the proposal being checked while `awaiting` |
| `fwd[c]`, `hand[c]` | the forward task: `recv` at `client_rx.recv()`, `send` at `ws_tx.send(msg)` with `hand[c]` |
| `wire[c]` | what the client has received |
| `peer[c]`, `closed[c]` | the client, and whether the WebSocket is known to be closed |
| `asked`, `published` | history |

`HandleRefused/Ping/Subscribe/Relay/Proposal/Panic` are what the loop does with a
frame, up to its next await; `NodeAnswers`, `NodeFails` are the two ways
`client.tx(txid).await.unwrap()` goes on; `ReaderSeesClose`,
`ReaderSeesProtocolError`, `Join` end the handler; `ForwardTakes/Sends/Fails/Ends`
are the forward task. Senders are not a variable: `HandlerHoldsSender` and
`RegistryHoldsSender` say who holds one, from the program counter (a local lives
until its function returns or unwinds) and the registry. `NodeTopics` are the topics the
listener publishes on in the same registry: none in the instances of `Connections` alone,
`ListenerTopics` in `NexusRelay`.

`PubSub` is the abstract specification: clients, subscriptions, and one growing
stream per client; no tasks, channels or sockets. `Announce` is one report of the node,
published on several topics at once (the instance in `ConnectionProperties` has none). `ConnectionProperties` has the
properties and the refinement mapping: the stream of a client is what it received,
what the forward task holds, and what is queued.

### BoundedSet, SlidingWindow

`BoundedSet` is `contains` and `insert`, with the history `log` of accepted items.
`SlidingWindow` is the promise: an item is new exactly when it is not among the last
`width` accepted. Capacity 0 is a window of one: `insert` pushes also when the deque
had nothing to give.

### ZmqListener

The listener task and the node that feeds it. The node is the environment
(`mempool`, `chain`): it sends a rawtx when a transaction enters its mempool and again
when a block connects or disconnects it, and a rawblock after the rawtx of its
transactions, as zmqpubrawtx and zmqpubrawblock of Elements do; the repetition is what
the listener's cache is there for. `zmq` holds what was sent and not yet received;
`Lose` drops the head (a PUB socket drops, and the listener skips what it cannot
receive or decode). `HandleRawTx` and `HandleRawBlock` are the two branches of
`process_zmq_message`, each in one step as it has no await; the cache is an instance of
`BoundedSet` on the variables `set`, `queue`, `capacity`, `log`, `fresh`. `notices` lists
the publications in order; `NexusRelay` carries them out on the registry.

### NexusRelay, RelayProperties

`NexusRelay` is `async_main`: instances of `ConnectionProperties` (`C`) and `ZmqListener`
(`L`) over one set of variables, and three of its own.

| Variable | Code |
|---|---|
| `server` | the accept loop; when `accept()` fails it ends, `async_main` returns and the process with all tasks is gone (`AcceptFails`) |
| `listener` | the spawned listener: `starting` until its subscription takes effect, `off` when it failed, which is only logged |
| `accept[c]` | the connection of `c`: in the TCP backlog, in `accept_async` of its own task, open, or refused |

`Upgraded` is `Connections!Connect`; a failed upgrade ends the task before it has
touched anything. `Listen` is `ZmqListener!Listen` together with the effect of each new
notice on the registry and the channels, in order (`PublishNotice`, by a recursive function over
the notices), in one step since `process_zmq_message` has no await. The node is one environment for both sides: the
transactions it reports over ZMQ are those it answers `GET /rest/tx` with (`Known`), and
`Spends` says which spend which, so that `IsSpent` is what `Node::is_spent` would tell.
What the node sends before the subscription takes effect is not received. Every action
but those of the environment needs the process to be there, and the environment is
stopped with it since nothing observable follows.

`RelayProperties` has the properties of the whole and its refinement of `PubSub`, in
which a report of the node is one `Announce`. Its `TypeOK` joins those of the parts with what
couples them: a connection has a handler exactly when it was accepted and upgraded, and the publications of the
node are the notices of the listener, one for one. `NoticeOf(n)` is the notice a message
with number `n` carries.

### Proof modules

`BoundedSetProofs`, `RequestProofs`, `ConnectionProofs` and `ZmqListenerProofs` extend the
modules above, `ConnectionStreamProofs` extends `ConnectionProofs` and `ConnectionReplyProofs` extends that.
`SequenceInduction` has induction on the natural numbers and what `FlattenSeq` yields.
`RelayProofs` extends `RelayProperties` and instantiates the proofs of the parts,
`ConnectionStreamProofs` as `CP` and `ZmqListenerProofs` as `LP`. See Proofs.

## Runs

| Run | Instance | What it shows |
|---|---|---|
| `bounded_set` | capacities 0–3, five items, six accepted | types and memory bound, mirrored containers, re-acceptance only after a window, refinement of `SlidingWindow` |
| `requests` | every id class and boundary, method, root, readable and unreadable body, six strings | one table of served requests, one kind of panic, separate namespaces, who hears the proposals for a pair, constructors understood |
| `conn_all` | 2 clients, 1 frame each, nine frames | coupled states; a notice needs a subscription and a legitimate publication |
| `conn_order` | 2 clients, 2 frames each: subscribe, publish, panic | common order of notices; replies in request order, one each; subscriptions hold; refinement of `PubSub` |
| `conn_replies` | 1 client, 4 frames: subscription, valid and invalid proposal, garbage, unreadable body; fair | replies in request order across waits for the node, errors and panics; the subscription holds when the handler has panicked; publications are acknowledged, one each; queues drain; the handler of a closed connection ends at the next message |
| `zmq` | 3 transactions, 2 blocks, 1 reorganisation, 1 lost message, caches of 0–2, fair | mempool notice before block notice and not after it, repetition only after a window, every block announced |
| `relay` | 1 client that watches t1 and offers its output (2 frames), 1 block, 1 reorganisation, fair | coupled state of the three parts; refinement of `PubSub`; no confirmed transaction falls back; a watcher that stays hears the block; the tasks of one that left end at it; the next publication drops a closed sender |
| `server` | 2 clients, 1 subscription each (transaction or address), 1 mempool transaction, 1 lost message, fair | refinement of `PubSub` over every order of accepts, upgrades, failures and notices; everyone in the backlog is accepted |
| `doc_mempool` | as `zmq` | violation: a "mempool" notice of a transaction that never was in the mempool |
| `doc_forward_ends` | 1 client, fair | violation: handler and forward task wait for each other |
| `doc_requests` | as `requests` | violation: documented requests are refused |
| `doc_spent` | 1 client, 2 transactions of which one spends the other | violation: a proposal whose input is spent is published |

**Bounds.** `MaxFrames` bounds the frames a client sends, `MaxLog` the items
accepted, `IdMax` = 4 stands for `u32::MAX` (ids −1, 0, 1, 3, 4, 5 are tried, on both
sides of each comparison). Two clients are enough for what needs an author and a
subscriber, and either can be both; a client that reconnects is a third client of
which nothing is shared with the first but the registry, whose entries do not
depend on each other. Two frames per client make it possible to subscribe twice, to
publish after subscribing, to be answered after a failure, and to publish on topics
whose subscriber has left. With six accepted items and capacities up to 3, the
window is passed and an evicted item comes back. The frames of `conn_order` are
chosen so that two clients with two frames each stay within reach: one subscribes, publishes on what the
other subscribed to, or panics, each in any order, and its sender is pruned or kept by the other's publication; `conn_all` has
every kind of frame, with one each; `conn_replies` has long sequences of one client,
with its own notices between the replies. Clients are symmetric in the safety runs with
two of them. In `zmq` the caches are smaller than the number of transactions, so that an
entry is evicted while its transaction waits for a block; `MaxReorgs` and `MaxLost` bound
the environment. `MaxLog`, the bound of the cache's history, is not reached: each transaction is
sent once when it enters the mempool, at most twice per reorganisation and once in the chain
that stays, which the assumption `LogBoundSuffices` of the MC modules allows for.
The two runs of the whole divide what is too large together: `relay` has the
chain with its way back and a client whose handler can be in every state (two frames: watch
and offer, in either order, twice, or panic when the node fails) while the notices pass; `server`
has the second client, so that accepts, handshakes and subscriptions cross each other and
the notices, without a block.

**Deadlock** is not checked for `Connections`, `ZmqListener` and `NexusRelay`: clients send finitely many
frames and the node mines finitely many blocks, and after that the system may stop for good. The one stop that is wrong is
`doc_forward_ends`.

**Fairness.** Tokio polls a task that can make progress, hence weak fairness of the
forward task's steps (`Forward`), of the end of the handler (`Closing`), and of the
listener when a message is there (`Listen`). Nothing
is assumed of the clients, who need neither send, read nor leave, nor of the node:
`reqwest` is used without a timeout (`node.rs:27`), so a handler may stay `awaiting`
for ever. `QueueDrains` assumes of the client it speaks of that it keeps reading.
`NexusRelay` adds weak fairness of accepting somebody from the backlog (`accept()` yields
what is there, in an order nobody promises), and keeps that of `Listen`, `Closing` and `Forward`, all
as long as the process is there. Nothing makes the listener start, a
handshake end, or the accept loop fail or not fail: `EveryoneAccepted` and `WatcherHearsBlock`
have those as cases. The fairness conditions name only the part an action changes
(`WF_listenVars`, `WF_connVars`): its action is the part's own, and the rest of the relay's step
follows from it. `WatcherHearsBlock` assumes of the client only that it stays and reads, and excuses
a message the node's socket lost.

**Mutants.** Next to the definition it changes stands each seeded fault that
the properties are tested against (`\* seeded fault`); the specifications do not
use them.

## Findings

- `doc_forward_ends`: `lib.rs:315` says dropping `client_tx_clone` ends the forward
  task. `client_tx` is still alive, and so are the registry's clones; both tasks wait
  for each other until somebody publishes on a topic of the client, or for ever
  if it has none. `EndsAtNextMessage` is what does hold.
- `doc_mempool`: the comment at `zmq.rs:137` speaks of mempool transactions, but the node
  sends a rawtx for the transactions of a block too, and one that is not in the cache is
  announced as entering the mempool, right before its block notice.
- `doc_requests`: the subscriptions `ping`, `txid`, `wallet` and `proposal`, the publication `pset` and
  `unsubscribe` are in the README and refused. What `txid` and `proposal` describe is served under
  the roots `tx` and `pair`, the latter in the README's own example.
- `doc_spent`: `README.md:126` promises that the input of a published proposal "exists and
  it's unspent". The code asks the node for the transaction, not for its output
  (`proposal.rs:22` is a TODO, `Node::is_spent` is not called).

Seen and not stated as a run: an address or txid subscription takes any string
(`jsonrpc.rs:282`; `README.md:12` speaks of "some validation"), so that one spelled `in:out` hears the
proposals for that pair; `WhoHearsAProposal` states it, and that nothing else does. A client that
publishes on its own topic is sent the notice before the acknowledgement, which
`PubSub` states as the promise. `README.md:37-39` wants ids positive, with −1 for
notifications only: ids from `u32::MAX` up are refused (`jsonrpc.rs:383`), and errors are answered
with id 0 (`jsonrpc.rs:154`, `lib.rs:277`), which is why a client has the order of the replies alone
(`RepliesInRequestOrder`).

## Proofs

All theorems hold for every value of the constants, from the named assumptions on
them: capacities and bounds are natural numbers, numeric ids are integers (`i64`), strings
are sequences, asset ids hold no colon, and a readable pair has two strings
(`TextsAssumption`, `StringsAssumption`), no client is called "node" (`AuthorsAssumption`: it is the name
of the listener in the history of publications). Clients, frames and items are arbitrary.

- `BoundedSetProofs`. The inductive invariant is `IInv`: types, mirrored containers,
  the queue is the tail of the log, re-acceptance only after a window. None of the
  last three is inductive alone: an eviction removes the right entry from the hash set
  only because entries are distinct; the distance follows because `contains` answers
  for the queue, and the queue is the tail of the log. `Invariance` proves it,
  `TypeCorrect`, `MirrorCorrect`, `QueueCorrect` and `DistanceCorrect` are its parts, and `Refinement`
  proves that the module implements `SlidingWindow`, by `SetIsLastWindow`: the hash
  set is the set of the last window of the log.
- `RequestProofs`. The inductive invariant only says that the outcome is `Decide` of the frame
  at hand (`Invariance`); the work is in `Decide`. One lemma per stage says what it returns
  and when (`ParseParamsCases`, `Valid`, `DispatchTable`, ...); `HandledFrame` and `ServedFrame`
  put them together, and the theorems, one for each property of the run `requests`, follow.
  `WhoHearsCorrect` needs that pair names are unambiguous (`PairNameUnique`), because the colon of an
  asset pair's name is the only one.
- `ConnectionProofs`. `TypeCorrect` proves the type invariant with its couplings: a
  message in hand exactly while sending, a proposal exactly while awaiting, an empty
  queue once the receiver is dropped, a forward task exactly for those who connected.
  The lemmas follow the code: what an operation does to the registry and the queues
  (`SubscribedType`, `RetainedType`, `DeliveredType`, `RespondType`), what a step of a
  handler may touch (`HandledBy`), then each action.

- `ConnectionStreamProofs` first reduces the tasks to what a client can see. A step is one of
  few effects on the streams (`StepEffect`): nothing changes, a client arrives or
  leaves, a reply or the notices of one publication are added at the end, a request
  that panics or waits is taken. That a message only moves between socket, forward task
  and channel is proved once, for every task. The only coupling `TypeOK` lacks is
  `FreshInv`: a connection that was not made holds no sender, has asked and received
  nothing. `OrderCorrect` then follows with
  `OrderInv`: besides being in order, no notice in a stream is newer than the last publication,
  without which the next one could go before it. `EarnedCorrect` needs
  `EarnedInv`, which follows a notice back to its two ends: every sender in the registry was
  asked for by its client (`SubscribersAsked`), every publication by its author
  (`PublishersAsked`), the proposal that waits for the node too (`PendingAsked`).
  `ConnectionsImplementPubSub`: each effect of `StepEffect` is a
  step of `PubSub` under the refinement mapping, or a stutter. A delivery cuts out
  the clients whose receiver was dropped; they are those that left for `PubSub`.
- `ConnectionReplyProofs`. `RepliesCorrect`, from `RepliesInv`: the k-th reply of a
  stream answers the k-th request, there are as many replies as requests less the one that is
  owed (`Owed`), and the proposal a handler waits with is its last request (`PendingLast`),
  without which a reply after the node's answer could be another's. The place of a
  reply is the number of replies up to it, a cardinality; its lemmas say how it counts
  when something is appended. `SubscriptionsCorrect`, from `SendersInv`: the property itself is not inductive,
  since a publication drops the senders of every closed channel, also that of a client that
  has not left and whose forward task came to its end. `Over` says that such a client
  asked for nothing and has no handler that could, so there is nothing to drop; it
  holds because the task ends only when the registry has no sender, and the registry is as good
  as the requests (`Held`). `AcknowledgedCorrect`, from `AckInv`: told and published are counted
  step by step, and a client that has not connected has published nothing.
- `ZmqListenerProofs`, over the theorems about `BoundedSet`, instantiated with transactions for
  items. `TypeCorrect` gives the types of messages and notices and the memory bound. Each of the others needs
  to look into the queue of ZMQ messages, ahead of what is announced:
  `NothingFallsBackCorrect` the invariant `FallInv` (what was announced or is on its way in a block is confirmed,
  or its block was disconnected; a rawtx behind a block of its transaction only comes from a
  disconnected block); `MempoolFirstCorrect` the invariant `FirstInv` (a txid in `txs_seen` was
  announced on all its topics; before a block on its way there is the rawtx of each of its
  transactions, or it was announced or lost); `RepeatedCorrect` the invariant `LogInv` (the log of the cache is the
  sequence of the transactions announced as new, so that what
  `DistanceCorrect` shows of the log holds of the notices). `NamesAssumption` says that no txid is an
  address: the relay's topics are strings, and a txid is 64 hexadecimal digits.
- `SequenceInduction`. The library's induction theorems take an operator as parameter;
  `NatInduct` says the same of a set of numbers, from the least member of a set
  (`NatLeast`), which the library's well-founded order on `Nat` gives. With it
  `FlattenSeqIs` unfolds the recursion of `FlattenSeq`, of which the node's
  announcements are made (`FlattenSeqSteps`: one element after the other).
- `RelayProofs`, about the two parts together. Its inductive invariant `RelayInv` is that of the
  connections (`ConnInv`), that of the listener (`ListenInv`) and what couples them (`Coupled`): who has
  a handler, and `Matches`, that the node's publications, counted in the order of the registry, are
  the notices. A step of a part keeps the part's invariant by the part's own proofs. An INSTANCE has its
  own copy of every definition; the lemmas `Same...` say that the copies in `C` and
  `CP`, and in `L` and `LP`, agree. What is new is the step of the listener, which writes to the
  registry and the channels of the connections. Each notice keeps what they share (`CP!Shared`), as a
  client's publication does, and `AllPublished` is the induction over the notices of a
  message, with `PublishedSoFar` for what holds after the first `k`. `TypeCorrect` follows.
  `NothingFallsBackCorrect` joins the parts: a stream is in the order of publication (`OrderInv`), that is the
  order of the notices on all topics together (`Matches`, in `HeardInOrder`), and a mempool notice after
  a block notice means a disconnected block (`FallInv`). In `RelayImplementsPubSub` a
  step of the connections is a step of `PubSub` by the proof of `ConnectionsImplementPubSub`, and a
  message of the listener is one `Announce`, or a stutter if it leads to no notice. The registry drops
  senders and sends between the notices of one message, `Announce` does everything at once;
  `SentTogether` and `PublishedTogether` prove that the two agree for every client that is there.

Every inductive invariant was checked by TLC on the instance of a run before it was proved (`RelayInv` on
those of `relay` and `server`).
The properties count with `Cardinality` instead of filtering with `SelectSeq`: what a
cardinality does when a sequence grows is proved from the theorems about finite sets. For the same
reason `Listen` writes its publications with a recursive function, which `NatInduct` reasons about, and not with a fold.

**Model-checked only.** The liveness properties, `QueueDrains`, `EndsAtNextMessage`, `EveryBlockAnnounced`,
`WatcherHearsBlock`, `LeftWatcherEnds`, `ClosedSenderPruned` and `EveryoneAccepted`: they need fairness, hence
ENABLED, which the proof system does not handle. Every invariant and every refinement that a run checks is
proved. The `violation` runs are counterexamples and need no proof.

## Not modelled

The text of messages and errors, JSON and transaction decoding (a frame is readable
or not), TLS and the WebSocket protocol below frames, a failed bind (there is no relay
then), a ZMQ message of fewer than two parts (which would panic the listener, and which the
node does not send), configuration and logging. Memory limits: the channel and the registry are
unbounded in the code, and in the model up to the bounds above.

## Plan

The modules planned are written, and every safety property and refinement the runs check is proved, for the parts
and for the whole. What could be added:

1. What the whole inherits from the connections and is not stated of it: `RepliesInRequestOrder`,
   `SubscriptionsHold`, `PublicationsAreAcknowledged` and `NotesAreEarned` with the node as a publisher. The
   first three need that a notice of the listener is no reply, drops no sender of an open channel and is nobody's
   publication; the last an author that never asked.
2. `MempoolNoticeFirst` as a wallet sees it: it holds of the notices, while a wallet that subscribes between the two
   misses the first, so the statement needs the time of the subscription.
3. What holds when the safety argument of a liveness property is separated from its fairness, for example that
   the forward task of a watcher cannot end before its block notice is sent.
