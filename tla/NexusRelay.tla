------------------------------ MODULE NexusRelay ------------------------------
(***************************************************************************)
(* async_main of lib.rs: the whole relay.  One task accepts connections    *)
(* and spawns a handler for each (Connections), one listens to the node    *)
(* (ZmqListener); both publish through the one TopicRegistry.  When the    *)
(* accept loop ends, the process does.                                     *)
(*                                                                         *)
(* The node is the environment of both sides: it reports transactions and  *)
(* blocks over ZMQ, and answers the handlers that check a proposal, from   *)
(* the same mempool and chain.                                             *)
(***************************************************************************)
EXTENDS Integers, FiniteSets, SequencesExt

CONSTANTS
    Clients, Frames, MaxFrames, IdMax,                      \* Connections
    Txs, Addresses, Outputs, Blocks, Capacities,            \* ZmqListener
    MaxReorgs, MaxLost, MaxLog,
    Spends          \* Spends[tx]: the transactions whose output tx spends

(* One output of each transaction matters, and it is spent once.           *)
ASSUME SpendsAssumption ==
    /\ Spends \in [Txs -> SUBSET Txs]
    /\ \A tx, other \in Txs : tx # other => Spends[tx] \intersect Spends[other] = {}

(* Publications are told apart by their author.                            *)
ASSUME AuthorsAssumption == "node" \notin Clients

(* What the parts assume of their constants.                               *)
ASSUME ConnectionsAssumption ==
    /\ MaxFrames \in Nat /\ IdMax \in Nat
    /\ \A f \in Frames : f.form # "garbage" /\ f.id.kind = "num" => f.id.n \in Int
ASSUME ListenerAssumption ==
    /\ Outputs \in [Txs -> Seq(Addresses)] /\ Blocks \subseteq Seq(Txs)
    /\ Txs \intersect Addresses = {}
    /\ Capacities \subseteq Nat /\ MaxReorgs \in Nat /\ MaxLost \in Nat /\ MaxLog \in Nat

VARIABLES
    server,         \* the accept loop: "up", or "down" with the process
    listener,       \* the listener task: "starting", "on", or "off" for good
    accept,         \* accept[c]: "absent", "backlog" (of the TCP listener),
                    \* "upgrading" (in accept_async), "open" or "refused"
    topics, chan, reader, pending, fwd, hand, wire, peer, closed, asked, published,
    mempool, chain, entered, undone, zmq, lost,
    set, queue, capacity, log, fresh, notices

(* Topic::Validated(txid), Topic::Validated(address)                       *)
ListenerTopics == {[ns |-> "validated", name |-> <<name>>] : name \in Txs \union Addresses}

C == INSTANCE ConnectionProperties WITH NodeTopics <- ListenerTopics
L == INSTANCE ZmqListener

serverVars == <<server, listener, accept>>
taskVars == <<pending, fwd, hand, wire, peer, closed>>
connVars == <<topics, chan, reader, taskVars, asked, published>>
cache == <<set, queue, capacity, log, fresh>>
node == <<mempool, chain, entered, undone>>
listenVars == <<node, zmq, lost, cache, notices>>
vars == <<serverVars, connVars, listenVars>>

Init == /\ server = "up" /\ listener = "starting"
        /\ accept = [c \in Clients |-> "absent"]
        /\ C!Init
        /\ L!Init

(* Once the process is gone nothing of interest happens, outside included.  *)
Up == server = "up"

------------------------------------------------------------------------------
(* The accept loop.                                                        *)

SetAccept(c, from, to) ==
    /\ Up /\ accept[c] = from
    /\ accept' = [accept EXCEPT ![c] = to]
    /\ UNCHANGED <<server, listener, listenVars>>

(* A client connects: the kernel completes the TCP handshake.              *)
Arrives(c) == SetAccept(c, "absent", "backlog") /\ UNCHANGED connVars

\* seeded fault: the upgrade is awaited in the accept loop
AcceptsOneByOne(c) ==
    /\ \A d \in Clients : accept[d] # "upgrading"
    /\ SetAccept(c, "backlog", "upgrading")
    /\ UNCHANGED connVars

(* accept() yields a connection, and its handler is spawned.               *)
Accept(c) == SetAccept(c, "backlog", "upgrading") /\ UNCHANGED connVars

(* The WebSocket handshake is up to the client: it succeeds, fails, or     *)
(* never ends.                                                             *)
Upgraded(c) == SetAccept(c, "upgrading", "open") /\ C!Connect(c)
UpgradeFails(c) == SetAccept(c, "upgrading", "refused") /\ UNCHANGED connVars

(* accept() fails: the loop ends, async_main returns, every task is gone.  *)
AcceptFails == /\ Up /\ server' = "down"
               /\ UNCHANGED <<listener, accept, connVars, listenVars>>

------------------------------------------------------------------------------
(* The node.                                                               *)

Known == mempool \union L!Confirmed

(* A transaction comes after those it spends.                              *)
InputsKnown == \A tx \in Known : Spends[tx] \subseteq Known

NodeSteps == /\ Up /\ L!Node
             /\ InputsKnown'
             /\ UNCHANGED <<serverVars, connVars>>

(* Node::is_spent, which nothing calls: getutxos lists the output, with    *)
(* the mempool looked at, when it exists and is not spent.                 *)
IsSpent(tx) == tx \notin Known \/ \E other \in Known : tx \in Spends[other]

------------------------------------------------------------------------------
(* The listener task.                                                      *)

(* The subscription takes effect.  What the node sent before is gone.      *)
ListenerStarts ==
    /\ Up /\ listener = "starting" /\ listener' = "on"
    /\ lost' = lost \o zmq
    /\ zmq' = <<>>
    /\ UNCHANGED <<server, accept, connVars, node, cache, notices>>

(* connect() or subscribe() fails: the error is logged, the relay goes on. *)
ListenerFails ==
    /\ Up /\ listener = "starting" /\ listener' = "off"
    /\ UNCHANGED <<server, accept, connVars, listenVars>>

LosesMessage == /\ Up /\ listener = "on"
                /\ L!Lose
                /\ UNCHANGED <<serverVars, connVars>>

\* seeded fault: the notices go to the namespace clients publish in
OpenTopic(notice) == C!Unvalidated(<<notice.topic>>)

(* Topic::Validated(address), Topic::Validated(txid)                       *)
TopicOf(notice) == C!Validated(<<notice.topic>>)

(* The registry, the channels and the history after registry.publish().    *)
PublishNotice(relay, notice) ==
    LET topic == TopicOf(notice)
        n == Len(relay.published) + 1
    IN  [topics |-> C!Retained(relay.topics, topic, C!OpenClients),
         chan |-> C!Delivered(relay.topics, relay.chan, topic, C!OpenClients, C!Note(topic, n)),
         published |-> Append(relay.published, [topic |-> topic, by |-> "node"])]

\* seeded fault: what was announced before goes out again
EveryNotice == notices'

NewNotices == SubSeq(notices', Len(notices) + 1, Len(notices'))

(* process_zmq_message locks the registry once per notice and never yields.*)
Listen ==
    /\ Up /\ listener = "on"
    /\ L!Listen
    /\ LET after[k \in 0..Len(NewNotices)] ==
               IF k = 0 THEN [topics |-> topics, chan |-> chan, published |-> published]
               ELSE PublishNotice(after[k - 1], NewNotices[k])
       IN  /\ topics' = after[Len(NewNotices)].topics
           /\ chan' = after[Len(NewNotices)].chan
           /\ published' = after[Len(NewNotices)].published
    /\ UNCHANGED <<serverVars, reader, taskVars, asked>>

------------------------------------------------------------------------------
(* The connections.                                                        *)

Elsewhere == Up /\ UNCHANGED <<serverVars, listenVars>>

(* GET /rest/tx finds what the node knows.                                 *)
NodeAnswers(c) ==
    /\ reader[c] = "awaiting"
    /\ C!Decide(Head(pending[c])).proposal.needs \in Known
    /\ C!NodeAnswers(c)
    /\ Elsewhere

Serve(c) == C!Request(c) /\ Elsewhere
Client(c) == (C!Peer(c) \/ C!ReaderSeesProtocolError(c)) /\ Elsewhere
NodeFails(c) == C!NodeFails(c) /\ Elsewhere
Closing(c) == C!Closing(c) /\ Elsewhere
Forward(c) == C!Forward(c) /\ Elsewhere

------------------------------------------------------------------------------
Next == \/ \E c \in Clients :
             \/ Arrives(c) \/ Accept(c) \/ Upgraded(c) \/ UpgradeFails(c)
             \/ Client(c) \/ Serve(c) \/ NodeAnswers(c) \/ NodeFails(c)
             \/ Closing(c) \/ Forward(c)
        \/ AcceptFails \/ NodeSteps
        \/ ListenerStarts \/ ListenerFails \/ LosesMessage \/ Listen

Spec == Init /\ [][Next]_vars

(* The runtime polls what can go on, while there is a process.  Nothing is *)
(* owed by clients (who may never finish the handshake) or by the node,    *)
(* which may not be there to subscribe to.  Fairness of a part is enough:  *)
(* in the relay, its steps are those of Listen, Closing and Forward.       *)
Fairness ==
    /\ WF_vars(\E c \in Clients : Accept(c))
    /\ WF_listenVars(Up /\ listener = "on" /\ L!Listen)
    /\ \A c \in Clients : WF_connVars(Up /\ C!Closing(c)) /\ WF_connVars(Up /\ C!Forward(c))

FairSpec == Spec /\ Fairness
==============================================================================
