------------------------------ MODULE Connections -----------------------------
(***************************************************************************)
(* The WebSocket side of the relay: handle_connection, process_message and *)
(* process_publish_proposal, for several clients over one registry.        *)
(*                                                                         *)
(* Each connection has two tasks.  The handler (reader[c]) reads frames,   *)
(* carries out what Requests!Decide says, and queues the answer on the     *)
(* client's unbounded channel (chan[c]).  The forward task (fwd[c]) takes  *)
(* messages off that channel (hand[c]) and writes them to the WebSocket    *)
(* (wire[c] is what the client receives).  The registry keeps senders of   *)
(* the same channel, so any handler that publishes writes to it as well.   *)
(*                                                                         *)
(* main.rs runs a current-thread runtime: a task is only preempted at an   *)
(* await, and each action is what a task does from one await to the next.  *)
(* A client that reconnects is another element of Clients.                 *)
(***************************************************************************)
EXTENDS Requests, TopicRegistry

CONSTANTS
    Frames,         \* the text frames clients send (see Requests)
    MaxFrames,      \* bound: frames each client sends
    NodeTopics      \* the topics zmq.rs publishes on, in the same registry;
                    \* none here, as only NexusRelay has the listener

ASSUME MaxFramesAssumption == MaxFrames \in Nat

(* A numeric JSON-RPC id is an i64.                                        *)
ASSUME FramesAssumption ==
    \A f \in Frames : f.form # "garbage" /\ f.id.kind = "num" => f.id.n \in Int

VARIABLES
    topics,         \* TopicRegistry
    chan,           \* client_rx: messages queued for the client
    reader,         \* handle_connection: "off", "reading", "awaiting" (the
                    \* node), "joining" (forward_task.await), "ended", or
                    \* "panicked" (the task unwound)
    pending,        \* the frame whose proposal is being checked
    fwd,            \* the forward task: "none", "recv", "send", "done"
    hand,           \* what it has taken and not yet written, if anything
    wire,           \* what reached the client
    peer,           \* the client: "up", "stalled" (does not read), "gone"
    closed,         \* the WebSocket is known to be closed
    asked,          \* history: frames read, per client
    published       \* history: publications, in order

vars == <<topics, chan, reader, pending, fwd, hand, wire, peer, closed, asked, published>>

taskVars == <<pending, fwd, hand, wire, peer, closed>>

------------------------------------------------------------------------------
Note(topic, n) == [kind |-> "note", topic |-> topic, n |-> n]
Reply(id, res) == [kind |-> "reply", id |-> id, res |-> res]

Codes == {"ParseError", "InvalidRequest", "MethodNotFound", "InvalidParams"}
Replies == [kind : {"reply"}, id : 0..IdMax,
            res : Codes \union {"subscribed", "published", "pong"}]

(* The topics that Frames and the listener can subscribe or publish to.    *)
Topics ==
    {Decide(f).topic : f \in {g \in Frames : Decide(g).act \in {"subscribe", "relay"}}}
    \union {TopicFromProposal(Decide(f).proposal) :
              f \in {g \in Frames : Decide(g).act = "propose"}}
    \union NodeTopics

(* client_rx lives in the forward task.                                    *)
RxOpen(c) == fwd[c] \in {"recv", "send"}
\* seeded fault: a channel whose reader is busy writing is taken for closed
IdleClients == {c \in Clients : fwd[c] = "recv"}

OpenClients == {c \in Clients : RxOpen(c)}

(* Senders of c's channel: client_tx, a local of handle_connection, lives  *)
(* until the function returns or unwinds; the others are in the registry.  *)
HandlerHoldsSender(c) == reader[c] \in {"reading", "awaiting", "joining"}
RegistryHoldsSender(c) == \E t \in DOMAIN topics : topics[t][c] > 0

------------------------------------------------------------------------------
(* The client and the network.                                             *)

Init == /\ topics = NoTopics
        /\ chan = [c \in Clients |-> <<>>]
        /\ reader = [c \in Clients |-> "off"]
        /\ pending = [c \in Clients |-> <<>>]
        /\ fwd = [c \in Clients |-> "none"]
        /\ hand = [c \in Clients |-> <<>>]
        /\ wire = [c \in Clients |-> <<>>]
        /\ peer = [c \in Clients |-> "up"]
        /\ closed = [c \in Clients |-> FALSE]
        /\ asked = [c \in Clients |-> <<>>]
        /\ published = <<>>

(* accept_async succeeds; the channel is made, the forward task spawned.   *)
Connect(c) == /\ reader[c] = "off"
              /\ reader' = [reader EXCEPT ![c] = "reading"]
              /\ fwd' = [fwd EXCEPT ![c] = "recv"]
              /\ UNCHANGED <<topics, chan, pending, hand, wire, peer, closed, asked, published>>

(* The client closes the connection, or the connection breaks.             *)
PeerLeaves(c) == /\ reader[c] # "off" /\ peer[c] # "gone"
                 /\ peer' = [peer EXCEPT ![c] = "gone"]
                 /\ UNCHANGED <<topics, chan, reader, pending, fwd, hand, wire, closed, asked, published>>

(* The client stops reading, or vanishes without a word: writes block.     *)
PeerStalls(c) == /\ reader[c] # "off" /\ peer[c] = "up"
                 /\ peer' = [peer EXCEPT ![c] = "stalled"]
                 /\ UNCHANGED <<topics, chan, reader, pending, fwd, hand, wire, closed, asked, published>>

PeerResumes(c) == /\ peer[c] = "stalled"
                  /\ peer' = [peer EXCEPT ![c] = "up"]
                  /\ UNCHANGED <<topics, chan, reader, pending, fwd, hand, wire, closed, asked, published>>

------------------------------------------------------------------------------
(* The handler.                                                            *)

(* A frame is read; frames sent before the client left are read too.       *)
Reads(c, f) == /\ reader[c] = "reading"
               /\ Len(asked[c]) < MaxFrames
               /\ asked' = [asked EXCEPT ![c] = Append(@, f)]

\* seeded fault: an answer overtakes what is queued
RespondFirst(c, queues, reply) ==
    \/ /\ RxOpen(c)
       /\ chan' = [queues EXCEPT ![c] = <<reply>> \o @]
       /\ reader' = [reader EXCEPT ![c] = "reading"]
    \/ /\ ~RxOpen(c)
       /\ chan' = queues
       /\ reader' = [reader EXCEPT ![c] = "joining"]

(* client_tx_clone.send(response) closes every request: the message joins  *)
(* the queue `queues` the request left behind, or the loop breaks because  *)
(* the forward task has dropped the receiver.                              *)
Respond(c, queues, reply) ==
    \/ /\ RxOpen(c)
       /\ chan' = [queues EXCEPT ![c] = Append(@, reply)]
       /\ reader' = [reader EXCEPT ![c] = "reading"]
    \/ /\ ~RxOpen(c)
       /\ chan' = queues
       /\ reader' = [reader EXCEPT ![c] = "joining"]

(* registry.publish(topic, notification), then the answer to the author.   *)
Publish(c, topic, id) ==
    /\ published' = Append(published, [topic |-> topic, by |-> c])
    /\ topics' = Retained(topics, topic, OpenClients)
    /\ Respond(c, Delivered(topics, chan, topic, OpenClients,
                            Note(topic, Len(published) + 1)),
               Reply(id, "published"))

(* A frame that is not a request, or not one this relay accepts: errors    *)
(* are answered with id 0.                                                 *)
HandleRefused(c, f) ==
    /\ Decide(f).act = "refuse"
    /\ Reads(c, f)
    /\ Respond(c, chan, Reply(0, Decide(f).code))
    /\ UNCHANGED <<topics, published, taskVars>>

HandlePing(c, f) ==
    /\ Decide(f).act = "pong"
    /\ Reads(c, f)
    /\ Respond(c, chan, Reply(Decide(f).id, "pong"))
    /\ UNCHANGED <<topics, published, taskVars>>

HandleSubscribe(c, f) ==
    /\ Decide(f).act = "subscribe"
    /\ Reads(c, f)
    /\ topics' = Subscribed(topics, Decide(f).topic, c)
    /\ Respond(c, chan, Reply(Decide(f).id, "subscribed"))
    /\ UNCHANGED <<published, taskVars>>

HandleRelay(c, f) ==
    /\ Decide(f).act = "relay"
    /\ Reads(c, f)
    /\ Publish(c, Decide(f).topic, Decide(f).id)
    /\ UNCHANGED taskVars

(* An unwrap() fails: the handler's future is dropped where it stands.     *)
HandlePanic(c, f) ==
    /\ Decide(f).act = "panic"
    /\ Reads(c, f)
    /\ reader' = [reader EXCEPT ![c] = "panicked"]
    /\ UNCHANGED <<topics, chan, published, taskVars>>

(* proposal.needed_tx()? fails at once, or the node is asked for the tx.   *)
HandleProposal(c, f) ==
    /\ Decide(f).act = "propose"
    /\ Reads(c, f)
    /\ \/ /\ Decide(f).proposal.check = "no_needed_tx"
          /\ Respond(c, chan, Reply(0, Code("Liquidex")))
          /\ UNCHANGED pending
       \/ /\ Decide(f).proposal.check # "no_needed_tx"
          /\ reader' = [reader EXCEPT ![c] = "awaiting"]
          /\ pending' = [pending EXCEPT ![c] = <<f>>]
          /\ UNCHANGED chan
    /\ UNCHANGED <<topics, published, fwd, hand, wire, peer, closed>>

\* seeded fault: an invalid proposal is published all the same
ValidOrNot(proposal) == TRUE

(* proposal.validate(tx) accepts.  Whether the input is unspent is not     *)
(* looked at (a TODO in the code).                                         *)
Validates(proposal) == proposal.check = "valid"

(* The node answers with the transaction: validate it, then publish.       *)
NodeAnswers(c) ==
    /\ reader[c] = "awaiting"
    /\ pending' = [pending EXCEPT ![c] = <<>>]
    /\ LET d == Decide(Head(pending[c]))
       IN  \/ /\ Validates(d.proposal)
              /\ Publish(c, TopicFromProposal(d.proposal), d.id)
           \/ /\ ~Validates(d.proposal)
              /\ Respond(c, chan, Reply(0, Code("Liquidex")))
              /\ UNCHANGED <<topics, published>>
    /\ UNCHANGED <<fwd, hand, wire, peer, closed, asked>>

\* seeded fault: the proposal goes out, and then the answer is unwrapped
FailsAfterPublishing(c) ==
    /\ reader[c] = "awaiting"
    /\ pending' = [pending EXCEPT ![c] = <<>>]
    /\ reader' = [reader EXCEPT ![c] = "panicked"]
    /\ LET topic == TopicFromProposal(Decide(Head(pending[c])).proposal)
       IN  /\ published' = Append(published, [topic |-> topic, by |-> c])
           /\ topics' = Retained(topics, topic, OpenClients)
           /\ chan' = Delivered(topics, chan, topic, OpenClients,
                                Note(topic, Len(published) + 1))
    /\ UNCHANGED <<fwd, hand, wire, peer, closed, asked>>

(* The request to the node fails, or the node does not know the tx:        *)
(* client.tx(txid).await.unwrap() panics.                                  *)
NodeFails(c) ==
    /\ reader[c] = "awaiting"
    /\ pending' = [pending EXCEPT ![c] = <<>>]
    /\ reader' = [reader EXCEPT ![c] = "panicked"]
    /\ UNCHANGED <<topics, chan, fwd, hand, wire, peer, closed, asked, published>>

(* ws_rx.next() yields None or an error because the client is gone: the    *)
(* loop ends and the WebSocket is known to be closed.                      *)
ReaderSeesClose(c) ==
    /\ reader[c] = "reading" /\ peer[c] = "gone"
    /\ reader' = [reader EXCEPT ![c] = "joining"]
    /\ closed' = [closed EXCEPT ![c] = TRUE]
    /\ UNCHANGED <<topics, chan, pending, fwd, hand, wire, peer, asked, published>>

(* ws_rx.next() yields a protocol error while the client is still there:   *)
(* the loop ends, the WebSocket can still be written to.                   *)
ReaderSeesProtocolError(c) ==
    /\ reader[c] = "reading" /\ peer[c] # "gone"
    /\ reader' = [reader EXCEPT ![c] = "joining"]
    /\ UNCHANGED <<topics, chan, pending, fwd, hand, wire, peer, closed, asked, published>>

(* forward_task.await returns.                                             *)
Join(c) == /\ reader[c] = "joining" /\ fwd[c] = "done"
           /\ reader' = [reader EXCEPT ![c] = "ended"]
           /\ UNCHANGED <<topics, chan, pending, fwd, hand, wire, peer, closed, asked, published>>

------------------------------------------------------------------------------
(* The forward task.                                                       *)

(* client_rx.recv() yields a message.                                      *)
ForwardTakes(c) ==
    /\ fwd[c] = "recv" /\ chan[c] # <<>>
    /\ hand' = [hand EXCEPT ![c] = <<Head(chan[c])>>]
    /\ chan' = [chan EXCEPT ![c] = Tail(@)]
    /\ fwd' = [fwd EXCEPT ![c] = "send"]
    /\ UNCHANGED <<topics, reader, pending, wire, peer, closed, asked, published>>

\* seeded fault: the task stops as soon as the handler is gone
NoSenderLeftEarly(c) == ~HandlerHoldsSender(c)

NoSenderLeft(c) == ~HandlerHoldsSender(c) /\ ~RegistryHoldsSender(c)

(* client_rx.recv() yields None: nothing queued and no sender left.        *)
ForwardEnds(c) ==
    /\ fwd[c] = "recv" /\ chan[c] = <<>>
    /\ NoSenderLeft(c)
    /\ fwd' = [fwd EXCEPT ![c] = "done"]
    /\ UNCHANGED <<topics, chan, reader, pending, hand, wire, peer, closed, asked, published>>

\* seeded fault: one task both reads and writes, so a handler that waits
\* for the node writes nothing
ForwardSendsWhileReading(c) ==
    /\ fwd[c] = "send" /\ peer[c] = "up" /\ reader[c] = "reading"
    /\ wire' = [wire EXCEPT ![c] = @ \o hand[c]]
    /\ hand' = [hand EXCEPT ![c] = <<>>]
    /\ fwd' = [fwd EXCEPT ![c] = "recv"]
    /\ UNCHANGED <<topics, chan, reader, pending, peer, closed, asked, published>>

(* ws_tx.send(msg) succeeds; the bytes reach a client that is there, and   *)
(* are lost when it left and the server has not noticed.                   *)
ForwardSends(c) ==
    /\ fwd[c] = "send" /\ ~closed[c]
    /\ \/ peer[c] = "up" /\ wire' = [wire EXCEPT ![c] = @ \o hand[c]]
       \/ peer[c] = "gone" /\ UNCHANGED wire
    /\ hand' = [hand EXCEPT ![c] = <<>>]
    /\ fwd' = [fwd EXCEPT ![c] = "recv"]
    /\ UNCHANGED <<topics, chan, reader, pending, peer, closed, asked, published>>

\* seeded fault: the result of send() is ignored
ForwardIgnoresError(c) ==
    /\ fwd[c] = "send" /\ peer[c] = "gone"
    /\ fwd' = [fwd EXCEPT ![c] = "recv"]
    /\ hand' = [hand EXCEPT ![c] = <<>>]
    /\ closed' = [closed EXCEPT ![c] = TRUE]
    /\ UNCHANGED <<topics, chan, reader, pending, wire, peer, asked, published>>

(* ws_tx.send(msg) fails: the task ends and drops the receiver with        *)
(* everything still queued.                                                *)
ForwardFails(c) ==
    /\ fwd[c] = "send" /\ peer[c] = "gone"
    /\ fwd' = [fwd EXCEPT ![c] = "done"]
    /\ hand' = [hand EXCEPT ![c] = <<>>]
    /\ chan' = [chan EXCEPT ![c] = <<>>]
    /\ closed' = [closed EXCEPT ![c] = TRUE]
    /\ UNCHANGED <<topics, reader, pending, wire, peer, asked, published>>

------------------------------------------------------------------------------
Peer(c) == PeerLeaves(c) \/ PeerStalls(c) \/ PeerResumes(c)

Request(c) ==
    \E f \in Frames :
        \/ HandleRefused(c, f) \/ HandlePing(c, f) \/ HandleSubscribe(c, f)
        \/ HandleRelay(c, f) \/ HandlePanic(c, f) \/ HandleProposal(c, f)

Node(c) == NodeAnswers(c) \/ NodeFails(c)

Closing(c) == ReaderSeesClose(c) \/ Join(c)

Forward(c) == ForwardTakes(c) \/ ForwardEnds(c) \/ ForwardSends(c) \/ ForwardFails(c)

Next == \E c \in Clients :
            Connect(c) \/ Peer(c) \/ Request(c) \/ Node(c)
            \/ Closing(c) \/ ReaderSeesProtocolError(c) \/ Forward(c)

Spec == Init /\ [][Next]_vars

(* The runtime polls a task that can go on.  Clients owe nothing, and      *)
(* neither does the node: reqwest is used without a timeout.               *)
Fairness == \A c \in Clients : WF_vars(Closing(c)) /\ WF_vars(Forward(c))

FairSpec == Spec /\ Fairness
==============================================================================
