------------------------ MODULE ConnectionProperties -------------------------
(***************************************************************************)
(* What holds of Connections, and the abstract specification it implements.*)
(***************************************************************************)
EXTENDS Connections, FiniteSets

Messages == Replies \union [kind : {"note"}, topic : Topics, n : Nat \ {0}]

(***************************************************************************)
(* Type invariant, with the couplings between a task's program counter and *)
(* the data it owns: a message in hand exactly while sending, a proposal   *)
(* exactly while awaiting, nothing queued once the receiver is dropped.    *)
(***************************************************************************)
TypeOK ==
    /\ DOMAIN topics \subseteq Topics
    /\ topics \in [DOMAIN topics -> [Clients -> Nat]]
    /\ chan \in [Clients -> Seq(Messages)]
    /\ reader \in [Clients -> {"off", "reading", "awaiting", "joining", "ended", "panicked"}]
    /\ pending \in [Clients -> Seq(Frames)]
    /\ fwd \in [Clients -> {"none", "recv", "send", "done"}]
    /\ hand \in [Clients -> Seq(Messages)]
    /\ wire \in [Clients -> Seq(Messages)]
    /\ peer \in [Clients -> {"up", "stalled", "gone"}]
    /\ closed \in [Clients -> BOOLEAN]
    /\ asked \in [Clients -> Seq(Frames)]
    /\ published \in Seq([topic : Topics, by : Clients \union {"node"}])
    /\ \A c \in Clients :
        /\ Len(asked[c]) <= MaxFrames
        /\ Len(hand[c]) = IF fwd[c] = "send" THEN 1 ELSE 0
        /\ Len(pending[c]) = IF reader[c] = "awaiting" THEN 1 ELSE 0
        /\ \A i \in DOMAIN pending[c] : Decide(pending[c][i]).act = "propose"
        /\ fwd[c] \in {"none", "done"} => chan[c] = <<>>
        /\ reader[c] = "off" <=> fwd[c] = "none"

Queued(c) == hand[c] \o chan[c]

(* The client is connected and its forward task runs.                      *)
Here(c) == RxOpen(c) /\ peer[c] # "gone"

(* All that a client who is here will receive if it stays; all that one    *)
(* who left did receive.                                                   *)
Stream(c) == IF Here(c) THEN wire[c] \o Queued(c) ELSE wire[c]

------------------------------------------------------------------------------
(* Every client sees the publications of all topics in one common order,   *)
(* the order the registry's lock was taken in, through two queues and      *)
(* whatever the other clients do; duplicates of a notice are adjacent.     *)
StreamOrder ==
    \A c \in Clients : \A i, j \in DOMAIN Stream(c) :
        i < j /\ Stream(c)[i].kind = "note" /\ Stream(c)[j].kind = "note"
            => Stream(c)[i].n <= Stream(c)[j].n

(***************************************************************************)
(* Replies come back in the order of the requests, one each, none for the  *)
(* request being checked or the one that panicked: the only way a client   *)
(* can tell which request an error with id 0 answers.                      *)
(***************************************************************************)
Refusal(f) ==
    LET d == Decide(f)
    IN  CASE d.act = "refuse" -> d.code
          [] d.act = "propose" /\ d.proposal.check # "valid" -> "ParseError"
          [] OTHER -> "none"
ReplyTo(f) ==
    LET d == Decide(f)
    IN  IF Refusal(f) # "none" THEN Reply(0, Refusal(f))
        ELSE Reply(d.id, CASE d.act = "pong" -> "pong"
                           [] d.act = "subscribe" -> "subscribed"
                           [] d.act \in {"relay", "propose"} -> "published")
(* How many of the first n messages of s are replies.                      *)
RepliesAmong(s, n) == Cardinality({i \in 1..n : s[i].kind = "reply"})
RepliesInRequestOrder ==
    \A c \in Clients :
        LET s == Stream(c)
            answered == RepliesAmong(s, Len(s))
            unanswered == IF reader[c] \in {"awaiting", "panicked"} THEN 1 ELSE 0
        IN  /\ answered <= Len(asked[c])
            /\ \A i \in DOMAIN s :
                   s[i].kind = "reply" => s[i] = ReplyTo(asked[c][RepliesAmong(s, i)])
            /\ Here(c) => answered = Len(asked[c]) - unanswered

(***************************************************************************)
(* Every notice on its way to a client was paid for at both ends: the      *)
(* client asked for the topic, and the author of that very publication     *)
(* asked to publish on it, with a proposal that validated if the topic is  *)
(* a validated one.                                                        *)
(***************************************************************************)
AskedFor(c, topic) ==
    \E i \in DOMAIN asked[c] :
        LET d == Decide(asked[c][i]) IN d.act = "subscribe" /\ d.topic = topic
AskedToPublish(c, topic) ==
    \E i \in DOMAIN asked[c] :
        LET d == Decide(asked[c][i])
        IN  \/ d.act = "relay" /\ d.topic = topic /\ topic.ns = "unvalidated"
            \/ d.act = "propose" /\ d.proposal.check = "valid"
                  /\ TopicFromProposal(d.proposal) = topic
NotesAreEarned ==
    \A c \in Clients : \A i \in DOMAIN Stream(c) :
        LET m == Stream(c)[i]
        IN  m.kind = "note" =>
                /\ AskedFor(c, m.topic)
                /\ m.n \in DOMAIN published
                /\ published[m.n].topic = m.topic
                /\ AskedToPublish(published[m.n].by, m.topic)

(* How many members of s are in T.                                         *)
CountIn(s, T) == Cardinality({i \in DOMAIN s : s[i] \in T})

(***************************************************************************)
(* Nobody else ends a subscription: as long as a client that subscribed    *)
(* has not left, its channel stays open, and the registry holds one sender *)
(* of it for each time it subscribed to a topic.  No publication prunes a  *)
(* sender that is still good, whoever leaves, fails or panics around it,   *)
(* the client's own handler included.                                      *)
(***************************************************************************)
Subscribing(topic) ==
    {f \in Frames : LET d == Decide(f) IN d.act = "subscribe" /\ d.topic = topic}
AskedTimes(c, topic) == CountIn(asked[c], Subscribing(topic))
SubscriptionsHold ==
    \A c \in Clients :
        /\ peer[c] # "gone" /\ (\E t \in Topics : AskedTimes(c, t) > 0) => RxOpen(c)
        /\ RxOpen(c) => \A t \in Topics : Entry(topics, t)[c] = AskedTimes(c, t)

(***************************************************************************)
(* A client that is here has been told of each of its publications, and    *)
(* told of nothing that was not published: a handler that panics or is     *)
(* refused while the node is asked has published nothing.  One that left   *)
(* may have missed the acknowledgement.                                    *)
(***************************************************************************)
Acknowledgements == {Reply(id, "published") : id \in 0..IdMax}
PublicationsAreAcknowledged ==
    \A c \in Clients :
        LET told == CountIn(Stream(c), Acknowledgements)
            done == CountIn(published, [topic : Topics, by : {c}])
        IN  told <= done /\ (Here(c) => told = done)

------------------------------------------------------------------------------
(* Refinement: tasks, channels and sockets together implement PubSub.      *)
Status(c) == IF Here(c) THEN "here" ELSE IF fwd[c] = "none" THEN "new" ELSE "left"
Subscriptions(c, t) == IF Here(c) THEN Entry(topics, t)[c] ELSE 0
PS == INSTANCE PubSub
        WITH status <- [c \in Clients |-> Status(c)],
             subs <- [c \in Clients |-> [t \in Topics |-> Subscriptions(c, t)]],
             stream <- [c \in Clients |-> Stream(c)],
             Batches <- {}
ImplementsPubSub == PS!Spec

------------------------------------------------------------------------------
(* Liveness, under FairSpec.                                               *)

(* A client that stays and keeps reading gets everything queued for it,    *)
(* whatever its handler is waiting for.                                    *)
QueueDrains ==
    \A c \in Clients : <>[](peer[c] = "up") => []<>(Queued(c) = <<>>)

(* A handler whose client closed the connection finishes at the latest     *)
(* when the next message for the client fails to go out.                   *)
EndsAtNextMessage ==
    \A c \in Clients :
        (reader[c] = "joining" /\ closed[c] /\ Queued(c) # <<>>) ~> (reader[c] = "ended")

------------------------------------------------------------------------------
(* What a comment says, where the code does otherwise.                     *)

(* lib.rs:315: dropping client_tx_clone lets the forward task terminate,   *)
(* so a handler that left its loop finishes.                               *)
HandlerFinishes ==
    \A c \in Clients : (reader[c] = "joining" /\ closed[c]) ~> (reader[c] = "ended")
==============================================================================
