------------------------ MODULE ConnectionStreamProofs -------------------------
(***************************************************************************)
(* What the clients of Connections see: every step is described by what it *)
(* appends to the streams, and from that the refinement of PubSub, the     *)
(* common order of the notices and their origin are proved.                *)
(***************************************************************************)
EXTENDS ConnectionProofs, SequenceTheorems

------------------------------------------------------------------------------
(* Streams: what is appended to a queue is appended to the stream.         *)

(* Messages that join the end of a queue join the end of what precedes it. *)
LEMMA JoinsTheEnd ==
    ASSUME NEW x \in Seq(Messages), NEW y \in Seq(Messages), NEW z \in Seq(Messages)
    PROVE  x \o (y \o z) = (x \o y) \o z
BY ConcatAssociative

(* A stream is a sequence of messages.                                     *)
LEMMA StreamType ==
    ASSUME TypeOK, NEW d \in Clients
    PROVE  /\ Queued(d) \in Seq(Messages)
           /\ Stream(d) \in Seq(Messages)
BY DEF TypeOK, Queued, Stream

(* Where the receiver is open and the client connected, what joins the     *)
(* queue joins the stream; nobody else sees it.                            *)
LEMMA QueueGrowsStream ==
    ASSUME TypeOK, NEW d \in Clients, NEW more \in Seq(Messages),
           chan'[d] = chan[d] \o more,
           UNCHANGED <<fwd, hand, wire, peer>>
    PROVE  /\ Here(d)' <=> Here(d)
           /\ Stream(d)' = IF Here(d) THEN Stream(d) \o more ELSE Stream(d)
<1>1. Here(d)' <=> Here(d)
  BY DEF Here, RxOpen
<1>2. CASE ~Here(d)
  BY <1>1, <1>2 DEF Stream
<1>3. CASE Here(d)
  <2>1. wire[d] \in Seq(Messages) /\ hand[d] \in Seq(Messages) /\ chan[d] \in Seq(Messages)
    BY DEF TypeOK
  <2>2. hand[d] \o (chan[d] \o more) = (hand[d] \o chan[d]) \o more
    BY <2>1, JoinsTheEnd
  <2>3. hand[d] \o chan[d] \in Seq(Messages)
    BY <2>1
  <2>4. wire[d] \o ((hand[d] \o chan[d]) \o more) = (wire[d] \o (hand[d] \o chan[d])) \o more
    BY <2>1, <2>3, JoinsTheEnd
  <2>5. Stream(d)' = (wire[d] \o (hand[d] \o chan[d]))'
    BY <1>1, <1>3 DEF Stream, Queued
  <2>6. Stream(d)' = wire[d] \o (hand[d] \o (chan[d] \o more))
    BY <2>5
  <2> QED BY <1>1, <1>3, <2>2, <2>4, <2>6 DEF Stream, Queued
<1> QED BY <1>2, <1>3

(* A step that leaves d's forward task, client and queue alone leaves its  *)
(* stream alone.                                                           *)
LEMMA SameStream ==
    ASSUME NEW d \in Clients, chan'[d] = chan[d], fwd'[d] = fwd[d], hand'[d] = hand[d],
           wire'[d] = wire[d], peer'[d] = peer[d]
    PROVE  (Here(d)' <=> Here(d)) /\ Stream(d)' = Stream(d) /\ Status(d)' = Status(d)
BY DEF Here, RxOpen, Stream, Queued, Status

------------------------------------------------------------------------------
(* The registry, entry by entry.                                           *)

(* subscribe() counts one more sender of c under t.                        *)
LEMMA SubscribedEntry ==
    ASSUME NEW r, IsRegistry(r), NEW t \in Topics, NEW c \in Clients,
           NEW u, NEW d \in Clients
    PROVE  Entry(Subscribed(r, t, c), u)[d] =
               IF u = t /\ d = c THEN Entry(r, u)[d] + 1 ELSE Entry(r, u)[d]
<1>1. Entry(r, t) \in [Clients -> Nat]
  BY EntryType
<1> DEFINE s == [Entry(r, t) EXCEPT ![c] = @ + 1]
<1>2. s \in [Clients -> Nat]
  BY <1>1
<1>3. s[d] = IF d = c THEN Entry(r, t)[d] + 1 ELSE Entry(r, t)[d]
  BY <1>1
<1>4. Subscribed(r, t, c) = SetEntry(r, t, s)
  BY DEF Subscribed
<1> HIDE DEF s
<1>5. /\ DOMAIN SetEntry(r, t, s) = DOMAIN r \union {t}
      /\ SetEntry(r, t, s)[t] = s
      /\ \A v \in DOMAIN r : v # t => SetEntry(r, t, s)[v] = r[v]
  BY <1>2, SetEntryType
<1>6. CASE u = t
  BY <1>3, <1>4, <1>5, <1>6 DEF Entry
<1>7. CASE u # t
  BY <1>4, <1>5, <1>7 DEF Entry
<1> QED BY <1>6, <1>7

(* publish() keeps the senders of the open channels and no other under t.  *)
LEMMA RetainedEntry ==
    ASSUME NEW r, IsRegistry(r), NEW t \in Topics, NEW open, NEW u, NEW d \in Clients
    PROVE  Entry(Retained(r, t, open), u)[d] =
               IF u = t /\ d \notin open THEN 0 ELSE Entry(r, u)[d]
<1>1. Entry(r, t) \in [Clients -> Nat]
  BY EntryType
<1> DEFINE s == [c \in Clients |-> IF c \in open THEN Entry(r, t)[c] ELSE 0]
<1>2. s \in [Clients -> Nat]
  BY <1>1
<1>3. s[d] = IF d \in open THEN Entry(r, t)[d] ELSE 0
  BY <1>1
<1>4. Retained(r, t, open) = SetEntry(r, t, s)
  BY DEF Retained
<1> HIDE DEF s
<1>5. /\ DOMAIN SetEntry(r, t, s) = DOMAIN r \union {t}
      /\ SetEntry(r, t, s)[t] = s
      /\ \A v \in DOMAIN r : v # t => SetEntry(r, t, s)[v] = r[v]
  BY <1>2, SetEntryType
<1>6. CASE u = t
  BY <1>3, <1>4, <1>5, <1>6 DEF Entry
<1>7. CASE u # t
  BY <1>4, <1>5, <1>7 DEF Entry
<1> QED BY <1>6, <1>7

------------------------------------------------------------------------------
(* What requests append to the streams.                                    *)

(* The end of a handler's step: everybody's queue has grown by what the    *)
(* request published, more, and the answer m follows for its author.       *)
Answering(c, m, q, more) ==
    /\ TypeOK /\ c \in Clients /\ m \in Messages
    /\ more \in [Clients -> Seq(Messages)] /\ IsQueues(q)
    /\ \A d \in Clients : RxOpen(d) => q[d] = chan[d] \o more[d]
    /\ Respond(c, q, m) /\ UNCHANGED <<fwd, hand, wire, peer>>

(* So has the stream of everybody who is here.                             *)
Extended(d, c, m, more) ==
    /\ Here(d)' <=> Here(d)
    /\ Status(d)' = Status(d)
    /\ Stream(d)' = IF Here(d) THEN (Stream(d) \o more) \o (IF d = c THEN <<m>> ELSE <<>>)
                    ELSE Stream(d)

(* One is the effect of the other.                                         *)
LEMMA RespondStream ==
    ASSUME NEW c, NEW m, NEW q, NEW more, Answering(c, m, q, more), NEW d \in Clients
    PROVE  Extended(d, c, m, more[d])
<1> SUFFICES ASSUME TypeOK, c \in Clients, m \in Messages,
                    more \in [Clients -> Seq(Messages)], IsQueues(q),
                    \A e \in Clients : RxOpen(e) => q[e] = chan[e] \o more[e],
                    Respond(c, q, m), UNCHANGED <<fwd, hand, wire, peer>>
             PROVE  Extended(d, c, m, more[d])
  BY Zenon DEF Answering
<1> DEFINE answer == IF d = c THEN <<m>> ELSE <<>>
<1>1. (Here(d)' <=> Here(d)) /\ Status(d)' = Status(d)
  BY DEF Here, RxOpen, Status
<1>2. ASSUME ~Here(d) PROVE Stream(d)' = Stream(d)
  BY <1>1, <1>2 DEF Stream
<1>3. ASSUME Here(d) PROVE Stream(d)' = (Stream(d) \o more[d]) \o answer
  <2>1. more[d] \in Seq(Messages) /\ answer \in Seq(Messages) /\ chan[d] \in Seq(Messages)
        /\ q[d] \in Seq(Messages)
    BY DEF TypeOK, IsQueues
  <2>2. RxOpen(d) /\ q[d] = chan[d] \o more[d]
    BY <1>3 DEF Here
  <2>3. chan'[d] = q[d] \o answer
    <3>1. CASE d = c
      <4>1. chan'[d] = Append(q[d], m)
        BY <2>2, <3>1 DEF Respond, IsQueues
      <4>2. Append(q[d], m) = q[d] \o <<m>>
        BY <2>1
      <4> QED BY <3>1, <4>1, <4>2
    <3>2. CASE d # c
      <4>1. chan'[d] = q[d]
        BY <3>2 DEF Respond, IsQueues
      <4>2. q[d] \o <<>> = q[d]
        BY <2>1
      <4> QED BY <3>2, <4>1, <4>2
    <3> QED BY <3>1, <3>2
  <2> HIDE DEF answer
  <2>4. (chan[d] \o more[d]) \o answer = chan[d] \o (more[d] \o answer)
    BY <2>1, JoinsTheEnd
  <2>5. more[d] \o answer \in Seq(Messages)
    BY <2>1
  <2>6. chan'[d] = chan[d] \o (more[d] \o answer)
    BY <2>2, <2>3, <2>4
  <2>7. Stream(d)' = Stream(d) \o (more[d] \o answer)
    BY <1>3, <2>6, <2>5, QueueGrowsStream
  <2>8. Stream(d) \o (more[d] \o answer) = (Stream(d) \o more[d]) \o answer
    <3>1. Stream(d) \in Seq(Messages)
      BY StreamType
    <3> QED BY <2>1, <3>1, JoinsTheEnd
  <2>9. Stream(d)' = (Stream(d) \o more[d]) \o answer
    BY <2>7, <2>8
  <2> QED BY <2>9
<1> QED BY <1>1, <1>2, <1>3, Zenon DEF Extended

(* Nobody hears of an answer but the client it is for.                     *)
Answered(c, m) ==
    \A d \in Clients :
        /\ Here(d)' <=> Here(d)
        /\ Status(d)' = Status(d)
        /\ Stream(d)' = IF Here(d) /\ d = c THEN Append(Stream(d), m) ELSE Stream(d)

(* A publication of c on t goes to the subscribers of t that are here, and *)
(* then the author is answered.                                            *)
Announced(c, t, m) ==
    \A d \in Clients :
        /\ Here(d)' <=> Here(d)
        /\ Status(d)' = Status(d)
        /\ Stream(d)' =
             IF Here(d)
             THEN (Stream(d) \o Copies(Note(t, Len(published) + 1), Entry(topics, t)[d]))
                    \o (IF d = c THEN <<m>> ELSE <<>>)
             ELSE Stream(d)

(* Queuing an answer and nothing else.                                     *)
LEMMA AnswerStream ==
    ASSUME TypeOK, NEW c \in Clients, NEW m \in Messages, Respond(c, chan, m),
           UNCHANGED <<fwd, hand, wire, peer>>
    PROVE  Answered(c, m)
<1> DEFINE q == chan
           more == [d \in Clients |-> <<>>]
<1>1. more \in [Clients -> Seq(Messages)]
  OBVIOUS
<1>2. \A d \in Clients : more[d] = <<>>
  OBVIOUS
<1>3. IsQueues(q) /\ \A d \in Clients : RxOpen(d) => q[d] = chan[d] \o more[d]
  BY DEF TypeOK, IsQueues
<1>4. Answering(c, m, q, more)
  BY <1>1, <1>3 DEF Answering
<1> HIDE DEF more, q
<1>5. \A d \in Clients : Extended(d, c, m, <<>>)
  BY <1>2, <1>4, RespondStream, Zenon
<1>6. \A d \in Clients :
        /\ Stream(d) \o <<>> = Stream(d)
        /\ Stream(d) \o <<m>> = Append(Stream(d), m)
  <2> SUFFICES ASSUME NEW d \in Clients
               PROVE  Stream(d) \o <<>> = Stream(d) /\ Stream(d) \o <<m>> = Append(Stream(d), m)
    OBVIOUS
  <2>1. Stream(d) \in Seq(Messages)
    BY StreamType
  <2> QED BY <2>1
<1>7. ASSUME NEW d \in Clients
      PROVE  Stream(d)' = IF Here(d) /\ d = c THEN Append(Stream(d), m) ELSE Stream(d)
  <2>1. CASE Here(d) /\ d = c
    <3>1. Stream(d)' = (Stream(d) \o <<>>) \o <<m>>
      BY <1>5, <2>1, Zenon DEF Extended
    <3> QED BY <1>6, <2>1, <3>1, Zenon
  <2>2. CASE Here(d) /\ d # c
    <3>1. Stream(d)' = (Stream(d) \o <<>>) \o <<>>
      BY <1>5, <2>2, Zenon DEF Extended
    <3> QED BY <1>6, <2>2, <3>1, Zenon
  <2>3. CASE ~Here(d)
    BY <1>5, <2>3, Zenon DEF Extended
  <2> QED BY <2>1, <2>2, <2>3, Zenon
<1> QED BY <1>5, <1>7, Zenon DEF Answered, Extended

(* publish(): the notice joins every open queue, before the answer.        *)
LEMMA PublishStream ==
    ASSUME TypeOK, NEW c \in Clients, NEW t \in Topics, NEW id \in 0..IdMax, Publish(c, t, id),
           UNCHANGED <<fwd, hand, wire, peer>>
    PROVE  Announced(c, t, Reply(id, "published"))
<1> DEFINE note == Note(t, Len(published) + 1)
           q == Delivered(topics, chan, t, OpenClients, note)
           more == [d \in Clients |-> Copies(note, Entry(topics, t)[d])]
<1>1. IsRegistry(topics) /\ IsQueues(chan)
  BY DEF TypeOK, IsRegistry, IsQueues
<1>2. note \in Messages
  <2>1. Len(published) + 1 \in Nat \ {0}
    BY DEF TypeOK
  <2> QED BY <2>1 DEF Note, Messages
<1>3. more \in [Clients -> Seq(Messages)]
  <2>1. \A d \in Clients : Entry(topics, t)[d] \in Nat
    BY <1>1, EntryType
  <2> QED BY <1>2, <2>1 DEF Copies
<1>4. IsQueues(q)
  BY <1>1, <1>2, DeliveredType
<1>5. \A d \in Clients : RxOpen(d) => q[d] = chan[d] \o more[d]
  BY DEF Delivered, OpenClients
<1>6. Answering(c, Reply(id, "published"), q, more)
  <2>1. Respond(c, q, Reply(id, "published")) /\ Reply(id, "published") \in Messages
    BY RepliesAreMessages DEF Publish
  <2> HIDE DEF q, more
  <2> QED BY <1>3, <1>4, <1>5, <2>1 DEF Answering
<1>7. \A d \in Clients : more[d] = Copies(note, Entry(topics, t)[d])
  OBVIOUS
<1> HIDE DEF q, more
<1>8. \A d \in Clients : Extended(d, c, Reply(id, "published"), Copies(note, Entry(topics, t)[d]))
  BY <1>6, <1>7, RespondStream, Zenon
<1> QED BY <1>8, Zenon DEF Announced, Extended

------------------------------------------------------------------------------
(* What every other step does to the streams.                              *)

(* A connection that has not been made has no sender in the registry, has  *)
(* seen nothing and asked nothing.                                         *)
FreshInv ==
    \A c \in Clients : reader[c] = "off" =>
        /\ peer[c] = "up" /\ ~Holds(topics, c)
        /\ wire[c] = <<>> /\ asked[c] = <<>>

Same(d) == (Here(d)' <=> Here(d)) /\ Status(d)' = Status(d) /\ Stream(d)' = Stream(d)

Quiet == \A d \in Clients : Same(d)

Arrives(c) == /\ Status(c) = "new" /\ Status(c)' = "here" /\ Here(c)'
              /\ Stream(c) = <<>> /\ Stream(c)' = <<>>
              /\ ~Holds(topics, c)
              /\ \A d \in Clients \ {c} : Same(d)

Leaves(c) == /\ Here(c) /\ Status(c)' = "left" /\ ~Here(c)'
             /\ \E n \in 0..Len(Stream(c)) : Stream(c)' = SubSeq(Stream(c), 1, n)
             /\ \A d \in Clients \ {c} : Same(d)

(* FreshInv holds at the start.                                            *)
LEMMA FreshInit == Init => FreshInv
BY DEF Init, FreshInv, Holds, NoTopics

(* FreshInv is inductive: only a client's own handler, which exists once   *)
(* the connection is made, puts its senders into the registry.             *)
LEMMA FreshStep == TypeOK /\ FreshInv /\ [Next]_vars => FreshInv'
<1> SUFFICES ASSUME TypeOK, FreshInv, [Next]_vars PROVE FreshInv'
  OBVIOUS
<1>1. CASE UNCHANGED vars
  BY <1>1 DEF FreshInv, vars
<1>2. ASSUME NEW c \in Clients, Request(c) \/ Node(c) PROVE FreshInv'
  <2>1. HandledBy(c)
    BY <1>2, RequestHandledBy, NodeHandledBy
  <2>2. reader[c] \in {"reading", "awaiting"} /\ peer' = peer /\ wire' = wire
        /\ \A d \in Clients \ {c} : Holds(topics', d) => Holds(topics, d)
    BY <2>1 DEF HandledBy, HandlerStep
  <2>3. PICK to \in {"reading", "awaiting", "joining", "panicked"} : reader' = [reader EXCEPT ![c] = to]
    BY <2>1 DEF HandledBy
  <2>4. \A d \in Clients \ {c} : asked'[d] = asked[d]
    BY <1>2 DEF TypeOK, Request, Node, NodeAnswers, NodeFails, HandleRefused, HandlePing,
                HandleSubscribe, HandleRelay, HandlePanic, HandleProposal, Reads
  <2> QED BY <2>2, <2>3, <2>4 DEF FreshInv, TypeOK
<1>3. ASSUME NEW c \in Clients, Connect(c) \/ Peer(c) PROVE FreshInv'
  BY <1>3 DEF FreshInv, TypeOK, Connect, Peer, PeerLeaves, PeerStalls, PeerResumes
<1>4. ASSUME NEW c \in Clients, Closing(c) \/ ReaderSeesProtocolError(c) PROVE FreshInv'
  BY <1>4 DEF FreshInv, TypeOK, Closing, ReaderSeesClose, ReaderSeesProtocolError, Join
<1>5. ASSUME NEW c \in Clients, Forward(c) PROVE FreshInv'
  BY <1>5 DEF FreshInv, TypeOK, Forward, ForwardTakes, ForwardEnds, ForwardSends, ForwardFails
<1> QED BY <1>1, <1>2, <1>3, <1>4, <1>5 DEF Next

(* A sequence is the longest of its prefixes.                              *)
LEMMA WholePrefix ==
    ASSUME NEW s \in Seq(Messages)
    PROVE  Len(s) \in 0..Len(s) /\ s = SubSeq(s, 1, Len(s))
OBVIOUS

(* What is written so far is a prefix of all there is to write.            *)
LEMMA WrittenPrefix ==
    ASSUME NEW s \in Seq(Messages), NEW t \in Seq(Messages)
    PROVE  Len(s) \in 0..Len(s \o t) /\ s = SubSeq(s \o t, 1, Len(s))
OBVIOUS

(* A new connection.                                                       *)
LEMMA ConnectEffect ==
    ASSUME TypeOK, FreshInv, NEW c \in Clients, Connect(c)
    PROVE  Arrives(c)
<1>1. fwd[c] = "none" /\ peer[c] = "up" /\ ~Holds(topics, c) /\ wire[c] = <<>>
  BY DEF Connect, TypeOK, FreshInv
<1>2. chan[c] = <<>> /\ hand[c] = <<>>
  BY <1>1 DEF TypeOK
<1>3. fwd' = [fwd EXCEPT ![c] = "recv"] /\ UNCHANGED <<chan, hand, wire, peer>>
  BY DEF Connect
<1>4. fwd'[c] = "recv" /\ \A d \in Clients \ {c} : fwd'[d] = fwd[d]
  BY <1>3 DEF TypeOK
<1>5. Status(c) = "new" /\ ~Here(c) /\ Stream(c) = <<>>
  BY <1>1 DEF Status, Here, RxOpen, Stream
<1>6. Here(c)' /\ Status(c)' = "here"
  BY <1>1, <1>3, <1>4 DEF Status, Here, RxOpen
<1>7. Stream(c)' = <<>>
  <2>1. Stream(c)' = wire[c] \o (hand[c] \o chan[c])
    BY <1>3, <1>6 DEF Stream, Queued
  <2> QED BY <1>1, <1>2, <2>1
<1>8. ASSUME NEW d \in Clients \ {c} PROVE Same(d)
  BY <1>3, <1>4, SameStream DEF Same
<1> QED BY <1>1, <1>5, <1>6, <1>7, <1>8 DEF Arrives

(* A client that breaks off loses what was not written to it yet.          *)
LEMMA PeerEffect ==
    ASSUME TypeOK, NEW c \in Clients, Peer(c)
    PROVE  Quiet \/ Leaves(c)
<1>1. UNCHANGED <<chan, fwd, hand, wire>> /\ \A d \in Clients \ {c} : peer'[d] = peer[d]
  BY DEF Peer, PeerLeaves, PeerStalls, PeerResumes, TypeOK
<1>2. ASSUME NEW d \in Clients \ {c} PROVE Same(d)
  BY <1>1, <1>2, SameStream DEF Same
<1>3. CASE PeerStalls(c) \/ PeerResumes(c)
  <2>1. peer[c] # "gone" /\ peer'[c] # "gone"
    BY <1>3 DEF PeerStalls, PeerResumes, TypeOK
  <2>2. Same(c)
    BY <1>1, <2>1 DEF Same, Here, RxOpen, Status, Stream, Queued
  <2> QED BY <1>2, <2>2 DEF Quiet
<1>4. CASE PeerLeaves(c) /\ ~RxOpen(c)
  <2>1. Same(c)
    BY <1>1, <1>4 DEF Same, Here, RxOpen, Status, Stream
  <2> QED BY <1>2, <2>1 DEF Quiet
<1>5. CASE PeerLeaves(c) /\ RxOpen(c)
  <2>1. peer[c] # "gone" /\ peer'[c] = "gone"
    BY <1>5 DEF PeerLeaves, TypeOK
  <2>2. Here(c) /\ ~Here(c)' /\ fwd[c] \in {"recv", "send"}
    BY <1>5, <2>1 DEF Here, RxOpen
  <2>3. Status(c)' = "left"
    BY <1>1, <2>2 DEF Status
  <2>4. Stream(c) = wire[c] \o Queued(c) /\ Stream(c)' = wire[c]
    BY <1>1, <2>2 DEF Stream
  <2>5. wire[c] \in Seq(Messages) /\ Queued(c) \in Seq(Messages)
    BY StreamType DEF TypeOK
  <2>6. Len(wire[c]) \in 0..Len(Stream(c)) /\ Stream(c)' = SubSeq(Stream(c), 1, Len(wire[c]))
    BY <2>4, <2>5, WrittenPrefix
  <2> QED BY <1>2, <2>2, <2>3, <2>6 DEF Leaves
<1> QED BY <1>3, <1>4, <1>5 DEF Peer

(* The forward task moves messages along the stream; where it ends on a    *)
(* connected client, the stream is complete.                               *)
LEMMA ForwardEffect ==
    ASSUME TypeOK, NEW c \in Clients, Forward(c)
    PROVE  Quiet \/ Leaves(c)
<1>1. \A d \in Clients \ {c} : /\ fwd'[d] = fwd[d] /\ chan'[d] = chan[d]
                               /\ hand'[d] = hand[d] /\ wire'[d] = wire[d]
  BY DEF TypeOK, Forward, ForwardTakes, ForwardEnds, ForwardSends, ForwardFails
<1>2. peer' = peer
  BY DEF Forward, ForwardTakes, ForwardEnds, ForwardSends, ForwardFails
<1>3. ASSUME NEW d \in Clients \ {c} PROVE Same(d)
  BY <1>1, <1>2, <1>3, SameStream DEF Same
<1>4. wire[c] \in Seq(Messages) /\ hand[c] \in Seq(Messages) /\ chan[c] \in Seq(Messages)
  BY DEF TypeOK
<1>5. CASE ForwardTakes(c)
  <2>1. hand[c] = <<>> /\ chan[c] # <<>>
    BY <1>5 DEF ForwardTakes, TypeOK
  <2>2. hand'[c] = <<Head(chan[c])>> /\ chan'[c] = Tail(chan[c]) /\ fwd'[c] = "send" /\ wire' = wire
    BY <1>5 DEF ForwardTakes, TypeOK
  <2>3. <<Head(chan[c])>> \o Tail(chan[c]) = <<>> \o chan[c]
    BY <1>4, <2>1
  <2>4. Queued(c)' = Queued(c)
    BY <2>1, <2>2, <2>3 DEF Queued
  <2>5. Same(c)
    BY <1>2, <1>5, <2>2, <2>4 DEF ForwardTakes, Same, Here, RxOpen, Status, Stream
  <2> QED BY <1>3, <2>5 DEF Quiet
<1>6. CASE ForwardEnds(c)
  <2>1. hand[c] = <<>> /\ chan[c] = <<>> /\ fwd[c] = "recv" /\ fwd'[c] = "done" /\ wire' = wire
    BY <1>6 DEF ForwardEnds, TypeOK
  <2>2. wire[c] \o (<<>> \o <<>>) = wire[c]
    BY <1>4
  <2>3. Stream(c) = wire[c] /\ Stream(c)' = wire[c] /\ ~Here(c)' /\ Status(c)' = "left"
    BY <2>1, <2>2 DEF Stream, Queued, Here, RxOpen, Status
  <2>4. CASE Here(c)
    <3>1. Len(wire[c]) \in 0..Len(Stream(c)) /\ Stream(c)' = SubSeq(Stream(c), 1, Len(wire[c]))
      BY <1>4, <2>3, WholePrefix
    <3> QED BY <1>3, <2>3, <2>4, <3>1 DEF Leaves
  <2>5. CASE ~Here(c)
    <3>1. Status(c) = "left"
      BY <2>1, <2>5 DEF Status
    <3> QED BY <1>3, <2>3, <2>5, <3>1 DEF Quiet, Same
  <2> QED BY <2>4, <2>5
<1>7. CASE ForwardSends(c) /\ peer[c] = "up"
  <2>1. /\ fwd[c] = "send" /\ fwd'[c] = "recv" /\ hand'[c] = <<>> /\ chan'[c] = chan[c]
        /\ wire'[c] = wire[c] \o hand[c]
    BY <1>7 DEF ForwardSends, TypeOK
  <2>2. wire[c] \o (hand[c] \o chan[c]) = (wire[c] \o hand[c]) \o (<<>> \o chan[c])
    <3>1. <<>> \o chan[c] = chan[c]
      BY <1>4
    <3>2. wire[c] \o (hand[c] \o chan[c]) = (wire[c] \o hand[c]) \o chan[c]
      BY <1>4, JoinsTheEnd
    <3> QED BY <3>1, <3>2
  <2>3. Here(c) /\ Here(c)'
    BY <1>2, <1>7, <2>1 DEF Here, RxOpen
  <2>4. Stream(c)' = Stream(c)
    BY <2>1, <2>2, <2>3 DEF Stream, Queued
  <2> QED BY <1>3, <2>3, <2>4 DEF Quiet, Same, Status
<1>8. CASE ForwardSends(c) /\ peer[c] = "gone"
  <2>1. fwd[c] = "send" /\ fwd'[c] = "recv" /\ wire' = wire
    BY <1>8 DEF ForwardSends, TypeOK
  <2>2. ~Here(c) /\ ~Here(c)'
    BY <1>2, <1>8 DEF Here
  <2> QED BY <1>3, <2>1, <2>2 DEF Quiet, Same, Status, Stream
<1>9. CASE ForwardFails(c)
  <2>1. fwd[c] = "send" /\ fwd'[c] = "done" /\ wire' = wire /\ peer[c] = "gone"
    BY <1>9 DEF ForwardFails, TypeOK
  <2>2. ~Here(c) /\ ~Here(c)'
    BY <1>2, <2>1 DEF Here
  <2> QED BY <1>3, <2>1, <2>2 DEF Quiet, Same, Status, Stream
<1> QED BY <1>5, <1>6, <1>7, <1>8, <1>9 DEF Forward, ForwardSends

(* A handler that stops reading, panics or is joined is not heard.         *)
LEMMA SilentEffect ==
    ASSUME TypeOK, NEW c \in Clients,
           Closing(c) \/ ReaderSeesProtocolError(c) \/ NodeFails(c)
    PROVE  Quiet
<1>1. UNCHANGED <<chan, fwd, hand, wire, peer>>
  BY DEF Closing, ReaderSeesClose, ReaderSeesProtocolError, Join, NodeFails
<1> QED BY <1>1, SameStream DEF Quiet, Same

(* What a frame that is handled can lead to: it is left open, refused,     *)
(* answered, or published and answered.                                    *)
LeftOpen(c, f) ==
    /\ Decide(f).act \in {"panic", "propose"}
    /\ Quiet /\ UNCHANGED <<topics, published>>
RefusedWith(c, f, code) ==
    /\ \/ Decide(f).act = "refuse" /\ code = Decide(f).code
       \/ Decide(f).act = "propose" /\ code = Code("Liquidex")
                                    /\ Decide(f).proposal.check # "valid"
    /\ code \in Codes
    /\ Answered(c, Reply(0, code)) /\ UNCHANGED <<topics, published>>
Pinged(c, f) ==
    /\ Decide(f).act = "pong" /\ Decide(f).id \in 0..IdMax
    /\ Answered(c, Reply(Decide(f).id, "pong")) /\ UNCHANGED <<topics, published>>
Subscribes(c, f) ==
    /\ Decide(f).act = "subscribe" /\ Decide(f).id \in 0..IdMax /\ Decide(f).topic \in Topics
    /\ Answered(c, Reply(Decide(f).id, "subscribed"))
    /\ topics' = Subscribed(topics, Decide(f).topic, c) /\ UNCHANGED published
Publishes(c, f, t) ==
    /\ \/ Decide(f).act = "relay" /\ t = Decide(f).topic
       \/ Decide(f).act = "propose" /\ t = TopicFromProposal(Decide(f).proposal)
                                    /\ Decide(f).proposal.check = "valid"
    /\ Decide(f).id \in 0..IdMax /\ t \in Topics
    /\ Announced(c, t, Reply(Decide(f).id, "published"))
    /\ topics' = Retained(topics, t, OpenClients)
    /\ published' = Append(published, [topic |-> t, by |-> c])

Outcome(c, f) == \/ LeftOpen(c, f)
                 \/ \E code \in Codes : RefusedWith(c, f, code)
                 \/ Pinged(c, f)
                 \/ Subscribes(c, f)
                 \/ \E t \in Topics : Publishes(c, f, t)

(* Every frame that is read has one of these outcomes.                     *)
LEMMA RequestEffect ==
    ASSUME TypeOK, NEW c \in Clients, NEW f \in Frames,
           \/ HandleRefused(c, f) \/ HandlePing(c, f) \/ HandleSubscribe(c, f)
           \/ HandleRelay(c, f) \/ HandlePanic(c, f) \/ HandleProposal(c, f)
    PROVE  Outcome(c, f)
<1>1. UNCHANGED <<fwd, hand, wire, peer>>
  BY DEF HandleRefused, HandlePing, HandleSubscribe, HandleRelay, HandlePanic, HandleProposal, taskVars
<1>2. Decide(f).act = "refuse" => Decide(f).code \in Codes
  BY DecideShape DEF Refused
<1>3. Decide(f).act \in {"pong", "subscribe", "relay", "propose"} => Decide(f).id \in 0..IdMax
  BY DecideShape DEF Refused
<1>4. CASE HandleRefused(c, f)
  <2>1. Decide(f).act = "refuse" /\ Decide(f).code \in Codes
    BY <1>2, <1>4 DEF HandleRefused
  <2>2. Reply(0, Decide(f).code) \in Messages
    BY <2>1, IdMaxAssumption, RepliesAreMessages
  <2>3. Respond(c, chan, Reply(0, Decide(f).code)) /\ UNCHANGED <<topics, published>>
    BY <1>4 DEF HandleRefused
  <2>4. Answered(c, Reply(0, Decide(f).code))
    BY <1>1, <2>2, <2>3, AnswerStream
  <2> QED BY <2>1, <2>3, <2>4 DEF RefusedWith, Outcome
<1>5. CASE HandlePing(c, f)
  <2>1. Decide(f).act = "pong" /\ Decide(f).id \in 0..IdMax
    BY <1>3, <1>5 DEF HandlePing
  <2>2. Reply(Decide(f).id, "pong") \in Messages
    BY <2>1, RepliesAreMessages
  <2>3. Respond(c, chan, Reply(Decide(f).id, "pong")) /\ UNCHANGED <<topics, published>>
    BY <1>5 DEF HandlePing
  <2>4. Answered(c, Reply(Decide(f).id, "pong"))
    BY <1>1, <2>2, <2>3, AnswerStream
  <2> QED BY <2>1, <2>3, <2>4 DEF Pinged, Outcome
<1>6. CASE HandleSubscribe(c, f)
  <2>1. Decide(f).act = "subscribe" /\ Decide(f).id \in 0..IdMax /\ Decide(f).topic \in Topics
    BY <1>3, <1>6, TopicsOfFrames DEF HandleSubscribe
  <2>2. Reply(Decide(f).id, "subscribed") \in Messages
    BY <2>1, RepliesAreMessages
  <2>3. /\ Respond(c, chan, Reply(Decide(f).id, "subscribed")) /\ UNCHANGED published
        /\ topics' = Subscribed(topics, Decide(f).topic, c)
    BY <1>6 DEF HandleSubscribe
  <2>4. Answered(c, Reply(Decide(f).id, "subscribed"))
    BY <1>1, <2>2, <2>3, AnswerStream
  <2> QED BY <2>1, <2>3, <2>4 DEF Subscribes, Outcome
<1>7. CASE HandleRelay(c, f)
  <2>1. Decide(f).act = "relay" /\ Decide(f).id \in 0..IdMax /\ Decide(f).topic \in Topics
    BY <1>3, <1>7, TopicsOfFrames DEF HandleRelay
  <2>2. Publish(c, Decide(f).topic, Decide(f).id)
    BY <1>7 DEF HandleRelay
  <2>3. Announced(c, Decide(f).topic, Reply(Decide(f).id, "published"))
    BY <1>1, <2>1, <2>2, PublishStream
  <2>4. /\ topics' = Retained(topics, Decide(f).topic, OpenClients)
        /\ published' = Append(published, [topic |-> Decide(f).topic, by |-> c])
    BY <2>2 DEF Publish
  <2> QED BY <2>1, <2>3, <2>4 DEF Publishes, Outcome
<1>8. CASE HandlePanic(c, f)
  <2>1. Decide(f).act = "panic" /\ UNCHANGED <<topics, published, chan>>
    BY <1>8 DEF HandlePanic
  <2>2. Quiet
    BY <1>1, <2>1, SameStream DEF Quiet, Same
  <2> QED BY <2>1, <2>2 DEF LeftOpen, Outcome
<1>9. CASE HandleProposal(c, f) /\ Decide(f).proposal.check = "no_needed_tx"
  <2>1. /\ Decide(f).act = "propose" /\ Respond(c, chan, Reply(0, Code("Liquidex")))
        /\ UNCHANGED <<topics, published>> /\ Decide(f).proposal.check # "valid"
    BY <1>9 DEF HandleProposal
  <2>2. Code("Liquidex") \in Codes
    BY DEF Code, Codes
  <2>3. Reply(0, Code("Liquidex")) \in Messages
    BY <2>2, IdMaxAssumption, RepliesAreMessages
  <2>4. Answered(c, Reply(0, Code("Liquidex")))
    BY <1>1, <2>1, <2>3, AnswerStream
  <2> QED BY <2>1, <2>2, <2>4 DEF RefusedWith, Outcome
<1>10. CASE HandleProposal(c, f) /\ Decide(f).proposal.check # "no_needed_tx"
  <2>1. Decide(f).act = "propose" /\ UNCHANGED <<topics, published, chan>>
    BY <1>10 DEF HandleProposal
  <2>2. Quiet
    BY <1>1, <2>1, SameStream DEF Quiet, Same
  <2> QED BY <2>1, <2>2 DEF LeftOpen, Outcome
<1> QED BY <1>4, <1>5, <1>6, <1>7, <1>8, <1>9, <1>10

(* The proposal a handler waits for the node with.                         *)
LEMMA PendingFrame ==
    ASSUME TypeOK, NEW c \in Clients, reader[c] = "awaiting"
    PROVE  Head(pending[c]) \in Frames /\ Decide(Head(pending[c])).act = "propose"
<1>1. /\ pending[c] \in Seq(Frames) /\ Len(pending[c]) = 1
      /\ \A i \in DOMAIN pending[c] : Decide(pending[c][i]).act = "propose"
  BY DEF TypeOK
<1>2. Head(pending[c]) = pending[c][1] /\ 1 \in DOMAIN pending[c]
  BY <1>1
<1> QED BY <1>1, <1>2

(* The node's answer: the proposal that waited is published or refused.    *)
LEMMA NodeEffect ==
    ASSUME TypeOK, NEW c \in Clients, NodeAnswers(c)
    PROVE  \/ \E code \in Codes : RefusedWith(c, Head(pending[c]), code)
           \/ \E t \in Topics : Publishes(c, Head(pending[c]), t)
<1> DEFINE f == Head(pending[c])
<1>1. f \in Frames /\ Decide(f).act = "propose"
  BY PendingFrame DEF NodeAnswers
<1>2. UNCHANGED <<fwd, hand, wire, peer>>
  BY DEF NodeAnswers
<1> HIDE DEF f
<1>3. Decide(f).id \in 0..IdMax /\ TopicFromProposal(Decide(f).proposal) \in Topics
  BY <1>1, DecideShape, TopicsOfFrames DEF Refused
<1>4. CASE /\ Publish(c, TopicFromProposal(Decide(f).proposal), Decide(f).id)
           /\ Decide(f).proposal.check = "valid"
  <2>1. Announced(c, TopicFromProposal(Decide(f).proposal), Reply(Decide(f).id, "published"))
    BY <1>2, <1>3, <1>4, PublishStream
  <2>2. /\ topics' = Retained(topics, TopicFromProposal(Decide(f).proposal), OpenClients)
        /\ published' = Append(published, [topic |-> TopicFromProposal(Decide(f).proposal), by |-> c])
    BY <1>4 DEF Publish
  <2>3. Publishes(c, f, TopicFromProposal(Decide(f).proposal))
    BY <1>1, <1>3, <1>4, <2>1, <2>2 DEF Publishes
  <2> QED BY <1>3, <2>3 DEF f
<1>5. CASE /\ Respond(c, chan, Reply(0, Code("Liquidex"))) /\ UNCHANGED <<topics, published>>
           /\ Decide(f).proposal.check # "valid"
  <2>1. Code("Liquidex") \in Codes
    BY DEF Code, Codes
  <2>2. Reply(0, Code("Liquidex")) \in Messages
    BY <2>1, IdMaxAssumption, RepliesAreMessages
  <2>3. Answered(c, Reply(0, Code("Liquidex")))
    BY <1>2, <1>5, <2>2, AnswerStream
  <2>4. RefusedWith(c, f, Code("Liquidex"))
    BY <1>1, <1>5, <2>1, <2>3 DEF RefusedWith
  <2> QED BY <2>1, <2>4 DEF f
<1> QED BY <1>4, <1>5 DEF NodeAnswers, Validates, f

(* Every step of the relay, as the clients see it.                         *)
LEMMA StepEffect ==
    ASSUME TypeOK, FreshInv, [Next]_vars
    PROVE  \/ /\ UNCHANGED <<topics, asked, published>>
              /\ Quiet \/ \E c \in Clients : Arrives(c) \/ Leaves(c)
           \/ \E c \in Clients, f \in Frames : Reads(c, f) /\ Outcome(c, f)
           \/ \E c \in Clients : /\ NodeAnswers(c)
                                 /\ Outcome(c, Head(pending[c]))
<1>1. CASE UNCHANGED vars
  BY <1>1, SameStream DEF vars, Quiet, Same
<1>2. ASSUME NEW c \in Clients, Connect(c) PROVE Arrives(c) /\ UNCHANGED <<topics, asked, published>>
  BY <1>2, ConnectEffect DEF Connect
<1>3. ASSUME NEW c \in Clients, Peer(c)
      PROVE (Quiet \/ Leaves(c)) /\ UNCHANGED <<topics, asked, published>>
  BY <1>3, PeerEffect DEF Peer, PeerLeaves, PeerStalls, PeerResumes
<1>4. ASSUME NEW c \in Clients, Forward(c)
      PROVE (Quiet \/ Leaves(c)) /\ UNCHANGED <<topics, asked, published>>
  BY <1>4, ForwardEffect DEF Forward, ForwardTakes, ForwardEnds, ForwardSends, ForwardFails
<1>5. ASSUME NEW c \in Clients, Closing(c) \/ ReaderSeesProtocolError(c) \/ NodeFails(c)
      PROVE Quiet /\ UNCHANGED <<topics, asked, published>>
  BY <1>5, SilentEffect DEF Closing, ReaderSeesClose, ReaderSeesProtocolError, Join, NodeFails
<1>6. ASSUME NEW c \in Clients, Request(c)
      PROVE  \E f \in Frames : Reads(c, f) /\ Outcome(c, f)
  BY <1>6, RequestEffect DEF Request, HandleRefused, HandlePing, HandleSubscribe, HandleRelay,
                             HandlePanic, HandleProposal
<1>7. ASSUME NEW c \in Clients, NodeAnswers(c) PROVE Outcome(c, Head(pending[c]))
  BY <1>7, NodeEffect DEF Outcome
<1> QED BY <1>1, <1>2, <1>3, <1>4, <1>5, <1>6, <1>7 DEF Next, Node

------------------------------------------------------------------------------
(* StreamOrder.  The inductive invariant adds that no notice is newer than *)
(* the last publication, so that the next one goes behind them all.        *)

Ordered(s, n) ==
    /\ \A i \in DOMAIN s : s[i].kind = "note" => s[i].n <= n
    /\ \A i, j \in DOMAIN s :
          i < j /\ s[i].kind = "note" /\ s[j].kind = "note" => s[i].n <= s[j].n

OrderInv == \A c \in Clients : Ordered(Stream(c), Len(published))

(* A message that is a notice has a number.                                *)
LEMMA NoteNumber ==
    ASSUME NEW m \in Messages
    PROVE  /\ m.kind \in {"note", "reply"}
           /\ m.kind = "note" => m.n \in Nat \ {0}
BY DEF Messages, Replies

(* The same for the members of a sequence of messages.                     *)
LEMMA NoteNumbers ==
    ASSUME NEW s \in Seq(Messages), NEW i \in DOMAIN s, s[i].kind = "note"
    PROVE  s[i].n \in Nat
<1>1. s[i] \in Messages
  OBVIOUS
<1> QED BY <1>1, NoteNumber

(* A stream that breaks off stays in order.                                *)
LEMMA OrderedPrefix ==
    ASSUME NEW s \in Seq(Messages), NEW n, Ordered(s, n), NEW k \in 0..Len(s)
    PROVE  Ordered(SubSeq(s, 1, k), n)
BY DEF Ordered

(* An answer at the end leaves the notices in order.                       *)
LEMMA OrderedAnswer ==
    ASSUME NEW s \in Seq(Messages), NEW n, Ordered(s, n), NEW m \in Messages, m.kind = "reply"
    PROVE  Ordered(Append(s, m), n)
<1> DEFINE t == Append(s, m)
<1>1. DOMAIN t = 1..(Len(s) + 1) /\ DOMAIN s = 1..Len(s) /\ Len(s) \in Nat
  OBVIOUS
<1>2. \A i \in 1..Len(s) : t[i] = s[i]
  OBVIOUS
<1>3. t[Len(s) + 1].kind = "reply"
  OBVIOUS
<1> HIDE DEF t
<1>4. \A i \in DOMAIN t : t[i].kind = "note" => i \in DOMAIN s /\ t[i] = s[i]
  BY <1>1, <1>2, <1>3
<1>5. Ordered(t, n)
  BY <1>4 DEF Ordered
<1> QED BY <1>5 DEF t

(* Notices of the newest publication at the end leave them in order.       *)
LEMMA OrderedNotices ==
    ASSUME NEW s \in Seq(Messages), NEW n \in Nat, Ordered(s, n), NEW t \in Topics, NEW k \in Nat
    PROVE  Ordered(s \o Copies(Note(t, n + 1), k), n + 1)
<1> DEFINE u == s \o Copies(Note(t, n + 1), k)
<1>1. Copies(Note(t, n + 1), k) \in Seq({Note(t, n + 1)}) /\ Len(Copies(Note(t, n + 1), k)) = k
  BY DEF Copies
<1>2. DOMAIN u = 1..(Len(s) + k) /\ DOMAIN s = 1..Len(s) /\ Len(s) \in Nat
  BY <1>1
<1>3. \A i \in 1..Len(s) : u[i] = s[i]
  BY <1>1
<1>4. \A i \in (Len(s) + 1)..(Len(s) + k) : u[i] = Note(t, n + 1)
  BY DEF Copies
<1>5. Note(t, n + 1).n = n + 1
  BY DEF Note
<1> HIDE DEF u
<1>6. \A i \in DOMAIN u : \/ i \in DOMAIN s /\ u[i] = s[i]
                          \/ i > Len(s) /\ u[i].n = n + 1
  BY <1>2, <1>3, <1>4, <1>5
<1>7. \A i \in DOMAIN s : s[i].kind = "note" => s[i].n \in Nat /\ s[i].n <= n
  BY NoteNumbers DEF Ordered
<1>8. \A i \in DOMAIN u : u[i].kind = "note" => u[i].n <= n + 1
  BY <1>6, <1>7
<1>9. ASSUME NEW i \in DOMAIN u, NEW j \in DOMAIN u, i < j, u[i].kind = "note", u[j].kind = "note"
      PROVE  u[i].n <= u[j].n
  <2>1. CASE u[j].n = n + 1
    BY <1>8, <1>9, <2>1
  <2>2. CASE j \in DOMAIN s /\ u[j] = s[j]
    <3>1. i \in DOMAIN s /\ u[i] = s[i]
      BY <1>2, <1>6, <1>9, <2>2
    <3> QED BY <1>9, <2>2, <3>1 DEF Ordered
  <2> QED BY <1>6, <2>1, <2>2
<1>10. Ordered(u, n + 1)
  BY <1>8, <1>9 DEF Ordered
<1> QED BY <1>10 DEF u

(* Publications elsewhere do not unsettle a stream.                        *)
LEMMA OrderedLater ==
    ASSUME NEW s \in Seq(Messages), NEW n \in Nat, Ordered(s, n)
    PROVE  Ordered(s, n + 1)
<1>1. \A i \in DOMAIN s : s[i].kind = "note" => s[i].n \in Nat /\ s[i].n <= n
  BY NoteNumbers DEF Ordered
<1> QED BY <1>1 DEF Ordered

(* A stream after notices of a publication, and perhaps an answer.         *)
LEMMA OrderedAnnounced ==
    ASSUME NEW s \in Seq(Messages), NEW n \in Nat, Ordered(s, n), NEW t \in Topics, NEW k \in Nat,
           NEW m \in Messages, m.kind = "reply", NEW b \in BOOLEAN
    PROVE  Ordered((s \o Copies(Note(t, n + 1), k)) \o (IF b THEN <<m>> ELSE <<>>), n + 1)
<1> DEFINE u == s \o Copies(Note(t, n + 1), k)
<1>1. Ordered(u, n + 1)
  BY OrderedNotices
<1>2. u \in Seq(Messages)
  <2>1. Note(t, n + 1) \in Messages
    BY DEF Note, Messages
  <2> QED BY <2>1 DEF Copies
<1> HIDE DEF u
<1>3. CASE b
  <2>1. u \o <<m>> = Append(u, m)
    BY <1>2
  <2>2. Ordered(Append(u, m), n + 1)
    BY <1>1, <1>2, OrderedAnswer
  <2> QED BY <1>3, <2>1, <2>2 DEF u
<1>4. CASE ~b
  <2>1. u \o <<>> = u
    BY <1>2
  <2> QED BY <1>1, <1>4, <2>1 DEF u
<1> QED BY <1>3, <1>4

(* No publication, no notice at the start.                                 *)
LEMMA OrderInit == Init => OrderInv
<1> SUFFICES ASSUME Init, NEW c \in Clients PROVE Ordered(Stream(c), Len(published))
  BY DEF OrderInv
<1>1. Stream(c) = <<>>
  BY DEF Init, Stream, Here, RxOpen
<1> QED BY <1>1 DEF Ordered

(* What a request does keeps the streams in order.                         *)
LEMMA OrderOutcome ==
    ASSUME TypeOK, OrderInv, NEW c \in Clients, NEW f \in Frames, Outcome(c, f)
    PROVE  OrderInv'
<1> SUFFICES ASSUME NEW d \in Clients PROVE Ordered(Stream(d)', Len(published'))
  BY DEF OrderInv
<1>1. Stream(d) \in Seq(Messages) /\ Ordered(Stream(d), Len(published)) /\ Len(published) \in Nat
  BY StreamType DEF OrderInv, TypeOK
<1>2. CASE LeftOpen(c, f)
  BY <1>1, <1>2 DEF LeftOpen, Quiet, Same
<1>3. ASSUME NEW m \in Messages, m.kind = "reply", Answered(c, m), published' = published
      PROVE  Ordered(Stream(d)', Len(published'))
  <2>1. Ordered(Append(Stream(d), m), Len(published))
    BY <1>1, <1>3, OrderedAnswer
  <2> QED BY <1>1, <1>3, <2>1 DEF Answered
<1>4. ASSUME NEW code \in Codes, RefusedWith(c, f, code)
      PROVE  Ordered(Stream(d)', Len(published'))
  <2>1. Reply(0, code) \in Messages /\ Reply(0, code).kind = "reply"
    BY IdMaxAssumption, RepliesAreMessages DEF Reply
  <2> QED BY <1>3, <1>4, <2>1 DEF RefusedWith
<1>5. CASE Pinged(c, f)
  <2>1. Reply(Decide(f).id, "pong") \in Messages /\ Reply(Decide(f).id, "pong").kind = "reply"
    BY <1>5, RepliesAreMessages DEF Reply, Pinged
  <2> QED BY <1>3, <1>5, <2>1 DEF Pinged
<1>6. CASE Subscribes(c, f)
  <2>1. Reply(Decide(f).id, "subscribed") \in Messages /\ Reply(Decide(f).id, "subscribed").kind = "reply"
    BY <1>6, RepliesAreMessages DEF Reply, Subscribes
  <2> QED BY <1>3, <1>6, <2>1 DEF Subscribes
<1>7. ASSUME NEW t \in Topics, Publishes(c, f, t)
      PROVE  Ordered(Stream(d)', Len(published'))
  <2> DEFINE m == Reply(Decide(f).id, "published")
             k == Entry(topics, t)[d]
  <2>1. m \in Messages /\ m.kind = "reply"
    BY <1>7, RepliesAreMessages DEF Reply, Publishes
  <2>2. k \in Nat
    <3>1. IsRegistry(topics)
      BY DEF TypeOK, IsRegistry
    <3> QED BY <3>1, EntryType
  <2>3. Len(published') = Len(published) + 1
    BY <1>7 DEF Publishes, TypeOK
  <2>4. CASE Here(d)
    <3>1. Stream(d)' = (Stream(d) \o Copies(Note(t, Len(published) + 1), k))
                          \o (IF d = c THEN <<m>> ELSE <<>>)
      BY <1>7, <2>4 DEF Publishes, Announced
    <3> HIDE DEF m, k
    <3>2. (d = c) \in BOOLEAN
      OBVIOUS
    <3>3. Ordered((Stream(d) \o Copies(Note(t, Len(published) + 1), k))
                     \o (IF d = c THEN <<m>> ELSE <<>>), Len(published) + 1)
      BY <1>1, <2>1, <2>2, <3>2, OrderedAnnounced
    <3> QED BY <2>3, <3>1, <3>3
  <2>5. CASE ~Here(d)
    BY <1>1, <1>7, <2>3, <2>5, OrderedLater DEF Publishes, Announced
  <2> QED BY <2>4, <2>5
<1> QED BY <1>2, <1>4, <1>5, <1>6, <1>7 DEF Outcome

(* Every step keeps the streams in order.                                  *)
LEMMA OrderStep == TypeOK /\ FreshInv /\ OrderInv /\ [Next]_vars => OrderInv'
<1> SUFFICES ASSUME TypeOK, FreshInv, OrderInv, [Next]_vars PROVE OrderInv'
  OBVIOUS
<1>1. CASE Quiet /\ published' = published
  BY <1>1 DEF OrderInv, Quiet, Same
<1>2. ASSUME NEW c \in Clients, Arrives(c), published' = published PROVE OrderInv'
  <2>1. Ordered(Stream(c)', Len(published'))
    BY <1>2 DEF Arrives, Ordered
  <2> QED BY <1>2, <2>1 DEF OrderInv, Arrives, Same
<1>3. ASSUME NEW c \in Clients, Leaves(c), published' = published PROVE OrderInv'
  <2>1. Stream(c) \in Seq(Messages) /\ Ordered(Stream(c), Len(published))
    BY StreamType DEF OrderInv
  <2>2. Ordered(Stream(c)', Len(published'))
    BY <1>3, <2>1, OrderedPrefix DEF Leaves
  <2> QED BY <1>3, <2>2 DEF OrderInv, Leaves, Same
<1>4. ASSUME NEW c \in Clients, NEW f \in Frames, Outcome(c, f) PROVE OrderInv'
  BY <1>4, OrderOutcome
<1>5. \A c \in Clients : NodeAnswers(c) => Head(pending[c]) \in Frames
  BY PendingFrame DEF NodeAnswers
<1> QED BY <1>1, <1>2, <1>3, <1>4, <1>5, StepEffect

(* Every client hears the publications in the one order they were made in, *)
(* whatever the tasks, the other clients and the network do.               *)
THEOREM OrderCorrect == Spec => []StreamOrder
<1>1. Init => TypeOK /\ FreshInv /\ OrderInv
  BY InitType, FreshInit, OrderInit
<1>2. TypeOK /\ FreshInv /\ OrderInv /\ [Next]_vars => (TypeOK /\ FreshInv /\ OrderInv)'
  BY StepType, FreshStep, OrderStep
<1>3. OrderInv => StreamOrder
  BY DEF OrderInv, Ordered, StreamOrder
<1> QED BY <1>1, <1>2, <1>3, PTL DEF Spec

------------------------------------------------------------------------------
(* NotesAreEarned.  The inductive invariant follows a notice back: to the  *)
(* sender the registry holds, which its client asked for; to the           *)
(* publication, which its author asked for; to the proposal that waits for *)
(* the node, which was asked for as well.                                  *)

Asks(c, f) == \E i \in DOMAIN asked[c] : asked[c][i] = f

PendingAsked == \A c \in Clients : \A i \in DOMAIN pending[c] : Asks(c, pending[c][i])
SubscribersAsked ==
    \A c \in Clients, t \in Topics : Entry(topics, t)[c] > 0 => AskedFor(c, t)
PublishersAsked ==
    \A n \in DOMAIN published :
        published[n].by \in Clients /\ AskedToPublish(published[n].by, published[n].topic)

Sent(c, m) == /\ AskedFor(c, m.topic)
              /\ m.n \in DOMAIN published /\ published[m.n].topic = m.topic
NotesSent ==
    \A c \in Clients : \A i \in DOMAIN Stream(c) :
        Stream(c)[i].kind = "note" => Sent(c, Stream(c)[i])

EarnedInv == PendingAsked /\ SubscribersAsked /\ PublishersAsked /\ NotesSent

(* Only the unvalidated namespace is published to without a proposal.      *)
LEMMA RelayNamespace ==
    ASSUME NEW f, Decide(f).act = "relay"
    PROVE  Decide(f).topic.ns = "unvalidated"
<1>1. ASSUME NEW r, Dispatch(r).act = "relay" PROVE Dispatch(r).topic.ns = "unvalidated"
  <2>1. CASE r.method = "subscribe"
    BY <1>1, <2>1 DEF Dispatch, Refuse
  <2>2. CASE r.method = "publish" /\ r.params.key = "any"
    BY <2>2 DEF Dispatch, Unvalidated
  <2>3. CASE r.method = "publish" /\ r.params.key \in {"ping", "proposal"}
    BY <1>1, <2>3 DEF Dispatch
  <2>4. CASE ~(r.method = "subscribe") /\ ~(r.method = "publish" /\ r.params.key \in {"ping", "proposal", "any"})
    <3>1. Dispatch(r) = Refuse("InvalidParams")
      BY <2>4 DEF Dispatch
    <3> QED BY <1>1, <3>1 DEF Refuse
  <2> QED BY <2>1, <2>2, <2>3, <2>4
<1>2. CASE f.form = "garbage"
  BY <1>2 DEF Decide, Refuse
<1>3. CASE f.form # "garbage" /\ TryFrom(f).tag \in {"panic", "err"}
  BY <1>3 DEF Decide, Refuse
<1>4. CASE f.form # "garbage" /\ TryFrom(f).tag \notin {"panic", "err"}
  <2>1. Decide(f) = Dispatch(TryFrom(f).val)
    BY <1>4 DEF Decide
  <2> QED BY <1>1, <2>1
<1> QED BY <1>2, <1>3, <1>4

(* The histories only grow.                                                *)
Grown == /\ \A c \in Clients : \A i \in DOMAIN asked[c] :
               i \in DOMAIN asked'[c] /\ asked'[c][i] = asked[c][i]
         /\ \A n \in DOMAIN published :
               n \in DOMAIN published' /\ published'[n] = published[n]

(* What was asked stays asked, what was sent stays sent.                   *)
LEMMA GrownKeeps ==
    ASSUME Grown, NEW c \in Clients
    PROVE  /\ \A f : Asks(c, f) => Asks(c, f)'
           /\ \A t : AskedFor(c, t) => AskedFor(c, t)'
           /\ \A t : AskedToPublish(c, t) => AskedToPublish(c, t)'
           /\ \A m : Sent(c, m) => Sent(c, m)'
<1>1. \A i \in DOMAIN asked[c] : i \in DOMAIN asked'[c] /\ asked'[c][i] = asked[c][i]
  BY DEF Grown
<1>2. \A f : Asks(c, f) => Asks(c, f)'
  BY <1>1 DEF Asks
<1>3. \A t : AskedFor(c, t) => AskedFor(c, t)'
  BY <1>1 DEF AskedFor
<1>4. \A t : AskedToPublish(c, t) => AskedToPublish(c, t)'
  BY <1>1 DEF AskedToPublish
<1>5. \A m : Sent(c, m) => Sent(c, m)'
  BY <1>3 DEF Sent, Grown
<1> QED BY <1>2, <1>3, <1>4, <1>5

(* Every step only adds to the histories, and a frame read is asked.       *)
LEMMA GrownStep ==
    ASSUME TypeOK, FreshInv, [Next]_vars
    PROVE  Grown
<1>1. asked \in [Clients -> Seq(Frames)] /\ published \in Seq([topic : Topics, by : Clients \union {"node"}])
  BY DEF TypeOK
<1>2. ASSUME NEW c \in Clients, NEW f \in Frames, Reads(c, f), NEW d \in Clients, NEW i \in DOMAIN asked[d]
      PROVE  i \in DOMAIN asked'[d] /\ asked'[d][i] = asked[d][i]
  <2>1. asked' = [asked EXCEPT ![c] = Append(@, f)]
    BY <1>2 DEF Reads
  <2>2. CASE d = c
    <3>1. asked'[d] = Append(asked[d], f) /\ asked[d] \in Seq(Frames)
      BY <1>1, <2>1, <2>2
    <3> QED BY <1>2, <3>1
  <2>3. CASE d # c
    BY <1>1, <1>2, <2>1, <2>3
  <2> QED BY <2>2, <2>3
<1>3. ASSUME NEW c \in Clients, NEW f \in Frames, Outcome(c, f), NEW n \in DOMAIN published
      PROVE  n \in DOMAIN published' /\ published'[n] = published[n]
  <2>1. CASE published' = published
    BY <1>3, <2>1
  <2>2. ASSUME NEW t \in Topics, published' = Append(published, [topic |-> t, by |-> c])
        PROVE  n \in DOMAIN published' /\ published'[n] = published[n]
    BY <1>1, <1>3, <2>2
  <2>3. ASSUME NEW code, RefusedWith(c, f, code) PROVE published' = published
    BY <2>3 DEF RefusedWith
  <2>4. ASSUME NEW t, Publishes(c, f, t)
        PROVE  t \in Topics /\ published' = Append(published, [topic |-> t, by |-> c])
    BY <2>4 DEF Publishes
  <2>5. CASE LeftOpen(c, f) \/ Pinged(c, f) \/ Subscribes(c, f)
    BY <2>1, <2>5 DEF LeftOpen, Pinged, Subscribes
  <2> QED BY <1>3, <2>1, <2>2, <2>3, <2>4, <2>5 DEF Outcome
<1>4. \A c \in Clients : NodeAnswers(c) => Head(pending[c]) \in Frames /\ asked' = asked
  BY PendingFrame DEF NodeAnswers
<1>5. CASE UNCHANGED <<asked, published>>
  BY <1>5 DEF Grown
<1>6. ASSUME NEW c \in Clients, NEW f \in Frames, Outcome(c, f), Reads(c, f) \/ asked' = asked
      PROVE  Grown
  BY <1>2, <1>3, <1>6 DEF Grown
<1> QED BY <1>4, <1>5, <1>6, StepEffect

(* Reading a frame puts it in the history.                                 *)
LEMMA ReadsAsks ==
    ASSUME TypeOK, NEW c \in Clients, NEW f \in Frames, Reads(c, f)
    PROVE  Asks(c, f)'
<1>1. asked[c] \in Seq(Frames) /\ asked'[c] = Append(asked[c], f)
  BY DEF TypeOK, Reads
<1>2. Len(asked[c]) + 1 \in DOMAIN asked'[c] /\ asked'[c][Len(asked[c]) + 1] = f
  BY <1>1
<1> QED BY <1>2 DEF Asks

(* A proposal that waits was asked for.                                    *)
LEMMA PendingStep ==
    ASSUME TypeOK, FreshInv, PendingAsked, [Next]_vars
    PROVE  PendingAsked'
<1> SUFFICES ASSUME NEW d \in Clients, NEW i \in DOMAIN pending'[d],
                    NEW f, f = pending'[d][i]
             PROVE  Asks(d, f)'
  BY DEF PendingAsked, Asks
<1>1. CASE pending'[d] = pending[d]
  <2>1. Asks(d, f)
    BY <1>1 DEF PendingAsked
  <2> QED BY <2>1, GrownStep, GrownKeeps
<1>2. CASE pending'[d] = <<>>
  BY <1>2
<1>3. ASSUME NEW g \in Frames, Reads(d, g), pending'[d] = <<g>>
      PROVE  Asks(d, f)'
  <2>1. f = g
    BY <1>3
  <2> QED BY <1>3, <2>1, ReadsAsks
<1>4. pending \in [Clients -> Seq(Frames)]
  BY DEF TypeOK
<1>5. ASSUME NEW c \in Clients, Request(c)
      PROVE  pending'[d] = pending[d] \/ \E g \in Frames : Reads(d, g) /\ pending'[d] = <<g>>
  BY <1>4, <1>5 DEF Request, HandleRefused, HandlePing, HandleSubscribe, HandleRelay,
                    HandlePanic, HandleProposal, taskVars
<1>6. ASSUME NEW c \in Clients, Node(c)
      PROVE  pending'[d] = pending[d] \/ pending'[d] = <<>>
  BY <1>4, <1>6 DEF Node, NodeAnswers, NodeFails
<1>7. ASSUME NEW c \in Clients, Connect(c) \/ Peer(c) \/ Closing(c) \/ ReaderSeesProtocolError(c) \/ Forward(c)
      PROVE  pending' = pending
  BY <1>7 DEF Connect, Peer, PeerLeaves, PeerStalls, PeerResumes, Closing, ReaderSeesClose, Join,
              ReaderSeesProtocolError, Forward, ForwardTakes, ForwardEnds, ForwardSends, ForwardFails
<1> QED BY <1>1, <1>2, <1>3, <1>5, <1>6, <1>7 DEF Next, vars

(* The notices among the members of two sequences.                         *)
AllSent(c, s) == \A i \in DOMAIN s : s[i].kind = "note" => Sent(c, s[i])

(* Two sequences of notices sent make one.                                 *)
LEMMA AllSentConcat ==
    ASSUME NEW c, NEW s \in Seq(Messages), NEW t \in Seq(Messages), AllSent(c, s)', AllSent(c, t)'
    PROVE  AllSent(c, s \o t)'
<1> SUFFICES ASSUME NEW i \in DOMAIN (s \o t), (s \o t)[i].kind = "note"
             PROVE  Sent(c, (s \o t)[i])'
  BY DEF AllSent
<1>1. i \in 1..(Len(s) + Len(t)) /\ Len(s) \in Nat /\ Len(t) \in Nat
  OBVIOUS
<1>2. CASE i <= Len(s)
  <2>1. i \in DOMAIN s /\ (s \o t)[i] = s[i]
    BY <1>1, <1>2
  <2> QED BY <2>1 DEF AllSent
<1>3. CASE i > Len(s)
  <2>1. i - Len(s) \in DOMAIN t /\ (s \o t)[i] = t[i - Len(s)]
    BY <1>1, <1>3
  <2> QED BY <2>1 DEF AllSent
<1> QED BY <1>1, <1>2, <1>3

(* What was sent stays sent, stream by stream.                             *)
LEMMA AllSentKept ==
    ASSUME Grown, NEW c \in Clients, NEW s, AllSent(c, s)
    PROVE  AllSent(c, s)'
BY GrownKeeps DEF AllSent

(* An answer is not a notice.                                              *)
LEMMA AllSentAnswer ==
    ASSUME NEW c, NEW m, m.kind = "reply"
    PROVE  AllSent(c, <<m>>)' /\ AllSent(c, <<>>)'
BY DEF AllSent

(* The notices of a publication are sent to those who asked for its topic. *)
LEMMA AllSentNotices ==
    ASSUME NEW c, NEW t, NEW n, NEW k \in Nat, Sent(c, Note(t, n))'
    PROVE  AllSent(c, Copies(Note(t, n), k))'
BY DEF AllSent, Copies

(* What an answer adds to a stream.                                        *)
LEMMA SentAnswered ==
    ASSUME TypeOK, NotesSent, Grown, NEW c, NEW m \in Messages, m.kind = "reply", Answered(c, m),
           NEW d \in Clients, NEW s, s = Stream(d)'
    PROVE  AllSent(d, s)'
<1>1. PICK old : old = Stream(d)
  OBVIOUS
<1>2. old \in Seq(Messages) /\ AllSent(d, old)
  BY <1>1, StreamType DEF NotesSent, AllSent
<1>3. AllSent(d, old)' /\ AllSent(d, <<m>>)'
  BY <1>2, AllSentKept, AllSentAnswer
<1>4. <<m>> \in Seq(Messages) /\ Append(old, m) = old \o <<m>>
  BY <1>2
<1>5. AllSent(d, old \o <<m>>)'
  BY <1>2, <1>3, <1>4, AllSentConcat
<1>6. s = old \/ s = Append(old, m)
  BY <1>1 DEF Answered
<1> QED BY <1>3, <1>4, <1>5, <1>6

(* What a publication adds to a stream.                                    *)
LEMMA SentAnnounced ==
    ASSUME TypeOK, NotesSent, SubscribersAsked, Grown, NEW c, NEW f, NEW t \in Topics,
           Publishes(c, f, t), NEW d \in Clients, NEW s, s = Stream(d)'
    PROVE  AllSent(d, s)'
<1>1. PICK old, k, n, m : /\ old = Stream(d) /\ k = Entry(topics, t)[d] /\ n = Len(published) + 1
                          /\ m = Reply(Decide(f).id, "published")
  OBVIOUS
<1>2. old \in Seq(Messages) /\ AllSent(d, old)
  BY <1>1, StreamType DEF NotesSent, AllSent
<1>3. AllSent(d, old)'
  BY <1>2, AllSentKept
<1>4. k \in Nat
  <2>1. IsRegistry(topics)
    BY DEF TypeOK, IsRegistry
  <2> QED BY <1>1, <2>1, EntryType
<1>5. m \in Messages /\ m.kind = "reply"
  BY <1>1, RepliesAreMessages DEF Reply, Publishes
<1>6. Note(t, n) \in Messages /\ Note(t, n).topic = t /\ Note(t, n).n = n
  <2>1. n \in Nat \ {0}
    BY <1>1 DEF TypeOK
  <2> QED BY <2>1 DEF Note, Messages
<1>7. AllSent(d, Copies(Note(t, n), k))'
  <2>1. CASE k = 0
    BY <2>1 DEF AllSent, Copies
  <2>2. CASE k > 0
    <3>1. AskedFor(d, t)
      BY <1>1, <2>2 DEF SubscribersAsked
    <3>2. AskedFor(d, t)'
      BY <3>1, GrownKeeps
    <3>3. n \in DOMAIN published' /\ published'[n].topic = t
      BY <1>1 DEF Publishes, TypeOK
    <3>4. Sent(d, Note(t, n))'
      BY <1>6, <3>2, <3>3 DEF Sent
    <3> QED BY <1>4, <3>4, AllSentNotices
  <2> QED BY <1>4, <2>1, <2>2
<1>8. Copies(Note(t, n), k) \in Seq(Messages)
  BY <1>4, <1>6 DEF Copies
<1>9. PICK u \in Seq(Messages) : u = old \o Copies(Note(t, n), k)
  <2>1. ASSUME NEW x \in Seq(Messages), NEW y \in Seq(Messages) PROVE x \o y \in Seq(Messages)
    OBVIOUS
  <2>2. old \o Copies(Note(t, n), k) \in Seq(Messages)
    BY <1>2, <1>8, <2>1
  <2> QED BY <2>2
<1>10. AllSent(d, u)'
  BY <1>2, <1>3, <1>7, <1>8, <1>9, AllSentConcat
<1>11. s = old \/ s = u \o <<m>> \/ s = u \o <<>>
  BY <1>1, <1>9 DEF Publishes, Announced
<1>12. <<m>> \in Seq(Messages) /\ u \o <<>> = u
  BY <1>5, <1>9
<1>13. AllSent(d, u \o <<m>>)'
  BY <1>5, <1>10, <1>12, AllSentAnswer, AllSentConcat
<1> QED BY <1>3, <1>10, <1>11, <1>12, <1>13

(* What a request does leaves every notice asked for and published.        *)
LEMMA NotesOutcome ==
    ASSUME TypeOK, NotesSent, SubscribersAsked, Grown, NEW c \in Clients, NEW f \in Frames,
           Outcome(c, f)
    PROVE  NotesSent'
<1> SUFFICES ASSUME NEW d \in Clients, NEW s, s = Stream(d)'
             PROVE  AllSent(d, s)'
  BY DEF NotesSent, AllSent, Sent, AskedFor
<1>1. CASE LeftOpen(c, f)
  <2>1. s = Stream(d)
    BY <1>1 DEF LeftOpen, Quiet, Same
  <2>2. AllSent(d, s)
    BY <2>1 DEF NotesSent, AllSent
  <2> QED BY <2>2, AllSentKept
<1>2. ASSUME NEW code \in Codes, RefusedWith(c, f, code) PROVE AllSent(d, s)'
  <2>1. Reply(0, code) \in Messages /\ Reply(0, code).kind = "reply"
    BY IdMaxAssumption, RepliesAreMessages DEF Reply
  <2> QED BY <1>2, <2>1, SentAnswered DEF RefusedWith
<1>3. CASE Pinged(c, f)
  <2>1. Reply(Decide(f).id, "pong") \in Messages /\ Reply(Decide(f).id, "pong").kind = "reply"
    BY <1>3, RepliesAreMessages DEF Reply, Pinged
  <2> QED BY <1>3, <2>1, SentAnswered DEF Pinged
<1>4. CASE Subscribes(c, f)
  <2>1. Reply(Decide(f).id, "subscribed") \in Messages /\ Reply(Decide(f).id, "subscribed").kind = "reply"
    BY <1>4, RepliesAreMessages DEF Reply, Subscribes
  <2> QED BY <1>4, <2>1, SentAnswered DEF Subscribes
<1>5. ASSUME NEW t \in Topics, Publishes(c, f, t) PROVE AllSent(d, s)'
  BY <1>5, SentAnnounced
<1> QED BY <1>1, <1>2, <1>3, <1>4, <1>5 DEF Outcome

(* Registry and history after a request that was asked for.                *)
LEMMA AskersOutcome ==
    ASSUME TypeOK, SubscribersAsked, PublishersAsked, Grown, NEW c \in Clients, NEW f \in Frames,
           Outcome(c, f), Asks(c, f)'
    PROVE  SubscribersAsked' /\ PublishersAsked'
<1>1. IsRegistry(topics) /\ published \in Seq([topic : Topics, by : Clients \union {"node"}])
  BY DEF TypeOK, IsRegistry
<1>2. ASSUME topics' = topics PROVE SubscribersAsked'
  BY <1>2, GrownKeeps DEF SubscribersAsked
<1>3. ASSUME published' = published PROVE PublishersAsked'
  <2> SUFFICES ASSUME NEW n \in DOMAIN published, NEW by, NEW t,
                      by = published[n].by, t = published[n].topic
               PROVE  by \in Clients /\ AskedToPublish(by, t)'
    BY <1>3 DEF PublishersAsked, AskedToPublish
  <2>1. by \in Clients /\ AskedToPublish(by, t)
    BY DEF PublishersAsked
  <2> QED BY <2>1, GrownKeeps
<1>4. CASE LeftOpen(c, f)
  BY <1>2, <1>3, <1>4 DEF LeftOpen
<1>5. ASSUME NEW code \in Codes, RefusedWith(c, f, code) PROVE SubscribersAsked' /\ PublishersAsked'
  BY <1>2, <1>3, <1>5 DEF RefusedWith
<1>6. CASE Pinged(c, f)
  BY <1>2, <1>3, <1>6 DEF Pinged
<1>7. CASE Subscribes(c, f)
  <2>1. SubscribersAsked'
    <3> SUFFICES ASSUME NEW d \in Clients, NEW t \in Topics, Entry(topics', t)[d] > 0
                 PROVE  AskedFor(d, t)'
      BY DEF SubscribersAsked
    <3>1. Decide(f).topic \in Topics /\ topics' = Subscribed(topics, Decide(f).topic, c)
      BY <1>7 DEF Subscribes
    <3>2. CASE t = Decide(f).topic /\ d = c
      BY <1>7, <3>2 DEF Asks, AskedFor, Subscribes
    <3>3. CASE ~(t = Decide(f).topic /\ d = c)
      <4>1. Entry(topics', t)[d] = Entry(topics, t)[d]
        BY <1>1, <3>1, <3>3, SubscribedEntry
      <4>2. AskedFor(d, t)
        BY <4>1 DEF SubscribersAsked
      <4> QED BY <4>2, GrownKeeps
    <3> QED BY <3>2, <3>3
  <2> QED BY <1>3, <1>7, <2>1 DEF Subscribes
<1>8. ASSUME NEW t \in Topics, Publishes(c, f, t) PROVE SubscribersAsked' /\ PublishersAsked'
  <2>1. SubscribersAsked'
    <3> SUFFICES ASSUME NEW d \in Clients, NEW u \in Topics, Entry(topics', u)[d] > 0
                 PROVE  AskedFor(d, u)'
      BY DEF SubscribersAsked
    <3>1. topics' = Retained(topics, t, OpenClients)
      BY <1>8 DEF Publishes
    <3>2. Entry(topics', u)[d] = 0 \/ Entry(topics', u)[d] = Entry(topics, u)[d]
      BY <1>1, <3>1, RetainedEntry
    <3>3. AskedFor(d, u)
      BY <3>2 DEF SubscribersAsked
    <3> QED BY <3>3, GrownKeeps
  <2>2. PublishersAsked'
    <3> SUFFICES ASSUME NEW n \in DOMAIN published', NEW by, NEW u,
                        by = published'[n].by, u = published'[n].topic
                 PROVE  by \in Clients /\ AskedToPublish(by, u)'
      BY DEF PublishersAsked, AskedToPublish
    <3>1. published' = Append(published, [topic |-> t, by |-> c])
      BY <1>8 DEF Publishes
    <3>2. CASE n \in DOMAIN published
      <4>1. published'[n] = published[n]
        BY <1>1, <3>1, <3>2
      <4>2. published'[n] = published[n] /\ by \in Clients
        BY <3>2, <4>1 DEF PublishersAsked
      <4>3. AskedToPublish(by, u)
        BY <3>2, <4>2 DEF PublishersAsked
      <4> QED BY <4>2, <4>3, GrownKeeps
    <3>3. CASE n \notin DOMAIN published
      <4>1. by = c /\ u = t
        BY <1>1, <3>1, <3>3
      <4>2. PICK i \in DOMAIN asked'[c] : asked'[c][i] = f
        BY DEF Asks
      <4>3. \/ Decide(f).act = "relay" /\ t = Decide(f).topic /\ t.ns = "unvalidated"
            \/ /\ Decide(f).act = "propose" /\ Decide(f).proposal.check = "valid"
               /\ TopicFromProposal(Decide(f).proposal) = t
        BY <1>8, RelayNamespace DEF Publishes
      <4> QED BY <4>1, <4>2, <4>3 DEF AskedToPublish
    <3> QED BY <3>2, <3>3
  <2> QED BY <2>1, <2>2
<1> QED BY <1>4, <1>5, <1>6, <1>7, <1>8 DEF Outcome

(* Every step keeps the notices earned.                                    *)
LEMMA EarnedStep == TypeOK /\ FreshInv /\ EarnedInv /\ [Next]_vars => EarnedInv'
<1> SUFFICES ASSUME TypeOK, FreshInv, EarnedInv, [Next]_vars PROVE EarnedInv'
  OBVIOUS
<1>1. PendingAsked /\ SubscribersAsked /\ PublishersAsked /\ NotesSent /\ Grown /\ PendingAsked'
  BY GrownStep, PendingStep DEF EarnedInv
<1>2. ASSUME UNCHANGED <<topics, asked, published>>
      PROVE  SubscribersAsked' /\ PublishersAsked'
  BY <1>1, <1>2 DEF SubscribersAsked, PublishersAsked, AskedFor, AskedToPublish
<1>3. ASSUME UNCHANGED <<asked, published>>, Quiet \/ \E c \in Clients : Arrives(c) \/ Leaves(c)
      PROVE  NotesSent'
  <2> SUFFICES ASSUME NEW d \in Clients, NEW s, s = Stream(d)'
               PROVE  AllSent(d, s)'
    BY DEF NotesSent, AllSent, Sent, AskedFor
  <2>1. PICK old : old = Stream(d)
    OBVIOUS
  <2>2. old \in Seq(Messages) /\ AllSent(d, old)
    <3>1. old \in Seq(Messages)
      BY <2>1, StreamType
    <3>2. AllSent(d, old)
      BY <1>1, <2>1 DEF NotesSent, AllSent
    <3> QED BY <3>1, <3>2
  <2>3. AllSent(d, old)'
    BY <1>1, <2>2, AllSentKept
  <2>4. s = old \/ s = <<>> \/ \E n \in 0..Len(old) : s = SubSeq(old, 1, n)
    BY <1>3, <2>1 DEF Quiet, Same, Arrives, Leaves
  <2>5. ASSUME NEW n \in 0..Len(old), s = SubSeq(old, 1, n) PROVE AllSent(d, s)'
    <3>1. \A i \in DOMAIN s : i \in DOMAIN old /\ s[i] = old[i]
      BY <2>2, <2>5
    <3> QED BY <2>3, <3>1 DEF AllSent
  <2>6. CASE s = <<>>
    BY <2>6 DEF AllSent
  <2> QED BY <2>3, <2>4, <2>5, <2>6
<1>4. ASSUME NEW c \in Clients, NEW f \in Frames, Outcome(c, f), Asks(c, f)' PROVE EarnedInv'
  <2>1. NotesSent'
    BY <1>1, <1>4, NotesOutcome
  <2>2. SubscribersAsked' /\ PublishersAsked'
    BY <1>1, <1>4, AskersOutcome
  <2> QED BY <1>1, <2>1, <2>2 DEF EarnedInv
<1>5. ASSUME NEW c \in Clients, NodeAnswers(c), NEW f, f = Head(pending[c])
      PROVE  f \in Frames /\ Asks(c, f)'
  <2>1. f \in Frames
    BY <1>5, PendingFrame DEF NodeAnswers
  <2>2. 1 \in DOMAIN pending[c] /\ f = pending[c][1]
    BY <1>5 DEF NodeAnswers, TypeOK
  <2>3. Asks(c, f)
    BY <1>1, <2>2 DEF PendingAsked
  <2> QED BY <1>1, <2>1, <2>3, GrownKeeps
<1>6. ASSUME NEW c \in Clients, NodeAnswers(c), Outcome(c, Head(pending[c])) PROVE EarnedInv'
  <2>1. PICK f : f = Head(pending[c])
    OBVIOUS
  <2>2. f \in Frames /\ Asks(c, f)' /\ Outcome(c, f)
    BY <1>5, <1>6, <2>1
  <2> QED BY <1>4, <2>2
<1>7. ASSUME NEW c \in Clients, NEW f \in Frames, Reads(c, f), Outcome(c, f) PROVE EarnedInv'
  BY <1>4, <1>7, ReadsAsks
<1> QED BY <1>1, <1>2, <1>3, <1>6, <1>7, StepEffect DEF EarnedInv

(* Nothing is owed at the start.                                           *)
LEMMA EarnedInit == Init => EarnedInv
<1> SUFFICES ASSUME Init PROVE EarnedInv
  OBVIOUS
<1>1. PendingAsked
  BY DEF Init, PendingAsked
<1>2. SubscribersAsked
  BY DEF Init, SubscribersAsked, Entry, NoTopics, NoSenders
<1>3. PublishersAsked
  BY DEF Init, PublishersAsked
<1>4. NotesSent
  BY DEF Init, NotesSent, Stream, Here, RxOpen
<1> QED BY <1>1, <1>2, <1>3, <1>4 DEF EarnedInv

(* No client hears of a topic it did not ask for, nor of a publication its *)
(* author did not ask for or whose proposal did not validate.              *)
THEOREM EarnedCorrect == Spec => []NotesAreEarned
<1>1. Init => TypeOK /\ FreshInv /\ EarnedInv
  BY InitType, FreshInit, EarnedInit
<1>2. TypeOK /\ FreshInv /\ EarnedInv /\ [Next]_vars => (TypeOK /\ FreshInv /\ EarnedInv)'
  BY StepType, FreshStep, EarnedStep
<1>3. EarnedInv => NotesAreEarned
  BY DEF EarnedInv, NotesSent, Sent, PublishersAsked, NotesAreEarned
<1> QED BY <1>1, <1>2, <1>3, PTL DEF Spec

------------------------------------------------------------------------------
(* What the rest of the relay needs to know: who publishes, who has tasks, *)
(* and what becomes of the streams when the listener publishes.            *)

(* Requests and answers append what they publish, in their own name.       *)
LEMMA PublishedStep ==
    ASSUME TypeOK, FreshInv, [Next]_vars
    PROVE  \/ published' = published
           \/ \E t \in Topics, c \in Clients :
                 published' = Append(published, [topic |-> t, by |-> c])
<1>1. ASSUME NEW c \in Clients, NEW f \in Frames, Outcome(c, f)
      PROVE  \/ published' = published
             \/ \E t \in Topics : published' = Append(published, [topic |-> t, by |-> c])
  BY <1>1 DEF Outcome, LeftOpen, RefusedWith, Pinged, Subscribes, Publishes
<1>2. \A c \in Clients : NodeAnswers(c) => Head(pending[c]) \in Frames
  BY PendingFrame DEF NodeAnswers
<1> QED BY <1>1, <1>2, StepEffect

(* A client has tasks from Connect on.                                     *)
LEMMA ConnectedStep ==
    ASSUME TypeOK, NEW c \in Clients,
           \/ Peer(c) \/ Request(c) \/ Node(c)
           \/ Closing(c) \/ ReaderSeesProtocolError(c) \/ Forward(c)
    PROVE  \A d \in Clients : reader'[d] = "off" <=> reader[d] = "off"
<1>1. reader \in [Clients -> {"off", "reading", "awaiting", "joining", "ended", "panicked"}]
  BY DEF TypeOK
<1>2. CASE Request(c) \/ Node(c)
  <2>1. HandledBy(c)
    BY <1>2, RequestHandledBy, NodeHandledBy
  <2> QED BY <1>1, <2>1 DEF HandledBy
<1>3. CASE Peer(c) \/ Closing(c) \/ ReaderSeesProtocolError(c) \/ Forward(c)
  BY <1>1, <1>3 DEF Peer, PeerLeaves, PeerStalls, PeerResumes, Closing, ReaderSeesClose, Join,
                    ReaderSeesProtocolError, Forward, ForwardTakes, ForwardEnds, ForwardSends,
                    ForwardFails
<1> QED BY <1>2, <1>3

(* The stream of d when its queue is q[d].                                 *)
StreamWith(d, q) == IF Here(d) THEN wire[d] \o (hand[d] \o q[d]) ELSE wire[d]

(* What another task that publishes makes of the registry, the queues and  *)
(* the number of publications, while the tasks stand still.                *)
Shared(r, q, n) ==
    /\ IsRegistry(r) /\ IsQueues(q) /\ n \in Nat
    /\ \A d \in Clients : fwd[d] \in {"none", "done"} => q[d] = <<>>
    /\ \A d \in Clients : Holds(r, d) => Holds(topics, d)
    /\ \A d \in Clients : Ordered(StreamWith(d, q), n)

(* It starts from what is there.                                           *)
LEMMA SharedStarts == TypeOK /\ OrderInv => Shared(topics, chan, Len(published))
BY DEF TypeOK, OrderInv, Shared, IsRegistry, IsQueues, StreamWith, Stream, Queued

(* A publication adds its notices to the streams of those who are here.    *)
LEMMA StreamGrows ==
    ASSUME TypeOK, NEW r, IsRegistry(r), NEW q, IsQueues(q), NEW t \in Topics, NEW m \in Messages,
           NEW d \in Clients
    PROVE  /\ StreamWith(d, q) \in Seq(Messages)
           /\ Entry(r, t)[d] \in Nat /\ Copies(m, Entry(r, t)[d]) \in Seq(Messages)
           /\ StreamWith(d, Delivered(r, q, t, OpenClients, m)) =
                IF Here(d) THEN StreamWith(d, q) \o Copies(m, Entry(r, t)[d])
                ELSE StreamWith(d, q)
<1>1. wire[d] \in Seq(Messages) /\ hand[d] \in Seq(Messages) /\ q[d] \in Seq(Messages)
  BY DEF TypeOK, IsQueues
<1>2. Entry(r, t)[d] \in Nat
  BY EntryType
<1>3. Copies(m, Entry(r, t)[d]) \in Seq(Messages)
  BY <1>2 DEF Copies
<1>4. hand[d] \o q[d] \in Seq(Messages)
  BY <1>1
<1>5. StreamWith(d, q) \in Seq(Messages)
  BY <1>1, <1>4 DEF StreamWith
<1>6. CASE Here(d)
  <2>1. Delivered(r, q, t, OpenClients, m)[d] = q[d] \o Copies(m, Entry(r, t)[d])
    <3>1. d \in OpenClients
      BY <1>6 DEF OpenClients, Here
    <3> QED BY <3>1, Zenon DEF Delivered
  <2> DEFINE more == Copies(m, Entry(r, t)[d])
  <2> HIDE DEF more
  <2>2. more \in Seq(Messages)
    BY <1>3 DEF more
  <2>3. hand[d] \o (q[d] \o more) = (hand[d] \o q[d]) \o more
    BY <1>1, <2>2, JoinsTheEnd, Zenon
  <2>4. wire[d] \o ((hand[d] \o q[d]) \o more) = (wire[d] \o (hand[d] \o q[d])) \o more
    <3> DEFINE w == wire[d]
               x == hand[d] \o q[d]
    <3>1. w \in Seq(Messages) /\ x \in Seq(Messages)
      BY <1>1, <1>4
    <3> HIDE DEF w, x
    <3>2. w \o (x \o more) = (w \o x) \o more
      BY ONLY <2>2, <3>1, JoinsTheEnd
    <3> QED BY <3>2 DEF w, x
  <2>5. StreamWith(d, Delivered(r, q, t, OpenClients, m)) = wire[d] \o (hand[d] \o (q[d] \o more))
    BY <1>6, <2>1 DEF StreamWith, more
  <2>6. StreamWith(d, q) = wire[d] \o (hand[d] \o q[d])
    BY <1>6 DEF StreamWith
  <2>7. StreamWith(d, Delivered(r, q, t, OpenClients, m)) = StreamWith(d, q) \o more
    BY <2>3, <2>4, <2>5, <2>6
  <2> QED BY <1>2, <1>3, <1>5, <1>6, <2>7 DEF more
<1>7. CASE ~Here(d)
  BY <1>2, <1>3, <1>5, <1>7 DEF StreamWith
<1> QED BY <1>6, <1>7

(* One publication more.                                                   *)
LEMMA SharedGoesOn ==
    ASSUME TypeOK, NEW r, NEW q, NEW n, Shared(r, q, n), NEW t \in Topics
    PROVE  Shared(Retained(r, t, OpenClients),
                  Delivered(r, q, t, OpenClients, Note(t, n + 1)), n + 1)
<1> DEFINE m == Note(t, n + 1)
           s == Retained(r, t, OpenClients)
           p == Delivered(r, q, t, OpenClients, m)
<1>1. IsRegistry(r) /\ IsQueues(q) /\ n \in Nat /\ n + 1 \in Nat
  BY DEF Shared
<1>2. m \in Messages
  BY <1>1 DEF Note, Messages
<1>3. IsRegistry(s) /\ \A d \in Clients : Holds(s, d) => Holds(r, d)
  BY <1>1, RetainedType
<1>4. IsQueues(p) /\ \A d \in Clients : d \notin OpenClients => p[d] = q[d]
  BY <1>1, <1>2, DeliveredType
<1>5. \A d \in Clients : Holds(s, d) => Holds(topics, d)
  BY <1>3 DEF Shared
<1>6. \A d \in Clients : fwd[d] \in {"none", "done"} => p[d] = <<>>
  BY <1>4 DEF Shared, OpenClients, RxOpen
<1> HIDE DEF m, s
<1>7. ASSUME NEW d \in Clients PROVE Ordered(StreamWith(d, p), n + 1)
  <2>1. Ordered(StreamWith(d, q), n)
    BY DEF Shared
  <2>2. /\ StreamWith(d, q) \in Seq(Messages) /\ Entry(r, t)[d] \in Nat
        /\ StreamWith(d, p) = IF Here(d) THEN StreamWith(d, q) \o Copies(m, Entry(r, t)[d])
                              ELSE StreamWith(d, q)
    BY <1>1, <1>2, StreamGrows
  <2>3. Ordered(StreamWith(d, q) \o Copies(m, Entry(r, t)[d]), n + 1)
    BY <1>1, <2>1, <2>2, OrderedNotices DEF m
  <2>4. Ordered(StreamWith(d, q), n + 1)
    BY <1>1, <2>1, <2>2, OrderedLater
  <2> QED BY <2>2, <2>3, <2>4
<1> HIDE DEF p
<1> QED BY <1>1, <1>3, <1>4, <1>5, <1>6, <1>7 DEF Shared, s, p, m

(* What the other task leaves keeps the invariants.                        *)
LEMMA SharedEnds ==
    ASSUME TypeOK, FreshInv, Shared(topics', chan', Len(published')),
           published' \in Seq([topic : Topics, by : Clients \union {"node"}]),
           UNCHANGED <<reader, taskVars, asked>>
    PROVE  TypeOK' /\ FreshInv' /\ OrderInv'
<1>1. UNCHANGED <<reader, pending, fwd, hand, wire, peer, closed, asked>>
  BY DEF taskVars
<1>2. TypeOK'
  BY <1>1 DEF Shared, TypeOK, IsRegistry, IsQueues
<1>3. FreshInv'
  BY <1>1 DEF Shared, FreshInv, Holds
<1>4. \A d \in Clients : Stream(d)' = StreamWith(d, chan')
  BY <1>1 DEF Stream, StreamWith, Here, RxOpen, Queued
<1>5. OrderInv'
  BY <1>4 DEF Shared, OrderInv, Ordered
<1> QED BY <1>2, <1>3, <1>5
------------------------------------------------------------------------------
(* Refinement: each effect is an action of PubSub, or invisible there.     *)

(* Steps the clients do not notice are not noticed by PubSub.              *)
LEMMA QuietRefines ==
    ASSUME Quiet, UNCHANGED <<topics, published>>
    PROVE  UNCHANGED PS!vars
<1>1. \A d \in Clients : Status(d)' = Status(d) /\ Stream(d)' = Stream(d)
  BY DEF Quiet, Same
<1>2. \A d \in Clients : \A t \in Topics : Subscriptions(d, t)' = Subscriptions(d, t)
  BY DEF Quiet, Same, Subscriptions
<1> QED BY <1>1, <1>2 DEF PS!vars

(* Who is here in PubSub.                                                  *)
LEMMA HereIsHere ==
    ASSUME NEW d \in Clients
    PROVE  /\ PS!Here(d) <=> Here(d)
           /\ Status(d) = "here" <=> Here(d)
BY DEF PS!Here, Status

(* A new connection.                                                       *)
LEMMA ArriveRefines ==
    ASSUME TypeOK, NEW c \in Clients, Arrives(c), UNCHANGED <<topics, published>>
    PROVE  PS!Arrive(c)
<1>1. \A d \in Clients : Status(d)' = IF d = c THEN "here" ELSE Status(d)
  BY DEF Arrives, Same
<1>2. \A d \in Clients : Stream(d)' = Stream(d)
  BY DEF Arrives, Same
<1>3. \A d \in Clients : \A t \in Topics : Subscriptions(d, t)' = Subscriptions(d, t)
  <2> SUFFICES ASSUME NEW d \in Clients, NEW t \in Topics
               PROVE  Subscriptions(d, t)' = Subscriptions(d, t)
    OBVIOUS
  <2>1. CASE d = c
    <3>1. ~Holds(topics, c)
      BY DEF Arrives
    <3>2. Entry(topics, t)[c] = 0
      <4>1. t \in DOMAIN topics => topics[t][c] \in Nat
        BY DEF TypeOK
      <4> QED BY <3>1, <4>1 DEF Holds, Entry, NoSenders
    <3> QED BY <2>1, <3>2 DEF Subscriptions
  <2>2. CASE d # c
    BY <2>2 DEF Arrives, Same, Subscriptions
  <2> QED BY <2>1, <2>2
<1>4. Status(c) = "new"
  BY DEF Arrives
<1> QED BY <1>1, <1>2, <1>3, <1>4 DEF PS!Arrive

(* The end of a connection.                                                *)
LEMMA LeaveRefines ==
    ASSUME TypeOK, NEW c \in Clients, Leaves(c), UNCHANGED <<topics, published>>
    PROVE  PS!Leave(c)
<1>1. \A d \in Clients : Status(d)' = IF d = c THEN "left" ELSE Status(d)
  BY DEF Leaves, Same
<1>2. PICK n \in 0..Len(Stream(c)) : Stream(c)' = SubSeq(Stream(c), 1, n)
  BY DEF Leaves
<1>3. \A d \in Clients : Stream(d)' = IF d = c THEN SubSeq(Stream(c), 1, n) ELSE Stream(d)
  BY <1>2 DEF Leaves, Same
<1>4. \A d \in Clients : \A t \in Topics :
        Subscriptions(d, t)' = IF d = c THEN 0 ELSE Subscriptions(d, t)
  BY DEF Leaves, Same, Subscriptions
<1>5. PS!Here(c)
  BY HereIsHere DEF Leaves
<1> QED BY <1>1, <1>2, <1>3, <1>4, <1>5 DEF PS!Leave

(* An answer and nothing else.                                             *)
LEMMA AnswerRefines ==
    ASSUME NEW c \in Clients, NEW m \in Replies, Answered(c, m), UNCHANGED <<topics, published>>
    PROVE  PS!Answer(c) \/ UNCHANGED PS!vars
<1>1. CASE ~Here(c)
  <2>1. Quiet
    BY <1>1 DEF Answered, Quiet, Same
  <2> QED BY <2>1, QuietRefines
<1>2. CASE Here(c)
  <2>1. \A d \in Clients : Status(d)' = Status(d)
    BY DEF Answered
  <2>2. \A d \in Clients : Stream(d)' = IF d = c THEN Append(Stream(c), m) ELSE Stream(d)
    BY <1>2 DEF Answered
  <2>3. \A d \in Clients : \A t \in Topics : Subscriptions(d, t)' = Subscriptions(d, t)
    BY DEF Answered, Subscriptions
  <2>4. PS!Here(c)
    BY <1>2, HereIsHere
  <2> QED BY <2>1, <2>2, <2>3, <2>4 DEF PS!Answer
<1> QED BY <1>1, <1>2

(* A subscription of a client that is here; one of a client that is not is *)
(* kept in the registry, but means nothing any more.                       *)
LEMMA SubscribeRefines ==
    ASSUME TypeOK, NEW c \in Clients, NEW t \in Topics, NEW m \in Replies, Answered(c, m),
           topics' = Subscribed(topics, t, c), UNCHANGED published
    PROVE  PS!Subscribe(c, t) \/ UNCHANGED PS!vars
<1>1. IsRegistry(topics)
  BY DEF TypeOK, IsRegistry
<1>2. \A d \in Clients : \A u \in Topics :
        Subscriptions(d, u)' = IF d = c /\ u = t /\ Here(c) THEN Subscriptions(d, u) + 1
                               ELSE Subscriptions(d, u)
  <2> SUFFICES ASSUME NEW d \in Clients, NEW u \in Topics
               PROVE  Subscriptions(d, u)' =
                        IF d = c /\ u = t /\ Here(c) THEN Subscriptions(d, u) + 1
                        ELSE Subscriptions(d, u)
    OBVIOUS
  <2>1. Entry(topics', u)[d] = IF u = t /\ d = c THEN Entry(topics, u)[d] + 1
                               ELSE Entry(topics, u)[d]
    BY <1>1, SubscribedEntry
  <2>2. Here(d)' <=> Here(d)
    BY DEF Answered
  <2> QED BY <2>1, <2>2 DEF Subscriptions
<1>3. \A d \in Clients : Status(d)' = Status(d)
  BY DEF Answered
<1>4. CASE ~Here(c)
  <2>1. \A d \in Clients : Stream(d)' = Stream(d)
    BY <1>4 DEF Answered
  <2>2. \A d \in Clients : \A u \in Topics : Subscriptions(d, u)' = Subscriptions(d, u)
    BY <1>2, <1>4
  <2> QED BY <1>3, <2>1, <2>2 DEF PS!vars
<1>5. CASE Here(c)
  <2>1. \A d \in Clients : Stream(d)' = IF d = c THEN Append(Stream(c), m) ELSE Stream(d)
    BY <1>5 DEF Answered
  <2>2. PS!Here(c)
    BY <1>5, HereIsHere
  <2>3. \A d \in Clients : \A u \in Topics :
          Subscriptions(d, u)' = IF d = c /\ u = t THEN Subscriptions(d, u) + 1
                                 ELSE Subscriptions(d, u)
    BY <1>2, <1>5
  <2> QED BY <1>3, <2>1, <2>2, <2>3 DEF PS!Subscribe
<1> QED BY <1>4, <1>5

(* A publication.                                                          *)
LEMMA PublishRefines ==
    ASSUME TypeOK, NEW c \in Clients, NEW t \in Topics, NEW m \in Replies, Announced(c, t, m),
           topics' = Retained(topics, t, OpenClients),
           published' = Append(published, [topic |-> t, by |-> c])
    PROVE  PS!Publish(c, t)
<1>1. IsRegistry(topics)
  BY DEF TypeOK, IsRegistry
<1>2. \A d \in Clients : \A u \in Topics : Subscriptions(d, u)' = Subscriptions(d, u)
  <2> SUFFICES ASSUME NEW d \in Clients, NEW u \in Topics
               PROVE  Subscriptions(d, u)' = Subscriptions(d, u)
    OBVIOUS
  <2>1. Entry(topics', u)[d] = IF u = t /\ d \notin OpenClients THEN 0 ELSE Entry(topics, u)[d]
    BY <1>1, RetainedEntry
  <2>2. Here(d)' <=> Here(d)
    BY DEF Announced
  <2>3. Here(d) => d \in OpenClients
    BY DEF Here, OpenClients
  <2> QED BY <2>1, <2>2, <2>3 DEF Subscriptions
<1>3. \A d \in Clients : Status(d)' = Status(d)
  BY DEF Announced
<1>4. ASSUME NEW d \in Clients
      PROVE  Stream(d)' = PS!Streamed(c, t, m)[d]
  <2>1. CASE ~Here(d)
    <3>1. ~PS!Here(d)
      BY <2>1, HereIsHere
    <3> QED BY <2>1, <3>1 DEF Announced, PS!Streamed
  <2>2. CASE Here(d)
    <3>1. PS!Here(d)
      BY <2>2, HereIsHere
    <3>2. PS!Notices(d, t, Len(published) + 1)
             = Copies(Note(t, Len(published) + 1), Entry(topics, t)[d])
      BY <2>2 DEF PS!Notices, PS!Note, Note, Copies, Subscriptions
    <3> QED BY <2>2, <3>1, <3>2 DEF Announced, PS!Streamed
  <2> QED BY <2>1, <2>2
<1>5. [d \in Clients |-> Stream(d)'] = PS!Streamed(c, t, m)
  BY <1>4 DEF PS!Streamed
<1> QED BY <1>2, <1>3, <1>5 DEF PS!Publish

(* The initial states are initial in PubSub.                               *)
LEMMA InitRefines == Init => PS!Init
<1> SUFFICES ASSUME Init PROVE PS!Init
  OBVIOUS
<1>1. \A d \in Clients : ~Here(d) /\ Status(d) = "new" /\ Stream(d) = <<>>
  BY DEF Init, Here, RxOpen, Status, Stream
<1>2. \A d \in Clients : \A t \in Topics : Subscriptions(d, t) = 0
  BY <1>1 DEF Subscriptions
<1> QED BY <1>1, <1>2 DEF PS!Init, Init

(* Every step is one of PubSub, or none.                                   *)
LEMMA StepRefines == TypeOK /\ FreshInv /\ [Next]_vars => [PS!Next]_(PS!vars)
<1> SUFFICES ASSUME TypeOK, FreshInv, [Next]_vars PROVE PS!Next \/ UNCHANGED PS!vars
  OBVIOUS
<1>1. ASSUME NEW c \in Clients, NEW f \in Frames, Outcome(c, f)
      PROVE  PS!Next \/ UNCHANGED PS!vars
  <2>1. \A id \in 0..IdMax : \A res \in Codes \union {"subscribed", "published", "pong"} :
          Reply(id, res) \in Replies
    BY DEF Reply, Replies
  <2>2. CASE LeftOpen(c, f)
    BY <2>2, QuietRefines DEF LeftOpen
  <2>3. ASSUME NEW code \in Codes, RefusedWith(c, f, code)
        PROVE  PS!Next \/ UNCHANGED PS!vars
    <3>1. Reply(0, code) \in Replies
      BY <2>1, IdMaxAssumption
    <3> QED BY <2>3, <3>1, AnswerRefines DEF RefusedWith, PS!Next
  <2>4. CASE Pinged(c, f)
    BY <2>1, <2>4, AnswerRefines DEF Pinged, PS!Next
  <2>5. CASE Subscribes(c, f)
    BY <2>1, <2>5, SubscribeRefines DEF Subscribes, PS!Next
  <2>6. ASSUME NEW t \in Topics, Publishes(c, f, t)
        PROVE  PS!Next \/ UNCHANGED PS!vars
    BY <2>1, <2>6, PublishRefines DEF Publishes, PS!Next
  <2> QED BY <1>1, <2>2, <2>3, <2>4, <2>5, <2>6 DEF Outcome
<1>2. ASSUME UNCHANGED <<topics, published>>,
             Quiet \/ \E c \in Clients : Arrives(c) \/ Leaves(c)
      PROVE  PS!Next \/ UNCHANGED PS!vars
  BY <1>2, QuietRefines, ArriveRefines, LeaveRefines DEF PS!Next
<1>3. \A c \in Clients : NodeAnswers(c) => Head(pending[c]) \in Frames
  BY PendingFrame DEF NodeAnswers
<1> QED BY <1>1, <1>2, <1>3, StepEffect

(* Tasks, channels and sockets together keep the promise of PubSub: one    *)
(* answer per request, one notice per subscription and publication, and a  *)
(* client that leaves has seen a prefix of its stream.                     *)
THEOREM ConnectionsImplementPubSub == Spec => ImplementsPubSub
<1>1. Init => TypeOK /\ FreshInv
  BY InitType, FreshInit
<1>2. TypeOK /\ FreshInv /\ [Next]_vars => (TypeOK /\ FreshInv)'
  BY StepType, FreshStep
<1> QED BY <1>1, <1>2, InitRefines, StepRefines, PTL DEF Spec, ImplementsPubSub, PS!Spec
==============================================================================
