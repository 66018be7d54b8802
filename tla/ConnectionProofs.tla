--------------------------- MODULE ConnectionProofs ---------------------------
(***************************************************************************)
(* Proofs about Connections, for any clients, frames and bounds.           *)
(***************************************************************************)
EXTENDS ConnectionProperties, TLAPS

(* Every error is answered with one of the four codes.                     *)
LEMMA RefusalShape ==
    ASSUME NEW e
    PROVE  Refuse(e).act = "refuse" /\ Refuse(e).code \in Codes
BY DEF Refuse, Code, Codes

(* parse_params() has three kinds of outcome.                              *)
LEMMA ParseParamsShape ==
    ASSUME NEW p
    PROVE  ParseParams(p).tag \in {"ok", "err", "panic"}
BY DEF ParseParams, Ok, Err, Panic

(* What process_message makes of a parsed request.                         *)
Acted(d, n) == d.act \in {"pong", "subscribe", "relay", "propose"} /\ d.id = n
Refused(d) == d.act = "refuse" /\ d.code \in Codes

(* A parsed request is acted on under its own id, or refused.              *)
LEMMA DispatchShape ==
    ASSUME NEW r
    PROVE  Acted(Dispatch(r), r.id) \/ Refused(Dispatch(r))
<1>1. CASE r.method = "subscribe"
  <2>1. CASE TopicFromParams(r.params).tag = "ok"
    BY <1>1, <2>1 DEF Dispatch, Acted
  <2>2. CASE TopicFromParams(r.params).tag # "ok"
    BY <1>1, <2>2, RefusalShape DEF Dispatch, Refused
  <2> QED BY <2>1, <2>2
<1>2. CASE r.method = "publish" /\ r.params.key \in {"ping", "proposal", "any"}
  BY <1>2 DEF Dispatch, Acted
<1>3. CASE r.method # "subscribe" /\ ~(r.method = "publish" /\ r.params.key \in {"ping", "proposal", "any"})
  <2>1. Dispatch(r) = Refuse("InvalidParams")
    BY <1>3 DEF Dispatch
  <2> QED BY <2>1, RefusalShape DEF Refused
<1> QED BY <1>1, <1>2, <1>3

(* A frame that parses to a request has an id in range.                    *)
LEMMA TryFromShape ==
    ASSUME NEW f
    PROVE  \/ TryFrom(f).tag \in {"err", "panic"}
           \/ TryFrom(f).tag = "ok" /\ IdAccepted(f.id) /\ TryFrom(f).val.id = f.id.n
<1>1. ValidateForMethod(ParseParams(f.params).val, f.method).tag \in {"ok", "err"}
  BY DEF ValidateForMethod, Ok, Err
<1> QED BY <1>1, ParseParamsShape DEF TryFrom, Ok, Err

(* Every frame is refused, unwinds the handler, or is acted on under its   *)
(* own id.                                                                 *)
LEMMA DecideShape ==
    ASSUME NEW f \in Frames
    PROVE  \/ Refused(Decide(f))
           \/ Decide(f).act = "panic"
           \/ /\ Decide(f).act \in {"pong", "subscribe", "relay", "propose"}
              /\ Decide(f).id \in 0..IdMax
<1>1. CASE f.form = "garbage"
  BY <1>1, RefusalShape DEF Decide, Refused
<1>2. CASE f.form # "garbage" /\ TryFrom(f).tag = "panic"
  BY <1>2 DEF Decide
<1>3. CASE f.form # "garbage" /\ TryFrom(f).tag = "err"
  BY <1>3, RefusalShape DEF Decide, Refused
<1>4. CASE f.form # "garbage" /\ TryFrom(f).tag = "ok"
  <2>1. Decide(f) = Dispatch(TryFrom(f).val)
    BY <1>4 DEF Decide
  <2>2. IdAccepted(f.id) /\ TryFrom(f).val.id = f.id.n
    BY <1>4, TryFromShape
  <2>3. f.id.n \in 0..IdMax
    BY <1>4, <2>2, FramesAssumption, IdMaxAssumption DEF IdAccepted
  <2> QED BY <2>1, <2>2, <2>3, DispatchShape DEF Acted
<1> QED BY <1>1, <1>2, <1>3, <1>4, TryFromShape

------------------------------------------------------------------------------
(* The registry and the channels.                                          *)

IsRegistry(r) == DOMAIN r \subseteq Topics /\ r \in [DOMAIN r -> [Clients -> Nat]]
IsQueues(q) == q \in [Clients -> Seq(Messages)]

(* What frames subscribe and publish to is in Topics.                      *)
LEMMA TopicsOfFrames ==
    ASSUME NEW f \in Frames
    PROVE  /\ Decide(f).act \in {"subscribe", "relay"} => Decide(f).topic \in Topics
           /\ Decide(f).act = "propose" => TopicFromProposal(Decide(f).proposal) \in Topics
BY DEF Topics

(* An entry of a well-formed registry counts senders.                      *)
LEMMA EntryType ==
    ASSUME NEW r, IsRegistry(r), NEW t
    PROVE  Entry(r, t) \in [Clients -> Nat]
BY DEF IsRegistry, Entry, NoSenders

(* Replacing one entry leaves a well-formed registry.                      *)
LEMMA SetEntryType ==
    ASSUME NEW r, IsRegistry(r), NEW t \in Topics, NEW s \in [Clients -> Nat]
    PROVE  /\ IsRegistry(SetEntry(r, t, s))
           /\ DOMAIN SetEntry(r, t, s) = DOMAIN r \union {t}
           /\ SetEntry(r, t, s)[t] = s
           /\ \A u \in DOMAIN r : u # t => SetEntry(r, t, s)[u] = r[u]
BY DEF IsRegistry, SetEntry

Holds(r, d) == \E u \in DOMAIN r : r[u][d] > 0

(* Changing one topic gives a client a sender only where the new entry has *)
(* one that the old entry had not.                                         *)
LEMMA SetEntryHolds ==
    ASSUME NEW r, IsRegistry(r), NEW t \in Topics, NEW s \in [Clients -> Nat],
           NEW d \in Clients, s[d] > 0 => Entry(r, t)[d] > 0,
           Holds(SetEntry(r, t, s), d)
    PROVE  Holds(r, d)
<1>0. /\ DOMAIN SetEntry(r, t, s) = DOMAIN r \union {t}
      /\ SetEntry(r, t, s)[t] = s
      /\ \A u \in DOMAIN r : u # t => SetEntry(r, t, s)[u] = r[u]
  BY SetEntryType
<1>1. PICK u \in DOMAIN SetEntry(r, t, s) : SetEntry(r, t, s)[u][d] > 0
  BY DEF Holds
<1>2. CASE u = t
  <2>1. Entry(r, t)[d] > 0
    BY <1>0, <1>1, <1>2
  <2>2. t \in DOMAIN r /\ r[t][d] > 0
    BY <2>1 DEF Entry, NoSenders
  <2> QED BY <2>2 DEF Holds
<1>3. CASE u # t
  <2>1. u \in DOMAIN r /\ SetEntry(r, t, s)[u] = r[u]
    BY <1>0, <1>1, <1>3
  <2> QED BY <1>1, <2>1 DEF Holds
<1> QED BY <1>2, <1>3

(* subscribe() adds one sender of c to one topic.                          *)
LEMMA SubscribedType ==
    ASSUME NEW r, IsRegistry(r), NEW t \in Topics, NEW c \in Clients
    PROVE  /\ IsRegistry(Subscribed(r, t, c))
           /\ \A d \in Clients \ {c} : Holds(Subscribed(r, t, c), d) => Holds(r, d)
<1>1. PICK s \in [Clients -> Nat] :
         /\ Subscribed(r, t, c) = SetEntry(r, t, s)
         /\ \A d \in Clients \ {c} : s[d] = Entry(r, t)[d]
  <2>1. Entry(r, t) \in [Clients -> Nat]
    BY EntryType
  <2>2. [Entry(r, t) EXCEPT ![c] = @ + 1] \in [Clients -> Nat]
    BY <2>1
  <2> QED BY <2>1, <2>2 DEF Subscribed
<1>2. \A d \in Clients \ {c} : Holds(SetEntry(r, t, s), d) => Holds(r, d)
  BY <1>1, SetEntryHolds
<1>3. IsRegistry(SetEntry(r, t, s))
  BY SetEntryType
<1> QED BY <1>1, <1>2, <1>3

(* publish() adds no sender to any topic.                                  *)
LEMMA RetainedType ==
    ASSUME NEW r, IsRegistry(r), NEW t \in Topics, NEW open
    PROVE  /\ IsRegistry(Retained(r, t, open))
           /\ \A d \in Clients : Holds(Retained(r, t, open), d) => Holds(r, d)
<1>1. PICK s \in [Clients -> Nat] :
         /\ Retained(r, t, open) = SetEntry(r, t, s)
         /\ \A d \in Clients : s[d] = Entry(r, t)[d] \/ s[d] = 0
  <2>1. Entry(r, t) \in [Clients -> Nat]
    BY EntryType
  <2> QED BY <2>1 DEF Retained
<1>2. \A d \in Clients : Holds(SetEntry(r, t, s), d) => Holds(r, d)
  BY <1>1, SetEntryHolds
<1>3. IsRegistry(SetEntry(r, t, s))
  BY SetEntryType
<1> QED BY <1>1, <1>2, <1>3

(* publish() queues messages on open channels only.                        *)
LEMMA DeliveredType ==
    ASSUME NEW r, IsRegistry(r), NEW q, IsQueues(q), NEW t, NEW open, NEW m \in Messages
    PROVE  /\ IsQueues(Delivered(r, q, t, open, m))
           /\ \A d \in Clients : d \notin open => Delivered(r, q, t, open, m)[d] = q[d]
<1>1. \A d \in Clients : Entry(r, t)[d] \in Nat
  BY EntryType
<1>2. ASSUME NEW n \in Nat PROVE Copies(m, n) \in Seq(Messages)
  BY DEF Copies
<1>3. \A d \in Clients : q[d] \o Copies(m, Entry(r, t)[d]) \in Seq(Messages)
  BY <1>1, <1>2 DEF IsQueues
<1> QED BY <1>3 DEF Delivered, IsQueues

(* What answering a request does to the queues and to the handler.         *)
LEMMA RespondType ==
    ASSUME TypeOK, NEW c \in Clients, NEW q, IsQueues(q), NEW m \in Messages,
           \A d \in Clients : fwd[d] \in {"none", "done"} => q[d] = <<>>,
           Respond(c, q, m)
    PROVE  /\ IsQueues(chan')
           /\ \A d \in Clients : fwd[d] \in {"none", "done"} => chan'[d] = <<>>
           /\ \E to \in {"reading", "joining"} : reader' = [reader EXCEPT ![c] = to]
<1>1. CASE RxOpen(c)
  <2>1. chan' = [q EXCEPT ![c] = Append(@, m)] /\ reader' = [reader EXCEPT ![c] = "reading"]
    BY <1>1 DEF Respond
  <2>2. q[c] \in Seq(Messages) /\ Append(q[c], m) \in Seq(Messages)
    BY DEF IsQueues
  <2>3. fwd[c] \notin {"none", "done"}
    BY <1>1 DEF RxOpen
  <2> QED BY <2>1, <2>2, <2>3 DEF IsQueues
<1>2. CASE ~RxOpen(c)
  BY <1>2 DEF Respond
<1> QED BY <1>1, <1>2

------------------------------------------------------------------------------
(* Type correctness, one lemma per group of actions.                       *)

(* The relay starts well-typed.                                            *)
LEMMA InitType == Init => TypeOK
<1> SUFFICES ASSUME Init PROVE TypeOK
  OBVIOUS
<1>1. topics \in [DOMAIN topics -> [Clients -> Nat]] /\ DOMAIN topics \subseteq Topics
  BY DEF Init, NoTopics
<1> QED BY <1>1, MaxFramesAssumption DEF Init, TypeOK

(* A connection being made, and whatever the client does, keep the types.  *)
LEMMA PeerType ==
    ASSUME TypeOK, NEW c \in Clients, Connect(c) \/ Peer(c)
    PROVE  TypeOK'
<1>1. CASE Connect(c)
  BY <1>1 DEF TypeOK, Connect
<1>2. CASE PeerLeaves(c)
  BY <1>2 DEF TypeOK, PeerLeaves
<1>3. CASE PeerStalls(c)
  BY <1>3 DEF TypeOK, PeerStalls
<1>4. CASE PeerResumes(c)
  BY <1>4 DEF TypeOK, PeerResumes
<1> QED BY <1>1, <1>2, <1>3, <1>4 DEF Peer

(* The end of the read loop and the join keep the types.                   *)
LEMMA ClosingType ==
    ASSUME TypeOK, NEW c \in Clients, Closing(c) \/ ReaderSeesProtocolError(c)
    PROVE  TypeOK'
<1>1. CASE ReaderSeesClose(c)
  BY <1>1 DEF TypeOK, ReaderSeesClose
<1>2. CASE ReaderSeesProtocolError(c)
  BY <1>2 DEF TypeOK, ReaderSeesProtocolError
<1>3. CASE Join(c)
  BY <1>3 DEF TypeOK, Join
<1> QED BY <1>1, <1>2, <1>3 DEF Closing

(* The forward task keeps the types and its couplings.                     *)
LEMMA ForwardType ==
    ASSUME TypeOK, NEW c \in Clients, Forward(c)
    PROVE  TypeOK'
<1>1. CASE ForwardTakes(c)
  <2>1. chan[c] \in Seq(Messages) /\ chan[c] # <<>>
    BY <1>1 DEF TypeOK, ForwardTakes
  <2>2. Tail(chan[c]) \in Seq(Messages) /\ <<Head(chan[c])>> \in Seq(Messages)
        /\ Len(<<Head(chan[c])>>) = 1
    BY <2>1
  <2>3. /\ hand' \in [Clients -> Seq(Messages)] /\ chan' \in [Clients -> Seq(Messages)]
        /\ fwd' \in [Clients -> {"none", "recv", "send", "done"}]
    BY <1>1, <2>2 DEF TypeOK, ForwardTakes
  <2>4. \A d \in Clients : Len(hand'[d]) = IF fwd'[d] = "send" THEN 1 ELSE 0
    BY <1>1, <2>2 DEF TypeOK, ForwardTakes
  <2>5. \A d \in Clients : /\ fwd'[d] \in {"none", "done"} => chan'[d] = <<>>
                           /\ reader'[d] = "off" <=> fwd'[d] = "none"
    BY <1>1 DEF TypeOK, ForwardTakes
  <2>6. UNCHANGED <<topics, reader, pending, wire, peer, closed, asked, published>>
    BY <1>1 DEF ForwardTakes
  <2> QED BY <2>3, <2>4, <2>5, <2>6 DEF TypeOK
<1>2. CASE ForwardEnds(c)
  BY <1>2 DEF TypeOK, ForwardEnds
<1>3. CASE ForwardSends(c)
  <2>1. wire[c] \o hand[c] \in Seq(Messages)
    BY DEF TypeOK
  <2>2. wire' \in [Clients -> Seq(Messages)]
    BY <1>3, <2>1 DEF TypeOK, ForwardSends
  <2>3. hand' \in [Clients -> Seq(Messages)] /\ fwd' \in [Clients -> {"none", "recv", "send", "done"}]
    BY <1>3 DEF TypeOK, ForwardSends
  <2>4. \A d \in Clients : Len(hand'[d]) = IF fwd'[d] = "send" THEN 1 ELSE 0
    BY <1>3 DEF TypeOK, ForwardSends
  <2>5. \A d \in Clients : /\ fwd'[d] \in {"none", "done"} => chan'[d] = <<>>
                           /\ reader'[d] = "off" <=> fwd'[d] = "none"
    BY <1>3 DEF TypeOK, ForwardSends
  <2>6. UNCHANGED <<topics, chan, reader, pending, peer, closed, asked, published>>
    BY <1>3 DEF ForwardSends
  <2> QED BY <2>2, <2>3, <2>4, <2>5, <2>6 DEF TypeOK
<1>4. CASE ForwardFails(c)
  <2>1. /\ hand' \in [Clients -> Seq(Messages)] /\ chan' \in [Clients -> Seq(Messages)]
        /\ fwd' \in [Clients -> {"none", "recv", "send", "done"}]
        /\ closed' \in [Clients -> BOOLEAN]
    BY <1>4 DEF TypeOK, ForwardFails
  <2>2. \A d \in Clients : Len(hand'[d]) = IF fwd'[d] = "send" THEN 1 ELSE 0
    BY <1>4 DEF TypeOK, ForwardFails
  <2>3. \A d \in Clients : /\ fwd'[d] \in {"none", "done"} => chan'[d] = <<>>
                           /\ reader'[d] = "off" <=> fwd'[d] = "none"
    BY <1>4 DEF TypeOK, ForwardFails
  <2>4. UNCHANGED <<topics, reader, pending, wire, peer, asked, published>>
    BY <1>4 DEF ForwardFails
  <2> QED BY <2>1, <2>2, <2>3, <2>4 DEF TypeOK
<1> QED BY <1>1, <1>2, <1>3, <1>4 DEF Forward

(* Reading a frame leaves the history within its bound.                    *)
LEMMA ReadsType ==
    ASSUME TypeOK, NEW c \in Clients, NEW f \in Frames, Reads(c, f)
    PROVE  /\ asked' \in [Clients -> Seq(Frames)]
           /\ \A d \in Clients : Len(asked'[d]) <= MaxFrames
BY MaxFramesAssumption DEF TypeOK, Reads

(* What TypeOK asks of a handler's step, given what it did to the queues,  *)
(* the registry, the history and the proposal it keeps.                    *)
HandlerStep(c) ==
    /\ IsRegistry(topics')
    /\ IsQueues(chan')
    /\ \A d \in Clients : fwd[d] \in {"none", "done"} => chan'[d] = <<>>
    /\ published' \in Seq([topic : Topics, by : Clients \union {"node"}])
    /\ asked' \in [Clients -> Seq(Frames)]
    /\ \A d \in Clients : Len(asked'[d]) <= MaxFrames
    /\ UNCHANGED <<fwd, hand, wire, peer, closed>>

(* A step of a handler that moves its program counter and its proposal     *)
(* together keeps the types.                                               *)
LEMMA HandlerStepType ==
    ASSUME TypeOK, NEW c \in Clients, HandlerStep(c), reader[c] # "off",
           NEW to \in {"reading", "awaiting", "joining", "panicked"},
           reader' = [reader EXCEPT ![c] = to],
           NEW kept \in Seq(Frames), pending' = [pending EXCEPT ![c] = kept],
           Len(kept) = IF to = "awaiting" THEN 1 ELSE 0,
           \A i \in DOMAIN kept : Decide(kept[i]).act = "propose"
    PROVE  TypeOK'
<1>1. /\ reader' \in [Clients -> {"off", "reading", "awaiting", "joining", "ended", "panicked"}]
      /\ pending' \in [Clients -> Seq(Frames)]
  BY DEF TypeOK
<1>2. ASSUME NEW d \in Clients
      PROVE  /\ Len(pending'[d]) = IF reader'[d] = "awaiting" THEN 1 ELSE 0
             /\ \A i \in DOMAIN pending'[d] : Decide(pending'[d][i]).act = "propose"
             /\ reader'[d] = "off" <=> fwd[d] = "none"
  <2>1. /\ reader \in [Clients -> {"off", "reading", "awaiting", "joining", "ended", "panicked"}]
        /\ pending \in [Clients -> Seq(Frames)]
        /\ Len(pending[d]) = IF reader[d] = "awaiting" THEN 1 ELSE 0
        /\ \A i \in DOMAIN pending[d] : Decide(pending[d][i]).act = "propose"
        /\ reader[d] = "off" <=> fwd[d] = "none"
        /\ reader[c] = "off" <=> fwd[c] = "none"
    BY DEF TypeOK
  <2>2. CASE d = c
    <3>1. reader'[d] = to /\ pending'[d] = kept
      BY <2>1, <2>2
    <3> QED BY <2>1, <2>2, <3>1
  <2>3. CASE d # c
    <3>1. reader'[d] = reader[d] /\ pending'[d] = pending[d]
      BY <2>1, <2>3
    <3> QED BY <2>1, <3>1
  <2> QED BY <2>2, <2>3
<1>3. /\ DOMAIN topics' \subseteq Topics
      /\ topics' \in [DOMAIN topics' -> [Clients -> Nat]]
      /\ chan' \in [Clients -> Seq(Messages)]
      /\ published' \in Seq([topic : Topics, by : Clients \union {"node"}])
  BY DEF HandlerStep, IsRegistry, IsQueues
<1>4. /\ asked' \in [Clients -> Seq(Frames)]
      /\ \A d \in Clients : Len(asked'[d]) <= MaxFrames
  BY DEF HandlerStep
<1>5. UNCHANGED <<fwd, hand, wire, peer, closed>>
  BY DEF HandlerStep
<1>6. /\ fwd' \in [Clients -> {"none", "recv", "send", "done"}]
      /\ hand' \in [Clients -> Seq(Messages)]
      /\ wire' \in [Clients -> Seq(Messages)]
      /\ peer' \in [Clients -> {"up", "stalled", "gone"}]
      /\ closed' \in [Clients -> BOOLEAN]
      /\ \A d \in Clients : Len(hand'[d]) = IF fwd'[d] = "send" THEN 1 ELSE 0
  BY <1>5 DEF TypeOK
<1>7. \A d \in Clients : /\ fwd'[d] \in {"none", "done"} => chan'[d] = <<>>
                         /\ reader'[d] = "off" <=> fwd'[d] = "none"
  BY <1>2, <1>5 DEF HandlerStep
<1>8. \A d \in Clients :
        /\ Len(asked'[d]) <= MaxFrames
        /\ Len(hand'[d]) = IF fwd'[d] = "send" THEN 1 ELSE 0
        /\ Len(pending'[d]) = IF reader'[d] = "awaiting" THEN 1 ELSE 0
        /\ \A i \in DOMAIN pending'[d] : Decide(pending'[d][i]).act = "propose"
        /\ fwd'[d] \in {"none", "done"} => chan'[d] = <<>>
        /\ reader'[d] = "off" <=> fwd'[d] = "none"
  BY <1>2, <1>4, <1>5, <1>6, <1>7
<1> QED BY <1>1, <1>3, <1>4, <1>6, <1>8, Zenon DEF TypeOK

(* A reply with an id and a result of the relay is a message.              *)
LEMMA RepliesAreMessages ==
    ASSUME NEW id \in 0..IdMax, NEW res \in Codes \union {"subscribed", "published", "pong"}
    PROVE  Reply(id, res) \in Messages
BY DEF Reply, Replies, Messages

(* Publishing keeps the registry and the queues well formed.               *)
LEMMA PublishType ==
    ASSUME TypeOK, NEW c \in Clients, NEW t \in Topics, NEW id \in 0..IdMax, Publish(c, t, id)
    PROVE  /\ IsRegistry(topics')
           /\ \A d \in Clients : Holds(topics', d) => Holds(topics, d)
           /\ IsQueues(chan')
           /\ \A d \in Clients : fwd[d] \in {"none", "done"} => chan'[d] = <<>>
           /\ published' \in Seq([topic : Topics, by : Clients \union {"node"}])
           /\ \E to \in {"reading", "joining"} : reader' = [reader EXCEPT ![c] = to]
<1> DEFINE note == Note(t, Len(published) + 1)
           q == Delivered(topics, chan, t, OpenClients, note)
<1>1. IsRegistry(topics) /\ IsQueues(chan)
  BY DEF TypeOK, IsRegistry, IsQueues
<1>2. note \in Messages
  <2>1. Len(published) + 1 \in Nat \ {0}
    BY DEF TypeOK
  <2> QED BY <2>1 DEF Note, Messages
<1>3. IsQueues(q) /\ \A d \in Clients : d \notin OpenClients => q[d] = chan[d]
  BY <1>1, <1>2, DeliveredType
<1>4. \A d \in Clients : fwd[d] \in {"none", "done"} => q[d] = <<>>
  <2>1. \A d \in Clients : fwd[d] \in {"none", "done"} => d \notin OpenClients /\ chan[d] = <<>>
    BY DEF TypeOK, OpenClients, RxOpen
  <2> QED BY <1>3, <2>1
<1>5. Respond(c, q, Reply(id, "published"))
  BY DEF Publish
<1>6. Reply(id, "published") \in Messages
  BY RepliesAreMessages
<1> HIDE DEF q
<1>7. /\ IsQueues(chan')
      /\ \A d \in Clients : fwd[d] \in {"none", "done"} => chan'[d] = <<>>
      /\ \E to \in {"reading", "joining"} : reader' = [reader EXCEPT ![c] = to]
  BY <1>3, <1>4, <1>5, <1>6, RespondType
<1>8. topics' = Retained(topics, t, OpenClients)
  BY DEF Publish
<1>9. /\ IsRegistry(Retained(topics, t, OpenClients))
      /\ \A d \in Clients : Holds(Retained(topics, t, OpenClients), d) => Holds(topics, d)
  BY <1>1, RetainedType
<1>10. published' \in Seq([topic : Topics, by : Clients \union {"node"}])
  BY DEF Publish, TypeOK
<1> QED BY <1>7, <1>8, <1>9, <1>10

(* Queuing an answer and nothing else.                                     *)
LEMMA AnswerType ==
    ASSUME TypeOK, NEW c \in Clients, NEW m \in Messages, Respond(c, chan, m)
    PROVE  /\ IsQueues(chan')
           /\ \A d \in Clients : fwd[d] \in {"none", "done"} => chan'[d] = <<>>
           /\ \E to \in {"reading", "joining"} : reader' = [reader EXCEPT ![c] = to]
<1>1. IsQueues(chan) /\ \A d \in Clients : fwd[d] \in {"none", "done"} => chan[d] = <<>>
  BY DEF TypeOK, IsQueues
<1> QED BY <1>1, RespondType

(* A step of c's handler: it touches its own program counter, proposal and *)
(* history, the shared registry, and queues it can reach; it gives no      *)
(* other client a sender it did not have.                                  *)
HandledBy(c) ==
    /\ reader[c] \in {"reading", "awaiting"}
    /\ HandlerStep(c)
    /\ \A d \in Clients \ {c} : Holds(topics', d) => Holds(topics, d)
    /\ \E to \in {"reading", "awaiting", "joining", "panicked"}, kept \in Seq(Frames) :
          /\ reader' = [reader EXCEPT ![c] = to]
          /\ pending' = [pending EXCEPT ![c] = kept]
          /\ Len(kept) = IF to = "awaiting" THEN 1 ELSE 0
          /\ \A i \in DOMAIN kept : Decide(kept[i]).act = "propose"

(* Steps of a handler keep the types.                                      *)
LEMMA HandledByType ==
    ASSUME TypeOK, NEW c \in Clients, HandledBy(c)
    PROVE  TypeOK'
<1>1. PICK to \in {"reading", "awaiting", "joining", "panicked"}, kept \in Seq(Frames) :
          /\ reader' = [reader EXCEPT ![c] = to]
          /\ pending' = [pending EXCEPT ![c] = kept]
          /\ Len(kept) = IF to = "awaiting" THEN 1 ELSE 0
          /\ \A i \in DOMAIN kept : Decide(kept[i]).act = "propose"
  BY DEF HandledBy
<1>2. HandlerStep(c) /\ reader[c] # "off"
  BY DEF HandledBy
<1> QED BY <1>1, <1>2, HandlerStepType

(* While the handler reads it keeps no proposal.                           *)
LEMMA NothingKept ==
    ASSUME TypeOK, NEW c \in Clients, reader[c] # "awaiting", pending' = pending
    PROVE  \E kept \in Seq(Frames) : /\ pending' = [pending EXCEPT ![c] = kept]
                                     /\ Len(kept) = 0
                                     /\ \A i \in DOMAIN kept : Decide(kept[i]).act = "propose"
<1>1. pending[c] \in Seq(Frames) /\ Len(pending[c]) = 0
      /\ pending' = [pending EXCEPT ![c] = pending[c]]
      /\ \A i \in DOMAIN pending[c] : Decide(pending[c][i]).act = "propose"
  BY DEF TypeOK
<1> QED BY <1>1

(* A request that is answered at once.                                     *)
LEMMA AnsweredHandledBy ==
    ASSUME TypeOK, NEW c \in Clients, NEW f \in Frames, Reads(c, f),
           IsRegistry(topics'), \A d \in Clients \ {c} : Holds(topics', d) => Holds(topics, d),
           IsQueues(chan'),
           \A d \in Clients : fwd[d] \in {"none", "done"} => chan'[d] = <<>>,
           published' \in Seq([topic : Topics, by : Clients \union {"node"}]),
           NEW to \in {"reading", "joining", "panicked"}, reader' = [reader EXCEPT ![c] = to],
           UNCHANGED taskVars
    PROVE  HandledBy(c)
<1>1. HandlerStep(c)
  BY ReadsType DEF HandlerStep, taskVars
<1>2. reader[c] = "reading"
  BY DEF Reads
<1>3. PICK kept \in Seq(Frames) : /\ pending' = [pending EXCEPT ![c] = kept]
                                  /\ Len(kept) = 0
                                  /\ \A i \in DOMAIN kept : Decide(kept[i]).act = "propose"
  BY <1>2, NothingKept DEF taskVars
<1>4. Len(kept) = IF to = "awaiting" THEN 1 ELSE 0
  BY <1>3
<1> QED BY <1>1, <1>2, <1>3, <1>4 DEF HandledBy

(* Every request is a step of its handler.                                 *)
LEMMA RequestHandledBy ==
    ASSUME TypeOK, NEW c \in Clients, Request(c)
    PROVE  HandledBy(c)
<1>0. /\ IsRegistry(topics) /\ IsQueues(chan)
      /\ \A d \in Clients : fwd[d] \in {"none", "done"} => chan[d] = <<>>
      /\ published \in Seq([topic : Topics, by : Clients \union {"node"}])
  BY DEF TypeOK, IsRegistry, IsQueues
<1>1. PICK f \in Frames :
        \/ HandleRefused(c, f) \/ HandlePing(c, f) \/ HandleSubscribe(c, f)
        \/ HandleRelay(c, f) \/ HandlePanic(c, f) \/ HandleProposal(c, f)
  BY DEF Request
<1>2. Decide(f).act = "refuse" => Decide(f).code \in Codes
  BY DecideShape DEF Refused
<1>3. Decide(f).act \in {"pong", "subscribe", "relay", "propose"} => Decide(f).id \in 0..IdMax
  BY DecideShape DEF Refused
<1>4. CASE HandleRefused(c, f)
  <2>1. Reply(0, Decide(f).code) \in Messages
    BY <1>2, <1>4, IdMaxAssumption, RepliesAreMessages DEF HandleRefused
  <2>2. Respond(c, chan, Reply(0, Decide(f).code))
    BY <1>4 DEF HandleRefused
  <2>3. /\ IsQueues(chan')
        /\ \A d \in Clients : fwd[d] \in {"none", "done"} => chan'[d] = <<>>
        /\ \E to \in {"reading", "joining"} : reader' = [reader EXCEPT ![c] = to]
    BY <2>1, <2>2, AnswerType
  <2>4. Reads(c, f) /\ topics' = topics /\ published' = published /\ UNCHANGED taskVars
    BY <1>4 DEF HandleRefused
  <2> QED BY <1>0, <2>3, <2>4, AnsweredHandledBy
<1>5. CASE HandlePing(c, f)
  <2>1. Reply(Decide(f).id, "pong") \in Messages
    BY <1>3, <1>5, RepliesAreMessages DEF HandlePing
  <2>2. Respond(c, chan, Reply(Decide(f).id, "pong"))
    BY <1>5 DEF HandlePing
  <2>3. /\ IsQueues(chan')
        /\ \A d \in Clients : fwd[d] \in {"none", "done"} => chan'[d] = <<>>
        /\ \E to \in {"reading", "joining"} : reader' = [reader EXCEPT ![c] = to]
    BY <2>1, <2>2, AnswerType
  <2>4. Reads(c, f) /\ topics' = topics /\ published' = published /\ UNCHANGED taskVars
    BY <1>5 DEF HandlePing
  <2> QED BY <1>0, <2>3, <2>4, AnsweredHandledBy
<1>6. CASE HandleSubscribe(c, f)
  <2>1. Reply(Decide(f).id, "subscribed") \in Messages
    BY <1>3, <1>6, RepliesAreMessages DEF HandleSubscribe
  <2>2. Respond(c, chan, Reply(Decide(f).id, "subscribed"))
    BY <1>6 DEF HandleSubscribe
  <2>3. /\ IsQueues(chan')
        /\ \A d \in Clients : fwd[d] \in {"none", "done"} => chan'[d] = <<>>
        /\ \E to \in {"reading", "joining"} : reader' = [reader EXCEPT ![c] = to]
    BY <2>1, <2>2, AnswerType
  <2>4. Decide(f).topic \in Topics
    BY <1>6, TopicsOfFrames DEF HandleSubscribe
  <2>5. /\ IsRegistry(Subscribed(topics, Decide(f).topic, c))
        /\ \A d \in Clients \ {c} :
              Holds(Subscribed(topics, Decide(f).topic, c), d) => Holds(topics, d)
    BY <1>0, <2>4, SubscribedType
  <2>6. /\ Reads(c, f) /\ topics' = Subscribed(topics, Decide(f).topic, c)
        /\ published' = published /\ UNCHANGED taskVars
    BY <1>6 DEF HandleSubscribe
  <2> QED BY <1>0, <2>3, <2>5, <2>6, AnsweredHandledBy
<1>7. CASE HandleRelay(c, f)
  <2>1. Decide(f).topic \in Topics
    BY <1>7, TopicsOfFrames DEF HandleRelay
  <2>2. Decide(f).id \in 0..IdMax /\ Publish(c, Decide(f).topic, Decide(f).id)
    BY <1>3, <1>7 DEF HandleRelay
  <2>3. /\ IsRegistry(topics')
        /\ \A d \in Clients : Holds(topics', d) => Holds(topics, d)
        /\ IsQueues(chan')
        /\ \A d \in Clients : fwd[d] \in {"none", "done"} => chan'[d] = <<>>
        /\ published' \in Seq([topic : Topics, by : Clients \union {"node"}])
        /\ \E to \in {"reading", "joining"} : reader' = [reader EXCEPT ![c] = to]
    BY <2>1, <2>2, PublishType
  <2>4. Reads(c, f) /\ UNCHANGED taskVars
    BY <1>7 DEF HandleRelay
  <2> QED BY <2>3, <2>4, AnsweredHandledBy
<1>8. CASE HandlePanic(c, f)
  <2>1. /\ Reads(c, f) /\ reader' = [reader EXCEPT ![c] = "panicked"]
        /\ topics' = topics /\ chan' = chan /\ published' = published /\ UNCHANGED taskVars
    BY <1>8 DEF HandlePanic
  <2> QED BY <1>0, <2>1, AnsweredHandledBy
<1>9. CASE HandleProposal(c, f) /\ Decide(f).proposal.check = "no_needed_tx"
  <2>1. Reply(0, Code("Liquidex")) \in Messages
    BY IdMaxAssumption, RepliesAreMessages DEF Code, Codes
  <2>2. /\ Respond(c, chan, Reply(0, Code("Liquidex"))) /\ Reads(c, f)
        /\ topics' = topics /\ published' = published /\ UNCHANGED taskVars
    BY <1>9 DEF HandleProposal, taskVars
  <2>3. /\ IsQueues(chan')
        /\ \A d \in Clients : fwd[d] \in {"none", "done"} => chan'[d] = <<>>
        /\ \E to \in {"reading", "joining"} : reader' = [reader EXCEPT ![c] = to]
    BY <2>1, <2>2, AnswerType
  <2> QED BY <1>0, <2>2, <2>3, AnsweredHandledBy
<1>10. CASE HandleProposal(c, f) /\ Decide(f).proposal.check # "no_needed_tx"
  <2>1. /\ Reads(c, f) /\ reader' = [reader EXCEPT ![c] = "awaiting"]
        /\ pending' = [pending EXCEPT ![c] = <<f>>] /\ Decide(f).act = "propose"
        /\ UNCHANGED <<topics, chan, published, fwd, hand, wire, peer, closed>>
    BY <1>10 DEF HandleProposal
  <2>2. HandlerStep(c)
    BY <1>0, <2>1, ReadsType DEF HandlerStep
  <2>3. /\ <<f>> \in Seq(Frames) /\ Len(<<f>>) = 1
        /\ \A i \in DOMAIN <<f>> : Decide(<<f>>[i]).act = "propose"
    BY <2>1
  <2>4. reader[c] = "reading" /\ \A d \in Clients \ {c} : Holds(topics', d) => Holds(topics, d)
    BY <2>1 DEF Reads
  <2> QED BY <2>1, <2>2, <2>3, <2>4 DEF HandledBy
<1> QED BY <1>1, <1>4, <1>5, <1>6, <1>7, <1>8, <1>9, <1>10

(* The same, for a step that leaves the handler without a proposal.        *)
LEMMA NothingKeptHandledBy ==
    ASSUME NEW c \in Clients, reader[c] \in {"reading", "awaiting"}, HandlerStep(c),
           \A d \in Clients \ {c} : Holds(topics', d) => Holds(topics, d),
           NEW to \in {"reading", "joining", "panicked"}, reader' = [reader EXCEPT ![c] = to],
           pending' = [pending EXCEPT ![c] = <<>>]
    PROVE  HandledBy(c)
<1> DEFINE kept == <<>>
<1>1. kept \in Seq(Frames) /\ Len(kept) = 0 /\ DOMAIN kept = {}
  OBVIOUS
<1>2. pending' = [pending EXCEPT ![c] = kept]
  OBVIOUS
<1> HIDE DEF kept
<1>3. Len(kept) = IF to = "awaiting" THEN 1 ELSE 0
  BY <1>1
<1>4. \A i \in DOMAIN kept : Decide(kept[i]).act = "propose"
  BY <1>1
<1>5. to \in {"reading", "awaiting", "joining", "panicked"}
  OBVIOUS
<1> QED BY <1>1, <1>2, <1>3, <1>4, <1>5 DEF HandledBy

(* Both outcomes of the request to the node are steps of the handler.      *)
LEMMA NodeHandledBy ==
    ASSUME TypeOK, NEW c \in Clients, Node(c)
    PROVE  HandledBy(c)
<1>0. /\ IsRegistry(topics) /\ IsQueues(chan)
      /\ \A d \in Clients : fwd[d] \in {"none", "done"} => chan[d] = <<>>
      /\ published \in Seq([topic : Topics, by : Clients \union {"node"}])
      /\ asked \in [Clients -> Seq(Frames)]
      /\ \A d \in Clients : Len(asked[d]) <= MaxFrames
  BY DEF TypeOK, IsRegistry, IsQueues
<1>1. /\ reader[c] = "awaiting" /\ pending' = [pending EXCEPT ![c] = <<>>]
      /\ UNCHANGED <<fwd, hand, wire, peer, closed, asked>>
  BY DEF Node, NodeAnswers, NodeFails
<1>2. <<>> \in Seq(Frames) /\ Len(<<>>) = 0 /\ DOMAIN <<>> = {}
  OBVIOUS
<1>3. SUFFICES /\ IsRegistry(topics')
               /\ \A d \in Clients \ {c} : Holds(topics', d) => Holds(topics, d)
               /\ IsQueues(chan')
               /\ \A d \in Clients : fwd[d] \in {"none", "done"} => chan'[d] = <<>>
               /\ published' \in Seq([topic : Topics, by : Clients \union {"node"}])
               /\ \E to \in {"reading", "joining", "panicked"} : reader' = [reader EXCEPT ![c] = to]
  <2>1. HandlerStep(c)
    BY <1>0, <1>1, <1>3 DEF HandlerStep
  <2>2. \A d \in Clients \ {c} : Holds(topics', d) => Holds(topics, d)
    BY <1>3
  <2>3. PICK to \in {"reading", "joining", "panicked"} : reader' = [reader EXCEPT ![c] = to]
    BY <1>3
  <2> QED BY <1>1, <2>1, <2>2, <2>3, NothingKeptHandledBy
<1>4. CASE NodeFails(c)
  BY <1>0, <1>4 DEF NodeFails
<1>5. CASE NodeAnswers(c)
  <2> DEFINE f == Head(pending[c])
  <2>1. f \in Frames /\ Decide(f).act = "propose"
    <3>1. /\ pending[c] \in Seq(Frames) /\ Len(pending[c]) = 1
          /\ \A i \in DOMAIN pending[c] : Decide(pending[c][i]).act = "propose"
      BY <1>1 DEF TypeOK
    <3>2. f = pending[c][1] /\ 1 \in DOMAIN pending[c]
      BY <3>1
    <3> QED BY <3>1, <3>2
  <2> HIDE DEF f
  <2>2. CASE Publish(c, TopicFromProposal(Decide(f).proposal), Decide(f).id)
    <3>1. TopicFromProposal(Decide(f).proposal) \in Topics /\ Decide(f).id \in 0..IdMax
      BY <2>1, TopicsOfFrames, DecideShape DEF Refused
    <3> QED BY <2>2, <3>1, PublishType
  <2>3. CASE Respond(c, chan, Reply(0, Code("Liquidex"))) /\ UNCHANGED <<topics, published>>
    <3>1. Reply(0, Code("Liquidex")) \in Messages
      BY IdMaxAssumption, RepliesAreMessages DEF Code, Codes
    <3>2. /\ IsQueues(chan')
          /\ \A d \in Clients : fwd[d] \in {"none", "done"} => chan'[d] = <<>>
          /\ \E to \in {"reading", "joining"} : reader' = [reader EXCEPT ![c] = to]
      BY <2>3, <3>1, AnswerType
    <3> QED BY <1>0, <2>3, <3>2
  <2> QED BY <1>5, <2>2, <2>3 DEF NodeAnswers, f
<1> QED BY <1>4, <1>5 DEF Node

(* Every step of the relay keeps the types.                                *)
LEMMA StepType == TypeOK /\ [Next]_vars => TypeOK'
<1> SUFFICES ASSUME TypeOK, [Next]_vars PROVE TypeOK'
  OBVIOUS
<1>1. CASE UNCHANGED vars
  BY <1>1 DEF TypeOK, vars
<1>2. ASSUME NEW c \in Clients, Connect(c) \/ Peer(c) PROVE TypeOK'
  BY <1>2, PeerType
<1>3. ASSUME NEW c \in Clients, Request(c) \/ Node(c) PROVE TypeOK'
  BY <1>3, RequestHandledBy, NodeHandledBy, HandledByType
<1>4. ASSUME NEW c \in Clients, Closing(c) \/ ReaderSeesProtocolError(c) PROVE TypeOK'
  BY <1>4, ClosingType
<1>5. ASSUME NEW c \in Clients, Forward(c) PROVE TypeOK'
  BY <1>5, ForwardType
<1> QED BY <1>1, <1>2, <1>3, <1>4, <1>5 DEF Next

(* The state of the two tasks of every connection stays coupled, and every *)
(* queue holds well-formed messages, in every interleaving.                *)
THEOREM TypeCorrect == Spec => []TypeOK
BY InitType, StepType, PTL DEF Spec
==============================================================================
