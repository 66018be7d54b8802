----------------------------- MODULE RelayProofs ------------------------------
(***************************************************************************)
(* Proofs about the whole relay, for every number of clients, every        *)
(* transaction and block: what the connections and the listener guarantee  *)
(* on their own, they guarantee together, although both write to the       *)
(* registry and to the channels.  CP and LP are the parts as their proofs  *)
(* know them; the relay adds the steps in which one part acts on the       *)
(* other's data, and the correspondence between notices and publications.  *)
(***************************************************************************)
EXTENDS RelayProperties, SequenceInduction, FiniteSetTheorems, SequenceTheorems

CP == INSTANCE ConnectionStreamProofs WITH NodeTopics <- ListenerTopics
LP == INSTANCE ZmqListenerProofs

------------------------------------------------------------------------------
(* The parts, as their proofs know them: the same definitions.             *)

(* What a frame asks for.                                                  *)
LEMMA SameDecide == \A f : C!Decide(f) = CP!Decide(f)
<1>1. \A f : C!TryFrom(f) = CP!TryFrom(f)
  BY DEF
    C!TryFrom, CP!TryFrom, C!IdAccepted, CP!IdAccepted, C!Err, CP!Err, C!Methods, CP!Methods,
    C!ParseParams, CP!ParseParams, C!Ok, CP!Ok, C!RootKeys, CP!RootKeys, C!Panic, CP!Panic,
    C!ValidateForMethod, CP!ValidateForMethod
<1>2. \A r : C!Dispatch(r) = CP!Dispatch(r)
  BY DEF
    C!Dispatch, CP!Dispatch, C!TopicFromParams, CP!TopicFromParams, C!Ok, CP!Ok, C!Unvalidated,
    CP!Unvalidated, C!Validated, CP!Validated, C!PairName, CP!PairName, C!Err, CP!Err, C!Refuse,
    CP!Refuse, C!Code, CP!Code
<1> QED BY <1>1, <1>2 DEF C!Decide, CP!Decide, C!Refuse, CP!Refuse, C!Code, CP!Code

(* What a publication of a request does.                                   *)
LEMMA SamePublish ==
    ASSUME NEW c, NEW topic, NEW id, C!Publish(c, topic, id)
    PROVE  CP!Publish(c, topic, id)
BY Zenon DEF
    C!Publish, CP!Publish, C!Retained, CP!Retained, C!SetEntry, CP!SetEntry, C!Entry, CP!Entry,
    C!NoSenders, CP!NoSenders, C!OpenClients, CP!OpenClients, C!RxOpen, CP!RxOpen, C!Respond,
    CP!Respond, C!Delivered, CP!Delivered, C!Copies, CP!Copies, C!Note, CP!Note, C!Reply, CP!Reply

(* The steps of a connection.                                              *)
LEMMA SameRequest ==
    ASSUME NEW c, C!Request(c)
    PROVE  CP!Request(c)
<1>1. PICK f \in Frames :
           \/ C!HandleRefused(c, f) \/ C!HandlePing(c, f) \/ C!HandleSubscribe(c, f)
           \/ C!HandleRelay(c, f) \/ C!HandlePanic(c, f) \/ C!HandleProposal(c, f)
  BY DEF C!Request
<1>2. C!HandleRefused(c, f) => CP!HandleRefused(c, f)
  BY SameDecide, Zenon DEF
    C!HandleRefused, CP!HandleRefused, C!Code, CP!Code, C!Validated, CP!Validated, C!PairName,
    CP!PairName, C!Reads, CP!Reads, C!Respond, CP!Respond, C!RxOpen, CP!RxOpen, C!Reply, CP!Reply,
    C!taskVars, CP!taskVars
<1>3. C!HandlePing(c, f) => CP!HandlePing(c, f)
  BY SameDecide, Zenon DEF
    C!HandlePing, CP!HandlePing, C!Code, CP!Code, C!Validated, CP!Validated, C!PairName,
    CP!PairName, C!Reads, CP!Reads, C!Respond, CP!Respond, C!RxOpen, CP!RxOpen, C!Reply, CP!Reply,
    C!taskVars, CP!taskVars
<1>4. C!HandleSubscribe(c, f) => CP!HandleSubscribe(c, f)
  BY SameDecide, Zenon DEF
    C!HandleSubscribe, CP!HandleSubscribe, C!Code, CP!Code, C!Validated, CP!Validated, C!PairName,
    CP!PairName, C!Reads, CP!Reads, C!Subscribed, CP!Subscribed, C!SetEntry, CP!SetEntry, C!Entry,
    CP!Entry, C!NoSenders, CP!NoSenders, C!Respond, CP!Respond, C!RxOpen, CP!RxOpen, C!Reply,
    CP!Reply, C!taskVars, CP!taskVars
<1>5. C!HandleRelay(c, f) => CP!HandleRelay(c, f)
  BY SameDecide, SamePublish, Zenon DEF
    C!HandleRelay, CP!HandleRelay, C!Reads, CP!Reads, C!taskVars, CP!taskVars
<1>6. C!HandlePanic(c, f) => CP!HandlePanic(c, f)
  BY SameDecide, Zenon DEF
    C!HandlePanic, CP!HandlePanic, C!Code, CP!Code, C!Validated, CP!Validated, C!PairName,
    CP!PairName, C!Reads, CP!Reads, C!taskVars, CP!taskVars
<1>7. C!HandleProposal(c, f) => CP!HandleProposal(c, f)
  BY SameDecide, Zenon DEF
    C!HandleProposal, CP!HandleProposal, C!Code, CP!Code, C!Validated, CP!Validated, C!PairName,
    CP!PairName, C!Reads, CP!Reads, C!Respond, CP!Respond, C!RxOpen, CP!RxOpen, C!Reply, CP!Reply
<1> QED BY <1>1, <1>2, <1>3, <1>4, <1>5, <1>6, <1>7 DEF CP!Request

(* What the answer of the node, or its failure, does.                      *)
LEMMA SameNode ==
    ASSUME NEW c
    PROVE  /\ C!NodeAnswers(c) => CP!NodeAnswers(c)
           /\ C!NodeFails(c) => CP!NodeFails(c)
<1>1. C!NodeFails(c) => CP!NodeFails(c)
  BY Zenon DEF C!NodeFails, CP!NodeFails
<1>2. C!Decide(Head(pending[c])) = CP!Decide(Head(pending[c]))
  BY SameDecide
<1>3. C!NodeAnswers(c) => CP!NodeAnswers(c)
  BY <1>2, SamePublish DEF
    C!NodeAnswers, CP!NodeAnswers, C!Code, CP!Code, C!Validated, CP!Validated, C!PairName,
    CP!PairName, C!Validates, CP!Validates, C!OpenClients, CP!OpenClients, C!RxOpen, CP!RxOpen,
    C!Respond, CP!Respond, C!Reply, CP!Reply, C!TopicFromProposal, CP!TopicFromProposal
<1> QED BY <1>1, <1>3

(* A connection is made.                                                   *)
LEMMA SameConnect ==
    ASSUME NEW c
    PROVE  C!Connect(c) => CP!Connect(c)
BY Zenon DEF C!Connect, CP!Connect

(* What the client and the two tasks of a connection do besides.           *)
LEMMA SameTasks ==
    ASSUME NEW c
    PROVE  /\ C!Peer(c) => CP!Peer(c)
           /\ C!Closing(c) => CP!Closing(c)
           /\ C!ReaderSeesProtocolError(c) => CP!ReaderSeesProtocolError(c)
           /\ C!Forward(c) => CP!Forward(c)
<1>1. C!Peer(c) => CP!Peer(c)
  BY Zenon DEF
    C!Peer, CP!Peer, C!PeerLeaves, CP!PeerLeaves, C!PeerStalls, CP!PeerStalls, C!PeerResumes,
    CP!PeerResumes
<1>2. C!Closing(c) => CP!Closing(c)
  BY Zenon DEF C!Closing, CP!Closing, C!ReaderSeesClose, CP!ReaderSeesClose, C!Join, CP!Join
<1>3. C!ReaderSeesProtocolError(c) => CP!ReaderSeesProtocolError(c)
  BY Zenon DEF C!ReaderSeesProtocolError, CP!ReaderSeesProtocolError
<1>4. C!Forward(c) => CP!Forward(c)
  BY Zenon DEF
    C!Forward, CP!Forward, C!ForwardTakes, CP!ForwardTakes, C!ForwardEnds, CP!ForwardEnds,
    C!NoSenderLeft, CP!NoSenderLeft, C!HandlerHoldsSender, CP!HandlerHoldsSender,
    C!RegistryHoldsSender, CP!RegistryHoldsSender, C!ForwardSends, CP!ForwardSends,
    C!ForwardFails, CP!ForwardFails
<1> QED BY <1>1, <1>2, <1>3, <1>4

(* The state of the connections.                                           *)
LEMMA SameTopics == C!Topics = CP!Topics
BY SameDecide, Zenon DEF
    C!Topics, CP!Topics, C!TopicFromProposal, CP!TopicFromProposal, C!Validated, CP!Validated,
    C!PairName, CP!PairName

(* The initial state, the types and the streams.                           *)
LEMMA SameConnections ==
    /\ C!Init => CP!Init
    /\ C!TypeOK = CP!TypeOK
    /\ \A c : C!Stream(c) = CP!Stream(c)
<1>1. C!Init => CP!Init
  BY Zenon DEF C!Init, CP!Init, C!NoTopics, CP!NoTopics
<1>2. C!TypeOK = CP!TypeOK
  BY SameDecide, SameTopics, Zenon DEF
    C!TypeOK, CP!TypeOK, C!Messages, CP!Messages, C!Replies, CP!Replies, C!Codes, CP!Codes
<1>3. \A c : C!Stream(c) = CP!Stream(c)
  BY Zenon DEF
    C!Stream, CP!Stream, C!Here, CP!Here, C!RxOpen, CP!RxOpen, C!Queued, CP!Queued
<1> QED BY <1>1, <1>2, <1>3

(* The node and the listener.                                              *)
LEMMA SameSending == (L!Node => LP!Node) /\ (L!Lose => LP!Lose)
<1>1. L!Node => LP!Node
  BY Zenon DEF
    L!Node, LP!Node, L!Enter, LP!Enter, L!Confirmed, LP!Confirmed, L!TxsOf, LP!TxsOf, L!RawTx,
    LP!RawTx, L!cache, LP!cache, L!Mine, LP!Mine, L!RawTxs, LP!RawTxs, L!RawBlock, LP!RawBlock,
    L!Disconnect, LP!Disconnect, L!ToSet, LP!ToSet
<1>2. L!Lose => LP!Lose
  BY Zenon DEF L!Lose, LP!Lose, L!node, LP!node, L!cache, LP!cache
<1> QED BY <1>1, <1>2

(* The listener handles a message.                                         *)
LEMMA SameListen == L!Listen => LP!Listen
<1>1. L!HandleRawTx => LP!HandleRawTx
  BY Zenon DEF
    L!HandleRawTx, LP!HandleRawTx, L!Announcement, LP!Announcement, L!Notice, LP!Notice, L!node,
    LP!node, L!Cache!InsertKnown, LP!Cache!InsertKnown, L!Cache!Contains, LP!Cache!Contains,
    L!Cache!InsertNew, LP!Cache!InsertNew, L!Cache!SetAfterEviction, LP!Cache!SetAfterEviction,
    L!Cache!QueueAfterEviction, LP!Cache!QueueAfterEviction, L!Cache!Evicts, LP!Cache!Evicts
<1>2. \A s : L!FlattenSeq(s) = LP!FlattenSeq(s)
  BY Zenon DEF L!FlattenSeq, LP!FlattenSeq
<1>3. L!HandleRawBlock => LP!HandleRawBlock
  BY <1>2, Zenon DEF
    L!HandleRawBlock, LP!HandleRawBlock, L!BlockAnnouncement, LP!BlockAnnouncement,
    L!Announcement, LP!Announcement, L!Notice, LP!Notice, L!node, LP!node, L!cache, LP!cache
<1> QED BY <1>1, <1>3 DEF L!Listen, LP!Listen

(* The state of the listener.                                              *)
LEMMA SameListener ==
    /\ L!Init => LP!Init
    /\ L!TypeOK = LP!TypeOK
    /\ L!NoMempoolNoticeAfterBlock = LP!NoMempoolNoticeAfterBlock
    /\ L!TxsOf(undone) = LP!TxsOf(undone)
<1>1. L!Init => LP!Init
  BY Zenon DEF L!Init, LP!Init, L!Cache!Init, LP!Cache!Init
<1>2. L!TypeOK = LP!TypeOK
  BY Zenon DEF
    L!TypeOK, LP!TypeOK, L!ZmqMessages, LP!ZmqMessages, L!Notices, LP!Notices,
    L!Cache!TypeOK, LP!Cache!TypeOK, L!Cache!Window, LP!Cache!Window
<1>3. L!TxsOf(undone) = LP!TxsOf(undone)
  BY Zenon DEF L!TxsOf, LP!TxsOf, L!ToSet, LP!ToSet
<1>4. L!NoMempoolNoticeAfterBlock = LP!NoMempoolNoticeAfterBlock
  BY <1>3, Zenon DEF
    L!NoMempoolNoticeAfterBlock, LP!NoMempoolNoticeAfterBlock, L!Mempool, LP!Mempool
<1> QED BY <1>1, <1>2, <1>3, <1>4

------------------------------------------------------------------------------
(* The invariants of the parts, and what keeps them.                       *)
ConnInv == CP!TypeOK /\ CP!FreshInv /\ CP!OrderInv
ListenInv == LP!TypeOK /\ LP!CacheProofs!IInv /\ LP!FallInv

(* The connections start with their invariants.                            *)
LEMMA ConnStarts == C!Init => ConnInv
<1>1. CP!Init => CP!TypeOK /\ CP!FreshInv /\ CP!OrderInv
  BY CP!InitType, CP!FreshInit, CP!OrderInit, ConnectionsAssumption
     DEF CP!MaxFramesAssumption, CP!FramesAssumption, CP!IdMaxAssumption
<1> QED BY <1>1, SameConnections DEF ConnInv

(* Every step of a connection keeps them.                                  *)
LEMMA ConnGoesOn == ConnInv /\ [CP!Next]_(CP!vars) => ConnInv'
<1>1. CP!TypeOK /\ [CP!Next]_(CP!vars) => CP!TypeOK'
  BY CP!StepType, ConnectionsAssumption
     DEF CP!MaxFramesAssumption, CP!FramesAssumption, CP!IdMaxAssumption
<1>2. CP!TypeOK /\ CP!FreshInv /\ [CP!Next]_(CP!vars) => CP!FreshInv'
  BY CP!FreshStep, ConnectionsAssumption
     DEF CP!MaxFramesAssumption, CP!FramesAssumption, CP!IdMaxAssumption
<1>3. CP!TypeOK /\ CP!FreshInv /\ CP!OrderInv /\ [CP!Next]_(CP!vars) => CP!OrderInv'
  BY CP!OrderStep, ConnectionsAssumption
     DEF CP!MaxFramesAssumption, CP!FramesAssumption, CP!IdMaxAssumption
<1> QED BY <1>1, <1>2, <1>3 DEF ConnInv

(* The listener starts with its invariants.                                *)
LEMMA ListenStarts == L!Init => ListenInv
<1>1. LP!Init => LP!TypeOK /\ LP!CacheProofs!IInv /\ LP!FallInv
  BY LP!InitType, LP!FallInit, ListenerAssumption
     DEF LP!OutputsAssumption, LP!BlocksAssumption, LP!NamesAssumption,
         LP!ListenerBoundsAssumption
<1> QED BY <1>1, SameListener DEF ListenInv

(* Every step of the node and of the listener keeps them.                  *)
LEMMA ListenGoesOn == ListenInv /\ [LP!Next]_(LP!vars) => ListenInv'
<1>1. LP!TypeOK /\ LP!CacheProofs!IInv /\ [LP!Next]_(LP!vars)
          => LP!TypeOK' /\ LP!CacheProofs!IInv'
  BY LP!TypeStep, ListenerAssumption
     DEF LP!OutputsAssumption, LP!BlocksAssumption, LP!NamesAssumption,
         LP!ListenerBoundsAssumption
<1>2. LP!TypeOK /\ LP!FallInv /\ [LP!Next]_(LP!vars) => LP!FallInv'
  BY LP!FallStep, ListenerAssumption
     DEF LP!OutputsAssumption, LP!BlocksAssumption, LP!NamesAssumption,
         LP!ListenerBoundsAssumption
<1> QED BY <1>1, <1>2 DEF ListenInv

------------------------------------------------------------------------------
(* Counting the node's publications.                                       *)

(* Up to n there are at most as many as up to a later place.               *)
LEMMA NodeCount ==
    ASSUME NEW s, NEW n \in Nat, NEW k \in 0..n
    PROVE  /\ NodeAmong(s, n) \in Nat /\ NodeAmong(s, k) \in Nat
           /\ NodeAmong(s, k) <= NodeAmong(s, n)
<1> DEFINE R(x) == {i \in 1..x : ByNode(s[i])}
<1>1. IsFiniteSet(1..n)
  BY FS_Interval
<1>2. R(n) \in SUBSET (1..n) /\ R(k) \in SUBSET R(n)
  OBVIOUS
<1>3. IsFiniteSet(R(n))
  BY <1>1, <1>2, FS_Subset
<1>4. IsFiniteSet(R(k)) /\ Cardinality(R(k)) <= Cardinality(R(n))
  BY <1>2, <1>3, FS_Subset
<1>5. Cardinality(R(n)) \in Nat /\ Cardinality(R(k)) \in Nat
  BY <1>3, <1>4, FS_CardinalityType
<1> QED BY <1>4, <1>5 DEF NodeAmong

(* The next publication counts if it is the node's.                        *)
LEMMA NodeCounts ==
    ASSUME NEW s, NEW n \in Nat
    PROVE  NodeAmong(s, n + 1) = NodeAmong(s, n) + IF ByNode(s[n + 1]) THEN 1 ELSE 0
<1> DEFINE R(x) == {i \in 1..x : ByNode(s[i])}
<1>1. IsFiniteSet(R(n)) /\ n + 1 \notin R(n)
  <2>1. IsFiniteSet(1..n) /\ R(n) \in SUBSET (1..n)
    BY FS_Interval
  <2> QED BY <2>1, FS_Subset
<1>2. CASE ByNode(s[n + 1])
  <2>1. R(n + 1) = R(n) \union {n + 1}
    BY <1>2
  <2>2. Cardinality(R(n + 1)) = Cardinality(R(n)) + 1
    BY <1>1, <2>1, FS_AddElement
  <2> QED BY <1>2, <2>2 DEF NodeAmong
<1>3. CASE ~ByNode(s[n + 1])
  <2>1. R(n + 1) = R(n)
    BY <1>3
  <2>2. Cardinality(R(n)) \in Nat
    BY <1>1, FS_CardinalityType
  <2> QED BY <1>3, <2>1, <2>2 DEF NodeAmong
<1> QED BY <1>2, <1>3

(* Sequences that begin alike have as many there.                          *)
LEMMA SameCount ==
    ASSUME NEW s, NEW t, NEW n \in Nat, \A i \in 1..n : s[i] = t[i]
    PROVE  NodeAmong(s, n) = NodeAmong(t, n)
<1>1. {i \in 1..n : ByNode(s[i])} = {i \in 1..n : ByNode(t[i])}
  OBVIOUS
<1> QED BY <1>1 DEF NodeAmong

(* The node's publications of p are the first k notices of s.              *)
Matches(p, s, k) ==
    /\ NodeAmong(p, Len(p)) = k
    /\ \A n \in DOMAIN p :
          ByNode(p[n]) => p[n].topic = C!Validated(<<s[NodeAmong(p, n)].topic>>)

(* A client publishes, or the node the next notice.                        *)
LEMMA MatchesNext ==
    ASSUME NEW P, NEW p \in Seq(P), NEW m \in P, NEW s, NEW k \in Nat, Matches(p, s, k)
    PROVE  /\ ~ByNode(m) => Matches(Append(p, m), s, k)
           /\ ByNode(m) /\ m.topic = C!Validated(<<s[k + 1].topic>>)
                 => Matches(Append(p, m), s, k + 1)
<1> DEFINE q == Append(p, m)
<1>1. /\ Len(p) \in Nat /\ Len(q) = Len(p) + 1 /\ q[Len(p) + 1] = m
      /\ DOMAIN q = 1..(Len(p) + 1) /\ DOMAIN p = 1..Len(p)
      /\ \A i \in 1..Len(p) : q[i] = p[i]
  OBVIOUS
<1> HIDE DEF q
<1>2. \A n \in 0..Len(p) : NodeAmong(q, n) = NodeAmong(p, n)
  BY <1>1, SameCount
<1>3. NodeAmong(q, Len(q)) = k + IF ByNode(m) THEN 1 ELSE 0
  <2>1. NodeAmong(q, Len(p) + 1) = NodeAmong(q, Len(p)) + IF ByNode(q[Len(p) + 1]) THEN 1 ELSE 0
    BY <1>1, NodeCounts
  <2>2. NodeAmong(q, Len(p)) = k
    BY <1>1, <1>2 DEF Matches
  <2> QED BY <1>1, <2>1, <2>2
<1>4. \A n \in 1..Len(p) : ByNode(q[n]) => q[n].topic = C!Validated(<<s[NodeAmong(q, n)].topic>>)
  BY <1>1, <1>2 DEF Matches
<1>5. \A n \in DOMAIN q : n \in 1..Len(p) \/ n = Len(q)
  BY <1>1
<1>6. q[Len(q)] = m
  BY <1>1
<1> QED BY <1>3, <1>4, <1>5, <1>6 DEF Matches, q

(* What comes after the notices it matches does not matter.                *)
LEMMA MatchesMore ==
    ASSUME NEW p, Len(p) \in Nat, DOMAIN p = 1..Len(p), NEW s, NEW t, NEW k \in Nat,
           Matches(p, s, k), \A i \in 1..k : s[i] = t[i]
    PROVE  Matches(p, t, k)
<1>1. ASSUME NEW n \in DOMAIN p, ByNode(p[n]) PROVE NodeAmong(p, n) \in 1..k
  <2>1. n \in 1..Len(p) /\ n - 1 \in Nat
    OBVIOUS
  <2>2. NodeAmong(p, (n - 1) + 1) = NodeAmong(p, n - 1) + 1
    BY <1>1, <2>1, NodeCounts
  <2>3. NodeAmong(p, n) <= k /\ NodeAmong(p, n - 1) \in Nat /\ NodeAmong(p, n) \in Nat
    BY <2>1, NodeCount DEF Matches
  <2> QED BY <2>1, <2>2, <2>3
<1> QED BY <1>1 DEF Matches

------------------------------------------------------------------------------
(* The inductive invariant: those of the parts, and what joins them.       *)
Coupled ==
    /\ server \in {"up", "down"} /\ listener \in {"starting", "on", "off"}
    /\ accept \in [Clients -> {"absent", "backlog", "upgrading", "open", "refused"}]
    /\ \A c \in Clients : accept[c] = "open" <=> reader[c] # "off"
    /\ Matches(published, notices, Len(notices))
RelayInv == ConnInv /\ ListenInv /\ Coupled

(* The relay starts with all of them, and nothing published.               *)
LEMMA RelayStarts == Init => RelayInv
<1> SUFFICES ASSUME Init PROVE RelayInv
  OBVIOUS
<1>1. ConnInv /\ ListenInv
  BY ConnStarts, ListenStarts DEF Init
<1>2. notices = <<>> /\ published = <<>> /\ reader = [c \in Clients |-> "off"]
  BY DEF Init, C!Init, L!Init
<1>3. Matches(<<>>, <<>>, 0)
  <2>1. {i \in 1..0 : ByNode(<<>>[i])} = {}
    OBVIOUS
  <2>2. NodeAmong(<<>>, 0) = 0
    BY <2>1, FS_EmptySet DEF NodeAmong
  <2> QED BY <2>2 DEF Matches
<1>4. Coupled
  BY <1>2, <1>3 DEF Init, Coupled
<1> QED BY <1>1, <1>4 DEF RelayInv

(* A part that stands still keeps its invariant.                           *)
LEMMA ConnStays == ConnInv /\ UNCHANGED connVars => ConnInv'
<1>1. UNCHANGED connVars => UNCHANGED CP!vars
  BY DEF connVars, taskVars, CP!vars
<1> QED BY <1>1, ConnGoesOn

(* The same for the listener.                                              *)
LEMMA ListenStays == ListenInv /\ UNCHANGED listenVars => ListenInv'
<1>1. UNCHANGED listenVars => UNCHANGED LP!vars
  BY DEF listenVars, node, cache, LP!vars, LP!node, LP!cache
<1> QED BY <1>1, ListenGoesOn

(* A client that publishes adds nothing to the node's publications.        *)
LEMMA ClientPublishes ==
    ASSUME ConnInv, [CP!Next]_(CP!vars), Matches(published, notices, Len(notices)),
           Len(notices) \in Nat
    PROVE  Matches(published', notices, Len(notices))
<1> DEFINE P == [topic : CP!Topics, by : Clients \union {"node"}]
<1>1. \/ published' = published
      \/ \E t \in CP!Topics, c \in Clients :
            published' = Append(published, [topic |-> t, by |-> c])
  BY CP!PublishedStep, ConnectionsAssumption
     DEF ConnInv, CP!MaxFramesAssumption, CP!FramesAssumption, CP!IdMaxAssumption
<1>2. published \in Seq(P)
  BY DEF ConnInv, CP!TypeOK
<1>3. ASSUME NEW t \in CP!Topics, NEW c \in Clients,
             published' = Append(published, [topic |-> t, by |-> c])
      PROVE  Matches(published', notices, Len(notices))
  <2>1. [topic |-> t, by |-> c] \in P /\ ~ByNode([topic |-> t, by |-> c])
    BY AuthorsAssumption DEF ByNode
  <2> HIDE DEF P
  <2>2. Matches(Append(published, [topic |-> t, by |-> c]), notices, Len(notices))
    BY <1>2, <2>1, MatchesNext
  <2> QED BY <1>3, <2>2
<1> QED BY <1>1, <1>3

(* What the node sent before the subscription is forgotten.                *)
LEMMA ListenForgets ==
    ASSUME ListenInv, zmq' = <<>>, lost' = lost \o zmq, UNCHANGED <<node, cache, notices>>
    PROVE  ListenInv'
<1>1. UNCHANGED <<mempool, chain, entered, undone, set, queue, capacity, log, fresh, notices>>
  BY DEF node, cache
<1>2. LP!CacheProofs!IInv'
  BY LP!CacheStep, ListenerAssumption
     DEF ListenInv, cache, LP!cache, LP!OutputsAssumption, LP!BlocksAssumption,
         LP!NamesAssumption, LP!ListenerBoundsAssumption
<1>3. LP!TypeOK'
  <2>1. lost' \in Seq(LP!ZmqMessages) /\ zmq' \in Seq(LP!ZmqMessages)
    BY DEF ListenInv, LP!TypeOK
  <2>2. LP!Cache!TypeOK'
    BY <1>1 DEF ListenInv, LP!TypeOK, LP!Cache!TypeOK
  <2> QED BY <1>1, <2>1, <2>2 DEF ListenInv, LP!TypeOK
<1>4. LP!FallInv'
  <2>1. \A tx : ~LP!CarriedBefore(tx, Len(zmq) + 1)'
    BY DEF LP!CarriedBefore
  <2>2. \A tx : LP!SaidBlock(tx)' => LP!SaidBlock(tx)
    BY <1>1 DEF LP!SaidBlock
  <2>3. LP!ConfirmedOrUndone'
    BY <1>1, <2>1, <2>2 DEF ListenInv, LP!FallInv, LP!ConfirmedOrUndone, LP!Confirmed
  <2>4. LP!RepeatsUndone'
    BY DEF LP!RepeatsUndone
  <2>5. LP!NoMempoolNoticeAfterBlock'
    BY <1>1 DEF ListenInv, LP!FallInv, LP!NoMempoolNoticeAfterBlock
  <2> QED BY <2>3, <2>4, <2>5 DEF LP!FallInv
<1> QED BY <1>2, <1>3, <1>4 DEF ListenInv

(* Steps of the accept loop that make no task.                             *)
LEMMA AcceptStep ==
    ASSUME RelayInv, NEW c \in Clients,
           Arrives(c) \/ Accept(c) \/ UpgradeFails(c)
    PROVE  RelayInv'
<1>1. UNCHANGED <<server, listener, connVars, listenVars>>
  BY DEF Arrives, Accept, UpgradeFails, SetAccept
<1>2. ConnInv' /\ ListenInv'
  BY <1>1, ConnStays, ListenStays DEF RelayInv
<1>3. PICK a \in {"backlog", "upgrading", "refused"} :
           accept[c] # "open" /\ accept' = [accept EXCEPT ![c] = a]
  BY DEF Arrives, Accept, UpgradeFails, SetAccept
<1>4. Coupled'
  <2>1. UNCHANGED <<server, listener, reader, published, notices>>
    BY <1>1 DEF connVars, listenVars
  <2>2. Matches(published, notices, Len(notices))'
    BY <2>1 DEF RelayInv, Coupled
  <2> QED BY <1>3, <2>1, <2>2 DEF RelayInv, Coupled
<1> QED BY <1>2, <1>4 DEF RelayInv

(* Steps of a connection, its first one included.                          *)
LEMMA ConnectionStep ==
    ASSUME RelayInv, NEW c \in Clients,
           \/ Upgraded(c) \/ Client(c) \/ Serve(c) \/ NodeAnswers(c) \/ NodeFails(c)
           \/ Closing(c) \/ Forward(c)
    PROVE  RelayInv'
<1> DEFINE Served == \/ CP!Peer(c) \/ CP!Request(c) \/ CP!Node(c)
                     \/ CP!Closing(c) \/ CP!ReaderSeesProtocolError(c) \/ CP!Forward(c)
<1>1. UNCHANGED <<server, listener, listenVars>>
  BY DEF Upgraded, SetAccept, Client, Serve, NodeAnswers, NodeFails, Closing, Forward, Elsewhere,
         serverVars
<1>2. \/ CP!Connect(c) /\ accept' = [accept EXCEPT ![c] = "open"]
      \/ Served /\ accept' = accept
  BY SameConnect, SameTasks, SameRequest, SameNode
     DEF Upgraded, SetAccept, Client, Serve, NodeAnswers, NodeFails, Closing, Forward, Elsewhere,
         serverVars, CP!Node
<1>3. CP!Next
  BY <1>2 DEF CP!Next
<1>4. ConnInv' /\ ListenInv'
  BY <1>1, <1>3, ConnGoesOn, ListenStays DEF RelayInv
<1>5. notices' = notices /\ Len(notices) \in Nat
  BY <1>1 DEF listenVars, RelayInv, ListenInv, LP!TypeOK
<1>6. Matches(published, notices, Len(notices))'
  <2>1. Matches(published', notices, Len(notices))
    BY <1>3, <1>5, ClientPublishes DEF RelayInv, Coupled
  <2> QED BY <1>5, <2>1
<1>7. \A d \in Clients : accept'[d] = "open" <=> reader'[d] # "off"
  <2>1. CASE CP!Connect(c) /\ accept' = [accept EXCEPT ![c] = "open"]
    <3>1. reader' = [reader EXCEPT ![c] = "reading"]
      BY <2>1 DEF CP!Connect
    <3>2. DOMAIN reader = Clients
      BY DEF RelayInv, ConnInv, CP!TypeOK
    <3> QED BY <2>1, <3>1, <3>2 DEF RelayInv, Coupled
  <2>2. CASE Served /\ accept' = accept
    <3>1. \A d \in Clients : reader'[d] = "off" <=> reader[d] = "off"
      BY <2>2, CP!ConnectedStep, ConnectionsAssumption
         DEF RelayInv, ConnInv, CP!MaxFramesAssumption, CP!FramesAssumption, CP!IdMaxAssumption
    <3> QED BY <2>2, <3>1 DEF RelayInv, Coupled
  <2> QED BY <1>2, <2>1, <2>2
<1>8. accept' \in [Clients -> {"absent", "backlog", "upgrading", "open", "refused"}]
  BY <1>2 DEF RelayInv, Coupled
<1>9. Coupled'
  BY <1>1, <1>6, <1>7, <1>8 DEF RelayInv, Coupled
<1> QED BY <1>4, <1>9 DEF RelayInv

(* The node reports, and the listener starts, fails or loses a message;    *)
(* the process may end.                                                    *)
LEMMA QuietStep ==
    ASSUME RelayInv,
           \/ AcceptFails \/ NodeSteps \/ ListenerStarts \/ ListenerFails \/ LosesMessage
    PROVE  RelayInv'
<1>1. UNCHANGED <<accept, connVars, notices>>
  BY DEF AcceptFails, NodeSteps, ListenerStarts, ListenerFails, LosesMessage, serverVars,
         listenVars, L!Node, L!Enter, L!Mine, L!Disconnect, L!Lose
<1>2. ConnInv'
  BY <1>1, ConnStays DEF RelayInv
<1>3. ListenInv'
  <2>1. CASE NodeSteps \/ LosesMessage
    <3>1. LP!Next
      BY <2>1, SameSending DEF NodeSteps, LosesMessage, LP!Next
    <3> QED BY <3>1, ListenGoesOn DEF RelayInv
  <2>2. CASE AcceptFails \/ ListenerFails
    BY <2>2, ListenStays DEF RelayInv, AcceptFails, ListenerFails
  <2>3. CASE ListenerStarts
    BY <2>3, ListenForgets DEF RelayInv, ListenerStarts
  <2> QED BY <2>1, <2>2, <2>3
<1>4. Coupled'
  <2>1. UNCHANGED <<reader, published>>
    BY <1>1 DEF connVars
  <2>2. server' \in {"up", "down"} /\ listener' \in {"starting", "on", "off"}
    BY DEF RelayInv, Coupled, AcceptFails, NodeSteps, ListenerStarts, ListenerFails, LosesMessage,
           serverVars
  <2>3. Matches(published, notices, Len(notices))'
    BY <1>1, <2>1 DEF RelayInv, Coupled
  <2> QED BY <1>1, <2>1, <2>2, <2>3 DEF RelayInv, Coupled
<1> QED BY <1>2, <1>3, <1>4 DEF RelayInv

------------------------------------------------------------------------------
(* The listener publishes what it announces, notice by notice.             *)
Publications == [topic : CP!Topics, by : Clients \union {"node"}]

(* The topic of a notice is one of the registry's.                         *)
LEMMA NoticeTopic ==
    ASSUME NEW notice \in LP!Notices
    PROVE  TopicOf(notice) \in CP!Topics
<1>1. notice.topic \in Txs \union Addresses
  BY DEF LP!Notices
<1>2. TopicOf(notice) \in ListenerTopics
  BY <1>1 DEF TopicOf, C!Validated, ListenerTopics
<1> QED BY <1>2 DEF CP!Topics

(* One notice, in the terms of the proofs about the connections.           *)
LEMMA SamePublishNotice ==
    ASSUME NEW relay, NEW notice
    PROVE  LET topic == TopicOf(notice)
               n == Len(relay.published) + 1
               next == PublishNotice(relay, notice)
           IN  /\ next.topics = CP!Retained(relay.topics, topic, CP!OpenClients)
               /\ next.chan = CP!Delivered(relay.topics, relay.chan, topic, CP!OpenClients,
                                           CP!Note(topic, n))
               /\ next.published = Append(relay.published, [topic |-> topic, by |-> "node"])
<1> DEFINE topic == TopicOf(notice)
           n == Len(relay.published) + 1
<1>1. PublishNotice(relay, notice) =
        [topics |-> C!Retained(relay.topics, topic, C!OpenClients),
         chan |-> C!Delivered(relay.topics, relay.chan, topic, C!OpenClients, C!Note(topic, n)),
         published |-> Append(relay.published, [topic |-> topic, by |-> "node"])]
  BY Zenon DEF PublishNotice
<1>2. C!OpenClients = CP!OpenClients
  BY Zenon DEF C!OpenClients, CP!OpenClients, C!RxOpen, CP!RxOpen
<1>3. \A r, t, o : C!Retained(r, t, o) = CP!Retained(r, t, o)
  BY Zenon DEF C!Retained, CP!Retained, C!SetEntry, CP!SetEntry, C!Entry, CP!Entry, C!NoSenders,
               CP!NoSenders
<1>4. \A r, q, t, o, m : C!Delivered(r, q, t, o, m) = CP!Delivered(r, q, t, o, m)
  BY Zenon DEF C!Delivered, CP!Delivered, C!Copies, CP!Copies, C!Entry, CP!Entry, C!NoSenders,
               CP!NoSenders
<1>5. \A t, k : C!Note(t, k) = CP!Note(t, k)
  BY Zenon DEF C!Note, CP!Note
<1> HIDE DEF topic, n
<1>6. PublishNotice(relay, notice) =
        [topics |-> CP!Retained(relay.topics, topic, CP!OpenClients),
         chan |-> CP!Delivered(relay.topics, relay.chan, topic, CP!OpenClients,
                               CP!Note(topic, n)),
         published |-> Append(relay.published, [topic |-> topic, by |-> "node"])]
  BY <1>1, <1>2, <1>3, <1>4, <1>5, Zenon
<1> QED BY <1>6 DEF topic, n

(* f[k]: the relay after the first k notices of s.                         *)
Current == [topics |-> topics, chan |-> chan, published |-> published]
Publishing(f, s, n) ==
    f = [k \in 0..n |-> IF k = 0 THEN Current ELSE PublishNotice(f[k - 1], s[k])]

(* There is such a function.                                               *)
LEMMA PublishingExists ==
    ASSUME NEW s
    PROVE  \A n \in Nat : \E f : Publishing(f, s, n)
<1> DEFINE S == {n \in Nat : \E f : Publishing(f, s, n)}
<1>1. 0 \in S
  <2> DEFINE f == [k \in 0..0 |-> Current]
  <2>1. f = [k \in 0..0 |-> IF k = 0 THEN Current ELSE PublishNotice(f[k - 1], s[k])]
    OBVIOUS
  <2>2. Publishing(f, s, 0)
    BY <2>1 DEF Publishing
  <2> QED BY <2>2
<1>2. ASSUME NEW n \in S PROVE n + 1 \in S
  <2>1. PICK f : Publishing(f, s, n)
    OBVIOUS
  <2> DEFINE After(g, k) == IF k = 0 THEN Current ELSE PublishNotice(g[k - 1], s[k])
             g == [k \in 0..(n + 1) |-> After(f, k)]
  <2>2. f = [k \in 0..n |-> After(f, k)]
    BY <2>1, Zenon DEF Publishing
  <2>3. \A h, i : \A k : k # 0 /\ h[k - 1] = i[k - 1] => After(h, k) = After(i, k)
    BY Zenon
  <2>4. \A h : After(h, 0) = Current
    OBVIOUS
  <2> HIDE DEF After
  <2>5. \A k \in 0..n : f[k] = After(f, k)
    BY <2>2
  <2>6. \A k \in 0..n : g[k] = f[k]
    BY <2>5
  <2>7. \A k \in 0..(n + 1) : k = 0 \/ (k # 0 /\ g[k - 1] = f[k - 1])
    BY <2>6
  <2>8. \A k \in 0..(n + 1) : After(f, k) = After(g, k)
    <3> TAKE k \in 0..(n + 1)
    <3>1. CASE k = 0
      BY <2>4, <3>1
    <3>2. CASE k # 0
      <4>1. g[k - 1] = f[k - 1]
        BY <2>7, <3>2
      <4> QED BY <2>3, <3>2, <4>1
    <3> QED BY <3>1, <3>2
  <2> HIDE DEF g
  <2>9. g = [k \in 0..(n + 1) |-> After(f, k)]
    BY DEF g
  <2>10. g = [k \in 0..(n + 1) |-> After(g, k)]
    BY <2>8, <2>9
  <2>11. Publishing(g, s, n + 1)
    BY <2>10, Zenon DEF Publishing, After
  <2> QED BY <2>11
<1> HIDE DEF S
<1>3. S = Nat
  <2>1. S \subseteq Nat
    BY DEF S
  <2> QED BY <1>1, <1>2, <2>1, NatInduct
<1> QED BY <1>3 DEF S

(* What the listener may announce in one step.                             *)
Announced(s) ==
    \/ s = <<>>
    \/ \E tx \in Txs : s = LP!Announcement(tx, "mempool")
    \/ \E block \in Blocks : s = LP!BlockAnnouncement(block)

(* What it does announce.                                                  *)
LEMMA ListenAnnounces ==
    ASSUME ListenInv, LP!Listen
    PROVE  \E more \in Seq(LP!Notices) : notices' = notices \o more /\ Announced(more)
<1>1. CASE LP!HandleRawTx
  <2>1. PICK tx \in Txs :
             notices' = notices \/ notices' = notices \o LP!Announcement(tx, "mempool")
    BY <1>1, LP!HandledTx, ListenerAssumption
       DEF ListenInv, LP!OutputsAssumption, LP!BlocksAssumption, LP!NamesAssumption,
           LP!ListenerBoundsAssumption
  <2>2. LP!Announcement(tx, "mempool") \in Seq(LP!Notices)
    BY LP!AnnouncementForm, ListenerAssumption
       DEF LP!OutputsAssumption, LP!BlocksAssumption, LP!NamesAssumption,
           LP!ListenerBoundsAssumption
  <2>3. notices \o <<>> = notices /\ <<>> \in Seq(LP!Notices)
    BY DEF ListenInv, LP!TypeOK
  <2> QED BY <2>1, <2>2, <2>3 DEF Announced
<1>2. CASE LP!HandleRawBlock
  <2>1. \E block \in Blocks :
           /\ notices' = notices \o LP!BlockAnnouncement(block)
           /\ LP!BlockAnnouncement(block) \in Seq(LP!Notices)
    BY <1>2, LP!HandledBlock, ListenerAssumption
       DEF ListenInv, LP!OutputsAssumption, LP!BlocksAssumption, LP!NamesAssumption,
           LP!ListenerBoundsAssumption
  <2> QED BY <2>1 DEF Announced
<1> QED BY <1>1, <1>2 DEF LP!Listen

(* The members of two sequences joined.                                    *)
LEMMA JoinedPlaces ==
    ASSUME NEW X, NEW s \in Seq(X), NEW t \in Seq(X)
    PROVE  /\ s \o t \in Seq(X) /\ Len(s) \in Nat /\ Len(t) \in Nat
           /\ Len(s \o t) = Len(s) + Len(t)
           /\ \A i \in 1..Len(s) : (s \o t)[i] = s[i] /\ s[i] \in X
           /\ \A i \in 1..Len(t) : (s \o t)[Len(s) + i] = t[i] /\ t[i] \in X
<1>1. s \o t \in Seq(X)
  OBVIOUS
<1> QED BY <1>1, LP!JoinedPlaces, ListenerAssumption
           DEF LP!OutputsAssumption, LP!BlocksAssumption, LP!NamesAssumption,
               LP!ListenerBoundsAssumption

(* They are what is new in the history of notices.                         *)
LEMMA NewNoticesForm ==
    ASSUME ListenInv, LP!Listen
    PROVE  /\ Len(notices) \in Nat /\ Len(NewNotices) \in Nat
           /\ Len(notices') = Len(notices) + Len(NewNotices)
           /\ \A i \in 1..Len(notices) : notices'[i] = notices[i]
           /\ \A i \in 1..Len(NewNotices) : /\ NewNotices[i] \in LP!Notices
                                            /\ NewNotices[i] = notices'[Len(notices) + i]
           /\ NewNotices \in Seq(LP!Notices) /\ Announced(NewNotices)
<1>1. notices \in Seq(LP!Notices)
  BY DEF ListenInv, LP!TypeOK
<1>2. PICK more \in Seq(LP!Notices) : notices' = notices \o more /\ Announced(more)
  BY ListenAnnounces
<1> DEFINE N == LP!Notices
           s == notices \o more
           t == SubSeq(s, Len(notices) + 1, Len(s))
<1>3. /\ s \in Seq(N) /\ Len(notices) \in Nat /\ Len(more) \in Nat
      /\ Len(s) = Len(notices) + Len(more)
      /\ \A i \in 1..Len(notices) : s[i] = notices[i]
      /\ \A i \in 1..Len(more) : s[Len(notices) + i] = more[i] /\ more[i] \in N
  <2> HIDE DEF N
  <2>1. notices \in Seq(N) /\ more \in Seq(N)
    BY <1>1 DEF N
  <2>2. /\ Len(notices) \in Nat /\ Len(more) \in Nat
        /\ Len(notices \o more) = Len(notices) + Len(more)
        /\ \A i \in 1..Len(notices) : (notices \o more)[i] = notices[i]
        /\ \A i \in 1..Len(more) :
              (notices \o more)[Len(notices) + i] = more[i] /\ more[i] \in N
    BY <2>1, JoinedPlaces
  <2>3. notices \o more \in Seq(N)
    BY <2>1
  <2> QED BY <2>2, <2>3
<1> HIDE DEF s, N
<1>4. /\ Len(t) = Len(more)
      /\ \A i \in 1..Len(more) : t[i] = s[Len(notices) + i]
      /\ t = more
  <2>1. /\ t \in Seq(N) /\ Len(t) = Len(more)
        /\ \A i \in 1..Len(more) : t[i] = s[Len(notices) + i]
    BY <1>3
  <2>2. more \in Seq(N)
    BY DEF N
  <2> HIDE DEF t
  <2>3. \A i \in 1..Len(more) : t[i] = more[i]
    BY <1>3, <2>1
  <2>4. t = more
    BY <2>1, <2>2, <2>3, SeqEqual
  <2> QED BY <2>1, <2>4
<1>5. NewNotices = t
  BY <1>2 DEF NewNotices, s
<1> HIDE DEF t
<1> QED BY <1>2, <1>3, <1>4, <1>5 DEF s, N

(* What the registry, the channels and the history are after k of the new  *)
(* notices: a state that keeps the connections' invariants, and matches    *)
(* the notices that are published.                                         *)
PublishedSoFar(relay, k) ==
    /\ CP!Shared(relay.topics, relay.chan, Len(published) + k)
    /\ relay.published \in Seq(Publications)
    /\ Len(relay.published) = Len(published) + k
    /\ Matches(relay.published, notices', Len(notices) + k)

(* Before the first of them.                                               *)
LEMMA NothingPublished ==
    ASSUME RelayInv, LP!Listen
    PROVE  PublishedSoFar(Current, 0)
<1>1. published \in Seq(Publications) /\ Len(published) \in Nat
  BY DEF RelayInv, ConnInv, CP!TypeOK, Publications
<1>2. CP!Shared(topics, chan, Len(published))
  BY CP!SharedStarts, ConnectionsAssumption
     DEF RelayInv, ConnInv, CP!MaxFramesAssumption, CP!FramesAssumption, CP!IdMaxAssumption
<1>3. Len(notices) \in Nat /\ \A i \in 1..Len(notices) : notices'[i] = notices[i]
  BY NewNoticesForm DEF RelayInv
<1>4. DOMAIN published = 1..Len(published) /\ Matches(published, notices, Len(notices))
  BY <1>1 DEF RelayInv, Coupled
<1>5. Matches(published, notices', Len(notices))
  BY <1>1, <1>3, <1>4, MatchesMore
<1>6. Len(published) + 0 = Len(published) /\ Len(notices) + 0 = Len(notices)
  BY <1>1, <1>3
<1> QED BY <1>1, <1>2, <1>5, <1>6 DEF PublishedSoFar, Current

(* The next of them.                                                       *)
LEMMA NextPublished ==
    ASSUME RelayInv, LP!Listen, NEW k \in 0..(Len(NewNotices) - 1),
           NEW relay, PublishedSoFar(relay, k)
    PROVE  PublishedSoFar(PublishNotice(relay, NewNotices[k + 1]), k + 1)
<1> DEFINE notice == NewNotices[k + 1]
           topic == TopicOf(notice)
           next == PublishNotice(relay, notice)
           n == Len(published) + k
           new == [topic |-> topic, by |-> "node"]
<1>1. /\ Len(notices) \in Nat /\ notice \in LP!Notices
      /\ notice = notices'[(Len(notices) + k) + 1] /\ k \in Nat
  <2>1. /\ Len(notices) \in Nat /\ Len(NewNotices) \in Nat
        /\ \A i \in 1..Len(NewNotices) : /\ NewNotices[i] \in LP!Notices
                                         /\ NewNotices[i] = notices'[Len(notices) + i]
    BY NewNoticesForm DEF RelayInv
  <2>2. k + 1 \in 1..Len(NewNotices) /\ k \in Nat
    BY <2>1
  <2>3. Len(notices) + (k + 1) = (Len(notices) + k) + 1
    BY <2>1, <2>2
  <2> QED BY <2>1, <2>2, <2>3
<1>2. Len(published) \in Nat
  BY DEF RelayInv, ConnInv, CP!TypeOK
<1>3. topic \in CP!Topics
  BY <1>1, NoticeTopic
<1>4. /\ next.topics = CP!Retained(relay.topics, topic, CP!OpenClients)
      /\ next.chan = CP!Delivered(relay.topics, relay.chan, topic, CP!OpenClients,
                                  CP!Note(topic, Len(relay.published) + 1))
      /\ next.published = Append(relay.published, new)
  BY SamePublishNotice
<1>5. /\ CP!Shared(relay.topics, relay.chan, n) /\ relay.published \in Seq(Publications)
      /\ Len(relay.published) = n /\ Matches(relay.published, notices', Len(notices) + k)
  BY DEF PublishedSoFar
<1>6. new \in Publications /\ ByNode(new)
      /\ new.topic = C!Validated(<<notices'[(Len(notices) + k) + 1].topic>>)
  BY <1>1, <1>3 DEF Publications, ByNode, TopicOf
<1> HIDE DEF notice, topic, next, n, new
<1>7. CP!Shared(CP!Retained(relay.topics, topic, CP!OpenClients),
                CP!Delivered(relay.topics, relay.chan, topic, CP!OpenClients,
                             CP!Note(topic, n + 1)), n + 1)
  BY <1>3, <1>5, CP!SharedGoesOn, ConnectionsAssumption
     DEF RelayInv, ConnInv, CP!MaxFramesAssumption, CP!FramesAssumption, CP!IdMaxAssumption
<1>8. CP!Shared(next.topics, next.chan, n + 1)
  BY <1>4, <1>5, <1>7
<1>9. Matches(next.published, notices', (Len(notices) + k) + 1)
  BY <1>1, <1>4, <1>5, <1>6, MatchesNext
<1>10. next.published \in Seq(Publications) /\ Len(next.published) = n + 1
  BY <1>4, <1>5, <1>6
<1>11. n + 1 = Len(published) + (k + 1) /\ (Len(notices) + k) + 1 = Len(notices) + (k + 1)
  BY <1>1, <1>2 DEF n
<1>12. PublishedSoFar(next, k + 1)
  BY <1>8, <1>9, <1>10, <1>11 DEF PublishedSoFar
<1> QED BY <1>12 DEF next, notice

(* All of them, one after the other.                                       *)
LEMMA AllPublished ==
    ASSUME RelayInv, Listen
    PROVE  LET n == Len(NewNotices)
           IN  \E f : /\ f[0] = Current
                      /\ \A k \in 0..(n - 1) : f[k + 1] = PublishNotice(f[k], NewNotices[k + 1])
                      /\ \A k \in 0..n : PublishedSoFar(f[k], k)
                      /\ topics' = f[n].topics /\ chan' = f[n].chan
                      /\ published' = f[n].published
<1>1. LP!Listen
  BY SameListen DEF Listen
<1> DEFINE n == Len(NewNotices)
           f == CHOOSE f : Publishing(f, NewNotices, n)
<1>2. n \in Nat
  BY <1>1, NewNoticesForm DEF RelayInv
<1>3. Publishing(f, NewNotices, n)
  BY <1>2, PublishingExists
<1>4. topics' = f[n].topics /\ chan' = f[n].chan /\ published' = f[n].published
  BY Zenon DEF Listen, Publishing, Current
<1> HIDE DEF f, n
<1>5. \A k \in 0..n : f[k] = IF k = 0 THEN Current ELSE PublishNotice(f[k - 1], NewNotices[k])
  BY <1>3 DEF Publishing
<1>6. f[0] = Current
  BY <1>2, <1>5
<1>7. ASSUME NEW k \in 0..(n - 1) PROVE f[k + 1] = PublishNotice(f[k], NewNotices[k + 1])
  <2>1. k + 1 \in 0..n /\ k + 1 # 0 /\ (k + 1) - 1 = k
    BY <1>2
  <2> QED BY <1>5, <2>1
<1> DEFINE S == {k \in Nat : k <= n => PublishedSoFar(f[k], k)}
<1>8. 0 \in S
  BY <1>1, <1>6, NothingPublished
<1>9. ASSUME NEW k \in S PROVE k + 1 \in S
  <2> SUFFICES ASSUME k + 1 <= n PROVE PublishedSoFar(f[k + 1], k + 1)
    OBVIOUS
  <2>1. k \in 0..(n - 1) /\ k <= n
    BY <1>2
  <2>2. PublishedSoFar(f[k], k)
    BY <2>1
  <2>3. PublishedSoFar(PublishNotice(f[k], NewNotices[k + 1]), k + 1)
    BY <1>1, <2>1, <2>2, NextPublished DEF n
  <2> QED BY <1>7, <2>1, <2>3
<1> HIDE DEF S
<1>10. S = Nat
  <2>1. S \subseteq Nat
    BY DEF S
  <2> QED BY <1>8, <1>9, <2>1, NatInduct
<1>11. \A k \in 0..n : PublishedSoFar(f[k], k)
  <2> TAKE k \in 0..n
  <2>1. k \in S /\ k <= n
    BY <1>2, <1>10
  <2> QED BY <2>1 DEF S
<1> QED BY <1>4, <1>6, <1>7, <1>11 DEF n

(* Listen keeps the invariant.                                             *)
LEMMA ListenStep == RelayInv /\ Listen => RelayInv'
<1> SUFFICES ASSUME RelayInv, Listen PROVE RelayInv'
  OBVIOUS
<1>1. LP!Listen /\ UNCHANGED <<server, listener, accept, reader, taskVars, asked>>
  BY SameListen DEF Listen, serverVars
<1>2. ListenInv'
  BY <1>1, ListenGoesOn DEF RelayInv, LP!Next
<1>3. /\ CP!Shared(topics', chan', Len(published) + Len(NewNotices))
      /\ published' \in Seq(Publications)
      /\ Len(published') = Len(published) + Len(NewNotices)
      /\ Matches(published', notices', Len(notices) + Len(NewNotices))
  <2> DEFINE n == Len(NewNotices)
  <2>1. PICK f : /\ \A k \in 0..n : PublishedSoFar(f[k], k)
                 /\ topics' = f[n].topics /\ chan' = f[n].chan /\ published' = f[n].published
    BY AllPublished
  <2>2. n \in 0..n
    BY <1>1, NewNoticesForm DEF RelayInv
  <2>3. PublishedSoFar(f[n], n)
    BY <2>1, <2>2
  <2> QED BY <2>1, <2>3 DEF PublishedSoFar
<1>4. Len(notices') = Len(notices) + Len(NewNotices)
  BY <1>1, NewNoticesForm DEF RelayInv
<1>5. ConnInv'
  <2>1. UNCHANGED <<reader, CP!taskVars, asked>>
    BY <1>1 DEF taskVars, CP!taskVars
  <2>2. CP!TypeOK /\ CP!FreshInv /\ CP!Shared(topics', chan', Len(published'))
    BY <1>3 DEF RelayInv, ConnInv
  <2>3. CP!TypeOK' /\ CP!FreshInv' /\ CP!OrderInv'
    BY <1>3, <2>1, <2>2, CP!SharedEnds, ConnectionsAssumption
       DEF Publications, CP!MaxFramesAssumption, CP!FramesAssumption, CP!IdMaxAssumption
  <2> QED BY <2>3 DEF ConnInv
<1>6. Matches(published, notices, Len(notices))'
  BY <1>3, <1>4
<1>7. Coupled'
  BY <1>1, <1>6 DEF RelayInv, Coupled
<1> QED BY <1>2, <1>5, <1>7 DEF RelayInv

(* RelayInv is inductive.                                                  *)
LEMMA RelayStep == RelayInv /\ [Next]_vars => RelayInv'
<1> SUFFICES ASSUME RelayInv, [Next]_vars PROVE RelayInv'
  OBVIOUS
<1>1. ASSUME NEW c \in Clients, Arrives(c) \/ Accept(c) \/ UpgradeFails(c) PROVE RelayInv'
  BY <1>1, AcceptStep
<1>2. ASSUME NEW c \in Clients,
             \/ Upgraded(c) \/ Client(c) \/ Serve(c) \/ NodeAnswers(c) \/ NodeFails(c)
             \/ Closing(c) \/ Forward(c)
      PROVE  RelayInv'
  BY <1>2, ConnectionStep
<1>3. CASE \/ AcceptFails \/ NodeSteps \/ ListenerStarts \/ ListenerFails \/ LosesMessage
  BY <1>3, QuietStep
<1>4. CASE Listen
  BY <1>4, ListenStep
<1>5. CASE UNCHANGED vars
  <2>1. UNCHANGED <<server, listener, accept, connVars, listenVars>>
    BY <1>5 DEF vars, serverVars
  <2>2. ConnInv' /\ ListenInv'
    BY <2>1, ConnStays, ListenStays DEF RelayInv
  <2>3. UNCHANGED <<reader, published, notices>>
    BY <2>1 DEF connVars, listenVars
  <2>4. Matches(published, notices, Len(notices))'
    BY <2>3 DEF RelayInv, Coupled
  <2>5. Coupled'
    BY <2>1, <2>3, <2>4 DEF RelayInv, Coupled
  <2> QED BY <2>2, <2>5 DEF RelayInv
<1> QED BY <1>1, <1>2, <1>3, <1>4, <1>5 DEF Next

(* What the node publishes is what the listener announces, in its order    *)
(* and namespace, whoever else publishes in between.                       *)
THEOREM TypeCorrect == Spec => []TypeOK
<1>1. RelayInv => TypeOK
  BY SameConnections, SameListener
     DEF RelayInv, ConnInv, ListenInv, Coupled, Matches, TypeOK, NoticeOf
<1> QED BY <1>1, RelayStarts, RelayStep, PTL DEF Spec

(* The order of a client's messages is that of the notices.                *)
LEMMA HeardInOrder ==
    ASSUME RelayInv, NEW c \in Clients,
           NEW i \in DOMAIN C!Stream(c), NEW j \in DOMAIN C!Stream(c), i < j,
           Hears(C!Stream(c)[i]), Hears(C!Stream(c)[j])
    PROVE  LET n == NodeAmong(published, C!Stream(c)[i].n)
               k == NodeAmong(published, C!Stream(c)[j].n)
           IN  n \in DOMAIN notices /\ k \in DOMAIN notices /\ n <= k
<1> DEFINE s == CP!Stream(c)
           first == s[i].n
           second == s[j].n
<1>1. s \in Seq(CP!Messages)
  BY CP!StreamType, ConnectionsAssumption
     DEF RelayInv, ConnInv, CP!MaxFramesAssumption, CP!FramesAssumption, CP!IdMaxAssumption
<1>2. CP!Ordered(s, Len(published))
  BY DEF RelayInv, ConnInv, CP!OrderInv
<1>3. C!Stream(c) = s
  BY SameConnections
<1> HIDE DEF s
<1>4. /\ i \in DOMAIN s /\ j \in DOMAIN s /\ s[i].kind = "note" /\ s[j].kind = "note"
      /\ ByNode(published[first]) /\ ByNode(published[second])
  BY <1>3 DEF Hears
<1>5. s[i] \in CP!Messages /\ s[j] \in CP!Messages
  BY <1>1, <1>4
<1>6. first \in Nat \ {0} /\ second \in Nat \ {0}
  BY <1>4, <1>5 DEF CP!Messages, CP!Replies
<1>7. first <= second /\ second <= Len(published) /\ Len(published) \in Nat
  BY <1>2, <1>4 DEF CP!Ordered, RelayInv, ConnInv, CP!TypeOK
<1> HIDE DEF first, second
<1>8. NodeAmong(published, (first - 1) + 1) = NodeAmong(published, first - 1) + 1
  BY <1>4, <1>6, NodeCounts
<1>9. /\ NodeAmong(published, first - 1) \in Nat
      /\ NodeAmong(published, first) \in Nat /\ NodeAmong(published, second) \in Nat
      /\ NodeAmong(published, first) <= NodeAmong(published, second)
      /\ NodeAmong(published, second) <= NodeAmong(published, Len(published))
  BY <1>6, <1>7, NodeCount
<1>10. NodeAmong(published, Len(published)) = Len(notices) /\ DOMAIN notices = 1..Len(notices)
  BY DEF RelayInv, Coupled, Matches, ListenInv, LP!TypeOK
<1>11. (first - 1) + 1 = first /\ Len(notices) \in Nat
  BY <1>6 DEF RelayInv, ListenInv, LP!TypeOK
<1> QED BY <1>3, <1>8, <1>9, <1>10, <1>11 DEF first, second

(* A wallet that follows its messages never sees a confirmed transaction   *)
(* fall back to the mempool, unless a block was disconnected.              *)
THEOREM NothingFallsBackCorrect == Spec => []NothingFallsBack
<1>1. RelayInv => NothingFallsBack
  <2> SUFFICES ASSUME RelayInv, NEW c \in Clients,
                      NEW i \in DOMAIN C!Stream(c), NEW j \in DOMAIN C!Stream(c), i < j,
                      Hears(C!Stream(c)[i]), Hears(C!Stream(c)[j]),
                      NoticeOf(C!Stream(c)[i].n).tx = NoticeOf(C!Stream(c)[j].n).tx,
                      NoticeOf(C!Stream(c)[i].n).where = "block",
                      NoticeOf(C!Stream(c)[j].n).where = "mempool"
               PROVE  NoticeOf(C!Stream(c)[i].n).tx \in L!TxsOf(undone)
    BY Zenon DEF NothingFallsBack
  <2> DEFINE n == NodeAmong(published, C!Stream(c)[i].n)
             k == NodeAmong(published, C!Stream(c)[j].n)
  <2>1. n \in DOMAIN notices /\ k \in DOMAIN notices /\ n <= k
    BY HeardInOrder
  <2>2. /\ notices[n].tx = notices[k].tx
        /\ notices[n].where = "block" /\ notices[k].where = "mempool"
    BY DEF NoticeOf
  <2> HIDE DEF n, k
  <2>3. n < k
    <3>1. n # k
      BY <2>2
    <3>2. DOMAIN notices \subseteq Nat
      BY DEF RelayInv, ListenInv, LP!TypeOK
    <3> QED BY <2>1, <3>1, <3>2
  <2>4. LP!NoMempoolNoticeAfterBlock
    BY DEF RelayInv, ListenInv, LP!FallInv
  <2>5. notices[n].tx \in LP!TxsOf(undone)
    BY <2>1, <2>2, <2>3, <2>4 DEF LP!NoMempoolNoticeAfterBlock, LP!Mempool
  <2> QED BY <2>5, SameListener DEF n, NoticeOf
<1> QED BY <1>1, RelayStarts, RelayStep, PTL DEF Spec

------------------------------------------------------------------------------
(* Refinement.  What a connection does is known to be a step of PubSub;    *)
(* a step of the listener is an announcement of the node.                  *)

(* The abstract state of the clients.                                      *)
LEMMA SameAbstraction ==
    /\ \A c : C!Status(c) = CP!Status(c) /\ C!Status(c)' = CP!Status(c)'
    /\ \A c, t : /\ C!Subscriptions(c, t) = CP!Subscriptions(c, t)
                 /\ C!Subscriptions(c, t)' = CP!Subscriptions(c, t)'
    /\ \A c : C!Stream(c) = CP!Stream(c) /\ C!Stream(c)' = CP!Stream(c)'
    /\ C!Replies = CP!Replies
<1>1. \A c : C!Status(c) = CP!Status(c) /\ C!Status(c)' = CP!Status(c)'
  BY Zenon DEF C!Status, CP!Status, C!Here, CP!Here, C!RxOpen, CP!RxOpen
<1>2. \A c, t : /\ C!Subscriptions(c, t) = CP!Subscriptions(c, t)
               /\ C!Subscriptions(c, t)' = CP!Subscriptions(c, t)'
  BY Zenon DEF
    C!Subscriptions, CP!Subscriptions, C!Here, CP!Here, C!RxOpen, CP!RxOpen, C!Entry, CP!Entry,
    C!NoSenders, CP!NoSenders
<1>3. \A c : C!Stream(c) = CP!Stream(c) /\ C!Stream(c)' = CP!Stream(c)'
  BY Zenon DEF
    C!Stream, CP!Stream, C!Here, CP!Here, C!RxOpen, CP!RxOpen, C!Queued, CP!Queued
<1>4. C!Replies = CP!Replies
  BY Zenon DEF C!Replies, CP!Replies, C!Codes, CP!Codes
<1> QED BY <1>1, <1>2, <1>3, <1>4

(* PubSub with the announcements of the node does all that PubSub without  *)
(* them does.                                                              *)
LEMMA SamePubSub == [CP!PS!Next]_(CP!PS!vars) => [PS!Next]_(PS!vars)
<1> DEFINE status == [c \in Clients |-> C!Status(c)]
           subs == [c \in Clients |-> [t \in C!Topics |-> C!Subscriptions(c, t)]]
           stream == [c \in Clients |-> C!Stream(c)]
<1>1. /\ status = [c \in Clients |-> CP!Status(c)]
      /\ status' = [c \in Clients |-> CP!Status(c)']
  BY SameAbstraction
<1>2. /\ subs = [c \in Clients |-> [t \in CP!Topics |-> CP!Subscriptions(c, t)]]
      /\ subs' = [c \in Clients |-> [t \in CP!Topics |-> CP!Subscriptions(c, t)']]
  BY SameAbstraction, SameTopics
<1>3. /\ stream = [c \in Clients |-> CP!Stream(c)]
      /\ stream' = [c \in Clients |-> CP!Stream(c)']
  BY SameAbstraction
<1>4. ASSUME NEW c \in Clients
      PROVE  /\ CP!PS!Arrive(c) => PS!Arrive(c)
             /\ CP!PS!Leave(c) => PS!Leave(c)
             /\ CP!PS!Answer(c) => PS!Answer(c)
  <2>1. CP!PS!Arrive(c) => PS!Arrive(c)
    BY <1>1, <1>2, <1>3, Zenon DEF PS!Arrive, CP!PS!Arrive
  <2>2. CP!PS!Leave(c) => PS!Leave(c)
    BY <1>1, <1>2, <1>3, SameTopics, Zenon DEF PS!Leave, CP!PS!Leave, PS!Here, CP!PS!Here
  <2>3. CP!PS!Answer(c) => PS!Answer(c)
    BY <1>1, <1>2, <1>3, SameAbstraction, Zenon DEF PS!Answer, CP!PS!Answer, PS!Here, CP!PS!Here
  <2> QED BY <2>1, <2>2, <2>3
<1>5. ASSUME NEW c \in Clients, NEW t \in C!Topics
      PROVE  /\ CP!PS!Subscribe(c, t) => PS!Subscribe(c, t)
             /\ CP!PS!Publish(c, t) => PS!Publish(c, t)
  <2>1. CP!PS!Subscribe(c, t) => PS!Subscribe(c, t)
    BY <1>1, <1>2, <1>3, SameAbstraction, Zenon DEF
      PS!Subscribe, CP!PS!Subscribe, PS!Here, CP!PS!Here
  <2>2. \A d, n : CP!PS!Notices(d, t, n) = PS!Notices(d, t, n)
    BY <1>2, Zenon DEF PS!Notices, CP!PS!Notices, PS!Note, CP!PS!Note
  <2>3. \A r : CP!PS!Streamed(c, t, r) = PS!Streamed(c, t, r)
    <3>1. \A d : CP!PS!Here(d) <=> PS!Here(d)
      BY <1>1, Zenon DEF PS!Here, CP!PS!Here
    <3>2. \A d : stream[d] = [e \in Clients |-> CP!Stream(e)][d]
      BY <1>3
    <3> HIDE DEF stream
    <3> QED BY <2>2, <3>1, <3>2, Zenon DEF PS!Streamed, CP!PS!Streamed, stream
  <2>4. ASSUME CP!PS!Publish(c, t) PROVE PS!Publish(c, t)
    <3>1. published' = Append(published, [topic |-> t, by |-> c])
      BY <2>4 DEF CP!PS!Publish
    <3>2. UNCHANGED status /\ UNCHANGED subs
      BY <1>1, <1>2, <2>4, Zenon DEF CP!PS!Publish
    <3>3. PICK r \in CP!Replies : [e \in Clients |-> CP!Stream(e)]' = CP!PS!Streamed(c, t, r)
      BY <2>4, Zenon DEF CP!PS!Publish
    <3>4. r \in C!Replies /\ stream' = PS!Streamed(c, t, r)
      BY <1>3, <2>3, <3>3, SameAbstraction, Zenon
    <3> QED BY <3>1, <3>2, <3>4, Zenon DEF PS!Publish
  <2> QED BY <2>1, <2>4
<1>6. UNCHANGED CP!PS!vars => UNCHANGED PS!vars
  BY <1>1, <1>2, <1>3, Zenon DEF PS!vars, CP!PS!vars
<1> QED BY <1>4, <1>5, <1>6, SameTopics DEF PS!Next, CP!PS!Next

(* What d is sent for the i-th new notice.                                 *)
Sent(d, i) ==
    LET topic == TopicOf(NewNotices[i])
    IN  CP!Copies(CP!Note(topic, Len(published) + i), CP!Entry(topics, topic)[d])

(* Each of them goes behind the others, to those who are here.             *)
LEMMA SentOneByOne ==
    ASSUME RelayInv, Listen, NEW d \in Clients, CP!Here(d)
    PROVE  LET n == Len(NewNotices)
           IN  /\ \A i \in 1..n : Sent(d, i) \in Seq(CP!Messages)
               /\ CP!Stream(d) \in Seq(CP!Messages)
               /\ \E g : /\ g[0] = CP!Stream(d) /\ CP!StreamWith(d, chan') = g[n]
                         /\ \A i \in 1..n : g[i] = g[i - 1] \o Sent(d, i)
               /\ \A t \in CP!Topics : CP!Entry(topics', t)[d] = CP!Entry(topics, t)[d]
<1> DEFINE n == Len(NewNotices)
<1>1. PICK f : /\ f[0] = Current
               /\ \A k \in 0..(n - 1) : f[k + 1] = PublishNotice(f[k], NewNotices[k + 1])
               /\ \A k \in 0..n : PublishedSoFar(f[k], k)
               /\ topics' = f[n].topics /\ chan' = f[n].chan /\ published' = f[n].published
  BY AllPublished
<1>2. LP!Listen
  BY SameListen DEF Listen
<1>3. /\ n \in Nat /\ Len(published) \in Nat
      /\ \A i \in 1..n : TopicOf(NewNotices[i]) \in CP!Topics
  BY <1>2, NewNoticesForm, NoticeTopic DEF RelayInv, ConnInv, CP!TypeOK
<1> HIDE DEF n
<1>4. CP!TypeOK
  BY DEF RelayInv, ConnInv
<1>5. d \in CP!OpenClients
  BY DEF CP!Here, CP!OpenClients
<1> DEFINE Kept(r) == \A t \in CP!Topics : CP!Entry(r, t)[d] = CP!Entry(topics, t)[d]
           S == {k \in Nat : k <= n => Kept(f[k].topics)}
<1>6. ASSUME NEW k \in 0..(n - 1), Kept(f[k].topics)
      PROVE  /\ Kept(f[k + 1].topics)
             /\ Sent(d, k + 1) \in Seq(CP!Messages)
             /\ CP!StreamWith(d, f[k + 1].chan) = CP!StreamWith(d, f[k].chan) \o Sent(d, k + 1)
  <2> DEFINE topic == TopicOf(NewNotices[k + 1])
             m == CP!Note(topic, Len(published) + (k + 1))
             r == f[k].topics
             q == f[k].chan
  <2>1. k + 1 \in 1..n /\ k \in 0..n /\ k \in Nat
    BY <1>3
  <2>2. topic \in CP!Topics
    BY <1>3, <2>1
  <2>3. /\ CP!Shared(r, q, Len(published) + k) /\ Len(f[k].published) = Len(published) + k
    BY <1>1, <2>1 DEF PublishedSoFar
  <2>4. CP!IsRegistry(r) /\ CP!IsQueues(q)
    BY <2>3 DEF CP!Shared
  <2>5. Len(f[k].published) + 1 = Len(published) + (k + 1) /\ Len(published) + (k + 1) \in Nat \ {0}
    BY <1>3, <2>1, <2>3
  <2>6. m \in CP!Messages
    BY <2>2, <2>5 DEF CP!Note, CP!Messages
  <2>7. /\ f[k + 1].topics = CP!Retained(r, topic, CP!OpenClients)
        /\ f[k + 1].chan = CP!Delivered(r, q, topic, CP!OpenClients, m)
    BY <1>1, <2>5, SamePublishNotice
  <2> HIDE DEF topic, m, r, q
  <2>8. \A t \in CP!Topics :
          CP!Entry(CP!Retained(r, topic, CP!OpenClients), t)[d] = CP!Entry(r, t)[d]
    BY <1>5, <2>2, <2>4, CP!RetainedEntry, ConnectionsAssumption
       DEF CP!MaxFramesAssumption, CP!FramesAssumption, CP!IdMaxAssumption
  <2>9. Kept(f[k + 1].topics)
    BY <1>6, <2>7, <2>8 DEF r
  <2>10. CP!Entry(r, topic)[d] = CP!Entry(topics, topic)[d]
    BY <1>6, <2>2 DEF r
  <2>11. /\ CP!Copies(m, CP!Entry(r, topic)[d]) \in Seq(CP!Messages)
         /\ CP!StreamWith(d, CP!Delivered(r, q, topic, CP!OpenClients, m))
               = CP!StreamWith(d, q) \o CP!Copies(m, CP!Entry(r, topic)[d])
    BY <1>4, <2>2, <2>4, <2>6, CP!StreamGrows, ConnectionsAssumption
       DEF CP!MaxFramesAssumption, CP!FramesAssumption, CP!IdMaxAssumption
  <2>12. Sent(d, k + 1) = CP!Copies(m, CP!Entry(r, topic)[d])
    BY <2>10 DEF Sent, m, topic
  <2> QED BY <2>7, <2>9, <2>11, <2>12 DEF q
<1>7. 0 \in S
  BY <1>1 DEF Current
<1>8. ASSUME NEW k \in S PROVE k + 1 \in S
  <2> SUFFICES ASSUME k + 1 <= n PROVE Kept(f[k + 1].topics)
    OBVIOUS
  <2>1. k \in 0..(n - 1) /\ k <= n
    BY <1>3
  <2> HIDE DEF Kept
  <2>2. Kept(f[k].topics)
    BY <2>1
  <2> QED BY <1>6, <2>1, <2>2
<1> HIDE DEF S
<1>9. S = Nat
  <2>1. S \subseteq Nat
    BY DEF S
  <2> QED BY <1>7, <1>8, <2>1, NatInduct
<1>10. \A k \in 0..n : Kept(f[k].topics)
  <2> TAKE k \in 0..n
  <2>1. k \in S /\ k <= n
    BY <1>3, <1>9
  <2> QED BY <2>1 DEF S
<1> DEFINE g == [k \in 0..n |-> CP!StreamWith(d, f[k].chan)]
<1>11. \A i \in 1..n : g[i] = g[i - 1] \o Sent(d, i) /\ Sent(d, i) \in Seq(CP!Messages)
  <2> TAKE i \in 1..n
  <2>1. i - 1 \in 0..(n - 1) /\ i - 1 \in 0..n /\ i \in 0..n /\ (i - 1) + 1 = i
    BY <1>3
  <2>2. Kept(f[i - 1].topics)
    BY <1>10, <2>1
  <2> HIDE DEF Kept
  <2>3. /\ Sent(d, (i - 1) + 1) \in Seq(CP!Messages)
        /\ CP!StreamWith(d, f[(i - 1) + 1].chan)
              = CP!StreamWith(d, f[i - 1].chan) \o Sent(d, (i - 1) + 1)
    BY <1>6, <2>1, <2>2
  <2> QED BY <2>1, <2>3
<1>12. CP!Stream(d) \in Seq(CP!Messages)
  BY <1>4, CP!StreamType, ConnectionsAssumption
     DEF CP!MaxFramesAssumption, CP!FramesAssumption, CP!IdMaxAssumption
<1>13. g[0] = CP!Stream(d) /\ g[n] = CP!StreamWith(d, chan')
  <2>1. g[0] = CP!StreamWith(d, chan) /\ g[n] = CP!StreamWith(d, chan')
    BY <1>1, <1>3 DEF Current
  <2>2. CP!StreamWith(d, chan) = CP!Stream(d)
    BY DEF CP!StreamWith, CP!Stream, CP!Queued
  <2> QED BY <2>1, <2>2
<1>14. Kept(topics')
  BY <1>1, <1>3, <1>10
<1> HIDE DEF g
<1> QED BY <1>11, <1>12, <1>13, <1>14 DEF n

(* Together they are the announcement.                                     *)
LEMMA SentTogether ==
    ASSUME RelayInv, Listen, NEW d \in Clients, CP!Here(d)
    PROVE  CP!StreamWith(d, chan') =
             CP!Stream(d) \o FlattenSeq([i \in 1..Len(NewNotices) |-> Sent(d, i)])
<1> DEFINE M == CP!Messages
           n == Len(NewNotices)
           s == [i \in 1..n |-> Sent(d, i)]
           x == CP!Stream(d)
<1>1. n \in Nat
  <2>1. LP!Listen
    BY SameListen DEF Listen
  <2> QED BY <2>1, NewNoticesForm DEF RelayInv
<1>2. (\A i \in 1..n : Sent(d, i) \in Seq(M)) /\ x \in Seq(M)
  BY SentOneByOne
<1>3. PICK g : /\ g[0] = x /\ CP!StreamWith(d, chan') = g[n]
               /\ \A i \in 1..n : g[i] = g[i - 1] \o Sent(d, i)
  BY SentOneByOne
<1> HIDE DEF M, n, x
<1>4. s \in Seq(Seq(M)) /\ Len(s) = n /\ \A i \in 1..n : s[i] = Sent(d, i)
  BY <1>1, <1>2
<1> HIDE DEF s
<1>5. PICK f : /\ f[0] = <<>> /\ FlattenSeq(s) = f[n]
               /\ \A i \in 1..n : f[i] = f[i - 1] \o s[i]
               /\ \A i \in 0..n : f[i] \in Seq(M)
  <2>1. \E f : /\ f[0] = <<>> /\ FlattenSeq(s) = f[Len(s)]
               /\ \A i \in 1..Len(s) : f[i] = f[i - 1] \o s[i]
               /\ \A i \in 0..Len(s) : f[i] \in Seq(M)
    BY ONLY <1>4, FlattenSeqSteps, Zenon
  <2> QED BY <1>4, <2>1, Zenon
<1> DEFINE S == {k \in Nat : k <= n => g[k] = x \o f[k]}
<1>6. 0 \in S
  <2>1. x \o <<>> = x
    BY <1>2
  <2> QED BY <1>3, <1>5, <2>1
<1>7. ASSUME NEW k \in S PROVE k + 1 \in S
  <2> SUFFICES ASSUME k + 1 <= n PROVE g[k + 1] = x \o f[k + 1]
    OBVIOUS
  <2>1. k + 1 \in 1..n /\ k \in 0..n /\ (k + 1) - 1 = k /\ k <= n
    BY <1>1
  <2> DEFINE a == f[k]
             b == Sent(d, k + 1)
  <2>2. g[k] = x \o a
    BY <2>1
  <2>3. g[k + 1] = g[k] \o b /\ f[k + 1] = a \o b
    BY <1>3, <1>4, <1>5, <2>1
  <2>4. x \in Seq(M) /\ a \in Seq(M) /\ b \in Seq(M)
    BY <1>2, <1>5, <2>1
  <2> HIDE DEF a, b
  <2>5. (x \o a) \o b = x \o (a \o b)
    BY <2>4, ConcatAssociative
  <2> QED BY <2>2, <2>3, <2>5
<1> HIDE DEF S
<1>8. S = Nat
  <2>1. S \subseteq Nat
    BY DEF S
  <2> QED BY <1>6, <1>7, <2>1, NatInduct
<1>9. g[n] = x \o f[n]
  <2>1. n \in S
    BY <1>1, <1>8
  <2> QED BY <1>1, <2>1 DEF S
<1> QED BY <1>3, <1>5, <1>9 DEF s, n, x

(* The history grows by one publication of the node per notice.            *)
LEMMA PublishedTogether ==
    ASSUME RelayInv, Listen
    PROVE  published' = published \o [i \in 1..Len(NewNotices) |->
                                        [topic |-> TopicOf(NewNotices[i]), by |-> "node"]]
<1> DEFINE n == Len(NewNotices)
           p == Len(published)
           P == Publications
           w == [i \in 1..n |-> [topic |-> TopicOf(NewNotices[i]), by |-> "node"]]
<1>1. PICK f : /\ f[0] = Current
               /\ \A k \in 0..(n - 1) : f[k + 1] = PublishNotice(f[k], NewNotices[k + 1])
               /\ \A k \in 0..n : PublishedSoFar(f[k], k)
               /\ published' = f[n].published
  BY AllPublished
<1>2. /\ n \in Nat /\ p \in Nat /\ published \in Seq(P)
      /\ \A i \in 1..n : TopicOf(NewNotices[i]) \in CP!Topics
  <2>1. LP!Listen
    BY SameListen DEF Listen
  <2> QED BY <2>1, NewNoticesForm, NoticeTopic DEF RelayInv, ConnInv, CP!TypeOK, Publications
<1>3. \A i \in 1..n : [topic |-> TopicOf(NewNotices[i]), by |-> "node"] \in P
  BY <1>2 DEF Publications
<1>4. \A k \in 0..n : f[k].published \in Seq(P) /\ Len(f[k].published) = p + k
  BY <1>1 DEF PublishedSoFar
<1>5. \A k \in 0..(n - 1) : f[k + 1].published =
          Append(f[k].published, [topic |-> TopicOf(NewNotices[k + 1]), by |-> "node"])
  BY <1>1, SamePublishNotice
<1> HIDE DEF n, P
<1>6. w \in Seq(P) /\ Len(w) = n
      /\ \A i \in 1..n : w[i] = [topic |-> TopicOf(NewNotices[i]), by |-> "node"] /\ w[i] \in P
  BY <1>2, <1>3
<1> HIDE DEF w, p
<1>7. \A k \in 0..(n - 1) : f[k + 1].published = Append(f[k].published, w[k + 1])
  <2> TAKE k \in 0..(n - 1)
  <2>1. k + 1 \in 1..n
    BY <1>2
  <2> QED BY <1>5, <1>6, <2>1
<1> DEFINE Grown(q, k) == /\ \A i \in 1..p : q[i] = published[i]
                          /\ \A i \in 1..k : q[p + i] = w[i]
           S == {k \in Nat : k <= n => Grown(f[k].published, k)}
<1>8. 0 \in S
  BY <1>1 DEF Current
<1>9. ASSUME NEW k \in S PROVE k + 1 \in S
  <2> SUFFICES ASSUME k + 1 <= n PROVE Grown(f[k + 1].published, k + 1)
    OBVIOUS
  <2>1. k \in 0..(n - 1) /\ k \in 0..n /\ k + 1 \in 1..n /\ k \in Nat
    BY <1>2
  <2> DEFINE q == f[k].published
             r == f[k + 1].published
             m == w[k + 1]
  <2>2. q \in Seq(P) /\ Len(q) = p + k /\ r = Append(q, m) /\ m \in P
    BY <1>4, <1>6, <1>7, <2>1
  <2>3. Grown(q, k)
    BY <2>1
  <2> HIDE DEF q, r, m
  <2>4. (\A i \in 1..(p + k) : r[i] = q[i]) /\ r[(p + k) + 1] = m
    BY <1>2, <2>1, <2>2
  <2>5. \A i \in 1..p : r[i] = published[i]
    BY <1>2, <2>1, <2>3, <2>4
  <2>6. \A i \in 1..k : r[p + i] = w[i]
    BY <1>2, <2>1, <2>3, <2>4
  <2>7. r[p + (k + 1)] = w[k + 1]
    <3>1. p + (k + 1) = (p + k) + 1
      BY <1>2, <2>1
    <3> QED BY <2>4, <3>1 DEF m
  <2>8. \A i \in 1..(k + 1) : r[p + i] = w[i]
    BY <2>1, <2>6, <2>7
  <2> QED BY <2>5, <2>8 DEF r
<1> HIDE DEF S
<1>10. S = Nat
  <2>1. S \subseteq Nat
    BY DEF S
  <2> QED BY <1>8, <1>9, <2>1, NatInduct
<1>11. Grown(published', n)
  <2>1. n \in S
    BY <1>2, <1>10
  <2> QED BY <1>1, <1>2, <2>1 DEF S
<1>12. published' \in Seq(P) /\ Len(published') = p + n
  BY <1>1, <1>2, <1>4
<1>13. /\ published \o w \in Seq(P) /\ Len(published) \in Nat /\ Len(w) \in Nat
       /\ Len(published \o w) = Len(published) + Len(w)
       /\ \A i \in 1..Len(published) : (published \o w)[i] = published[i] /\ published[i] \in P
       /\ \A i \in 1..Len(w) : (published \o w)[Len(published) + i] = w[i] /\ w[i] \in P
  <2>1. published \in Seq(P) /\ w \in Seq(P)
    BY <1>2, <1>6
  <2> QED BY <2>1, JoinedPlaces
<1>14. published' = published \o w
  <2> DEFINE s == published \o w
             r == published'
  <2>1. /\ s \in Seq(P) /\ Len(s) = p + n
        /\ \A i \in 1..p : s[i] = published[i]
        /\ \A i \in 1..n : s[p + i] = w[i]
    BY <1>6, <1>13, Zenon DEF p
  <2> HIDE DEF s, r
  <2>2. r \in Seq(P) /\ Len(r) = p + n
    BY <1>12 DEF r
  <2>3. (\A i \in 1..p : r[i] = published[i]) /\ \A i \in 1..n : r[p + i] = w[i]
    BY <1>11 DEF r
  <2>4. ASSUME NEW i \in 1..(p + n) PROVE r[i] = s[i]
    <3>1. CASE i <= p
      BY <1>2, <2>1, <2>3, <3>1
    <3>2. CASE i > p
      <4>1. i - p \in 1..n /\ p + (i - p) = i
        BY <1>2, <3>2
      <4> QED BY <2>1, <2>3, <4>1
    <3> QED BY <1>2, <3>1, <3>2
  <2>5. r = s
    BY <2>1, <2>2, <2>4, SeqEqual
  <2> QED BY <2>5 DEF r, s
<1> QED BY <1>14 DEF w, n

(* The listener's announcements are those of its specification.            *)
LEMMA SameAnnouncement ==
    /\ \A tx, where : L!Announcement(tx, where) = LP!Announcement(tx, where)
    /\ \A block : L!BlockAnnouncement(block) = LP!BlockAnnouncement(block)
<1>1. \A tx, where : L!Announcement(tx, where) = LP!Announcement(tx, where)
  BY Zenon DEF L!Announcement, LP!Announcement, L!Notice, LP!Notice
<1>2. \A s : L!FlattenSeq(s) = LP!FlattenSeq(s)
  BY Zenon DEF L!FlattenSeq, LP!FlattenSeq
<1>3. \A block : L!BlockAnnouncement(block) = LP!BlockAnnouncement(block)
  BY <1>1, <1>2, Zenon DEF L!BlockAnnouncement, LP!BlockAnnouncement
<1> QED BY <1>1, <1>3

(* A message that leads to no notice changes nothing there.                *)
LEMMA SilenceRefines ==
    ASSUME RelayInv, Listen, Len(NewNotices) = 0
    PROVE  UNCHANGED PS!vars
<1>1. PICK f : /\ f[0] = Current
               /\ topics' = f[0].topics /\ chan' = f[0].chan /\ published' = f[0].published
  BY AllPublished
<1>2. UNCHANGED <<topics, chan, published, reader, pending, fwd, hand, wire, peer, closed, asked>>
  BY <1>1 DEF Current, Listen, taskVars
<1> QED BY <1>2 DEF PS!vars, C!Status, C!Subscriptions, C!Stream, C!Here, C!RxOpen, C!Queued,
                    C!Entry

(* The notices of a message are one announcement of the node.              *)
LEMMA AnnounceRefines ==
    ASSUME RelayInv, Listen, Len(NewNotices) # 0
    PROVE  \E ts \in {Reported(L!Announcement(tx, "mempool")) : tx \in Txs}
                       \union {Reported(L!BlockAnnouncement(block)) : block \in Blocks} :
              PS!Announce(ts)
<1> DEFINE ts == Reported(NewNotices)
           n == Len(NewNotices)
<1>1. LP!Listen
  BY SameListen DEF Listen
<1>2. ts \in {Reported(L!Announcement(tx, "mempool")) : tx \in Txs}
               \union {Reported(L!BlockAnnouncement(block)) : block \in Blocks}
  <2>1. NewNotices # <<>>
    OBVIOUS
  <2>2. Announced(NewNotices)
    BY <1>1, NewNoticesForm DEF RelayInv
  <2> QED BY <2>1, <2>2, SameAnnouncement DEF Announced
<1>3. /\ n \in Nat /\ DOMAIN NewNotices = 1..n
      /\ \A i \in 1..n : TopicOf(NewNotices[i]) \in C!Topics
  <2>1. n \in Nat /\ NewNotices \in Seq(LP!Notices)
    BY <1>1, NewNoticesForm DEF RelayInv
  <2>2. \A i \in 1..n : NewNotices[i] \in LP!Notices
    BY <1>1, NewNoticesForm DEF RelayInv
  <2> QED BY <2>1, <2>2, NoticeTopic, SameTopics
<1> HIDE DEF n
<1>4. DOMAIN ts = 1..n /\ \A i \in 1..n : ts[i] = TopicOf(NewNotices[i])
  BY <1>3 DEF Reported, TopicOf
<1>5. published' = published \o [i \in DOMAIN ts |-> [topic |-> ts[i], by |-> "node"]]
  <2>1. [i \in DOMAIN ts |-> [topic |-> ts[i], by |-> "node"]]
          = [i \in 1..n |-> [topic |-> TopicOf(NewNotices[i]), by |-> "node"]]
    BY <1>4
  <2> QED BY <2>1, PublishedTogether DEF n
<1> HIDE DEF ts
<1>6. UNCHANGED <<reader, pending, fwd, hand, wire, peer, closed, asked>>
  BY DEF Listen, taskVars
<1>7. \A d \in Clients : C!Status(d)' = C!Status(d) /\ (C!Here(d)' <=> C!Here(d))
  BY <1>6 DEF C!Status, C!Here, C!RxOpen
<1>8. \A d \in Clients : (C!Here(d) <=> CP!Here(d)) /\ (PS!Here(d) <=> C!Here(d))
  BY DEF C!Here, CP!Here, C!RxOpen, CP!RxOpen, PS!Here, C!Status
<1>9. \A r, t : C!Entry(r, t) = CP!Entry(r, t)
  BY Zenon DEF C!Entry, CP!Entry, C!NoSenders, CP!NoSenders
<1>10. \A d \in Clients : \A t \in C!Topics : C!Subscriptions(d, t)' = C!Subscriptions(d, t)
  <2> TAKE d \in Clients
  <2> TAKE t \in C!Topics
  <2>1. CASE CP!Here(d)
    <3>1. CP!Entry(topics', t)[d] = CP!Entry(topics, t)[d]
      BY <2>1, SentOneByOne, SameTopics
    <3>2. C!Entry(topics', t)[d] = C!Entry(topics, t)[d]
      BY <1>9, <3>1
    <3> QED BY <1>7, <3>2 DEF C!Subscriptions
  <2>2. CASE ~CP!Here(d)
    BY <1>7, <1>8, <2>2 DEF C!Subscriptions
  <2> QED BY <2>1, <2>2
<1> DEFINE More(d) == FlattenSeq([i \in DOMAIN ts |-> PS!Notices(d, ts[i], Len(published) + i)])
<1>11. ASSUME NEW d \in Clients
       PROVE  C!Stream(d)' = IF ~PS!Here(d) THEN C!Stream(d) ELSE C!Stream(d) \o More(d)
  <2>1. C!Stream(d) = CP!Stream(d) /\ C!Stream(d)' = CP!Stream(d)'
    BY SameAbstraction
  <2>2. CP!Stream(d)' = CP!StreamWith(d, chan')
    BY <1>6 DEF CP!Stream, CP!StreamWith, CP!Here, CP!RxOpen, CP!Queued
  <2>3. CASE ~CP!Here(d)
    <3>1. CP!Stream(d)' = CP!Stream(d)
      BY <1>6, <2>3 DEF CP!Stream, CP!Here, CP!RxOpen
    <3> QED BY <1>8, <2>1, <2>3, <3>1
  <2>4. CASE CP!Here(d)
    <3>1. ASSUME NEW i \in 1..n
          PROVE  PS!Notices(d, ts[i], Len(published) + i) = Sent(d, i)
      <4>1. ts[i] = TopicOf(NewNotices[i]) /\ ts[i] \in C!Topics
        BY <1>3, <1>4
      <4>2. C!Subscriptions(d, ts[i]) = CP!Entry(topics, ts[i])[d]
        BY <1>8, <1>9, <2>4 DEF C!Subscriptions
      <4> QED BY <4>1, <4>2 DEF PS!Notices, PS!Note, Sent, CP!Copies, CP!Note
    <3>2. [i \in DOMAIN ts |-> PS!Notices(d, ts[i], Len(published) + i)]
            = [i \in 1..n |-> Sent(d, i)]
      BY <1>4, <3>1
    <3>3. CP!StreamWith(d, chan') = CP!Stream(d) \o FlattenSeq([i \in 1..n |-> Sent(d, i)])
      BY <2>4, SentTogether DEF n
    <3>4. CP!StreamWith(d, chan') = CP!Stream(d) \o More(d)
      BY <3>2, <3>3
    <3> HIDE DEF More
    <3> QED BY <1>8, <2>1, <2>2, <2>4, <3>4
  <2> QED BY <2>3, <2>4
<1>12. \A s : PS!FlattenSeq(s) = FlattenSeq(s)
  BY Zenon DEF PS!FlattenSeq, FlattenSeq
<1>13. PS!Announce(ts)
  <2>1. \A d \in Clients :
          More(d) = PS!FlattenSeq([i \in DOMAIN ts |-> PS!Notices(d, ts[i], Len(published) + i)])
    BY <1>12
  <2> HIDE DEF More
  <2> QED BY <1>5, <1>7, <1>10, <1>11, <2>1 DEF PS!Announce
<1> QED BY <1>2, <1>13

(* Every step is one of PubSub, or none.                                   *)
LEMMA RelayRefines == RelayInv /\ [Next]_vars => [PS!Next]_(PS!vars)
<1> SUFFICES ASSUME RelayInv, [Next]_vars PROVE PS!Next \/ UNCHANGED PS!vars
  OBVIOUS
<1>1. ASSUME [CP!Next]_(CP!vars) PROVE PS!Next \/ UNCHANGED PS!vars
  <2>1. [CP!PS!Next]_(CP!PS!vars)
    BY <1>1, CP!StepRefines, ConnectionsAssumption
       DEF RelayInv, ConnInv, CP!MaxFramesAssumption, CP!FramesAssumption, CP!IdMaxAssumption
  <2> QED BY <2>1, SamePubSub
<1>2. ASSUME UNCHANGED connVars PROVE PS!Next \/ UNCHANGED PS!vars
  BY <1>1, <1>2 DEF connVars, taskVars, CP!vars
<1>3. ASSUME NEW c \in Clients, Arrives(c) \/ Accept(c) \/ UpgradeFails(c)
      PROVE  UNCHANGED connVars
  BY <1>3 DEF Arrives, Accept, UpgradeFails
<1>4. ASSUME NEW c \in Clients,
             \/ Upgraded(c) \/ Client(c) \/ Serve(c) \/ NodeAnswers(c) \/ NodeFails(c)
             \/ Closing(c) \/ Forward(c)
      PROVE  CP!Next
  BY <1>4, SameConnect, SameTasks, SameRequest, SameNode
     DEF Upgraded, Client, Serve, NodeAnswers, NodeFails, Closing, Forward, CP!Node, CP!Next
<1>5. ASSUME \/ AcceptFails \/ NodeSteps \/ ListenerStarts \/ ListenerFails \/ LosesMessage
      PROVE  UNCHANGED connVars
  BY <1>5 DEF AcceptFails, NodeSteps, ListenerStarts, ListenerFails, LosesMessage
<1>6. CASE Listen
  BY <1>6, SilenceRefines, AnnounceRefines DEF PS!Next
<1>7. CASE UNCHANGED vars
  BY <1>2, <1>7 DEF vars
<1> QED BY <1>1, <1>2, <1>3, <1>4, <1>5, <1>6, <1>7 DEF Next

(* The whole relay keeps the promise of PubSub, where what the node reports*)
(* is published at one instant, between the requests of the clients.       *)
THEOREM RelayImplementsPubSub == Spec => ImplementsPubSub
<1>1. Init => PS!Init
  <2>1. C!Init => CP!PS!Init
    BY SameConnections, CP!InitRefines, ConnectionsAssumption
       DEF CP!MaxFramesAssumption, CP!FramesAssumption, CP!IdMaxAssumption
  <2>2. CP!PS!Init => PS!Init
    BY SameAbstraction, SameTopics, Zenon DEF CP!PS!Init, PS!Init
  <2> QED BY <2>1, <2>2 DEF Init
<1> QED BY <1>1, RelayStarts, RelayStep, RelayRefines, PTL
        DEF Spec, ImplementsPubSub, PS!Spec
===============================================================================
