---------------------------- MODULE RelayProperties ---------------------------
(***************************************************************************)
(* What holds of the whole relay: what a wallet may rely on, from the      *)
(* node's report to the bytes it receives.                                 *)
(***************************************************************************)
EXTENDS NexusRelay

ByNode(p) == p.by = "node"

(* How many of the first n publications of s are the node's, and the       *)
(* notice that the n-th is, if it is one.                                  *)
NodeAmong(s, n) == Cardinality({i \in 1..n : ByNode(s[i])})
NoticeOf(n) == notices[NodeAmong(published, n)]

(***************************************************************************)
(* Type invariant, with the couplings of the three parts: a connection has *)
(* tasks exactly when its upgrade succeeded, and what the node published,  *)
(* seen from the registry, is what the listener announced, in its order    *)
(* and in the validated namespace.                                         *)
(***************************************************************************)
TypeOK ==
    /\ server \in {"up", "down"} /\ listener \in {"starting", "on", "off"}
    /\ accept \in [Clients -> {"absent", "backlog", "upgrading", "open", "refused"}]
    /\ \A c \in Clients : accept[c] = "open" <=> reader[c] # "off"
    /\ C!TypeOK
    /\ L!TypeOK
    /\ NodeAmong(published, Len(published)) = Len(notices)
    /\ \A n \in DOMAIN published :
          ByNode(published[n]) => published[n].topic = C!Validated(<<NoticeOf(n).topic>>)

------------------------------------------------------------------------------
(* Refinement: with the node as one more publisher, and the clients it     *)
(* accepted in any order, the relay implements PubSub.                     *)
Reported(announcement) ==
    [i \in DOMAIN announcement |-> C!Validated(<<announcement[i].topic>>)]
PS == INSTANCE PubSub
        WITH Topics <- C!Topics,
             Replies <- C!Replies,
             Batches <- {Reported(L!Announcement(tx, "mempool")) : tx \in Txs}
                        \union {Reported(L!BlockAnnouncement(block)) : block \in Blocks},
             status <- [c \in Clients |-> C!Status(c)],
             subs <- [c \in Clients |-> [t \in C!Topics |-> C!Subscriptions(c, t)]],
             stream <- [c \in Clients |-> C!Stream(c)]
ImplementsPubSub == PS!Spec

------------------------------------------------------------------------------
(* A message that is a notice of the listener.                             *)
Hears(m) == m.kind = "note" /\ ByNode(published[m.n])

(* A wallet that follows its messages never sees a confirmed transaction   *)
(* return to the mempool, unless a block was disconnected: what the        *)
(* listener announces in order stays in order through registry, channel    *)
(* and socket, on the transaction's topic and on its addresses together.   *)
NothingFallsBack ==
    \A c \in Clients : \A i, j \in DOMAIN C!Stream(c) :
        LET first == C!Stream(c)[i]
            second == C!Stream(c)[j]
        IN  /\ i < j /\ Hears(first) /\ Hears(second)
            /\ NoticeOf(first.n).tx = NoticeOf(second.n).tx
            /\ NoticeOf(first.n).where = "block" /\ NoticeOf(second.n).where = "mempool"
            => NoticeOf(first.n).tx \in L!TxsOf(undone)

------------------------------------------------------------------------------
(* Liveness, under FairSpec.                                               *)

(* A connection in the backlog is accepted, whatever the handshakes of     *)
(* other clients, the node and the listener do, unless the relay exits.    *)
EveryoneAccepted ==
    \A c \in Clients : (accept[c] = "backlog") ~> (accept[c] # "backlog" \/ ~Up)

Watches(c, tx) == C!RxOpen(c) /\ C!Subscriptions(c, C!Validated(<<tx>>)) > 0
OnItsWay(block) == listener = "on" /\ L!RawBlock(block) \in ToSet(zmq)
Missed(block) == ~Up \/ L!RawBlock(block) \in ToSet(lost)

Heard(c, tx) ==
    \E i \in DOMAIN wire[c] :
        /\ Hears(wire[c][i])
        /\ NoticeOf(wire[c][i].n) = L!Notice(tx, tx, "block")

(* A client that watches a transaction, stays and keeps reading receives   *)
(* its block notice, even if its own handler has panicked, waits for the   *)
(* node for ever or left its loop, unless the node's message is lost or    *)
(* the relay exits.                                                        *)
WatcherHearsBlock ==
    \A c \in Clients :
        <>[](peer[c] = "up") =>
            \A block \in Blocks : \A tx \in ToSet(block) :
                (Watches(c, tx) /\ OnItsWay(block)) ~> (Heard(c, tx) \/ Missed(block))

(* A handler whose client left while it watched a transaction, and which   *)
(* waits for its forward task, ends when a block with that transaction is  *)
(* announced: the notice cannot be sent, and both tasks are over.  The     *)
(* sender is not: the publication that put the notice on the channel took  *)
(* it for good, and keeps it in the registry.                              *)
LeftWatcherEnds ==
    \A c \in Clients, block \in Blocks : \A tx \in ToSet(block) :
        (reader[c] = "joining" /\ closed[c]
           /\ C!Entry(topics, C!Validated(<<tx>>))[c] > 0 /\ OnItsWay(block))
        ~> (reader[c] = "ended" \/ Missed(block))

(* The sender a channel left in the registry when it closed is dropped by  *)
(* the next publication on its topic, here that of a block.  It takes one: *)
(* nothing else looks at it, and the topic of a transaction that is deep   *)
(* in the chain has none to come.                                          *)
ClosedSenderPruned ==
    \A c \in Clients, block \in Blocks : \A tx \in ToSet(block) :
        LET senders == C!Entry(topics, C!Validated(<<tx>>))[c]
        IN  (fwd[c] = "done" /\ senders > 0 /\ OnItsWay(block))
            ~> (senders = 0 \/ Missed(block))

------------------------------------------------------------------------------
(* README.md:126: the server validates that the input of a proposal exists *)
(* and is unspent before it publishes the proposal.                        *)
PublishedProposalsUnspent ==
    [][\A c \in Clients :
          NodeAnswers(c) /\ published' # published
             => ~IsSpent(C!Decide(Head(pending[c])).proposal.needs)]_vars
==============================================================================
