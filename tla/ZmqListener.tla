------------------------------ MODULE ZmqListener ----------------------------
(***************************************************************************)
(* start_zmq_listener of zmq.rs: one task takes ZMQ messages of the node   *)
(* and publishes notices, under the txid and under every output address.   *)
(* process_zmq_message has no await, so each message is one step.          *)
(*                                                                         *)
(* The node is the environment.  It sends a rawtx when a transaction       *)
(* enters its mempool, and again when a block connects or disconnects it;  *)
(* a rawblock follows the rawtx of its transactions.  The repetition is    *)
(* why the listener keeps a BoundedSet.  A PUB socket drops messages.      *)
(***************************************************************************)
EXTENDS Integers, SequencesExt

CONSTANTS
    Txs,            \* transactions, named by their txid
    Addresses,      \* addresses, none of them a txid
    Outputs,        \* Outputs[tx]: the addresses tx pays, in output order
    Blocks,         \* sequences of transactions the node may mine
    Capacities,     \* tx_cache_size; the relay uses 1000
    MaxReorgs,      \* bound: blocks disconnected
    MaxLost,        \* bound: messages lost
    MaxLog          \* bound of the history of txs_seen, never reached
                    \* (the instances assume that it is large enough)

ASSUME OutputsAssumption == Outputs \in [Txs -> Seq(Addresses)]
ASSUME BlocksAssumption == Blocks \subseteq Seq(Txs)
ASSUME NamesAssumption == Txs \intersect Addresses = {}
ASSUME ListenerBoundsAssumption ==
    Capacities \subseteq Nat /\ MaxReorgs \in Nat /\ MaxLost \in Nat /\ MaxLog \in Nat

VARIABLES
    mempool,        \* the node's mempool
    chain,          \* the blocks connected by the node
    entered,        \* history: what ever was in the mempool
    undone,         \* history: the blocks disconnected
    zmq,            \* messages sent and not yet received
    lost,           \* history: messages that never arrived
    set, queue, capacity, log, fresh,   \* txs_seen (see BoundedSet)
    notices         \* what was published, in order

cache == <<set, queue, capacity, log, fresh>>
node == <<mempool, chain, entered, undone>>
vars == <<node, zmq, lost, cache, notices>>

Cache == INSTANCE BoundedSet WITH Item <- Txs      \* txs_seen

TxsOf(blocks) == UNION {ToSet(blocks[i]) : i \in DOMAIN blocks}
Confirmed == TxsOf(chain)

RawTx(tx) == [kind |-> "rawtx", tx |-> tx]
RawBlock(block) == [kind |-> "rawblock", block |-> block]
RawTxs(block) == [i \in DOMAIN block |-> RawTx(block[i])]

------------------------------------------------------------------------------
Init == /\ mempool = {} /\ chain = <<>> /\ entered = {} /\ undone = <<>>
        /\ zmq = <<>> /\ lost = <<>>
        /\ Cache!Init
        /\ notices = <<>>

(* The node.                                                               *)
Enter(tx) == /\ tx \notin mempool \union Confirmed
             /\ mempool' = mempool \union {tx}
             /\ entered' = entered \union {tx}
             /\ zmq' = Append(zmq, RawTx(tx))
             /\ UNCHANGED <<chain, undone, lost, cache, notices>>

(* A block may hold transactions that never were in this node's mempool.   *)
Mine(block) == /\ ToSet(block) \intersect Confirmed = {}
               /\ chain' = Append(chain, block)
               /\ mempool' = mempool \ ToSet(block)
               /\ zmq' = zmq \o RawTxs(block) \o <<RawBlock(block)>>
               /\ UNCHANGED <<entered, undone, lost, cache, notices>>

Disconnect == /\ chain # <<>> /\ Len(undone) < MaxReorgs
              /\ LET block == chain[Len(chain)]
                 IN  /\ chain' = SubSeq(chain, 1, Len(chain) - 1)
                     /\ mempool' = mempool \union ToSet(block)
                     /\ entered' = entered \union ToSet(block)
                     /\ undone' = Append(undone, block)
                     /\ zmq' = zmq \o RawTxs(block)
              /\ UNCHANGED <<lost, cache, notices>>

(* A message is dropped on the way, or cannot be received or decoded: the  *)
(* listener logs the error and goes on.                                    *)
Lose == /\ zmq # <<>> /\ Len(lost) < MaxLost
        /\ lost' = Append(lost, Head(zmq))
        /\ zmq' = Tail(zmq)
        /\ UNCHANGED <<node, cache, notices>>

------------------------------------------------------------------------------
(* The listener.                                                           *)

Notice(topic, tx, where) == [topic |-> topic, tx |-> tx, where |-> where]

(* publish_tx_seen, then publish_address_seen for every output that has an *)
(* address: twice for an address paid twice.                               *)
Announcement(tx, where) ==
    <<Notice(tx, tx, where)>>
    \o [i \in DOMAIN Outputs[tx] |-> Notice(Outputs[tx][i], tx, where)]

\* seeded fault: the txid is remembered before it is looked up
RememberedFirst ==
    /\ zmq # <<>> /\ Head(zmq).kind = "rawtx"
    /\ zmq' = Tail(zmq)
    /\ Cache!Insert(Head(zmq).tx)
    /\ UNCHANGED <<node, lost, notices>>

(* A txid that is not in txs_seen is remembered and announced.             *)
HandleRawTx ==
    /\ zmq # <<>> /\ Head(zmq).kind = "rawtx"
    /\ zmq' = Tail(zmq)
    /\ LET tx == Head(zmq).tx
       IN  \/ Cache!InsertKnown(tx) /\ UNCHANGED notices
           \/ Cache!InsertNew(tx) /\ notices' = notices \o Announcement(tx, "mempool")
    /\ UNCHANGED <<node, lost>>

\* seeded fault: the addresses of a confirmed transaction are announced as
\* if it had just entered the mempool
AddressesAsMempool(block) ==
    FlattenSeq([i \in DOMAIN block |->
                  <<Notice(block[i], block[i], "block")>>
                  \o Tail(Announcement(block[i], "mempool"))])

\* seeded fault: only the first transaction of a block is announced
FirstOfBlock(block) == Announcement(block[1], "block")

(* The loop over block.txdata.                                             *)
BlockAnnouncement(block) ==
    FlattenSeq([i \in DOMAIN block |-> Announcement(block[i], "block")])

HandleRawBlock ==
    /\ zmq # <<>> /\ Head(zmq).kind = "rawblock"
    /\ zmq' = Tail(zmq)
    /\ notices' = notices \o BlockAnnouncement(Head(zmq).block)
    /\ UNCHANGED <<node, lost, cache>>

------------------------------------------------------------------------------
Node == (\E tx \in Txs : Enter(tx)) \/ (\E block \in Blocks : Mine(block)) \/ Disconnect

Listen == HandleRawTx \/ HandleRawBlock

Next == Node \/ Lose \/ Listen

Spec == Init /\ [][Next]_vars

(* The runtime polls the listener when a message is there.                 *)
FairSpec == Spec /\ WF_vars(Listen)

------------------------------------------------------------------------------
Mempool(n) == n.where = "mempool"

(* Type invariant, with the memory bound of txs_seen.                      *)
ZmqMessages == [kind : {"rawtx"}, tx : Txs] \union [kind : {"rawblock"}, block : Blocks]
Notices == [topic : Txs \union Addresses, tx : Txs, where : {"mempool", "block"}]
TypeOK ==
    /\ mempool \subseteq entered /\ entered \subseteq Txs
    /\ chain \in Seq(Blocks) /\ undone \in Seq(Blocks)
    /\ zmq \in Seq(ZmqMessages) /\ lost \in Seq(ZmqMessages)
    /\ Cache!TypeOK
    /\ notices \in Seq(Notices)

(***************************************************************************)
(* Whoever subscribed in time hears "mempool" about a transaction before   *)
(* "block", unless a rawtx was lost: a txid is in txs_seen only if it was  *)
(* announced, whatever was evicted, repeated or disconnected.              *)
(***************************************************************************)
MempoolNoticeFirst ==
    \A i \in DOMAIN notices :
        ~Mempool(notices[i]) =>
            \/ \E j \in 1..(i - 1) : notices[j] = [notices[i] EXCEPT !.where = "mempool"]
            \/ RawTx(notices[i].tx) \in ToSet(lost)

(* Nothing confirmed falls back to the mempool in what is announced, about *)
(* the transaction or about its addresses, unless its block was            *)
(* disconnected: neither eviction nor loss can do it.                      *)
NoMempoolNoticeAfterBlock ==
    \A i, j \in DOMAIN notices :
        /\ i < j /\ notices[i].tx = notices[j].tx
        /\ ~Mempool(notices[i]) /\ Mempool(notices[j])
        => notices[i].tx \in TxsOf(undone)

(* A transaction is announced as new again only after a whole window of    *)
(* others was, whatever blocks and notices of addresses come in between.   *)
IsNew(n) == n.topic = n.tx /\ Mempool(n)
NewAmong(s, k) == Cardinality({i \in 1..k : IsNew(s[i])})
RepeatedOnlyAfterWindow ==
    \A i, j \in DOMAIN notices :
        i < j /\ IsNew(notices[i]) /\ notices[i] = notices[j]
            => NewAmong(notices, j) - NewAmong(notices, i) > Cache!Window(capacity)

(* Every block sent is lost or announced, with all its transactions, to    *)
(* the transaction's topic and to each address it pays.                    *)
BlockAnnounced(block) ==
    \A tx \in ToSet(block) : \A topic \in {tx} \union ToSet(Outputs[tx]) :
        Notice(topic, tx, "block") \in ToSet(notices)
EveryBlockAnnounced ==
    \A block \in Blocks :
        RawBlock(block) \in ToSet(zmq) ~>
            (BlockAnnounced(block) \/ RawBlock(block) \in ToSet(lost))

------------------------------------------------------------------------------
(* zmq.rs:137 calls the notices of the rawtx branch notifications "for     *)
(* mempool transactions".                                                  *)
MempoolNoticesAreOfMempoolTxs ==
    \A i \in DOMAIN notices : Mempool(notices[i]) => notices[i].tx \in entered
==============================================================================
