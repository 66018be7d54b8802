-------------------------- MODULE ZmqListenerProofs --------------------------
(***************************************************************************)
(* Proofs about ZmqListener, for every set of transactions and blocks,     *)
(* every capacity of the cache and any number of reorgs and losses: what   *)
(* the cache guarantees the listener, and three safety properties of what  *)
(* it announces, each from an inductive invariant that follows a           *)
(* transaction from the node through the queue of ZMQ messages.            *)
(***************************************************************************)
EXTENDS ZmqListener, SequenceInduction, FiniteSetTheorems, SequenceTheorems

CacheProofs == INSTANCE BoundedSetProofs WITH Item <- Txs

------------------------------------------------------------------------------
(* txs_seen, as BoundedSetProofs knows it.                                 *)

(* The cache starts with its invariant, which implies its type.            *)
LEMMA CacheInit == Cache!Init => CacheProofs!IInv
<1>1. CacheProofs!Init => CacheProofs!IInv
  BY CacheProofs!InitInv, ListenerBoundsAssumption
     DEF CacheProofs!CapacitiesAssumption, CacheProofs!MaxLogAssumption
<1>2. Cache!Init => CacheProofs!Init
  BY DEF Cache!Init, CacheProofs!Init
<1> QED BY <1>1, <1>2

(* Whatever the listener does with it, the cache keeps its invariant.      *)
LEMMA CacheStep ==
    ASSUME CacheProofs!IInv,
           (\E tx \in Txs : Cache!InsertKnown(tx) \/ Cache!InsertNew(tx)) \/ UNCHANGED cache
    PROVE  CacheProofs!IInv'
<1>1. CacheProofs!IInv /\ [CacheProofs!Next]_(CacheProofs!vars) => CacheProofs!IInv'
  BY CacheProofs!StepInv, ListenerBoundsAssumption
     DEF CacheProofs!CapacitiesAssumption, CacheProofs!MaxLogAssumption
<1>2. ASSUME NEW tx \in Txs, Cache!InsertKnown(tx) PROVE CacheProofs!InsertKnown(tx)
  BY <1>2 DEF Cache!InsertKnown, CacheProofs!InsertKnown, Cache!Contains, CacheProofs!Contains
<1>3. ASSUME NEW tx \in Txs, Cache!InsertNew(tx) PROVE CacheProofs!InsertNew(tx)
  BY <1>3 DEF Cache!InsertNew, CacheProofs!InsertNew, Cache!Contains, CacheProofs!Contains,
              Cache!SetAfterEviction, CacheProofs!SetAfterEviction,
              Cache!QueueAfterEviction, CacheProofs!QueueAfterEviction,
              Cache!Evicts, CacheProofs!Evicts
<1>4. UNCHANGED cache => UNCHANGED CacheProofs!vars
  BY DEF cache, CacheProofs!vars
<1> QED BY <1>1, <1>2, <1>3, <1>4 DEF CacheProofs!Next, CacheProofs!Insert

(* What the invariant says of the types, and of the accepted txids.        *)
LEMMA CacheMeans ==
    ASSUME CacheProofs!IInv
    PROVE  /\ Cache!TypeOK
           /\ \A i, j \in DOMAIN log :
                 i < j /\ log[i] = log[j] => j - i > Cache!Window(capacity)
BY DEF CacheProofs!IInv, CacheProofs!TypeOK, Cache!TypeOK, CacheProofs!Window, Cache!Window,
       CacheProofs!ReacceptedOnlyAfterWindow

(* An accepted txid is logged and remembered; others are at most evicted.  *)
LEMMA CacheAccepts ==
    ASSUME NEW tx, Cache!InsertNew(tx)
    PROVE  log' = Append(log, tx) /\ set' \subseteq set \union {tx} /\ UNCHANGED capacity
BY DEF Cache!InsertNew, Cache!SetAfterEviction

(* The same after a step.                                                  *)
LEMMA CacheTypeAfter ==
    ASSUME CacheProofs!IInv'
    PROVE  Cache!TypeOK'
BY DEF CacheProofs!IInv, CacheProofs!TypeOK, Cache!TypeOK, CacheProofs!Window, Cache!Window

(* A known txid changes nothing that lasts.                                *)
LEMMA CacheKnows ==
    ASSUME NEW tx, Cache!InsertKnown(tx)
    PROVE  tx \in set /\ UNCHANGED <<set, log, capacity>>
BY DEF Cache!InsertKnown, Cache!Contains

------------------------------------------------------------------------------
(* What the node sends.                                                    *)

(* A message is a transaction or a block.                                  *)
LEMMA MessageForms ==
    ASSUME NEW m \in ZmqMessages
    PROVE  \/ m.kind = "rawtx" /\ m.tx \in Txs /\ m = RawTx(m.tx)
           \/ m.kind = "rawblock" /\ m.block \in Blocks /\ m.block \in Seq(Txs) /\ m = RawBlock(m.block)
BY BlocksAssumption DEF ZmqMessages, RawTx, RawBlock

(* A transaction that is sent is a message.                                *)
LEMMA RawTxForm ==
    ASSUME NEW tx \in Txs
    PROVE  RawTx(tx) \in ZmqMessages /\ RawTx(tx).kind = "rawtx" /\ RawTx(tx).tx = tx
BY DEF ZmqMessages, RawTx

(* A block that is sent is a message.                                      *)
LEMMA RawBlockForm ==
    ASSUME NEW block \in Blocks
    PROVE  /\ RawBlock(block) \in ZmqMessages /\ RawBlock(block).kind = "rawblock"
           /\ RawBlock(block).block = block
BY DEF ZmqMessages, RawBlock

(* The transactions of a block, one message each.                          *)
LEMMA RawTxsForm ==
    ASSUME NEW block \in Blocks
    PROVE  /\ block \in Seq(Txs)
           /\ RawTxs(block) \in Seq(ZmqMessages)
           /\ Len(RawTxs(block)) = Len(block)
           /\ \A i \in 1..Len(block) : RawTxs(block)[i] = RawTx(block[i]) /\ block[i] \in Txs
<1>1. block \in Seq(Txs)
  BY BlocksAssumption
<1>2. \A i \in 1..Len(block) : block[i] \in Txs
  BY <1>1
<1>3. \A i \in 1..Len(block) : RawTx(block[i]) \in ZmqMessages
  BY <1>2, RawTxForm
<1>4. RawTxs(block) = [i \in 1..Len(block) |-> RawTx(block[i])] /\ Len(block) \in Nat
  BY <1>1 DEF RawTxs
<1> QED BY <1>1, <1>2, <1>3, <1>4

(* The transactions of a block, then the block.                            *)
LEMMA MinedForm ==
    ASSUME NEW block \in Blocks
    PROVE  /\ RawTxs(block) \o <<RawBlock(block)>> \in Seq(ZmqMessages)
           /\ Len(RawTxs(block) \o <<RawBlock(block)>>) = Len(block) + 1
           /\ (RawTxs(block) \o <<RawBlock(block)>>)[Len(block) + 1] = RawBlock(block)
           /\ \A i \in 1..Len(block) :
                 (RawTxs(block) \o <<RawBlock(block)>>)[i] = RawTx(block[i])
<1> DEFINE r == RawTxs(block)
           b == RawBlock(block)
<1>1. b \in ZmqMessages
  BY RawBlockForm
<1>2. /\ r \in Seq(ZmqMessages) /\ Len(r) = Len(block) /\ Len(block) \in Nat
      /\ \A i \in 1..Len(block) : r[i] = RawTx(block[i])
  BY RawTxsForm
<1> HIDE DEF r, b
<1> QED BY <1>1, <1>2 DEF r, b

------------------------------------------------------------------------------
(* What the listener announces.                                            *)

(* A notice is one.                                                        *)
LEMMA NoticeForm ==
    ASSUME NEW topic \in Txs \union Addresses, NEW tx \in Txs, NEW where \in {"mempool", "block"}
    PROVE  /\ Notice(topic, tx, where) \in Notices
           /\ Notice(topic, tx, where).topic = topic
           /\ Notice(topic, tx, where).tx = tx
           /\ Notice(topic, tx, where).where = where
BY DEF Notice, Notices

(* A sequence behind a first member.                                       *)
LEMMA BehindTheFirst ==
    ASSUME NEW X, NEW s \in Seq(X), NEW o \in Seq(X), Len(s) = 1
    PROVE  /\ s \o o \in Seq(X) /\ Len(s \o o) = Len(o) + 1
           /\ (s \o o)[1] = s[1]
           /\ \A i \in 1..Len(o) : (s \o o)[i + 1] = o[i]
<1>1. Len(o) \in Nat
  OBVIOUS
<1>2. /\ s \o o \in Seq(X) /\ Len(s \o o) = Len(s) + Len(o)
      /\ \A i \in 1..(Len(s) + Len(o)) :
            (s \o o)[i] = IF i <= Len(s) THEN s[i] ELSE o[i - Len(s)]
  BY ConcatProperties
<1>3. ASSUME NEW i \in 1..Len(o) PROVE (s \o o)[i + 1] = o[i]
  <2>1. i + 1 \in 1..(Len(s) + Len(o)) /\ ~(i + 1 <= Len(s)) /\ (i + 1) - Len(s) = i
    BY <1>1
  <2> QED BY <1>2, <2>1
<1> QED BY <1>1, <1>2, <1>3

(* The announcement of a transaction: its txid first, then its addresses.  *)
LEMMA AnnouncementForm ==
    ASSUME NEW tx \in Txs, NEW where \in {"mempool", "block"}
    PROVE  LET a == Announcement(tx, where)
           IN  /\ a \in Seq(Notices) /\ Len(a) = Len(Outputs[tx]) + 1 /\ Len(Outputs[tx]) \in Nat
               /\ a[1] = Notice(tx, tx, where)
               /\ \A i \in 1..Len(Outputs[tx]) : /\ a[i + 1] = Notice(Outputs[tx][i], tx, where)
                                                 /\ Outputs[tx][i] \in Addresses
<1> DEFINE s == <<Notice(tx, tx, where)>>
           o == [i \in DOMAIN Outputs[tx] |-> Notice(Outputs[tx][i], tx, where)]
<1>1. Outputs[tx] \in Seq(Addresses)
  BY OutputsAssumption
<1>2. /\ Len(Outputs[tx]) \in Nat /\ DOMAIN Outputs[tx] = 1..Len(Outputs[tx])
      /\ \A i \in 1..Len(Outputs[tx]) : Outputs[tx][i] \in Addresses
  BY <1>1
<1>3. Notice(tx, tx, where) \in Notices
  BY NoticeForm
<1>4. \A i \in 1..Len(Outputs[tx]) : Notice(Outputs[tx][i], tx, where) \in Notices
  BY <1>2, NoticeForm
<1>5. s \in Seq(Notices) /\ Len(s) = 1 /\ s[1] = Notice(tx, tx, where)
  BY <1>3
<1>6. /\ o \in Seq(Notices) /\ Len(o) = Len(Outputs[tx])
      /\ \A i \in 1..Len(Outputs[tx]) : o[i] = Notice(Outputs[tx][i], tx, where)
  BY <1>2, <1>4
<1>7. Announcement(tx, where) = s \o o
  BY DEF Announcement
<1> HIDE DEF s, o
<1>8. /\ s \o o \in Seq(Notices) /\ Len(s \o o) = Len(o) + 1
      /\ (s \o o)[1] = s[1]
      /\ \A i \in 1..Len(o) : (s \o o)[i + 1] = o[i]
  <2>1. s \in Seq(Notices) /\ Len(s) = 1
    BY <1>5
  <2>2. o \in Seq(Notices)
    BY <1>6
  <2> QED BY <2>1, <2>2, BehindTheFirst
<1> QED BY <1>2, <1>5, <1>6, <1>7, <1>8

(* The notices of a block.                                                 *)
BlockNotices(block) ==
    {n \in Notices : /\ n.where = "block" /\ n.tx \in ToSet(block)
                     /\ n.topic \in {n.tx} \union ToSet(Outputs[n.tx])}

(* A block announces its own transactions and the addresses they pay.      *)
LEMMA BlockAnnouncementForm ==
    ASSUME NEW block \in Seq(Txs)
    PROVE  BlockAnnouncement(block) \in Seq(BlockNotices(block))
<1> DEFINE B == BlockNotices(block)
           s == [i \in DOMAIN block |-> Announcement(block[i], "block")]
<1>1. ASSUME NEW i \in DOMAIN block PROVE Announcement(block[i], "block") \in Seq(B)
  <2> DEFINE tx == block[i]
             a == Announcement(tx, "block")
  <2>1. tx \in Txs /\ tx \in ToSet(block)
    BY DEF ToSet
  <2> HIDE DEF tx
  <2>2. /\ a \in Seq(Notices) /\ Len(a) = Len(Outputs[tx]) + 1 /\ Len(Outputs[tx]) \in Nat
        /\ a[1] = Notice(tx, tx, "block")
        /\ \A k \in 1..Len(Outputs[tx]) : /\ a[k + 1] = Notice(Outputs[tx][k], tx, "block")
                                          /\ Outputs[tx][k] \in Addresses
    BY <2>1, AnnouncementForm
  <2> HIDE DEF a
  <2>3. ASSUME NEW topic \in Txs \union Addresses, topic \in {tx} \union ToSet(Outputs[tx])
        PROVE  Notice(topic, tx, "block") \in B
    BY <2>1, <2>3, NoticeForm DEF BlockNotices
  <2>4. a[1] \in B
    BY <2>1, <2>2, <2>3
  <2>5. ASSUME NEW k \in 1..Len(Outputs[tx]) PROVE a[k + 1] \in B
    <3>1. Outputs[tx][k] \in Addresses /\ a[k + 1] = Notice(Outputs[tx][k], tx, "block")
      BY <2>2
    <3>2. Outputs[tx][k] \in ToSet(Outputs[tx])
      <4>1. Outputs[tx] \in Seq(Addresses)
        BY <2>1, OutputsAssumption
      <4> QED BY <4>1 DEF ToSet
    <3> QED BY <2>3, <3>1, <3>2
  <2>6. ASSUME NEW k \in 1..Len(a) PROVE a[k] \in B
    <3>1. k = 1 \/ (k - 1 \in 1..Len(Outputs[tx]) /\ (k - 1) + 1 = k)
      BY <2>2
    <3> QED BY <2>4, <2>5, <3>1
  <2>7. a \in Seq(B)
    <3> HIDE DEF B
    <3>1. Len(a) \in Nat /\ DOMAIN a = 1..Len(a) /\ a = [k \in 1..Len(a) |-> a[k]]
      BY <2>2, LenProperties
    <3>2. a \in [1..Len(a) -> B]
      BY <2>6, <3>1
    <3> QED BY <3>1, <3>2
  <2> QED BY <2>7 DEF a, tx
<1>2. s \in Seq(Seq(B))
  <2> HIDE DEF B
  <2>1. Len(block) \in Nat /\ DOMAIN block = 1..Len(block)
    OBVIOUS
  <2> QED BY <1>1, <2>1
<1>3. FlattenSeq(s) \in Seq(B)
  BY <1>2, FlattenSeqType
<1> QED BY <1>3 DEF BlockAnnouncement

(* They are notices.                                                       *)
LEMMA BlockNoticesAreNotices ==
    ASSUME NEW block, NEW s \in Seq(BlockNotices(block))
    PROVE  s \in Seq(Notices)
BY DEF BlockNotices

------------------------------------------------------------------------------
(* Types.  The cache's invariant is carried along: it is what bounds it.   *)

(* What leaves the queue of messages, and what is left of it.              *)
LEMMA Received ==
    ASSUME zmq \in Seq(ZmqMessages), zmq # <<>>
    PROVE  /\ Head(zmq) \in ZmqMessages /\ Head(zmq) = zmq[1]
           /\ Tail(zmq) \in Seq(ZmqMessages) /\ Len(zmq) \in Nat \ {0}
           /\ Len(Tail(zmq)) = Len(zmq) - 1
           /\ \A p \in 1..Len(Tail(zmq)) : Tail(zmq)[p] = zmq[p + 1]
OBVIOUS

(* A rawtx is handled: it is known, or accepted and announced.             *)
LEMMA HandledTx ==
    ASSUME TypeOK, HandleRawTx
    PROVE  \E tx \in Txs :
              /\ zmq # <<>> /\ Head(zmq) = RawTx(tx) /\ zmq' = Tail(zmq)
              /\ \/ Cache!InsertKnown(tx) /\ notices' = notices
                 \/ Cache!InsertNew(tx) /\ notices' = notices \o Announcement(tx, "mempool")
              /\ UNCHANGED <<node, lost>>
<1>1. Head(zmq) \in ZmqMessages
  BY Received DEF TypeOK, HandleRawTx
<1>2. Head(zmq).tx \in Txs /\ Head(zmq) = RawTx(Head(zmq).tx)
  BY <1>1, MessageForms DEF HandleRawTx
<1> QED BY <1>2 DEF HandleRawTx

(* A rawblock is handled.                                                  *)
LEMMA HandledBlock ==
    ASSUME TypeOK, HandleRawBlock
    PROVE  \E block \in Blocks :
              /\ zmq # <<>> /\ Head(zmq) = RawBlock(block) /\ zmq' = Tail(zmq)
              /\ notices' = notices \o BlockAnnouncement(block)
              /\ BlockAnnouncement(block) \in Seq(BlockNotices(block))
              /\ BlockAnnouncement(block) \in Seq(Notices)
              /\ UNCHANGED <<node, lost, cache>>
<1>1. Head(zmq) \in ZmqMessages
  BY Received DEF TypeOK, HandleRawBlock
<1>2. Head(zmq).block \in Blocks /\ Head(zmq) = RawBlock(Head(zmq).block)
  BY <1>1, MessageForms DEF HandleRawBlock
<1>3. Head(zmq).block \in Seq(Txs)
  BY <1>2, BlocksAssumption
<1> QED BY <1>2, <1>3, BlockAnnouncementForm, BlockNoticesAreNotices DEF HandleRawBlock

(* TypeOK and the cache's invariant hold at the start.                     *)
LEMMA InitType == Init => TypeOK /\ CacheProofs!IInv
<1> SUFFICES ASSUME Init PROVE TypeOK /\ CacheProofs!IInv
  OBVIOUS
<1>1. CacheProofs!IInv
  BY CacheInit DEF Init
<1>2. Cache!TypeOK
  BY <1>1, CacheMeans
<1> QED BY <1>1, <1>2 DEF Init, TypeOK

(* The node's steps, seen from the queue of messages.                      *)
LEMMA EnterSends ==
    ASSUME TypeOK, NEW tx \in Txs, Enter(tx)
    PROVE  zmq' = zmq \o <<RawTx(tx)>> /\ <<RawTx(tx)>> \in Seq(ZmqMessages)
<1>1. RawTx(tx) \in ZmqMessages
  BY RawTxForm
<1>2. <<RawTx(tx)>> \in Seq(ZmqMessages)
  BY <1>1
<1>3. zmq' = Append(zmq, RawTx(tx)) /\ zmq \in Seq(ZmqMessages)
  BY DEF Enter, TypeOK
<1> HIDE DEF RawTx
<1> QED BY <1>1, <1>2, <1>3

(* The block that is disconnected is one of Blocks.                        *)
LEMMA LastBlock ==
    ASSUME chain \in Seq(Blocks), chain # <<>>
    PROVE  /\ chain[Len(chain)] \in Blocks /\ Len(chain) \in Nat \ {0}
           /\ SubSeq(chain, 1, Len(chain) - 1) \in Seq(Blocks)
           /\ Len(SubSeq(chain, 1, Len(chain) - 1)) = Len(chain) - 1
           /\ \A i \in 1..(Len(chain) - 1) : SubSeq(chain, 1, Len(chain) - 1)[i] = chain[i]
<1>1. Len(chain) \in Nat \ {0} /\ \A i \in 1..Len(chain) : chain[i] \in Blocks
  OBVIOUS
<1>2. Len(chain) - 1 \in Nat /\ Len(chain) \in 1..Len(chain)
  BY <1>1
<1> DEFINE n == Len(chain) - 1
<1>3. n \in Nat /\ n <= Len(chain)
  BY <1>1
<1> HIDE DEF n
<1>4. /\ SubSeq(chain, 1, n) \in Seq(Blocks) /\ Len(SubSeq(chain, 1, n)) = n
      /\ \A i \in 1..n : SubSeq(chain, 1, n)[i] = chain[i]
  BY <1>1, <1>3
<1> QED BY <1>1, <1>2, <1>4 DEF n

(* Joining two sequences over X yields one.                                *)
LEMMA Joined ==
    ASSUME NEW X, NEW s \in Seq(X), NEW t \in Seq(X)
    PROVE  s \o t \in Seq(X)
OBVIOUS

(* The transactions of a block are transactions.                           *)
LEMMA BlockTxs ==
    ASSUME NEW block \in Blocks
    PROVE  ToSet(block) \subseteq Txs
<1>1. block \in Seq(Txs)
  BY BlocksAssumption
<1> QED BY <1>1 DEF ToSet

(* TypeOK is inductive, with the cache's invariant.                        *)
LEMMA TypeStep == TypeOK /\ CacheProofs!IInv /\ [Next]_vars => TypeOK' /\ CacheProofs!IInv'
<1> SUFFICES ASSUME TypeOK, CacheProofs!IInv, [Next]_vars PROVE TypeOK' /\ CacheProofs!IInv'
  OBVIOUS
<1>1. CacheProofs!IInv'
  <2>1. ASSUME HandleRawTx
        PROVE  \E tx \in Txs : Cache!InsertKnown(tx) \/ Cache!InsertNew(tx)
    BY <2>1, HandledTx
  <2>2. ASSUME ~HandleRawTx PROVE UNCHANGED cache
    BY <2>2 DEF Next, Node, Enter, Mine, Disconnect, Lose, Listen, HandleRawBlock, vars
  <2> QED BY <2>1, <2>2, CacheStep
<1>2. Cache!TypeOK'
  BY <1>1, CacheTypeAfter
<1> SUFFICES TypeOK'
  BY <1>1
<1>3. /\ chain \in Seq(Blocks) /\ undone \in Seq(Blocks) /\ zmq \in Seq(ZmqMessages)
      /\ lost \in Seq(ZmqMessages) /\ notices \in Seq(Notices)
  BY DEF TypeOK
<1>4. ASSUME NEW tx \in Txs, Enter(tx) PROVE TypeOK'
  <2>1. zmq \o <<RawTx(tx)>> \in Seq(ZmqMessages)
    BY <1>3, <1>4, EnterSends, Joined
  <2>2. zmq' \in Seq(ZmqMessages)
    BY <1>4, <2>1, EnterSends
  <2> QED BY <1>2, <1>4, <2>2 DEF TypeOK, Enter
<1>5. ASSUME NEW block \in Blocks, Mine(block) PROVE TypeOK'
  <2>1. zmq' \in Seq(ZmqMessages)
    <3>1. RawTxs(block) \in Seq(ZmqMessages) /\ <<RawBlock(block)>> \in Seq(ZmqMessages)
      BY RawBlockForm, RawTxsForm
    <3>2. zmq' = zmq \o RawTxs(block) \o <<RawBlock(block)>>
      BY <1>5 DEF Mine
    <3>3. zmq \o RawTxs(block) \in Seq(ZmqMessages)
      BY <1>3, <3>1, Joined
    <3>4. (zmq \o RawTxs(block)) \o <<RawBlock(block)>> \in Seq(ZmqMessages)
      BY <3>1, <3>3, Joined
    <3>5. zmq' = (zmq \o RawTxs(block)) \o <<RawBlock(block)>>
      BY <3>2
    <3> HIDE DEF RawTxs, RawBlock
    <3> QED BY <3>4, <3>5
  <2>2. chain' \in Seq(Blocks)
    BY <1>3, <1>5 DEF Mine
  <2> QED BY <1>2, <1>5, <2>1, <2>2 DEF TypeOK, Mine
<1>6. CASE Disconnect
  <2> DEFINE block == chain[Len(chain)]
  <2>1. block \in Blocks /\ SubSeq(chain, 1, Len(chain) - 1) \in Seq(Blocks)
    BY <1>3, <1>6, LastBlock DEF Disconnect
  <2>2. /\ chain' = SubSeq(chain, 1, Len(chain) - 1)
        /\ mempool' = mempool \union ToSet(block)
        /\ entered' = entered \union ToSet(block)
        /\ undone' = Append(undone, block)
        /\ zmq' = zmq \o RawTxs(block)
        /\ UNCHANGED <<lost, notices>>
    BY <1>6 DEF Disconnect
  <2> HIDE DEF block
  <2>3. zmq' \in Seq(ZmqMessages)
    BY <1>3, <2>1, <2>2, RawTxsForm
  <2>4. undone' \in Seq(Blocks) /\ chain' \in Seq(Blocks)
    BY <1>3, <2>1, <2>2
  <2>5. mempool' \subseteq entered' /\ entered' \subseteq Txs
    BY <2>1, <2>2, BlockTxs DEF TypeOK
  <2> QED BY <1>2, <1>3, <2>2, <2>3, <2>4, <2>5 DEF TypeOK
<1>7. CASE Lose
  <2>1. zmq # <<>> /\ lost' = Append(lost, Head(zmq)) /\ zmq' = Tail(zmq)
        /\ UNCHANGED <<mempool, chain, entered, undone, notices>>
    BY <1>7 DEF Lose, node
  <2>2. Head(zmq) \in ZmqMessages /\ Tail(zmq) \in Seq(ZmqMessages)
    BY <1>3, <2>1, Received
  <2>3. lost' \in Seq(ZmqMessages) /\ zmq' \in Seq(ZmqMessages)
    BY <1>3, <2>1, <2>2
  <2> QED BY <1>2, <1>3, <2>1, <2>3 DEF TypeOK
<1>8. CASE HandleRawTx
  <2>1. PICK tx \in Txs :
              /\ zmq # <<>> /\ zmq' = Tail(zmq)
              /\ notices' = notices \/ notices' = notices \o Announcement(tx, "mempool")
              /\ UNCHANGED <<node, lost>>
    BY <1>8, HandledTx
  <2>2. Tail(zmq) \in Seq(ZmqMessages)
    BY <1>3, <2>1, Received
  <2>3. Announcement(tx, "mempool") \in Seq(Notices)
    BY AnnouncementForm
  <2>4. notices \o Announcement(tx, "mempool") \in Seq(Notices)
    BY <1>3, <2>3, Joined
  <2>5. notices' \in Seq(Notices)
    BY <1>3, <2>1, <2>4
  <2> QED BY <1>2, <1>3, <2>1, <2>2, <2>5 DEF TypeOK, node
<1>9. CASE HandleRawBlock
  <2>1. PICK block \in Blocks :
              /\ zmq # <<>> /\ zmq' = Tail(zmq)
              /\ notices' = notices \o BlockAnnouncement(block)
              /\ BlockAnnouncement(block) \in Seq(Notices)
              /\ UNCHANGED <<node, lost>>
    BY <1>9, HandledBlock
  <2>2. Tail(zmq) \in Seq(ZmqMessages)
    BY <1>3, <2>1, Received
  <2>3. notices' = notices \o BlockAnnouncement(block) /\ BlockAnnouncement(block) \in Seq(Notices)
    BY <2>1
  <2>4. notices \o BlockAnnouncement(block) \in Seq(Notices)
    BY <1>3, <2>3, Joined
  <2>5. notices' \in Seq(Notices)
    BY <2>3, <2>4
  <2> QED BY <1>2, <1>3, <2>1, <2>2, <2>5 DEF TypeOK, node
<1>10. CASE UNCHANGED vars
  BY <1>2, <1>10 DEF TypeOK, vars, node
<1> QED BY <1>1, <1>4, <1>5, <1>6, <1>7, <1>8, <1>9, <1>10 DEF Next, Node, Listen

(* The state of the node, of the queue, of the cache and of the history of *)
(* notices keep their types, and the cache never outgrows its window.      *)
THEOREM TypeCorrect == Spec => []TypeOK
BY InitType, TypeStep, PTL DEF Spec

------------------------------------------------------------------------------
(* The members of two sequences joined.                                    *)

(* By their places.                                                        *)
LEMMA JoinedPlaces ==
    ASSUME NEW X, NEW s \in Seq(X), NEW t \in Seq(X)
    PROVE  /\ Len(s) \in Nat /\ Len(t) \in Nat /\ Len(s \o t) = Len(s) + Len(t)
           /\ DOMAIN s = 1..Len(s) /\ DOMAIN t = 1..Len(t) /\ DOMAIN (s \o t) = 1..(Len(s) + Len(t))
           /\ \A i \in 1..Len(s) : (s \o t)[i] = s[i] /\ s[i] \in X
           /\ \A i \in 1..Len(t) : (s \o t)[Len(s) + i] = t[i] /\ t[i] \in X
<1>1. Len(s) \in Nat /\ Len(t) \in Nat
  OBVIOUS
<1>2. /\ s \o t \in Seq(X) /\ Len(s \o t) = Len(s) + Len(t)
      /\ \A i \in 1..(Len(s) + Len(t)) :
            (s \o t)[i] = IF i <= Len(s) THEN s[i] ELSE t[i - Len(s)]
  BY ConcatProperties
<1>3. ASSUME NEW i \in 1..Len(s) PROVE (s \o t)[i] = s[i]
  BY <1>1, <1>2
<1>4. ASSUME NEW i \in 1..Len(t) PROVE (s \o t)[Len(s) + i] = t[i]
  <2>1. Len(s) + i \in 1..(Len(s) + Len(t)) /\ ~(Len(s) + i <= Len(s)) /\ (Len(s) + i) - Len(s) = i
    BY <1>1
  <2> QED BY <1>2, <2>1
<1>5. DOMAIN (s \o t) = 1..(Len(s) + Len(t))
  BY <1>2
<1> QED BY <1>1, <1>2, <1>3, <1>4, <1>5

(* A place in the joined sequence is a place in one of the two.            *)
LEMMA WhichPlace ==
    ASSUME NEW n \in Nat, NEW k \in Nat, NEW i \in 1..(n + k)
    PROVE  i \in 1..n \/ \E j \in 1..k : i = n + j
<1>1. CASE i <= n
  BY <1>1
<1>2. CASE i > n
  <2>1. i - n \in 1..k /\ i = n + (i - n)
    BY <1>2
  <2> QED BY <2>1
<1> QED BY <1>1, <1>2

------------------------------------------------------------------------------
(* NoMempoolNoticeAfterBlock.  The inductive invariant looks ahead, into   *)
(* the queue: what is announced or on its way as confirmed is confirmed,   *)
(* or its block was disconnected; and a rawtx behind a block of its        *)
(* transaction is there because the block was disconnected.                *)

Carries(m, tx) == m.kind = "rawblock" /\ tx \in ToSet(m.block)
SaidBlock(tx) == \E i \in DOMAIN notices : notices[i].tx = tx /\ ~Mempool(notices[i])
CarriedBefore(tx, p) == \E q \in 1..(p - 1) : Carries(zmq[q], tx)

ConfirmedOrUndone ==
    \A tx \in Txs : SaidBlock(tx) \/ CarriedBefore(tx, Len(zmq) + 1)
                        => tx \in Confirmed \union TxsOf(undone)
RepeatsUndone ==
    \A p \in DOMAIN zmq :
        zmq[p].kind = "rawtx" /\ (SaidBlock(zmq[p].tx) \/ CarriedBefore(zmq[p].tx, p))
            => zmq[p].tx \in TxsOf(undone)
FallInv == ConfirmedOrUndone /\ RepeatsUndone /\ NoMempoolNoticeAfterBlock

(* What the node may send: each rawtx of a transaction that is not         *)
(* confirmed or of a disconnected block, the rawtx before the rawblock.    *)
SendsInOrder(more) ==
    /\ zmq' = zmq \o more /\ more \in Seq(ZmqMessages) /\ notices' = notices
    /\ TxsOf(undone) \subseteq TxsOf(undone)'
    /\ Confirmed \union TxsOf(undone) \subseteq (Confirmed \union TxsOf(undone))'
    /\ \A k \in 1..Len(more) : more[k].kind = "rawtx" =>
          /\ \A q \in 1..(k - 1) : more[q].kind = "rawtx"
          /\ more[k].tx \in TxsOf(undone)' \/ more[k].tx \notin Confirmed
    /\ \A k \in 1..Len(more), tx \in Txs :
          Carries(more[k], tx) => tx \in (Confirmed \union TxsOf(undone))'

(* FallInv survives what the node sends.                                   *)
LEMMA FallSends ==
    ASSUME TypeOK, FallInv, NEW more, SendsInOrder(more)
    PROVE  FallInv'
<1> DEFINE n == Len(zmq)
<1>1. /\ zmq \in Seq(ZmqMessages) /\ more \in Seq(ZmqMessages) /\ zmq' = zmq \o more
      /\ notices' = notices
  BY DEF TypeOK, SendsInOrder
<1>2. /\ n \in Nat /\ Len(more) \in Nat /\ Len(zmq') = n + Len(more)
      /\ DOMAIN zmq = 1..n /\ DOMAIN zmq' = 1..(n + Len(more))
      /\ \A p \in 1..n : zmq'[p] = zmq[p] /\ zmq[p] \in ZmqMessages
      /\ \A k \in 1..Len(more) : zmq'[n + k] = more[k] /\ more[k] \in ZmqMessages
  BY <1>1, JoinedPlaces
<1> HIDE DEF n
<1>3. \A tx : SaidBlock(tx)' <=> SaidBlock(tx)
  BY <1>1 DEF SaidBlock, Mempool
<1>4. ASSUME NEW tx, NEW p \in 1..(n + 1)
      PROVE  CarriedBefore(tx, p)' <=> CarriedBefore(tx, p)
  <2>1. \A q \in 1..(p - 1) : zmq'[q] = zmq[q]
    BY <1>2
  <2> QED BY <2>1 DEF CarriedBefore, Carries
<1>5. ASSUME NEW tx \in Txs, SaidBlock(tx) \/ CarriedBefore(tx, n + 1)
      PROVE  tx \in Confirmed \union TxsOf(undone)
  BY <1>5 DEF FallInv, ConfirmedOrUndone, n
<1>6. ConfirmedOrUndone'
  <2> SUFFICES ASSUME NEW tx \in Txs, SaidBlock(tx)' \/ CarriedBefore(tx, Len(zmq) + 1)'
               PROVE  tx \in (Confirmed \union TxsOf(undone))'
    BY DEF ConfirmedOrUndone
  <2>1. CASE SaidBlock(tx)'
    BY <1>3, <1>5, <2>1 DEF SendsInOrder
  <2>2. CASE CarriedBefore(tx, Len(zmq) + 1)'
    <3>1. PICK q \in 1..(n + Len(more)) : Carries(zmq'[q], tx)
      BY <1>2, <2>2 DEF CarriedBefore, Carries
    <3>2. CASE q \in 1..n
      <4>1. q \in 1..((n + 1) - 1) /\ Carries(zmq[q], tx)
        BY <1>2, <3>1, <3>2
      <4>2. CarriedBefore(tx, n + 1)
        BY <4>1 DEF CarriedBefore
      <4> QED BY <1>5, <4>2 DEF SendsInOrder
    <3>3. ASSUME NEW k \in 1..Len(more), q = n + k PROVE tx \in (Confirmed \union TxsOf(undone))'
      BY <1>2, <3>1, <3>3 DEF SendsInOrder
    <3>4. q \in 1..n \/ \E k \in 1..Len(more) : q = n + k
      BY <1>2, WhichPlace
    <3> QED BY <3>2, <3>3, <3>4
  <2> QED BY <2>1, <2>2
<1>7. RepeatsUndone'
  <2> SUFFICES ASSUME NEW p \in 1..(n + Len(more)), NEW tx, tx = zmq'[p].tx,
                      zmq'[p].kind = "rawtx", SaidBlock(tx)' \/ CarriedBefore(tx, p)'
               PROVE  tx \in TxsOf(undone)'
    BY <1>2 DEF RepeatsUndone, SaidBlock, CarriedBefore
  <2>1. CASE p \in 1..n
    <3>1. tx = zmq[p].tx /\ zmq[p].kind = "rawtx" /\ p \in DOMAIN zmq
      BY <1>2, <2>1
    <3>2. p \in 1..(n + 1)
      BY <1>2, <2>1
    <3>3. SaidBlock(tx) \/ CarriedBefore(tx, p)
      BY <1>3, <1>4, <3>2
    <3> QED BY <3>1, <3>3 DEF FallInv, RepeatsUndone, SendsInOrder
  <2>2. ASSUME NEW k \in 1..Len(more), p = n + k PROVE tx \in TxsOf(undone)'
    <3>1. tx = more[k].tx /\ more[k] \in ZmqMessages /\ more[k].kind = "rawtx"
      BY <1>2, <2>2
    <3>2. tx \in Txs
      BY <3>1, MessageForms
    <3>3. \A q \in 1..(k - 1) : more[q].kind = "rawtx"
      BY <3>1 DEF SendsInOrder
    <3>4. ASSUME CarriedBefore(tx, p)' PROVE CarriedBefore(tx, n + 1)
      <4>1. PICK q \in 1..(p - 1) : Carries(zmq'[q], tx)
        BY <3>4 DEF CarriedBefore, Carries
      <4>2. q \in 1..(n + Len(more))
        BY <1>2, <2>2
      <4>3. ASSUME NEW j \in 1..Len(more), q = n + j PROVE FALSE
        <5>1. j \in 1..(k - 1)
          BY <1>2, <2>2, <4>3
        <5>2. zmq'[q].kind = "rawtx"
          BY <1>2, <3>3, <4>3, <5>1
        <5> QED BY <4>1, <5>2 DEF Carries
      <4>4. q \in 1..n
        BY <1>2, <4>2, <4>3, WhichPlace
      <4>5. q \in 1..((n + 1) - 1) /\ Carries(zmq[q], tx)
        BY <1>2, <4>1, <4>4
      <4> QED BY <4>5 DEF CarriedBefore
    <3>5. tx \in Confirmed \union TxsOf(undone)
      BY <1>3, <1>5, <3>2, <3>4
    <3>6. tx \in TxsOf(undone)' \/ tx \notin Confirmed
      BY <3>1 DEF SendsInOrder
    <3>7. TxsOf(undone) \subseteq TxsOf(undone)'
      BY DEF SendsInOrder
    <3> QED BY <3>5, <3>6, <3>7
  <2>3. p \in 1..n \/ \E k \in 1..Len(more) : p = n + k
    BY <1>2, WhichPlace
  <2> QED BY <2>1, <2>2, <2>3
<1>8. NoMempoolNoticeAfterBlock'
  BY <1>1 DEF FallInv, NoMempoolNoticeAfterBlock, Mempool, SendsInOrder
<1> QED BY <1>6, <1>7, <1>8 DEF FallInv

(* What a message may cause: notices "mempool" of the transaction it is,   *)
(* or notices "block" of transactions it carries.                          *)
TakesOne(more) ==
    /\ zmq # <<>> /\ zmq' = Tail(zmq) /\ UNCHANGED <<chain, undone>>
    /\ notices' = notices \o more /\ more \in Seq(Notices)
    /\ \A k \in 1..Len(more) :
          IF Mempool(more[k]) THEN zmq[1].kind = "rawtx" /\ more[k].tx = zmq[1].tx
          ELSE Carries(zmq[1], more[k].tx)

(* FallInv survives what the listener does with a message.                 *)
LEMMA FallTakes ==
    ASSUME TypeOK, FallInv, NEW more, TakesOne(more)
    PROVE  FallInv'
<1> DEFINE n == Len(notices)
<1>1. /\ zmq \in Seq(ZmqMessages) /\ zmq # <<>> /\ zmq' = Tail(zmq)
      /\ notices \in Seq(Notices) /\ more \in Seq(Notices) /\ notices' = notices \o more
      /\ UNCHANGED <<chain, undone>>
  BY DEF TypeOK, TakesOne
<1>2. /\ n \in Nat /\ Len(more) \in Nat
      /\ DOMAIN notices = 1..n /\ DOMAIN notices' = 1..(n + Len(more))
      /\ \A i \in 1..n : notices'[i] = notices[i]
      /\ \A k \in 1..Len(more) : notices'[n + k] = more[k] /\ more[k] \in Notices
  BY <1>1, JoinedPlaces
<1> HIDE DEF n
<1>3. /\ Len(zmq) \in Nat \ {0} /\ Len(zmq') = Len(zmq) - 1
      /\ \A p \in 1..Len(zmq') : zmq'[p] = zmq[p + 1]
      /\ DOMAIN zmq = 1..Len(zmq) /\ DOMAIN zmq' = 1..Len(zmq')
  BY <1>1, Received
<1>4. Confirmed' = Confirmed /\ TxsOf(undone)' = TxsOf(undone)
  BY <1>1 DEF Confirmed, TxsOf
<1>5. ASSUME NEW tx, NEW p \in 1..(Len(zmq') + 1), SaidBlock(tx)' \/ CarriedBefore(tx, p)'
      PROVE  SaidBlock(tx) \/ CarriedBefore(tx, p + 1)
  <2>1. CASE SaidBlock(tx)'
    <3>1. PICK i \in 1..(n + Len(more)) : notices'[i].tx = tx /\ ~Mempool(notices'[i])
      BY <1>2, <2>1 DEF SaidBlock, Mempool
    <3>2. CASE i \in 1..n
      BY <1>2, <3>1, <3>2 DEF SaidBlock
    <3>3. ASSUME NEW k \in 1..Len(more), i = n + k PROVE CarriedBefore(tx, p + 1)
      <4>1. Carries(zmq[1], tx)
        BY <1>2, <3>1, <3>3 DEF TakesOne
      <4>2. 1 \in 1..((p + 1) - 1)
        BY <1>3
      <4> QED BY <4>1, <4>2 DEF CarriedBefore
    <3>4. i \in 1..n \/ \E k \in 1..Len(more) : i = n + k
      BY <1>2, WhichPlace
    <3> QED BY <3>2, <3>3, <3>4
  <2>2. CASE CarriedBefore(tx, p)'
    <3>1. PICK q \in 1..(p - 1) : Carries(zmq'[q], tx)
      BY <2>2 DEF CarriedBefore, Carries
    <3>2. q + 1 \in 1..((p + 1) - 1) /\ zmq'[q] = zmq[q + 1]
      BY <1>3
    <3> QED BY <3>1, <3>2 DEF CarriedBefore
  <2> QED BY <1>5, <2>1, <2>2
<1>6. ConfirmedOrUndone'
  <2> SUFFICES ASSUME NEW tx \in Txs, NEW p, p = Len(zmq') + 1,
                      SaidBlock(tx)' \/ CarriedBefore(tx, p)'
               PROVE  tx \in (Confirmed \union TxsOf(undone))'
    BY DEF ConfirmedOrUndone, SaidBlock, CarriedBefore
  <2>1. p \in 1..(Len(zmq') + 1) /\ p = Len(zmq)
    BY <1>3
  <2>2. SaidBlock(tx) \/ CarriedBefore(tx, p + 1)
    BY <1>5, <2>1
  <2> QED BY <1>4, <2>1, <2>2 DEF FallInv, ConfirmedOrUndone
<1>7. RepeatsUndone'
  <2> SUFFICES ASSUME NEW p \in 1..Len(zmq'), NEW tx, tx = zmq'[p].tx,
                      zmq'[p].kind = "rawtx", SaidBlock(tx)' \/ CarriedBefore(tx, p)'
               PROVE  tx \in TxsOf(undone)'
    BY <1>3 DEF RepeatsUndone, SaidBlock, CarriedBefore
  <2>1. p \in 1..(Len(zmq') + 1) /\ p + 1 \in DOMAIN zmq /\ zmq'[p] = zmq[p + 1]
    BY <1>3
  <2>2. SaidBlock(tx) \/ CarriedBefore(tx, p + 1)
    BY <1>5, <2>1
  <2> QED BY <1>4, <2>1, <2>2 DEF FallInv, RepeatsUndone
<1>8. NoMempoolNoticeAfterBlock'
  <2> SUFFICES ASSUME NEW i \in 1..(n + Len(more)), NEW j \in 1..(n + Len(more)),
                      i < j, notices'[i].tx = notices'[j].tx,
                      ~Mempool(notices'[i]), Mempool(notices'[j])
               PROVE  notices'[i].tx \in TxsOf(undone)
    BY <1>2, <1>4 DEF NoMempoolNoticeAfterBlock, Mempool
  <2>1. CASE j \in 1..n
    <3>1. i \in 1..n
      BY <1>2, <2>1
    <3>2. notices'[i] = notices[i] /\ notices'[j] = notices[j]
      BY <1>2, <2>1, <3>1
    <3> QED BY <1>2, <2>1, <3>1, <3>2 DEF FallInv, NoMempoolNoticeAfterBlock
  <2>2. ASSUME NEW k \in 1..Len(more), j = n + k PROVE notices'[i].tx \in TxsOf(undone)
    <3>1. zmq[1].kind = "rawtx" /\ notices'[j].tx = zmq[1].tx
      BY <1>2, <2>2 DEF TakesOne
    <3>2. CASE i \in 1..n
      <4>1. SaidBlock(zmq[1].tx)
        BY <1>2, <3>1, <3>2 DEF SaidBlock
      <4>2. 1 \in DOMAIN zmq
        BY <1>3
      <4> QED BY <3>1, <4>1, <4>2 DEF FallInv, RepeatsUndone
    <3>3. ASSUME NEW l \in 1..Len(more), i = n + l PROVE FALSE
      <4>1. Carries(zmq[1], more[l].tx)
        BY <1>2, <3>3 DEF TakesOne
      <4> QED BY <3>1, <4>1 DEF Carries
    <3>4. i \in 1..n \/ \E l \in 1..Len(more) : i = n + l
      BY <1>2, WhichPlace
    <3> QED BY <3>2, <3>3, <3>4
  <2>3. j \in 1..n \/ \E k \in 1..Len(more) : j = n + k
    BY <1>2, WhichPlace
  <2> QED BY <2>1, <2>2, <2>3
<1> QED BY <1>6, <1>7, <1>8 DEF FallInv

------------------------------------------------------------------------------
(* Each step as one of the two, seen by all three invariants.              *)

(* Each rawblock behind the rawtx of its transactions.                     *)
BlockAfterTxs(more) ==
    \A k \in 1..Len(more), tx \in Txs :
        Carries(more[k], tx) => \E q \in 1..(k - 1) : more[q] = RawTx(tx)

(* A transaction enters the mempool.                                       *)
LEMMA EnterInOrder ==
    ASSUME TypeOK, NEW tx \in Txs, Enter(tx)
    PROVE  SendsInOrder(<<RawTx(tx)>>) /\ BlockAfterTxs(<<RawTx(tx)>>)
<1> DEFINE more == <<RawTx(tx)>>
<1>1. zmq' = zmq \o more /\ more \in Seq(ZmqMessages)
  BY EnterSends
<1>2. /\ notices' = notices /\ chain' = chain /\ undone' = undone /\ tx \notin Confirmed
  BY DEF Enter
<1>3. Len(more) = 1 /\ more[1].kind = "rawtx" /\ more[1].tx = tx
  BY RawTxForm
<1> HIDE DEF more
<1>4. Confirmed' = Confirmed /\ TxsOf(undone)' = TxsOf(undone)
  BY <1>2 DEF Confirmed, TxsOf
<1>5. \A k \in 1..Len(more) : k = 1
  BY <1>3
<1>6. SendsInOrder(more)
  BY <1>1, <1>2, <1>3, <1>4, <1>5 DEF SendsInOrder, Carries
<1>7. BlockAfterTxs(more)
  BY <1>3, <1>5 DEF BlockAfterTxs, Carries
<1> QED BY <1>6, <1>7 DEF more

(* What is in the blocks when one is added.                                *)
LEMMA TxsOfAppended ==
    ASSUME NEW s \in Seq(Blocks), NEW block \in Blocks
    PROVE  TxsOf(Append(s, block)) = TxsOf(s) \union ToSet(block)
<1> DEFINE u == Append(s, block)
<1>1. /\ Len(s) \in Nat /\ DOMAIN s = 1..Len(s) /\ DOMAIN u = 1..(Len(s) + 1)
      /\ u[Len(s) + 1] = block /\ \A i \in 1..Len(s) : u[i] = s[i]
  OBVIOUS
<1> HIDE DEF u
<1>2. \A i \in 1..(Len(s) + 1) : i \in 1..Len(s) \/ i = Len(s) + 1
  BY <1>1
<1>3. Len(s) + 1 \in 1..(Len(s) + 1) /\ \A i \in 1..Len(s) : i \in 1..(Len(s) + 1)
  BY <1>1
<1>4. TxsOf(u) = TxsOf(s) \union ToSet(block)
  BY <1>1, <1>2, <1>3 DEF TxsOf
<1> QED BY <1>4 DEF u

(* A block is mined.                                                       *)
LEMMA MineInOrder ==
    ASSUME TypeOK, NEW block \in Blocks, Mine(block)
    PROVE  /\ SendsInOrder(RawTxs(block) \o <<RawBlock(block)>>)
           /\ BlockAfterTxs(RawTxs(block) \o <<RawBlock(block)>>)
<1> DEFINE more == RawTxs(block) \o <<RawBlock(block)>>
           n == Len(block)
<1>1. /\ notices' = notices /\ undone' = undone /\ chain' = Append(chain, block)
      /\ ToSet(block) \intersect Confirmed = {}
      /\ zmq' = (zmq \o RawTxs(block)) \o <<RawBlock(block)>>
  BY DEF Mine
<1>2. /\ more \in Seq(ZmqMessages) /\ Len(more) = n + 1 /\ more[n + 1] = RawBlock(block)
      /\ \A i \in 1..n : more[i] = RawTx(block[i])
  BY MinedForm
<1>3. /\ block \in Seq(Txs) /\ RawTxs(block) \in Seq(ZmqMessages)
      /\ \A i \in 1..n : block[i] \in Txs
  BY RawTxsForm
<1>4. n \in Nat /\ ToSet(block) = {block[i] : i \in 1..n}
  BY <1>3 DEF ToSet
<1>5. zmq' = zmq \o more
  <2>1. zmq \in Seq(ZmqMessages) /\ <<RawBlock(block)>> \in Seq(ZmqMessages)
    BY RawBlockForm DEF TypeOK
  <2> QED BY <1>1, <1>3, <2>1, ConcatAssociative
<1> HIDE DEF more, n
<1>6. \A k \in 1..Len(more) : k \in 1..n \/ k = n + 1
  BY <1>2, <1>4
<1>7. \A i \in 1..n : /\ more[i].kind = "rawtx" /\ more[i].tx = block[i]
                      /\ block[i] \in ToSet(block)
  BY <1>2, <1>3, <1>4, RawTxForm
<1>8. more[n + 1].kind = "rawblock" /\ more[n + 1].block = block
  BY <1>2, RawBlockForm
<1>9. TxsOf(undone)' = TxsOf(undone) /\ Confirmed' = Confirmed \union ToSet(block)
  <2>1. chain \in Seq(Blocks)
    BY DEF TypeOK
  <2>2. TxsOf(Append(chain, block)) = TxsOf(chain) \union ToSet(block)
    BY <2>1, TxsOfAppended
  <2>3. Confirmed' = TxsOf(Append(chain, block)) /\ TxsOf(undone)' = TxsOf(undone)
    BY <1>1 DEF Confirmed, TxsOf
  <2> QED BY <2>2, <2>3 DEF Confirmed
<1>10. ASSUME NEW k \in 1..Len(more), more[k].kind = "rawtx"
       PROVE  /\ \A q \in 1..(k - 1) : more[q].kind = "rawtx"
              /\ more[k].tx \notin Confirmed
  <2>1. k \in 1..n
    BY <1>6, <1>8, <1>10
  <2>2. \A q \in 1..(k - 1) : q \in 1..n
    BY <1>4, <2>1
  <2> QED BY <1>1, <1>7, <2>1, <2>2
<1>11. ASSUME NEW k \in 1..Len(more), NEW tx, Carries(more[k], tx)
       PROVE  k = n + 1 /\ tx \in ToSet(block)
  <2>1. k \notin 1..n
    BY <1>7, <1>11 DEF Carries
  <2> QED BY <1>6, <1>8, <1>11, <2>1 DEF Carries
<1>12. SendsInOrder(more)
  BY <1>1, <1>2, <1>5, <1>9, <1>10, <1>11 DEF SendsInOrder
<1>13. BlockAfterTxs(more)
  <2> SUFFICES ASSUME NEW k \in 1..Len(more), NEW tx \in Txs, Carries(more[k], tx)
               PROVE  \E q \in 1..(k - 1) : more[q] = RawTx(tx)
    BY DEF BlockAfterTxs
  <2>1. k = n + 1 /\ tx \in ToSet(block)
    BY <1>11
  <2>2. PICK i \in 1..n : tx = block[i]
    BY <1>4, <2>1
  <2>3. i \in 1..(k - 1)
    BY <1>4, <2>1
  <2> QED BY <1>2, <2>2, <2>3
<1> QED BY <1>12, <1>13 DEF more

(* A block is disconnected: its transactions are back.                     *)
LEMMA DisconnectInOrder ==
    ASSUME TypeOK, Disconnect
    PROVE  LET block == chain[Len(chain)]
           IN  /\ block \in Blocks
               /\ SendsInOrder(RawTxs(block)) /\ BlockAfterTxs(RawTxs(block))
<1> DEFINE block == chain[Len(chain)]
           more == RawTxs(block)
           rest == SubSeq(chain, 1, Len(chain) - 1)
<1>1. /\ chain \in Seq(Blocks) /\ undone \in Seq(Blocks) /\ chain # <<>>
  BY DEF TypeOK, Disconnect
<1>2. /\ block \in Blocks /\ rest \in Seq(Blocks) /\ Len(rest) = Len(chain) - 1
      /\ Len(chain) \in Nat \ {0} /\ \A i \in 1..(Len(chain) - 1) : rest[i] = chain[i]
  BY <1>1, LastBlock
<1>3. /\ notices' = notices /\ undone' = Append(undone, block) /\ chain' = rest
      /\ zmq' = zmq \o more
  BY DEF Disconnect
<1>4. /\ block \in Seq(Txs) /\ more \in Seq(ZmqMessages) /\ Len(more) = Len(block)
      /\ \A i \in 1..Len(block) : more[i] = RawTx(block[i]) /\ block[i] \in Txs
  BY <1>2, RawTxsForm
<1>5. \A i \in 1..Len(block) : block[i] \in ToSet(block)
  BY <1>4 DEF ToSet
<1>6. \A i \in 1..(Len(chain) - 1) : \A tx : tx \in ToSet(chain[i]) => tx \in TxsOf(rest)
  BY <1>2 DEF TxsOf
<1>7. Confirmed \subseteq TxsOf(rest) \union ToSet(block)
  <2> SUFFICES ASSUME NEW i \in DOMAIN chain, NEW tx \in ToSet(chain[i])
               PROVE  tx \in TxsOf(rest) \union ToSet(block)
    BY DEF Confirmed, TxsOf
  <2>1. i = Len(chain) \/ i \in 1..(Len(chain) - 1)
    BY <1>1, <1>2
  <2> QED BY <1>6, <2>1
<1> HIDE DEF more, block, rest
<1>8. TxsOf(undone)' = TxsOf(undone) \union ToSet(block)
  <2>1. TxsOf(Append(undone, block)) = TxsOf(undone) \union ToSet(block)
    BY <1>1, <1>2, TxsOfAppended
  <2> QED BY <1>3, <2>1 DEF TxsOf
<1>9. Confirmed' = TxsOf(rest)
  BY <1>3 DEF Confirmed, TxsOf
<1>10. ASSUME NEW k \in 1..Len(more)
       PROVE  more[k].kind = "rawtx" /\ more[k].tx \in ToSet(block)
  BY <1>4, <1>5, RawTxForm
<1>11. \A k \in 1..Len(more) : \A q \in 1..(k - 1) : q \in 1..Len(more)
  BY <1>4
<1>12. SendsInOrder(more)
  BY <1>3, <1>4, <1>7, <1>8, <1>9, <1>10, <1>11 DEF SendsInOrder, Carries
<1>13. BlockAfterTxs(more)
  BY <1>10 DEF BlockAfterTxs, Carries
<1> QED BY <1>2, <1>12, <1>13 DEF more, block

(* The notices of a rawtx are all "mempool" and all of its transaction.    *)
LEMMA AnnouncedInMempool ==
    ASSUME NEW tx \in Txs, NEW k \in 1..Len(Announcement(tx, "mempool"))
    PROVE  /\ Mempool(Announcement(tx, "mempool")[k])
           /\ Announcement(tx, "mempool")[k].tx = tx
<1> DEFINE a == Announcement(tx, "mempool")
<1>1. /\ Len(a) = Len(Outputs[tx]) + 1 /\ Len(Outputs[tx]) \in Nat
      /\ a[1] = Notice(tx, tx, "mempool")
      /\ \A i \in 1..Len(Outputs[tx]) : /\ a[i + 1] = Notice(Outputs[tx][i], tx, "mempool")
                                        /\ Outputs[tx][i] \in Addresses
  BY AnnouncementForm
<1>2. \A topic \in Txs \union Addresses :
          Mempool(Notice(topic, tx, "mempool")) /\ Notice(topic, tx, "mempool").tx = tx
  BY NoticeForm DEF Mempool
<1>3. k \in 1..Len(a)
  OBVIOUS
<1> HIDE DEF a
<1>4. Mempool(a[k]) /\ a[k].tx = tx
  <2>1. k = 1 \/ (k - 1 \in 1..Len(Outputs[tx]) /\ (k - 1) + 1 = k)
    BY <1>1, <1>3
  <2>2. ASSUME NEW i \in 1..Len(Outputs[tx]) PROVE Mempool(a[i + 1]) /\ a[i + 1].tx = tx
    BY <1>1, <1>2
  <2>3. Mempool(a[1]) /\ a[1].tx = tx
    BY <1>1, <1>2
  <2> QED BY <2>1, <2>2, <2>3
<1> QED BY <1>4 DEF a

(* A message may be lost, or cause nothing.                                *)
LEMMA NothingTaken ==
    ASSUME zmq # <<>>, zmq' = Tail(zmq), UNCHANGED <<chain, undone>>, notices \in Seq(Notices),
           notices' = notices
    PROVE  TakesOne(<<>>)
<1>1. <<>> \in Seq(Notices) /\ Len(<<>>) = 0
  OBVIOUS
<1>2. notices' = notices \o <<>>
  OBVIOUS
<1> QED BY <1>1, <1>2 DEF TakesOne

(* A new transaction is announced.                                         *)
LEMMA NewTaken ==
    ASSUME TypeOK, NEW tx \in Txs, zmq # <<>>, Head(zmq) = RawTx(tx), zmq' = Tail(zmq),
           UNCHANGED <<chain, undone>>, notices' = notices \o Announcement(tx, "mempool")
    PROVE  TakesOne(Announcement(tx, "mempool"))
<1> DEFINE a == Announcement(tx, "mempool")
<1>1. a \in Seq(Notices) /\ \A k \in 1..Len(a) : Mempool(a[k]) /\ a[k].tx = tx
  BY AnnouncementForm, AnnouncedInMempool
<1>2. zmq[1] = RawTx(tx)
  BY Received DEF TypeOK
<1>3. zmq[1].kind = "rawtx" /\ zmq[1].tx = tx
  BY <1>2, RawTxForm
<1> HIDE DEF a
<1>4. notices' = notices \o a
  BY DEF a
<1>5. TakesOne(a)
  BY <1>1, <1>3, <1>4 DEF TakesOne
<1> QED BY <1>5 DEF a

(* A block is announced.                                                   *)
LEMMA BlockTaken ==
    ASSUME TypeOK, HandleRawBlock
    PROVE  \E more : /\ TakesOne(more)
                     /\ \A k \in 1..Len(more) : ~Mempool(more[k])
                     /\ \A k \in 1..Len(more) :
                           more[k].topic \in {more[k].tx} \union ToSet(Outputs[more[k].tx])
<1>1. PICK block \in Blocks :
              /\ zmq # <<>> /\ Head(zmq) = RawBlock(block) /\ zmq' = Tail(zmq)
              /\ notices' = notices \o BlockAnnouncement(block)
              /\ BlockAnnouncement(block) \in Seq(BlockNotices(block))
              /\ BlockAnnouncement(block) \in Seq(Notices)
              /\ UNCHANGED <<node, lost, cache>>
  BY HandledBlock
<1>2. PICK more : more = BlockAnnouncement(block)
  OBVIOUS
<1>3. more \in Seq(BlockNotices(block)) /\ more \in Seq(Notices) /\ notices' = notices \o more
  BY <1>1, <1>2
<1>4. \A k \in 1..Len(more) : more[k] \in BlockNotices(block)
  BY <1>3
<1>5. ASSUME NEW k \in 1..Len(more)
      PROVE  /\ ~Mempool(more[k]) /\ more[k].tx \in ToSet(block)
             /\ more[k].topic \in {more[k].tx} \union ToSet(Outputs[more[k].tx])
  BY <1>4 DEF BlockNotices, Mempool
<1>6. zmq[1] = RawBlock(block)
  BY <1>1, Received DEF TypeOK
<1>7. zmq[1].kind = "rawblock" /\ zmq[1].block = block
  BY <1>6, RawBlockForm
<1>8. UNCHANGED <<chain, undone>>
  BY <1>1 DEF node
<1>9. TakesOne(more)
  BY <1>1, <1>3, <1>5, <1>7, <1>8 DEF TakesOne, Carries
<1> QED BY <1>5, <1>9

(* Nothing is announced or sent at the start.                              *)
LEMMA FallInit == Init => FallInv
<1> SUFFICES ASSUME Init PROVE FallInv
  OBVIOUS
<1>1. DOMAIN notices = {} /\ Len(zmq) = 0 /\ DOMAIN zmq = {}
  BY DEF Init
<1>2. ConfirmedOrUndone
  BY <1>1 DEF ConfirmedOrUndone, SaidBlock, CarriedBefore
<1> QED BY <1>1, <1>2 DEF FallInv, RepeatsUndone, NoMempoolNoticeAfterBlock

(* FallInv is inductive.                                                   *)
LEMMA FallStep == TypeOK /\ FallInv /\ [Next]_vars => FallInv'
<1> SUFFICES ASSUME TypeOK, FallInv, [Next]_vars PROVE FallInv'
  OBVIOUS
<1>1. ASSUME NEW tx \in Txs, Enter(tx) PROVE FallInv'
  BY <1>1, EnterInOrder, FallSends
<1>2. ASSUME NEW block \in Blocks, Mine(block) PROVE FallInv'
  BY <1>2, MineInOrder, FallSends
<1>3. CASE Disconnect
  BY <1>3, DisconnectInOrder, FallSends
<1>4. CASE Lose
  <2>1. /\ zmq # <<>> /\ zmq' = Tail(zmq) /\ UNCHANGED <<chain, undone>> /\ notices' = notices
        /\ notices \in Seq(Notices)
    BY <1>4 DEF Lose, node, TypeOK
  <2> QED BY <2>1, NothingTaken, FallTakes
<1>5. CASE HandleRawTx
  <2>1. PICK tx \in Txs :
              /\ zmq # <<>> /\ Head(zmq) = RawTx(tx) /\ zmq' = Tail(zmq)
              /\ notices' = notices \/ notices' = notices \o Announcement(tx, "mempool")
              /\ UNCHANGED <<node, lost>>
    BY <1>5, HandledTx
  <2>2. UNCHANGED <<chain, undone>> /\ notices \in Seq(Notices)
    BY <2>1 DEF node, TypeOK
  <2> QED BY <2>1, <2>2, NothingTaken, NewTaken, FallTakes
<1>6. CASE HandleRawBlock
  BY <1>6, BlockTaken, FallTakes
<1>7. CASE UNCHANGED vars
  BY <1>7 DEF vars, node, FallInv, ConfirmedOrUndone, RepeatsUndone, NoMempoolNoticeAfterBlock,
              SaidBlock, CarriedBefore, Confirmed
<1> QED BY <1>1, <1>2, <1>3, <1>4, <1>5, <1>6, <1>7 DEF Next, Node, Listen

(* No transaction is announced as in the mempool after it was announced in *)
(* a block, unless the block was disconnected: neither a full cache, which *)
(* forgets that it announced it, nor a lost message can bring it back.     *)
THEOREM NothingFallsBackCorrect == Spec => []NoMempoolNoticeAfterBlock
<1>1. Init => TypeOK /\ CacheProofs!IInv /\ FallInv
  BY InitType, FallInit
<1>2. TypeOK /\ CacheProofs!IInv /\ FallInv /\ [Next]_vars
          => (TypeOK /\ CacheProofs!IInv /\ FallInv)'
  BY TypeStep, FallStep
<1>3. FallInv => NoMempoolNoticeAfterBlock
  BY DEF FallInv
<1> QED BY <1>1, <1>2, <1>3, PTL DEF Spec

------------------------------------------------------------------------------
(* MempoolNoticeFirst.  The inductive invariant says what the cache and    *)
(* the queue know: a remembered txid was announced, on all its topics; and *)
(* of the transactions of a block on its way the rawtx is before it, was   *)
(* announced, or was lost.                                                 *)

Announced(tx) ==
    \A topic \in {tx} \union ToSet(Outputs[tx]) :
        Notice(topic, tx, "mempool") \in ToSet(notices)
Known(tx) == Announced(tx) \/ RawTx(tx) \in ToSet(lost)

RememberedAnnounced == \A tx \in set : Announced(tx)
CarriedKnown ==
    \A p \in DOMAIN zmq : \A tx \in Txs :
        Carries(zmq[p], tx) => Known(tx) \/ \E q \in 1..(p - 1) : zmq[q] = RawTx(tx)
FirstInv == RememberedAnnounced /\ CarriedKnown /\ MempoolNoticeFirst

(* What the node sends is in this order.                                   *)
LEMMA FirstSends ==
    ASSUME TypeOK, FirstInv, NEW more, SendsInOrder(more), BlockAfterTxs(more),
           UNCHANGED <<lost, set>>
    PROVE  FirstInv'
<1> DEFINE n == Len(zmq)
<1>1. /\ zmq \in Seq(ZmqMessages) /\ more \in Seq(ZmqMessages) /\ zmq' = zmq \o more
      /\ notices' = notices
  BY DEF TypeOK, SendsInOrder
<1>2. /\ n \in Nat /\ Len(more) \in Nat
      /\ DOMAIN zmq = 1..n /\ DOMAIN zmq' = 1..(n + Len(more))
      /\ \A p \in 1..n : zmq'[p] = zmq[p]
      /\ \A k \in 1..Len(more) : zmq'[n + k] = more[k]
  BY <1>1, JoinedPlaces
<1> HIDE DEF n
<1>3. \A tx : (Announced(tx)' <=> Announced(tx)) /\ (Known(tx)' <=> Known(tx))
  BY <1>1 DEF Announced, Known
<1>4. CarriedKnown'
  <2> SUFFICES ASSUME NEW p \in 1..(n + Len(more)), NEW tx \in Txs, Carries(zmq'[p], tx)
               PROVE  Known(tx)' \/ \E q \in 1..(p - 1) : zmq'[q] = RawTx(tx)
    BY <1>2 DEF CarriedKnown, Carries
  <2>1. CASE p \in 1..n
    <3>1. Carries(zmq[p], tx)
      BY <1>2, <2>1
    <3>2. Known(tx) \/ \E q \in 1..(p - 1) : zmq[q] = RawTx(tx)
      BY <1>2, <2>1, <3>1 DEF FirstInv, CarriedKnown
    <3>3. \A q \in 1..(p - 1) : zmq'[q] = zmq[q]
      BY <1>2, <2>1
    <3> QED BY <1>3, <3>2, <3>3
  <2>2. ASSUME NEW k \in 1..Len(more), p = n + k
        PROVE  \E q \in 1..(p - 1) : zmq'[q] = RawTx(tx)
    <3>1. PICK l \in 1..(k - 1) : more[l] = RawTx(tx)
      BY <1>2, <2>2 DEF BlockAfterTxs
    <3>2. l \in 1..Len(more) /\ n + l \in 1..(p - 1)
      BY <1>2, <2>2
    <3> QED BY <1>2, <3>1, <3>2
  <2>3. p \in 1..n \/ \E k \in 1..Len(more) : p = n + k
    BY <1>2, WhichPlace
  <2> QED BY <2>1, <2>2, <2>3
<1>5. RememberedAnnounced'
  BY <1>3 DEF RememberedAnnounced, FirstInv
<1>6. MempoolNoticeFirst'
  BY <1>1 DEF FirstInv, MempoolNoticeFirst, Mempool
<1> QED BY <1>4, <1>5, <1>6 DEF FirstInv

(* A notice of a block, as it was announced from the mempool.              *)
LEMMA InMempool ==
    ASSUME NEW m \in Notices
    PROVE  [m EXCEPT !.where = "mempool"] = Notice(m.topic, m.tx, "mempool") /\ m.tx \in Txs
BY DEF Notices, Notice

(* What the listener does with a message keeps it so, if a rawtx that is   *)
(* gone from the queue was announced or lost.                              *)
LEMMA FirstTakes ==
    ASSUME TypeOK, FirstInv, NEW more, TakesOne(more), ToSet(lost) \subseteq ToSet(lost)',
           \A tx \in set' : tx \in set \/ Announced(tx)',
           \A tx \in Txs : zmq[1] = RawTx(tx) => Known(tx)',
           \A k \in 1..Len(more) : ~Mempool(more[k])
               => more[k].topic \in {more[k].tx} \union ToSet(Outputs[more[k].tx])
    PROVE  FirstInv'
<1> DEFINE n == Len(notices)
<1>1. /\ zmq \in Seq(ZmqMessages) /\ zmq # <<>> /\ zmq' = Tail(zmq)
      /\ notices \in Seq(Notices) /\ more \in Seq(Notices) /\ notices' = notices \o more
  BY DEF TypeOK, TakesOne
<1>2. /\ n \in Nat /\ Len(more) \in Nat
      /\ DOMAIN notices = 1..n /\ DOMAIN notices' = 1..(n + Len(more))
      /\ \A i \in 1..n : notices'[i] = notices[i]
      /\ \A k \in 1..Len(more) : notices'[n + k] = more[k] /\ more[k] \in Notices
  BY <1>1, JoinedPlaces
<1> HIDE DEF n
<1>3. /\ Len(zmq) \in Nat \ {0} /\ Len(zmq') = Len(zmq) - 1
      /\ \A p \in 1..Len(zmq') : zmq'[p] = zmq[p + 1]
      /\ DOMAIN zmq = 1..Len(zmq) /\ DOMAIN zmq' = 1..Len(zmq')
  BY <1>1, Received
<1>4. ToSet(notices) \subseteq ToSet(notices)'
  <2>1. \A i \in 1..n : i \in 1..(n + Len(more))
    BY <1>2
  <2> QED BY <1>2, <2>1 DEF ToSet
<1>5. ASSUME NEW tx PROVE (Announced(tx) => Announced(tx)') /\ (Known(tx) => Known(tx)')
  BY <1>4 DEF Announced, Known
<1>6. RememberedAnnounced'
  BY <1>5 DEF FirstInv, RememberedAnnounced
<1>7. CarriedKnown'
  <2> SUFFICES ASSUME NEW p \in 1..Len(zmq'), NEW tx \in Txs, Carries(zmq'[p], tx)
               PROVE  Known(tx)' \/ \E q \in 1..(p - 1) : zmq'[q] = RawTx(tx)
    BY <1>3 DEF CarriedKnown, Carries
  <2>1. p + 1 \in DOMAIN zmq /\ zmq'[p] = zmq[p + 1] /\ (p + 1) - 1 = p
    BY <1>3
  <2>2. Known(tx) \/ \E q \in 1..p : zmq[q] = RawTx(tx)
    BY <2>1 DEF FirstInv, CarriedKnown
  <2>3. ASSUME NEW q \in 1..p, zmq[q] = RawTx(tx), q # 1
        PROVE  \E r \in 1..(p - 1) : zmq'[r] = RawTx(tx)
    <3>1. q - 1 \in 1..(p - 1) /\ q - 1 \in 1..Len(zmq') /\ (q - 1) + 1 = q
      BY <1>3, <2>3
    <3> QED BY <1>3, <2>3, <3>1
  <2>4. ASSUME zmq[1] = RawTx(tx) PROVE Known(tx)'
    BY <2>4
  <2> QED BY <1>5, <2>2, <2>3, <2>4
<1>8. MempoolNoticeFirst'
  <2> SUFFICES ASSUME NEW i \in 1..(n + Len(more)), ~Mempool(notices'[i])
               PROVE  \/ \E j \in 1..(i - 1) :
                            notices'[j] = [notices'[i] EXCEPT !.where = "mempool"]
                      \/ RawTx(notices'[i].tx) \in ToSet(lost)'
    BY <1>2 DEF MempoolNoticeFirst, Mempool
  <2>1. CASE i \in 1..n
    <3>1. notices'[i] = notices[i] /\ \A j \in 1..(i - 1) : notices'[j] = notices[j]
      BY <1>2, <2>1
    <3>2. \/ \E j \in 1..(i - 1) : notices[j] = [notices[i] EXCEPT !.where = "mempool"]
          \/ RawTx(notices[i].tx) \in ToSet(lost)
      BY <1>2, <2>1, <3>1 DEF FirstInv, MempoolNoticeFirst
    <3> QED BY <3>1, <3>2
  <2>2. ASSUME NEW k \in 1..Len(more), i = n + k
        PROVE  \/ \E j \in 1..(i - 1) :
                            notices'[j] = [notices'[i] EXCEPT !.where = "mempool"]
               \/ RawTx(notices'[i].tx) \in ToSet(lost)'
    <3> DEFINE m == more[k]
    <3>1. notices'[i] = m /\ m \in Notices
      BY <1>2, <2>2
    <3>2. /\ Carries(zmq[1], m.tx) /\ m.topic \in {m.tx} \union ToSet(Outputs[m.tx])
      BY <3>1 DEF TakesOne
    <3> HIDE DEF m
    <3>3. m.tx \in Txs /\ [m EXCEPT !.where = "mempool"] = Notice(m.topic, m.tx, "mempool")
      BY <3>1, InMempool
    <3>4. 1 \in DOMAIN zmq /\ \A q \in 1..(1 - 1) : FALSE
      BY <1>3
    <3>5. Known(m.tx)
      BY <3>2, <3>3, <3>4 DEF FirstInv, CarriedKnown
    <3>6. ASSUME Notice(m.topic, m.tx, "mempool") \in ToSet(notices)
          PROVE  \E j \in 1..(i - 1) : notices'[j] = Notice(m.topic, m.tx, "mempool")
      <4>1. PICK j \in 1..n : notices[j] = Notice(m.topic, m.tx, "mempool")
        BY <1>2, <3>6 DEF ToSet
      <4>2. j \in 1..(i - 1) /\ notices'[j] = notices[j]
        BY <1>2, <2>2
      <4> QED BY <4>1, <4>2
    <3> QED BY <3>1, <3>2, <3>3, <3>5, <3>6 DEF Known, Announced
  <2>3. i \in 1..n \/ \E k \in 1..Len(more) : i = n + k
    BY <1>2, WhichPlace
  <2> QED BY <2>1, <2>2, <2>3
<1> QED BY <1>6, <1>7, <1>8 DEF FirstInv

(* The announcement of a transaction leaves none of its topics out.        *)
LEMMA AnnouncedNow ==
    ASSUME TypeOK, NEW tx \in Txs, notices' = notices \o Announcement(tx, "mempool")
    PROVE  Announced(tx)'
<1> DEFINE a == Announcement(tx, "mempool")
           n == Len(notices)
<1>1. notices \in Seq(Notices) /\ a \in Seq(Notices) /\ notices' = notices \o a
  BY AnnouncementForm DEF TypeOK
<1>2. /\ Len(a) = Len(Outputs[tx]) + 1 /\ Len(Outputs[tx]) \in Nat
      /\ a[1] = Notice(tx, tx, "mempool")
      /\ \A i \in 1..Len(Outputs[tx]) : a[i + 1] = Notice(Outputs[tx][i], tx, "mempool")
  BY AnnouncementForm
<1> HIDE DEF a, n
<1>3. \A k \in 1..Len(a) : a[k] \in ToSet(notices)'
  <2>1. /\ Len(notices) \in Nat /\ Len(a) \in Nat
        /\ Len(notices \o a) = Len(notices) + Len(a)
        /\ DOMAIN notices = 1..Len(notices) /\ DOMAIN a = 1..Len(a)
        /\ DOMAIN (notices \o a) = 1..(Len(notices) + Len(a))
        /\ \A k \in 1..Len(notices) :
              (notices \o a)[k] = notices[k] /\ notices[k] \in Notices
        /\ \A k \in 1..Len(a) : (notices \o a)[Len(notices) + k] = a[k] /\ a[k] \in Notices
    BY <1>1, JoinedPlaces
  <2>2. /\ DOMAIN notices' = 1..(Len(notices) + Len(a))
        /\ \A k \in 1..Len(a) : notices'[Len(notices) + k] = a[k]
    BY <1>1, <2>1, Zenon
  <2>3. \A k \in 1..Len(a) : Len(notices) + k \in DOMAIN notices'
    BY <2>1, <2>2
  <2> QED BY <2>2, <2>3 DEF ToSet
<1>4. Notice(tx, tx, "mempool") \in ToSet(notices)'
  BY <1>2, <1>3
<1>5. ASSUME NEW topic \in ToSet(Outputs[tx])
      PROVE  Notice(topic, tx, "mempool") \in ToSet(notices)'
  <2>1. Outputs[tx] \in Seq(Addresses)
    BY OutputsAssumption
  <2>2. PICK i \in 1..Len(Outputs[tx]) : topic = Outputs[tx][i]
    BY <2>1 DEF ToSet
  <2>3. i + 1 \in 1..Len(a)
    BY <1>2
  <2> QED BY <1>2, <1>3, <2>2, <2>3
<1> QED BY <1>4, <1>5 DEF Announced, Notice

(* What was lost stays lost.                                               *)
LEMMA LostGrows ==
    ASSUME TypeOK, NEW m \in ZmqMessages, lost' = Append(lost, m)
    PROVE  ToSet(lost) \subseteq ToSet(lost)' /\ m \in ToSet(lost)'
<1>1. lost \in Seq(ZmqMessages)
  BY DEF TypeOK
<1>2. /\ Len(lost) \in Nat /\ DOMAIN lost = 1..Len(lost) /\ DOMAIN lost' = 1..(Len(lost) + 1)
      /\ lost'[Len(lost) + 1] = m /\ \A i \in 1..Len(lost) : lost'[i] = lost[i]
  BY <1>1
<1>3. Len(lost) + 1 \in DOMAIN lost' /\ \A i \in 1..Len(lost) : i \in DOMAIN lost'
  BY <1>2
<1> QED BY <1>2, <1>3 DEF ToSet

(* Nothing is known or sent at the start.                                  *)
LEMMA FirstInit == Init => FirstInv
<1> SUFFICES ASSUME Init PROVE FirstInv
  OBVIOUS
<1>1. DOMAIN notices = {} /\ DOMAIN zmq = {} /\ set = {}
  BY DEF Init, Cache!Init
<1> QED BY <1>1 DEF FirstInv, RememberedAnnounced, CarriedKnown, MempoolNoticeFirst

(* FirstInv is inductive.                                                  *)
LEMMA FirstStep == TypeOK /\ FirstInv /\ [Next]_vars => FirstInv'
<1> SUFFICES ASSUME TypeOK, FirstInv, [Next]_vars PROVE FirstInv'
  OBVIOUS
<1>1. ASSUME NEW tx \in Txs, Enter(tx) PROVE FirstInv'
  <2>1. UNCHANGED <<lost, set>>
    BY <1>1 DEF Enter, cache
  <2> QED BY <1>1, <2>1, EnterInOrder, FirstSends
<1>2. ASSUME NEW block \in Blocks, Mine(block) PROVE FirstInv'
  <2>1. UNCHANGED <<lost, set>>
    BY <1>2 DEF Mine, cache
  <2> QED BY <1>2, <2>1, MineInOrder, FirstSends
<1>3. CASE Disconnect
  <2>1. UNCHANGED <<lost, set>>
    BY <1>3 DEF Disconnect, cache
  <2> QED BY <1>3, <2>1, DisconnectInOrder, FirstSends
<1>4. \A k \in 1..Len(<<>>) : FALSE
  OBVIOUS
<1>5. CASE Lose
  <2>1. /\ zmq # <<>> /\ zmq' = Tail(zmq) /\ UNCHANGED <<chain, undone>> /\ notices' = notices
        /\ notices \in Seq(Notices) /\ lost' = Append(lost, Head(zmq)) /\ set' = set
    BY <1>5 DEF Lose, node, cache, TypeOK
  <2>2. Head(zmq) \in ZmqMessages /\ Head(zmq) = zmq[1]
    BY <2>1, Received DEF TypeOK
  <2>3. ToSet(lost) \subseteq ToSet(lost)' /\ Head(zmq) \in ToSet(lost)'
    BY <2>1, <2>2, LostGrows
  <2>4. ASSUME NEW tx \in Txs, zmq[1] = RawTx(tx) PROVE Known(tx)'
    BY <2>2, <2>3, <2>4 DEF Known, RawTx
  <2>5. TakesOne(<<>>)
    BY <2>1, NothingTaken
  <2> QED BY <1>4, <2>1, <2>3, <2>4, <2>5, FirstTakes
<1>6. CASE HandleRawTx
  <2>1. PICK tx \in Txs :
              /\ zmq # <<>> /\ Head(zmq) = RawTx(tx) /\ zmq' = Tail(zmq)
              /\ \/ Cache!InsertKnown(tx) /\ notices' = notices
                 \/ Cache!InsertNew(tx) /\ notices' = notices \o Announcement(tx, "mempool")
              /\ UNCHANGED <<node, lost>>
    BY <1>6, HandledTx
  <2>2. UNCHANGED <<chain, undone, lost>> /\ notices \in Seq(Notices)
    BY <2>1 DEF node, TypeOK
  <2>3. zmq[1] = RawTx(tx)
    BY <2>1, Received DEF TypeOK
  <2>4. ASSUME NEW other \in Txs, zmq[1] = RawTx(other) PROVE other = tx
    BY <2>3, <2>4 DEF RawTx
  <2>5. ToSet(lost) \subseteq ToSet(lost)'
    BY <2>2
  <2>6. CASE Cache!InsertKnown(tx) /\ notices' = notices
    <3>1. tx \in set /\ set' = set
      BY <2>6, CacheKnows
    <3>2. Announced(tx)'
      BY <2>6, <3>1 DEF FirstInv, RememberedAnnounced, Announced
    <3>3. \A other \in Txs : zmq[1] = RawTx(other) => Known(other)'
      BY <2>4, <3>2 DEF Known
    <3>4. TakesOne(<<>>)
      BY <2>1, <2>2, <2>6, NothingTaken
    <3> QED BY <1>4, <2>5, <3>1, <3>3, <3>4, FirstTakes
  <2>7. CASE Cache!InsertNew(tx) /\ notices' = notices \o Announcement(tx, "mempool")
    <3>1. set' \subseteq set \union {tx}
      BY <2>7, CacheAccepts
    <3>2. Announced(tx)'
      BY <2>7, AnnouncedNow
    <3>3. \A other \in Txs : zmq[1] = RawTx(other) => Known(other)'
      BY <2>4, <3>2 DEF Known
    <3>4. \A other \in set' : other \in set \/ Announced(other)'
      BY <3>1, <3>2
    <3>5. TakesOne(Announcement(tx, "mempool"))
      BY <2>1, <2>2, <2>7, NewTaken
    <3>6. \A k \in 1..Len(Announcement(tx, "mempool")) : Mempool(Announcement(tx, "mempool")[k])
      BY AnnouncedInMempool
    <3> QED BY <2>5, <3>3, <3>4, <3>5, <3>6, FirstTakes
  <2> QED BY <2>1, <2>6, <2>7
<1>7. CASE HandleRawBlock
  <2>1. PICK more : /\ TakesOne(more)
                    /\ \A k \in 1..Len(more) :
                           more[k].topic \in {more[k].tx} \union ToSet(Outputs[more[k].tx])
    BY <1>7, BlockTaken
  <2>2. zmq # <<>> /\ zmq[1].kind = "rawblock" /\ lost' = lost /\ set' = set
    <3>1. zmq # <<>> /\ Head(zmq).kind = "rawblock" /\ lost' = lost /\ set' = set
      BY <1>7 DEF HandleRawBlock, cache
    <3> QED BY <3>1, Received DEF TypeOK
  <2>3. ToSet(lost) \subseteq ToSet(lost)'
    BY <2>2
  <2>4. \A tx \in Txs : zmq[1] # RawTx(tx)
    BY <2>2, RawTxForm
  <2> QED BY <2>1, <2>2, <2>3, <2>4, FirstTakes
<1>8. CASE UNCHANGED vars
  BY <1>8 DEF vars, node, cache, FirstInv, RememberedAnnounced, CarriedKnown, MempoolNoticeFirst,
              Known, Announced
<1> QED BY <1>1, <1>2, <1>3, <1>5, <1>6, <1>7, <1>8 DEF Next, Node, Listen

(* Of every transaction that is announced in a block, the mempool notice   *)
(* went out before, on the same topic, unless the node's message was lost: *)
(* an entry of the cache always stands for an announcement.                *)
THEOREM MempoolFirstCorrect == Spec => []MempoolNoticeFirst
<1>1. Init => TypeOK /\ CacheProofs!IInv /\ FirstInv
  BY InitType, FirstInit
<1>2. TypeOK /\ CacheProofs!IInv /\ FirstInv /\ [Next]_vars
          => (TypeOK /\ CacheProofs!IInv /\ FirstInv)'
  BY TypeStep, FirstStep
<1>3. FirstInv => MempoolNoticeFirst
  BY DEF FirstInv
<1> QED BY <1>1, <1>2, <1>3, PTL DEF Spec

------------------------------------------------------------------------------
(* RepeatedOnlyAfterWindow.  The inductive invariant: the log of the cache *)
(* is the sequence of the transactions announced as new, so that what      *)
(* BoundedSetProofs shows of the log holds of the notices.                 *)

(* l lists the transactions that s announces as new.                       *)
LogOf(s, l) ==
    /\ NewAmong(s, Len(s)) = Len(l)
    /\ \A i \in DOMAIN s : IsNew(s[i]) => s[i].tx = l[NewAmong(s, i)]
LogInv == LogOf(notices, log)

(* Up to n there are at most as many as up to a later place.               *)
LEMMA NewCount ==
    ASSUME NEW s, NEW n \in Nat, NEW k \in 0..n
    PROVE  /\ NewAmong(s, n) \in Nat /\ NewAmong(s, k) \in Nat
           /\ NewAmong(s, k) <= NewAmong(s, n)
<1> DEFINE R(x) == {i \in 1..x : IsNew(s[i])}
<1>1. IsFiniteSet(1..n)
  BY FS_Interval
<1>2. R(n) \in SUBSET (1..n) /\ R(k) \in SUBSET R(n)
  OBVIOUS
<1>3. IsFiniteSet(R(n))
  BY <1>1, <1>2, FS_Subset
<1>4. IsFiniteSet(R(k)) /\ Cardinality(R(k)) <= Cardinality(R(n))
  BY <1>2, <1>3, FS_Subset
<1>5. Cardinality(R(n)) \in Nat /\ Cardinality(R(k)) \in Nat
  BY <1>3, <1>4, FS_CardinalityType
<1> QED BY <1>4, <1>5 DEF NewAmong

(* No notice, none that is new.                                            *)
LEMMA NoneNew ==
    ASSUME NEW s
    PROVE  NewAmong(s, 0) = 0
<1>1. {i \in 1..0 : IsNew(s[i])} = {}
  OBVIOUS
<1> QED BY <1>1, FS_EmptySet DEF NewAmong

(* A new one counts.                                                       *)
LEMMA NewCounts ==
    ASSUME NEW s, NEW n \in Nat, IsNew(s[n + 1])
    PROVE  NewAmong(s, n + 1) = NewAmong(s, n) + 1
<1> DEFINE R(x) == {i \in 1..x : IsNew(s[i])}
<1>1. IsFiniteSet(R(n)) /\ n + 1 \notin R(n)
  <2>1. IsFiniteSet(1..n) /\ R(n) \in SUBSET (1..n)
    BY FS_Interval
  <2> QED BY <2>1, FS_Subset
<1>2. R(n + 1) = R(n) \union {n + 1}
  OBVIOUS
<1>3. Cardinality(R(n + 1)) = Cardinality(R(n)) + 1
  BY <1>1, <1>2, FS_AddElement
<1> QED BY <1>3 DEF NewAmong

(* Sequences that begin alike have as many there.                          *)
LEMMA SameNew ==
    ASSUME NEW s, NEW t, NEW n \in Nat, \A i \in 1..n : s[i] = t[i]
    PROVE  NewAmong(s, n) = NewAmong(t, n)
<1>1. {i \in 1..n : IsNew(s[i])} = {i \in 1..n : IsNew(t[i])}
  OBVIOUS
<1> QED BY <1>1 DEF NewAmong

(* Others do not count.                                                    *)
LEMMA NewThenOthers ==
    ASSUME NEW s, NEW n \in Nat, NEW k \in 0..n, \A i \in (k + 1)..n : ~IsNew(s[i])
    PROVE  NewAmong(s, n) = NewAmong(s, k)
<1>1. {i \in 1..n : IsNew(s[i])} = {i \in 1..k : IsNew(s[i])}
  OBVIOUS
<1> QED BY <1>1 DEF NewAmong

(* A place of a new one is a place of the log.                             *)
LEMMA PlaceInLog ==
    ASSUME NEW s \in Seq(Notices), NEW l \in Seq(Txs), LogOf(s, l),
           NEW i \in DOMAIN s, IsNew(s[i])
    PROVE  NewAmong(s, i) \in 1..Len(l) /\ NewAmong(s, i) = NewAmong(s, i - 1) + 1
<1>1. /\ Len(s) \in Nat /\ i \in 1..Len(s) /\ i - 1 \in Nat /\ (i - 1) + 1 = i
      /\ i \in 0..Len(s) /\ i - 1 \in 0..Len(s)
  OBVIOUS
<1>2. NewAmong(s, i) = NewAmong(s, i - 1) + 1
  BY <1>1, NewCounts
<1>3. NewAmong(s, i - 1) \in Nat /\ NewAmong(s, i) \in Nat /\ NewAmong(s, i) <= NewAmong(s, Len(s))
  BY <1>1, NewCount
<1> QED BY <1>2, <1>3 DEF LogOf

(* Notices that are not new leave the log alone.                           *)
LEMMA LogSame ==
    ASSUME NEW s \in Seq(Notices), NEW more \in Seq(Notices), NEW l \in Seq(Txs), LogOf(s, l),
           \A k \in 1..Len(more) : ~IsNew(more[k])
    PROVE  LogOf(s \o more, l)
<1> DEFINE u == s \o more
           n == Len(s)
<1>1. /\ n \in Nat /\ Len(more) \in Nat /\ Len(u) = n + Len(more)
      /\ DOMAIN s = 1..n /\ DOMAIN u = 1..(n + Len(more))
      /\ \A i \in 1..n : u[i] = s[i]
      /\ \A k \in 1..Len(more) : u[n + k] = more[k]
  BY JoinedPlaces
<1> HIDE DEF u, n
<1>2. ASSUME NEW i \in 0..n PROVE NewAmong(u, i) = NewAmong(s, i)
  <2>1. i \in Nat /\ \A j \in 1..i : u[j] = s[j]
    BY <1>1
  <2> QED BY <2>1, SameNew
<1>3. ASSUME NEW i \in (n + 1)..Len(u) PROVE ~IsNew(u[i])
  <2>1. i \in 1..(n + Len(more)) /\ i \notin 1..n
    BY <1>1
  <2>2. PICK k \in 1..Len(more) : i = n + k
    BY <1>1, <2>1, WhichPlace
  <2> QED BY <1>1, <2>2
<1>4. NewAmong(u, Len(u)) = NewAmong(s, n)
  <2>1. Len(u) \in Nat /\ n \in 0..Len(u) /\ n \in 0..n
    BY <1>1
  <2>2. NewAmong(u, Len(u)) = NewAmong(u, n)
    BY <1>3, <2>1, NewThenOthers
  <2> QED BY <1>2, <2>1, <2>2
<1>5. ASSUME NEW i \in DOMAIN u, IsNew(u[i]) PROVE u[i].tx = l[NewAmong(u, i)]
  <2>1. i \in 1..n
    BY <1>1, <1>3, <1>5
  <2>2. u[i] = s[i] /\ NewAmong(u, i) = NewAmong(s, i)
    BY <1>1, <1>2, <2>1
  <2> QED BY <1>1, <1>5, <2>1, <2>2 DEF LogOf
<1> QED BY <1>4, <1>5 DEF LogOf, u, n

(* A new one is logged.                                                    *)
LEMMA LogNext ==
    ASSUME NEW s \in Seq(Notices), NEW first \in Seq(Notices), NEW l \in Seq(Txs), NEW tx \in Txs
    PROVE  LogOf(s, l) /\ Len(first) = 1 /\ IsNew(first[1]) /\ first[1].tx = tx
             => LogOf(s \o first, Append(l, tx))
<1>1. /\ Len(s) \in Nat /\ Len(first) \in Nat /\ Len(s \o first) = Len(s) + Len(first)
      /\ DOMAIN s = 1..Len(s) /\ DOMAIN first = 1..Len(first)
      /\ DOMAIN (s \o first) = 1..(Len(s) + Len(first))
      /\ \A i \in 1..Len(s) : (s \o first)[i] = s[i] /\ s[i] \in Notices
      /\ \A k \in 1..Len(first) : (s \o first)[Len(s) + k] = first[k] /\ first[k] \in Notices
  BY JoinedPlaces
<1> HAVE LogOf(s, l) /\ Len(first) = 1 /\ IsNew(first[1]) /\ first[1].tx = tx
<1> DEFINE u == s \o first
           n == Len(s)
           m == Append(l, tx)
<1>2. /\ n \in Nat /\ Len(first) \in Nat /\ Len(u) = n + Len(first)
      /\ DOMAIN s = 1..n /\ DOMAIN u = 1..(n + Len(first))
      /\ \A i \in 1..n : u[i] = s[i]
      /\ \A k \in 1..Len(first) : u[n + k] = first[k]
  BY <1>1, Zenon
<1>3. /\ Len(l) \in Nat /\ Len(m) = Len(l) + 1 /\ m[Len(l) + 1] = tx
      /\ \A i \in 1..Len(l) : m[i] = l[i]
  OBVIOUS
<1> HIDE DEF u, n, m
<1>4. u[n + 1] = first[1] /\ DOMAIN u = 1..(n + 1) /\ Len(u) = n + 1
  BY <1>2
<1>5. ASSUME NEW i \in 0..n PROVE NewAmong(u, i) = NewAmong(s, i)
  <2>1. i \in Nat /\ \A j \in 1..i : u[j] = s[j]
    BY <1>2
  <2> QED BY <2>1, SameNew
<1>6. NewAmong(u, n) = Len(l)
  BY <1>2, <1>5 DEF LogOf, n
<1>7. NewAmong(u, n + 1) = Len(l) + 1
  BY <1>2, <1>4, <1>6, NewCounts
<1>8. ASSUME NEW i \in DOMAIN u, IsNew(u[i]) PROVE u[i].tx = m[NewAmong(u, i)]
  <2>1. CASE i = n + 1
    BY <1>3, <1>4, <1>7, <2>1
  <2>2. CASE i # n + 1
    <3>1. i \in DOMAIN s /\ i \in 0..n /\ u[i] = s[i]
      BY <1>2, <1>4, <2>2
    <3>2. NewAmong(u, i) = NewAmong(s, i)
      BY <1>5, <3>1
    <3>3. NewAmong(s, i) \in 1..Len(l)
      BY <1>8, <3>1, PlaceInLog
    <3> QED BY <1>3, <1>8, <3>1, <3>2, <3>3 DEF LogOf
  <2> QED BY <2>1, <2>2
<1>9. NewAmong(u, Len(u)) = Len(m)
  BY <1>3, <1>4, <1>7
<1> QED BY <1>8, <1>9 DEF LogOf, u, m

(* The first notice of an announcement, and the notices of its addresses,  *)
(* of which none is new: no address is a txid.                             *)
LEMMA AnnouncementSplit ==
    ASSUME NEW tx \in Txs
    PROVE  \E first, others \in Seq(Notices) :
              /\ Announcement(tx, "mempool") = first \o others
              /\ Len(first) = 1 /\ IsNew(first[1]) /\ first[1].tx = tx
              /\ \A k \in 1..Len(others) : ~IsNew(others[k])
<1> DEFINE first == <<Notice(tx, tx, "mempool")>>
           others == [i \in DOMAIN Outputs[tx] |-> Notice(Outputs[tx][i], tx, "mempool")]
<1>1. Announcement(tx, "mempool") = first \o others
  BY DEF Announcement
<1>2. Outputs[tx] \in Seq(Addresses)
  BY OutputsAssumption
<1>3. /\ Len(Outputs[tx]) \in Nat /\ DOMAIN Outputs[tx] = 1..Len(Outputs[tx])
      /\ \A i \in 1..Len(Outputs[tx]) : Outputs[tx][i] \in Addresses
  BY <1>2
<1>4. first \in Seq(Notices) /\ Len(first) = 1 /\ IsNew(first[1]) /\ first[1].tx = tx
  <2>1. Notice(tx, tx, "mempool") \in Notices
    BY NoticeForm
  <2>2. IsNew(Notice(tx, tx, "mempool")) /\ Notice(tx, tx, "mempool").tx = tx
    BY NoticeForm DEF IsNew, Mempool
  <2> HIDE DEF Notice
  <2> QED BY <2>1, <2>2
<1>5. \A i \in 1..Len(Outputs[tx]) : Notice(Outputs[tx][i], tx, "mempool") \in Notices
  BY <1>3, NoticeForm
<1>6. others \in Seq(Notices) /\ Len(others) = Len(Outputs[tx])
  BY <1>3, <1>5
<1>7. \A k \in 1..Len(others) : ~IsNew(others[k])
  <2> SUFFICES ASSUME NEW k \in 1..Len(Outputs[tx])
               PROVE  ~IsNew(Notice(Outputs[tx][k], tx, "mempool"))
    BY <1>3, <1>6
  <2>1. Outputs[tx][k] # tx
    BY <1>3, NamesAssumption
  <2> QED BY <1>3, <2>1, NoticeForm DEF IsNew
<1> HIDE DEF first, others
<1> QED BY <1>1, <1>4, <1>6, <1>7

(* The log lists nothing at the start.                                     *)
LEMMA LogInit == Init => LogInv
<1> SUFFICES ASSUME Init PROVE LogInv
  OBVIOUS
<1>1. DOMAIN notices = {} /\ Len(notices) = 0 /\ Len(log) = 0
  BY DEF Init, Cache!Init
<1> QED BY <1>1, NoneNew DEF LogInv, LogOf

(* LogInv is inductive.                                                    *)
LEMMA LogStep == TypeOK /\ LogInv /\ [Next]_vars => LogInv'
<1> SUFFICES ASSUME TypeOK, LogInv, [Next]_vars PROVE LogInv'
  OBVIOUS
<1>1. notices \in Seq(Notices) /\ log \in Seq(Txs)
  BY DEF TypeOK, Cache!TypeOK
<1>2. ASSUME notices' = notices, log' = log PROVE LogInv'
  BY <1>2 DEF LogInv, LogOf, NewAmong
<1>3. CASE HandleRawTx
  <2>1. PICK tx \in Txs :
              \/ Cache!InsertKnown(tx) /\ notices' = notices
              \/ Cache!InsertNew(tx) /\ notices' = notices \o Announcement(tx, "mempool")
    BY <1>3, HandledTx
  <2>2. CASE Cache!InsertKnown(tx) /\ notices' = notices
    BY <1>2, <2>2, CacheKnows
  <2>3. CASE Cache!InsertNew(tx) /\ notices' = notices \o Announcement(tx, "mempool")
    <3>1. PICK first, others \in Seq(Notices) :
              /\ Announcement(tx, "mempool") = first \o others
              /\ Len(first) = 1 /\ IsNew(first[1]) /\ first[1].tx = tx
              /\ \A k \in 1..Len(others) : ~IsNew(others[k])
      BY AnnouncementSplit
    <3>2. LogOf(notices, log)
      BY DEF LogInv
    <3>3. LogOf(notices \o first, Append(log, tx))
      BY <1>1, <3>1, <3>2, LogNext
    <3>4. notices \o first \in Seq(Notices) /\ Append(log, tx) \in Seq(Txs)
      BY <1>1
    <3>5. LogOf((notices \o first) \o others, Append(log, tx))
      BY <3>1, <3>3, <3>4, LogSame
    <3>6. notices' = (notices \o first) \o others
      <4>1. notices' = notices \o (first \o others)
        BY <2>3, <3>1, Zenon
      <4>2. notices \o (first \o others) = (notices \o first) \o others
        <5>1. notices \in Seq(Notices)
          BY <1>1
        <5> QED BY <5>1, ConcatAssociative
      <4> QED BY <4>1, <4>2, Zenon
    <3>7. log' = Append(log, tx)
      BY <2>3, CacheAccepts
    <3> QED BY <3>5, <3>6, <3>7 DEF LogInv, LogOf, NewAmong
  <2> QED BY <2>1, <2>2, <2>3
<1>4. CASE HandleRawBlock
  <2>1. PICK more : /\ TakesOne(more) /\ \A k \in 1..Len(more) : ~Mempool(more[k])
    BY <1>4, BlockTaken
  <2>2. log' = log /\ notices' = notices \o more /\ more \in Seq(Notices)
    BY <1>4, <2>1 DEF HandleRawBlock, cache, TakesOne
  <2>3. LogOf(notices, log)
    BY DEF LogInv
  <2>4. \A k \in 1..Len(more) : ~IsNew(more[k])
    BY <2>1 DEF IsNew
  <2>5. LogOf(notices \o more, log)
    BY <1>1, <2>2, <2>3, <2>4, LogSame
  <2> QED BY <2>2, <2>5 DEF LogInv, LogOf, NewAmong
<1>5. ASSUME ~HandleRawTx, ~HandleRawBlock PROVE notices' = notices /\ log' = log
  BY <1>5 DEF Next, Node, Enter, Mine, Disconnect, Lose, Listen, vars, cache
<1> QED BY <1>2, <1>3, <1>4, <1>5

(* What the cache promises of its log, the listener promises of its        *)
(* notices.                                                                *)
LEMMA WindowKept == TypeOK /\ CacheProofs!IInv /\ LogInv => RepeatedOnlyAfterWindow
<1> SUFFICES ASSUME TypeOK, CacheProofs!IInv, LogInv,
                    NEW i \in DOMAIN notices, NEW j \in DOMAIN notices, i < j,
                    IsNew(notices[i]), notices[i] = notices[j]
             PROVE  NewAmong(notices, j) - NewAmong(notices, i) > Cache!Window(capacity)
  BY DEF RepeatedOnlyAfterWindow
<1>1. notices \in Seq(Notices) /\ log \in Seq(Txs) /\ LogOf(notices, log)
  BY DEF TypeOK, Cache!TypeOK, LogInv
<1> DEFINE r == NewAmong(notices, i)
           q == NewAmong(notices, j)
<1>2. r \in 1..Len(log) /\ q \in 1..Len(log) /\ q = NewAmong(notices, j - 1) + 1
  BY <1>1, PlaceInLog
<1>3. r <= NewAmong(notices, j - 1) /\ NewAmong(notices, j - 1) \in Nat
  <2>1. j - 1 \in Nat /\ i \in 0..(j - 1)
    BY <1>1
  <2> QED BY <2>1, NewCount
<1>4. log[r] = log[q]
  BY <1>1 DEF LogOf
<1> HIDE DEF r, q
<1>5. r \in DOMAIN log /\ q \in DOMAIN log /\ r < q
  <2>1. DOMAIN log = 1..Len(log)
    BY <1>1
  <2> QED BY <1>2, <1>3, <2>1
<1>6. q - r > Cache!Window(capacity)
  BY <1>4, <1>5, CacheMeans
<1> QED BY <1>6 DEF r, q

(* A transaction is announced as new again only after a whole window of    *)
(* other transactions was, whatever blocks, losses and notices of          *)
(* addresses come in between: the mempool notices inherit the promise of   *)
(* the bounded set.                                                        *)
THEOREM RepeatedCorrect == Spec => []RepeatedOnlyAfterWindow
<1>1. Init => TypeOK /\ CacheProofs!IInv /\ LogInv
  BY InitType, LogInit
<1>2. TypeOK /\ CacheProofs!IInv /\ LogInv /\ [Next]_vars
          => (TypeOK /\ CacheProofs!IInv /\ LogInv)'
  BY TypeStep, LogStep
<1> QED BY <1>1, <1>2, WindowKept, PTL DEF Spec

==============================================================================
