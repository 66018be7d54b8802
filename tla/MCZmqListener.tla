---- MODULE MCZmqListener ----
(* TLC instance: three transactions, one pays two addresses, one pays the  *)
(* same address twice, one pays none; caches of zero to two entries, so    *)
(* that entries are evicted while their transaction waits for a block.     *)
EXTENDS ZmqListener
CONSTANTS t1, t2, t3, a1, a2
MCTxs == {t1, t2, t3}
MCAddresses == {a1, a2}
MCOutputs == [tx \in MCTxs |-> CASE tx = t1 -> <<a1, a2>>
                                 [] tx = t2 -> <<a1, a1>>
                                 [] OTHER -> <<>>]
MCBlocks == {<<t1>>, <<t3, t2>>}
MCCapacities == 0..2

(* A transaction enters the mempool once, is mined once more than it is    *)
(* disconnected, and each time the listener remembers it at most once.     *)
ASSUME LogBoundSuffices == MaxLog >= Cardinality(Txs) * (2 * MaxReorgs + 2)
====
