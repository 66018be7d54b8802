---- MODULE MCNexusRelay ----
(* TLC instances of the whole relay: t2 spends the output of t1, which     *)
(* pays the address a1; a client watches, another offers the output of t1. *)
EXTENDS RelayProperties
CONSTANTS x, y, c1, c2, t1, t2, a1

Rpc(n, m, key, b) ==
    [form |-> "rpc", id |-> [kind |-> "num", n |-> n], method |-> m,
     params |-> [form |-> "map", size |-> 1, key |-> key, body |-> b]]
WatchTx(tx) == Rpc(1, "subscribe", "tx", [ok |-> TRUE, name |-> <<tx>>])
WatchAddress(a) == Rpc(2, "subscribe", "address", [ok |-> TRUE, name |-> <<a>>])
Offer(tx) == Rpc(3, "publish", "proposal",
                 [ok |-> TRUE, input |-> <<x>>, output |-> <<y>>, check |-> "valid", needs |-> tx])

OneClient == {c1}
TwoClients == {c1, c2}
WatchAndOffer == {WatchTx(t1), Offer(t1)}
WatchOnly == {WatchTx(t1), WatchAddress(a1)}
Offers == {Offer(t1)}

MCTxs == {t1, t2}
MCAddresses == {a1}
MCOutputs == [tx \in MCTxs |-> IF tx = t1 THEN <<a1>> ELSE <<>>]
MCSpends == [tx \in MCTxs |-> IF tx = t2 THEN {t1} ELSE {}]
OneTx == {t1}
OneOutputs == [tx \in OneTx |-> <<a1>>]
OneSpends == [tx \in OneTx |-> {}]
OneBlock == {<<t1>>}
NoBlock == {}
LongBlock == {<<t1, t2>>}
Remembered == {2}

(* A transaction enters the mempool once, is mined once more than it is    *)
(* disconnected, and each time the listener remembers it at most once.     *)
ASSUME LogBoundSuffices == MaxLog >= Cardinality(Txs) * (2 * MaxReorgs + 2)
====
