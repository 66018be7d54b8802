---- MODULE MCConnections ----
(* TLC instances of Connections: small sets of frames over two assets.     *)
EXTENDS ConnectionProperties, TLC
CONSTANTS x, y, c1, c2

Rpc(n, m, key, b) ==
    [form |-> "rpc", id |-> [kind |-> "num", n |-> n], method |-> m,
     params |-> [form |-> "map", size |-> 1, key |-> key, body |-> b]]

SubPair == Rpc(1, "subscribe", "pair", [ok |-> TRUE, input |-> <<x>>, output |-> <<y>>])
SubAny == Rpc(1, "subscribe", "any", [ok |-> TRUE, name |-> <<x, ":", y>>, content |-> FALSE])
PubAny == Rpc(2, "publish", "any", [ok |-> TRUE, name |-> <<x, ":", y>>, content |-> TRUE])
Propose(check) ==
    Rpc(3, "publish", "proposal", [ok |-> TRUE, input |-> <<x>>, output |-> <<y>>, check |-> check])
Ping == Rpc(2, "publish", "ping", [ok |-> FALSE])
Broken == Rpc(2, "publish", "any", [ok |-> FALSE])
Garbage == [form |-> "garbage"]

OneClient == {c1}
TwoClients == {c1, c2}
TwoSymmetric == Permutations(TwoClients)

AllFrames == {SubPair, SubAny, PubAny, Propose("valid"), Propose("invalid"),
              Propose("no_needed_tx"), Ping, Broken, Garbage}
PubSubFrames == {SubAny, PubAny, Broken}
RequestFrames == {SubPair, Propose("valid"), Propose("invalid"), Garbage, Broken}
====
