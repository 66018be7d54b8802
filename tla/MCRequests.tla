---- MODULE MCRequests ----
(* TLC instance: every id kind and boundary, every method, every root with *)
(* a readable and an unreadable body, and strings that could be mistaken   *)
(* for a pair name (empty, two atoms, with a colon).                       *)
EXTENDS RequestHandling
CONSTANTS a, b
MCAtoms == {a, b, ":"}
MCAssets == {<<a>>, <<b>>}
MCStrings == {<<>>, <<a>>, <<b>>, <<a, b>>, <<a, ":">>, <<a, ":", b>>}

Ids == {[kind |-> "absent"], [kind |-> "string"]}
       \union [kind : {"num"}, n : {-1, 0, 1, IdMax - 1, IdMax, IdMax + 1}]
Bodies(key) ==
    {[ok |-> FALSE]} \union
    CASE key = "any" -> [ok : {TRUE}, name : Strings, content : BOOLEAN]
      [] key = "pair" -> [ok : {TRUE}, input : Strings, output : Strings]
      [] key = "proposal" -> [ok : {TRUE}, input : MCAssets, output : MCAssets]
      [] key = "ping" -> {[ok |-> TRUE]}
      [] OTHER -> [ok : {TRUE}, name : Strings]
Roots == UNION {[form : {"map"}, size : {1}, key : {k}, body : Bodies(k)] :
                  k \in RootKeys \union {"ping", "txid", "other"}}
Params == {[form |-> "none"], [form |-> "array"]}
          \union [form : {"map"}, size : {0, 2}, key : {"any"}, body : Bodies("any")]
          \union Roots
MCTexts == {[form |-> "garbage"]}
           \union [form : {"rpc"}, id : Ids, method : Methods \union {"", "other"},
                   params : Params]
====
