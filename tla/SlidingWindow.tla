---------------------------- MODULE SlidingWindow ----------------------------
(***************************************************************************)
(* What a cache of recently seen items promises, without saying how it     *)
(* remembers them.  `log` is the sequence of items answered "new", in      *)
(* order: in the relay, the txids announced as "mempool".  An item is      *)
(* answered "new" exactly when it is not among the last `width` of them.   *)
(***************************************************************************)
EXTENDS Integers, Sequences

CONSTANTS
    Item,       \* what can be seen (txids)
    Widths,     \* the window widths considered
    MaxLog      \* bound: number of items ever answered "new"

VARIABLES width, log, fresh

vars == <<width, log, fresh>>

(* The items of the last w entries of the sequence s. *)
LastOf(s, w) == {s[i] : i \in {j \in DOMAIN s : j > Len(s) - w}}

Init == /\ width \in Widths
        /\ log = <<>>
        /\ fresh = FALSE

See(item) ==
    /\ \/ /\ item \in LastOf(log, width)
          /\ fresh' = FALSE
          /\ log' = log
       \/ /\ item \notin LastOf(log, width)
          /\ Len(log) < MaxLog
          /\ fresh' = TRUE
          /\ log' = Append(log, item)
    /\ width' = width

Next == \E item \in Item : See(item)

Spec == Init /\ [][Next]_vars
==============================================================================
