----------------------------- MODULE BoundedSet ------------------------------
(***************************************************************************)
(* BoundedSet<T> of src/src/zmq.rs: the set of recently seen txids the ZMQ *)
(* listener consults before it announces a rawtx.  A HashSet answers       *)
(* contains(), a VecDeque remembers the insertion order, and the oldest    *)
(* entry makes room for a new one.  Listener code only calls insert(item)  *)
(* when contains(item) is false (zmq.rs:133), insert() repeats the test,   *)
(* and nothing runs between the two, so one action stands for both.        *)
(*                                                                         *)
(* `log` and `fresh` are history variables: the items insert() accepted,   *)
(* in order, and the answer of the last insert().                          *)
(***************************************************************************)
EXTENDS Integers, Sequences

CONSTANTS
    Item,         \* what is inserted (txids)
    Capacities,   \* capacities the set can be built with; the relay uses 1000
    MaxLog        \* bound: number of items ever accepted

ASSUME CapacitiesAssumption == Capacities \subseteq Nat
ASSUME MaxLogAssumption == MaxLog \in Nat

VARIABLES
    set,          \* HashSet<T>
    queue,        \* VecDeque<T>, oldest first
    capacity,     \* usize
    log,          \* history: every accepted item
    fresh         \* history: what the last insert() returned

vars == <<set, queue, capacity, log, fresh>>

------------------------------------------------------------------------------
Init == /\ set = {}
        /\ queue = <<>>
        /\ capacity \in Capacities
        /\ log = <<>>
        /\ fresh = FALSE

\* seeded fault: the lookup is skipped
NeverContains(item) == FALSE

Contains(item) == item \in set

\* seeded faults: room for one more, or one less, than the capacity
EvictsLate == Len(queue) > capacity /\ queue # <<>>
EvictsEarly == Len(queue) + 1 >= capacity /\ queue # <<>>

(* The oldest entry leaves when the queue is at capacity; an empty queue   *)
(* has none to give (capacity 0).                                          *)
Evicts == Len(queue) >= capacity /\ queue # <<>>

\* seeded fault: the evicted entry stays in the HashSet
NeverRemoved == set
\* seeded fault: pop_back() instead of pop_front()
YoungestEvicted == IF Evicts THEN SubSeq(queue, 1, Len(queue) - 1) ELSE queue

SetAfterEviction == IF Evicts THEN set \ {Head(queue)} ELSE set
QueueAfterEviction == IF Evicts THEN Tail(queue) ELSE queue

InsertKnown(item) ==
    /\ Contains(item)
    /\ fresh' = FALSE
    /\ UNCHANGED <<set, queue, capacity, log>>

InsertNew(item) ==
    /\ ~Contains(item)
    /\ Len(log) < MaxLog
    /\ set' = SetAfterEviction \union {item}
    /\ queue' = Append(QueueAfterEviction, item)
    /\ log' = Append(log, item)
    /\ fresh' = TRUE
    /\ UNCHANGED capacity

Insert(item) == InsertKnown(item) \/ InsertNew(item)

Next == \E item \in Item : Insert(item)

Spec == Init /\ [][Next]_vars

------------------------------------------------------------------------------
(* A set of capacity 0 still holds the entry it just accepted.             *)
Window(cap) == IF cap = 0 THEN 1 ELSE cap

(* Type invariant, with the memory bound the name of the type promises:    *)
(* the queue never outgrows the window, whatever is inserted.              *)
TypeOK ==
    /\ set \subseteq Item
    /\ queue \in Seq(Item)
    /\ capacity \in Capacities
    /\ log \in Seq(Item)
    /\ fresh \in BOOLEAN
    /\ Len(queue) <= Window(capacity)

(* The two containers never drift apart: the HashSet holds exactly the     *)
(* queued items and the queue holds each of them once.  A drift would make *)
(* contains() answer for an item that was evicted, or leak memory.         *)
SetMirrorsQueue ==
    /\ set = {queue[i] : i \in DOMAIN queue}
    /\ \A i, j \in DOMAIN queue : queue[i] = queue[j] => i = j

(* The deduplication guarantee a client of the mempool notices relies on:  *)
(* the same item is accepted again only after a whole window of other      *)
(* items was accepted in between.                                          *)
ReacceptedOnlyAfterWindow ==
    \A i, j \in DOMAIN log :
        i < j /\ log[i] = log[j] => j - i > Window(capacity)

(* The queue is the tail of the accepted items; the invariant that links   *)
(* the implementation to the abstract window.                              *)
QueueIsTailOfLog ==
    /\ Len(queue) = IF Len(log) < Window(capacity) THEN Len(log)
                    ELSE Window(capacity)
    /\ \A k \in 1..Len(queue) : queue[k] = log[Len(log) - Len(queue) + k]

(* Refinement: the HashSet/VecDeque pair answers as the abstract sliding   *)
(* window of the last Window(capacity) accepted items does.                *)
SW == INSTANCE SlidingWindow
        WITH width <- Window(capacity), Widths <- {Window(c) : c \in Capacities}
ImplementsWindow == SW!Spec
==============================================================================
