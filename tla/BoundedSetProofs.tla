-------------------------- MODULE BoundedSetProofs ---------------------------
(***************************************************************************)
(* Proofs about BoundedSet, for every Item, Capacities and MaxLog.         *)
(*                                                                         *)
(* The inductive invariant is IInv: types, the two containers mirror each  *)
(* other, the queue is the tail of the accepted items, and an accepted     *)
(* item recurs only after a whole window.  The last needs the other two:   *)
(* insert() tests the HashSet, the HashSet is the queue, and the queue is  *)
(* the last window of the log.                                             *)
(***************************************************************************)
EXTENDS BoundedSet, TLAPS

IInv == TypeOK /\ SetMirrorsQueue /\ QueueIsTailOfLog /\ ReacceptedOnlyAfterWindow

(* The window is a positive number.                                        *)
LEMMA WindowType ==
    ASSUME NEW c \in Capacities
    PROVE  Window(c) \in Nat /\ Window(c) >= 1 /\ Window(c) >= c
BY CapacitiesAssumption DEF Window

(* Eviction, then the push, by index: what the queue is after an insert    *)
(* of a new item.                                                          *)
LEMMA QueueAfterInsert ==
    ASSUME IInv, NEW item \in Item, InsertNew(item)
    PROVE  /\ queue' \in Seq(Item)
           /\ Evicts => /\ Len(queue') = Len(queue)
                        /\ Len(queue) >= 1
                        /\ Len(queue) = Window(capacity)
                        /\ \A k \in 1..(Len(queue) - 1) : queue'[k] = queue[k + 1]
           /\ ~Evicts => /\ Len(queue') = Len(queue) + 1
                         /\ Len(queue) < Window(capacity)
                         /\ \A k \in 1..Len(queue) : queue'[k] = queue[k]
           /\ queue'[Len(queue')] = item
<1>0. /\ queue \in Seq(Item)
      /\ Len(queue) \in Nat
      /\ Len(queue) <= Window(capacity)
      /\ capacity \in Nat
      /\ Window(capacity) \in Nat
      /\ Window(capacity) >= 1
  BY WindowType, CapacitiesAssumption DEF IInv, TypeOK
<1>1. CASE Evicts
  <2>1. queue # <<>> /\ Len(queue) >= capacity
    BY <1>1 DEF Evicts
  <2>2. Len(queue) >= 1
    BY <2>1, <1>0
  <2>3. Len(queue) = Window(capacity)
    <3>1. Window(capacity) = 1 \/ Window(capacity) = capacity
      BY DEF Window
    <3> QED BY <1>0, <2>1, <2>2, <3>1
  <2>4. /\ Tail(queue) \in Seq(Item)
        /\ Len(Tail(queue)) = Len(queue) - 1
        /\ \A k \in 1..(Len(queue) - 1) : Tail(queue)[k] = queue[k + 1]
    BY <2>2, <1>0
  <2>5. queue' = Append(Tail(queue), item)
    BY <1>1 DEF InsertNew, QueueAfterEviction
  <2> QED BY <1>0, <1>1, <2>2, <2>3, <2>4, <2>5
<1>2. CASE ~Evicts
  <2>1. queue' = Append(queue, item)
    BY <1>2 DEF InsertNew, QueueAfterEviction
  <2>2. Len(queue) < Window(capacity)
    BY <1>0, <1>2 DEF Evicts, Window
  <2> QED BY <1>0, <1>2, <2>1, <2>2
<1> QED BY <1>1, <1>2

------------------------------------------------------------------------------
(* The empty cache satisfies the invariant.                                *)
LEMMA InitInv == Init => IInv
<1> SUFFICES ASSUME Init PROVE IInv
  OBVIOUS
<1>1. /\ set = {} /\ queue = <<>> /\ log = <<>>
      /\ capacity \in Capacities /\ fresh = FALSE
  BY DEF Init
<1>2. Window(capacity) \in Nat /\ Window(capacity) >= 1
  BY <1>1, WindowType
<1>3. TypeOK
  <2>1. <<>> \in Seq(Item) /\ Len(<<>>) = 0
    OBVIOUS
  <2>2. Len(queue) <= Window(capacity)
    BY <1>1, <1>2, <2>1
  <2> QED BY <1>1, <2>1, <2>2 DEF TypeOK
<1>4. SetMirrorsQueue
  BY <1>1 DEF SetMirrorsQueue
<1>5. QueueIsTailOfLog
  BY <1>1, <1>2 DEF QueueIsTailOfLog
<1>6. ReacceptedOnlyAfterWindow
  BY <1>1 DEF ReacceptedOnlyAfterWindow
<1> QED BY <1>3, <1>4, <1>5, <1>6 DEF IInv

(* Accepting an item keeps the types and the bound on the queue.           *)
LEMMA InsertNewType ==
    ASSUME IInv, NEW item \in Item, InsertNew(item)
    PROVE  TypeOK'
<1>1. /\ queue' \in Seq(Item)
      /\ Len(queue') <= Window(capacity)
  <2>1. Len(queue) \in Nat /\ Window(capacity) \in Nat /\ Len(queue) <= Window(capacity)
    BY WindowType DEF IInv, TypeOK
  <2> QED BY <2>1, QueueAfterInsert
<1>2. set' \subseteq Item
  BY DEF IInv, TypeOK, InsertNew, SetAfterEviction
<1>3. log' \in Seq(Item)
  BY DEF IInv, TypeOK, InsertNew
<1>4. capacity' = capacity /\ capacity \in Capacities /\ fresh' = TRUE
  BY DEF IInv, TypeOK, InsertNew
<1> QED BY <1>1, <1>2, <1>3, <1>4 DEF TypeOK, Window

(* Accepting an item adds it to both containers and evicts the same entry  *)
(* from both.                                                              *)
LEMMA InsertNewMirrors ==
    ASSUME IInv, NEW item \in Item, InsertNew(item)
    PROVE  SetMirrorsQueue'
<1>n. Len(queue) \in Nat
  BY DEF IInv, TypeOK
<1>0. /\ queue \in Seq(Item)
      /\ Len(queue) \in Nat
      /\ set = {queue[i] : i \in DOMAIN queue}
      /\ \A i, j \in DOMAIN queue : queue[i] = queue[j] => i = j
      /\ item \notin set
      /\ DOMAIN queue = 1..Len(queue)
      /\ set' = SetAfterEviction \union {item}
  BY DEF IInv, TypeOK, SetMirrorsQueue, InsertNew, Contains
<1>1. queue' \in Seq(Item) /\ DOMAIN queue' = 1..Len(queue') /\ Len(queue') \in Nat
  BY QueueAfterInsert
<1>2. CASE Evicts
  <2>1. /\ Len(queue') = Len(queue) /\ Len(queue) >= 1
        /\ \A k \in 1..(Len(queue) - 1) : queue'[k] = queue[k + 1]
        /\ queue'[Len(queue)] = item
    BY <1>2, QueueAfterInsert
  <2>2. set' = (set \ {queue[1]}) \union {item}
    BY <1>0, <1>2, <2>1 DEF SetAfterEviction
  <2>3. \A i, j \in DOMAIN queue' : queue'[i] = queue'[j] => i = j
    <3> SUFFICES ASSUME NEW i \in 1..Len(queue), NEW j \in 1..Len(queue),
                        queue'[i] = queue'[j]
                 PROVE  i = j
      BY <1>1, <2>1
    <3>1. \A k \in 1..Len(queue) : queue[k] # item
      BY <1>0
    <3>2. CASE i = Len(queue) /\ j = Len(queue)
      BY <3>2
    <3>3. CASE i # Len(queue) /\ j # Len(queue)
      <4>1. /\ i \in 1..(Len(queue) - 1) /\ i + 1 \in 1..Len(queue)
            /\ j \in 1..(Len(queue) - 1) /\ j + 1 \in 1..Len(queue)
        BY <1>n, <3>3
      <4>2. queue[i + 1] = queue[j + 1]
        BY <2>1, <4>1
      <4>3. i + 1 = j + 1
        BY <1>0, <4>1, <4>2
      <4> QED BY <4>1, <4>3
    <3>4. CASE i # Len(queue) /\ j = Len(queue)
      <4>1. i \in 1..(Len(queue) - 1) /\ i + 1 \in 1..Len(queue)
        BY <1>n, <3>4
      <4> QED BY <2>1, <3>1, <3>4, <4>1
    <3>5. CASE i = Len(queue) /\ j # Len(queue)
      <4>1. j \in 1..(Len(queue) - 1) /\ j + 1 \in 1..Len(queue)
        BY <1>n, <3>5
      <4> QED BY <2>1, <3>1, <3>5, <4>1
    <3> QED BY <3>2, <3>3, <3>4, <3>5
  <2>4. \A x : x \in set' => \E i \in DOMAIN queue' : queue'[i] = x
    <3> SUFFICES ASSUME NEW x, x \in set' PROVE \E i \in 1..Len(queue) : queue'[i] = x
      BY <1>1, <2>1
    <3>1. CASE x = item
      BY <1>0, <2>1, <3>1
    <3>2. CASE x # item
      <4>1. PICK j \in 1..Len(queue) : queue[j] = x
        BY <1>0, <2>2, <3>2
      <4>2. j # 1
        BY <2>2, <3>2, <4>1
      <4>3. j - 1 \in 1..(Len(queue) - 1) /\ queue'[j - 1] = queue[(j - 1) + 1]
        BY <1>0, <2>1, <4>2
      <4>4. queue'[j - 1] = x
        BY <1>0, <4>1, <4>3
      <4> QED BY <1>0, <4>3, <4>4
    <3> QED BY <3>1, <3>2
  <2>5. \A i \in DOMAIN queue' : queue'[i] \in set'
    <3> SUFFICES ASSUME NEW i \in 1..Len(queue) PROVE queue'[i] \in set'
      BY <1>1, <2>1
    <3>1. CASE i = Len(queue)
      BY <2>1, <2>2, <3>1
    <3>2. CASE i # Len(queue)
      <4>1. i \in 1..(Len(queue) - 1) /\ i + 1 \in 1..Len(queue) /\ i + 1 # 1
        BY <1>n, <3>2
      <4>2. queue'[i] = queue[i + 1]
        BY <2>1, <4>1
      <4>3. queue[i + 1] \in set /\ queue[i + 1] # queue[1]
        BY <1>0, <2>1, <4>1
      <4> QED BY <2>2, <4>2, <4>3
    <3> QED BY <3>1, <3>2
  <2> QED BY <2>3, <2>4, <2>5 DEF SetMirrorsQueue
<1>3. CASE ~Evicts
  <2>1. /\ Len(queue') = Len(queue) + 1
        /\ \A k \in 1..Len(queue) : queue'[k] = queue[k]
        /\ queue'[Len(queue) + 1] = item
    BY <1>3, QueueAfterInsert
  <2>2. set' = set \union {item}
    BY <1>0, <1>3 DEF SetAfterEviction
  <2>3. \A k \in 1..Len(queue) : queue[k] # item
    BY <1>0
  <2>4. \A i, j \in DOMAIN queue' : queue'[i] = queue'[j] => i = j
    BY <1>0, <1>1, <2>1, <2>3
  <2>5. set' = {queue'[i] : i \in DOMAIN queue'}
    BY <1>0, <1>1, <2>1, <2>2
  <2> QED BY <2>4, <2>5 DEF SetMirrorsQueue
<1> QED BY <1>2, <1>3

(* The queue stays the tail of the log: an eviction and a push shift both  *)
(* by one.                                                                 *)
LEMMA InsertNewTail ==
    ASSUME IInv, NEW item \in Item, InsertNew(item)
    PROVE  QueueIsTailOfLog'
<1>0. /\ queue \in Seq(Item) /\ Len(queue) \in Nat
      /\ log \in Seq(Item) /\ Len(log) \in Nat
      /\ Window(capacity) \in Nat /\ Window(capacity) >= 1
      /\ Window(capacity)' = Window(capacity)
      /\ Len(queue) = IF Len(log) < Window(capacity) THEN Len(log) ELSE Window(capacity)
      /\ \A k \in 1..Len(queue) : queue[k] = log[Len(log) - Len(queue) + k]
  <2>1. queue \in Seq(Item) /\ log \in Seq(Item) /\ capacity \in Capacities
    BY DEF IInv, TypeOK
  <2>2. Window(capacity) \in Nat /\ Window(capacity) >= 1
    BY <2>1, WindowType
  <2>3. Window(capacity)' = Window(capacity)
    BY DEF InsertNew, Window
  <2>4. /\ Len(queue) = IF Len(log) < Window(capacity) THEN Len(log) ELSE Window(capacity)
        /\ \A k \in 1..Len(queue) : queue[k] = log[Len(log) - Len(queue) + k]
    BY DEF IInv, QueueIsTailOfLog
  <2>5. Len(queue) \in Nat /\ Len(log) \in Nat
    BY <2>1
  <2> QED BY <2>1, <2>2, <2>3, <2>4, <2>5
<1>1. /\ Len(log') = Len(log) + 1
      /\ \A k \in 1..Len(log) : log'[k] = log[k]
      /\ log'[Len(log) + 1] = item
  BY <1>0 DEF InsertNew
<1>2. CASE Evicts
  <2>1. /\ Len(queue') = Len(queue) /\ Len(queue) >= 1 /\ Len(queue) = Window(capacity)
        /\ \A k \in 1..(Len(queue) - 1) : queue'[k] = queue[k + 1]
        /\ queue'[Len(queue)] = item
    BY <1>2, QueueAfterInsert
  <2>2. Len(queue) <= Len(log)
    BY <1>0
  <2>3. ASSUME NEW k \in 1..Len(queue)
        PROVE  queue'[k] = log'[Len(log') - Len(queue') + k]
    <3>1. CASE k = Len(queue)
      BY <1>0, <1>1, <2>1, <3>1
    <3>2. CASE k # Len(queue)
      <4>1. k \in 1..(Len(queue) - 1) /\ k + 1 \in 1..Len(queue)
        BY <1>0, <3>2
      <4>2. queue'[k] = log[Len(log) - Len(queue) + (k + 1)]
        BY <1>0, <2>1, <4>1
      <4>3. /\ Len(log) - Len(queue) + (k + 1) \in 1..Len(log)
            /\ Len(log') - Len(queue') + k = Len(log) - Len(queue) + (k + 1)
        BY <1>0, <1>1, <2>1, <2>2, <4>1
      <4> QED BY <1>1, <4>2, <4>3
    <3> QED BY <3>1, <3>2
  <2>4. Len(queue') = IF Len(log') < Window(capacity)' THEN Len(log') ELSE Window(capacity)'
    BY <1>0, <1>1, <2>1, <2>2
  <2> QED BY <2>1, <2>3, <2>4 DEF QueueIsTailOfLog
<1>3. CASE ~Evicts
  <2>1. /\ Len(queue') = Len(queue) + 1 /\ Len(queue) < Window(capacity)
        /\ \A k \in 1..Len(queue) : queue'[k] = queue[k]
        /\ queue'[Len(queue) + 1] = item
    BY <1>3, QueueAfterInsert
  <2>2. Len(queue) = Len(log)
    BY <1>0, <2>1
  <2>3. ASSUME NEW k \in 1..(Len(queue) + 1)
        PROVE  queue'[k] = log'[Len(log') - Len(queue') + k]
    <3>1. Len(log') - Len(queue') + k = k
      BY <1>0, <1>1, <2>1, <2>2
    <3>2. CASE k = Len(queue) + 1
      BY <1>1, <2>1, <2>2, <3>1, <3>2
    <3>3. CASE k # Len(queue) + 1
      <4>1. k \in 1..Len(queue) /\ Len(log) - Len(queue) + k = k
        BY <1>0, <2>2, <3>3
      <4> QED BY <1>0, <1>1, <2>1, <2>2, <3>1, <4>1
    <3> QED BY <3>2, <3>3
  <2>4. Len(queue') = IF Len(log') < Window(capacity)' THEN Len(log') ELSE Window(capacity)'
    BY <1>0, <1>1, <2>1, <2>2
  <2> QED BY <2>1, <2>3, <2>4 DEF QueueIsTailOfLog
<1> QED BY <1>2, <1>3

(* The queue holds whatever the last window of the log holds.              *)
LEMMA SetIsLastWindow ==
    ASSUME IInv
    PROVE  set = {log[i] : i \in {j \in DOMAIN log : j > Len(log) - Window(capacity)}}
<1>0. /\ queue \in Seq(Item) /\ Len(queue) \in Nat /\ DOMAIN queue = 1..Len(queue)
      /\ log \in Seq(Item) /\ Len(log) \in Nat /\ DOMAIN log = 1..Len(log)
      /\ Window(capacity) \in Nat /\ Window(capacity) >= 1
      /\ Len(queue) = IF Len(log) < Window(capacity) THEN Len(log) ELSE Window(capacity)
      /\ \A k \in 1..Len(queue) : queue[k] = log[Len(log) - Len(queue) + k]
      /\ set = {queue[i] : i \in DOMAIN queue}
  BY WindowType DEF IInv, TypeOK, QueueIsTailOfLog, SetMirrorsQueue
<1>1. Len(queue) <= Len(log)
  BY <1>0
<1>2. ASSUME NEW k \in 1..Len(queue)
      PROVE  /\ Len(log) - Len(queue) + k \in 1..Len(log)
             /\ Len(log) - Len(queue) + k > Len(log) - Window(capacity)
  BY <1>0, <1>1
<1>3. ASSUME NEW j \in 1..Len(log), j > Len(log) - Window(capacity)
      PROVE  \E k \in 1..Len(queue) : queue[k] = log[j]
  <2>1. /\ j - (Len(log) - Len(queue)) \in 1..Len(queue)
        /\ Len(log) - Len(queue) + (j - (Len(log) - Len(queue))) = j
    BY <1>0, <1>1, <1>3
  <2>2. queue[j - (Len(log) - Len(queue))] = log[Len(log) - Len(queue) + (j - (Len(log) - Len(queue)))]
    BY <1>0, <2>1
  <2> QED BY <2>1, <2>2
<1>4. \A x \in set : \E j \in 1..Len(log) : j > Len(log) - Window(capacity) /\ log[j] = x
  BY <1>0, <1>2
<1> QED BY <1>0, <1>3, <1>4

(* The accepted item is not in the last window of the log.                 *)
LEMMA InsertNewDistance ==
    ASSUME IInv, NEW item \in Item, InsertNew(item)
    PROVE  ReacceptedOnlyAfterWindow'
<1>0. /\ log \in Seq(Item) /\ Len(log) \in Nat /\ DOMAIN log = 1..Len(log)
      /\ Window(capacity) \in Nat /\ Window(capacity)' = Window(capacity)
      /\ item \notin set
  BY WindowType DEF IInv, TypeOK, InsertNew, Contains, Window
<1>d. \A i, j \in 1..Len(log) : i < j /\ log[i] = log[j] => j - i > Window(capacity)
  BY <1>0 DEF IInv, ReacceptedOnlyAfterWindow
<1>1. /\ Len(log') = Len(log) + 1 /\ DOMAIN log' = 1..(Len(log) + 1)
      /\ \A k \in 1..Len(log) : log'[k] = log[k]
      /\ log'[Len(log) + 1] = item
  BY <1>0 DEF InsertNew
<1>2. \A i \in 1..Len(log) : i > Len(log) - Window(capacity) => log[i] # item
  BY <1>0, SetIsLastWindow
<1>3. ASSUME NEW i \in 1..(Len(log) + 1), NEW j \in 1..(Len(log) + 1),
             i < j, log'[i] = log'[j]
      PROVE  j - i > Window(capacity)
  <2>1. i \in 1..Len(log)
    BY <1>0, <1>3
  <2>2. CASE j = Len(log) + 1
    <3>1. log[i] = item
      BY <1>1, <1>3, <2>1, <2>2
    <3> QED BY <1>0, <1>2, <2>1, <2>2, <3>1
  <2>3. CASE j # Len(log) + 1
    <3>1. j \in 1..Len(log)
      BY <1>0, <2>3
    <3> QED BY <1>d, <1>1, <1>3, <2>1, <3>1
  <2> QED BY <2>2, <2>3
<1> QED BY <1>0, <1>1, <1>3 DEF ReacceptedOnlyAfterWindow

(* Every insert() preserves the invariant; one that finds the item         *)
(* changes nothing it speaks of.                                           *)
LEMMA StepInv == IInv /\ [Next]_vars => IInv'
<1> SUFFICES ASSUME IInv, [Next]_vars PROVE IInv'
  OBVIOUS
<1>1. ASSUME NEW item \in Item, InsertKnown(item) PROVE IInv'
  <2>1. fresh' \in BOOLEAN /\ UNCHANGED <<set, queue, capacity, log>>
    BY <1>1 DEF InsertKnown
  <2>2. TypeOK'
    BY <2>1 DEF IInv, TypeOK, Window
  <2>3. SetMirrorsQueue'
    BY <2>1 DEF IInv, SetMirrorsQueue
  <2>4. QueueIsTailOfLog'
    BY <2>1 DEF IInv, QueueIsTailOfLog, Window
  <2>5. ReacceptedOnlyAfterWindow'
    BY <2>1 DEF IInv, ReacceptedOnlyAfterWindow, Window
  <2> QED BY <2>2, <2>3, <2>4, <2>5 DEF IInv
<1>2. ASSUME NEW item \in Item, InsertNew(item) PROVE IInv'
  BY <1>2, InsertNewType, InsertNewMirrors, InsertNewTail, InsertNewDistance DEF IInv
<1>3. CASE UNCHANGED vars
  BY <1>3 DEF IInv, TypeOK, SetMirrorsQueue, QueueIsTailOfLog, ReacceptedOnlyAfterWindow,
              vars, Window
<1> QED BY <1>1, <1>2, <1>3 DEF Next, Insert

(* The inductive invariant holds: the two containers of BoundedSet mirror  *)
(* each other and are the last window of what insert() accepted.           *)
THEOREM Invariance == Spec => []IInv
BY InitInv, StepInv, PTL DEF Spec

------------------------------------------------------------------------------
(* The cache never outgrows its window, and its fields keep their types.   *)
THEOREM TypeCorrect == Spec => []TypeOK
BY Invariance, PTL DEF IInv

(* The HashSet and the VecDeque of BoundedSet always hold the same items,  *)
(* each once, so contains() answers for exactly what insert() would evict. *)
THEOREM MirrorCorrect == Spec => []SetMirrorsQueue
BY Invariance, PTL DEF IInv

(* The deque always holds the last accepted items, oldest first: what the  *)
(* capacity forgets is exactly what was accepted longest ago.              *)
THEOREM QueueCorrect == Spec => []QueueIsTailOfLog
BY Invariance, PTL DEF IInv

(* A txid is announced again only after Window(capacity) others were.      *)
THEOREM DistanceCorrect == Spec => []ReacceptedOnlyAfterWindow
BY Invariance, PTL DEF IInv

(* The pair of containers implements the sliding window: insert() accepts  *)
(* exactly the items that are not among the last Window(capacity) accepted.*)
THEOREM Refinement == Spec => ImplementsWindow
<1>1. Init => SW!Init
  BY DEF Init, SW!Init
<1>2. IInv /\ [Next]_vars => [SW!Next]_(SW!vars)
  <2> SUFFICES ASSUME IInv, [Next]_vars PROVE [SW!Next]_(SW!vars)
    OBVIOUS
  <2>1. set = SW!LastOf(log, Window(capacity))
    BY SetIsLastWindow DEF SW!LastOf
  <2>2. ASSUME NEW item \in Item, InsertKnown(item) PROVE SW!See(item)
    BY <2>1, <2>2 DEF InsertKnown, Contains, SW!See, Window
  <2>3. ASSUME NEW item \in Item, InsertNew(item) PROVE SW!See(item)
    BY <2>1, <2>3 DEF InsertNew, Contains, SW!See, Window
  <2>4. CASE UNCHANGED vars
    BY <2>4 DEF vars, SW!vars, Window
  <2> QED BY <2>2, <2>3, <2>4 DEF Next, Insert, SW!Next
<1> QED BY <1>1, <1>2, Invariance, PTL DEF Spec, ImplementsWindow, SW!Spec
==============================================================================
