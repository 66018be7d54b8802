------------------------------- MODULE PubSub --------------------------------
(***************************************************************************)
(* What the relay promises its clients, without tasks, channels or sockets.*)
(* A client arrives, makes requests, and leaves once.  While it is here,   *)
(* its stream grows by exactly one answer per request and one notice per   *)
(* subscription of it to a topic that is published; a publication reaches  *)
(* all its subscribers at the same instant, and its own publisher before   *)
(* the answer.  What the node reports is published under several topics at *)
(* once.  A client that leaves has seen a prefix of its stream.            *)
(***************************************************************************)
EXTENDS Integers, SequencesExt

CONSTANTS
    Clients,
    Topics,
    Replies,        \* the answers to requests
    Batches         \* sequences of topics the node's reports are published on

VARIABLES
    status,         \* "new", "here" or "left", per client
    subs,           \* subs[c][t]: how many subscriptions c has to t
    stream,         \* stream[c]: what c is sent, in order
    published       \* every publication, in order: its topic and its author

vars == <<status, subs, stream, published>>

Note(topic, n) == [kind |-> "note", topic |-> topic, n |-> n]

Here(c) == status[c] = "here"

Init == /\ status = [c \in Clients |-> "new"]
        /\ subs = [c \in Clients |-> [t \in Topics |-> 0]]
        /\ stream = [c \in Clients |-> <<>>]
        /\ published = <<>>

Arrive(c) == /\ status[c] = "new"
             /\ status' = [status EXCEPT ![c] = "here"]
             /\ UNCHANGED <<subs, stream, published>>

Answer(c) == /\ Here(c)
             /\ UNCHANGED <<status, subs, published>>
             /\ \E r \in Replies : stream' = [stream EXCEPT ![c] = Append(@, r)]

Subscribe(c, t) == /\ Here(c)
                   /\ subs' = [subs EXCEPT ![c][t] = @ + 1]
                   /\ UNCHANGED <<status, published>>
                   /\ \E r \in Replies : stream' = [stream EXCEPT ![c] = Append(@, r)]

(* What d is sent when the n-th publication is on t.                       *)
Notices(d, t, n) == [i \in 1..subs[d][t] |-> Note(t, n)]

(* The streams after a publication on t by c, answered with r.             *)
Streamed(c, t, r) ==
    [d \in Clients |->
        IF ~Here(d) THEN stream[d]
        ELSE stream[d] \o Notices(d, t, Len(published) + 1)
                       \o (IF d = c THEN <<r>> ELSE <<>>)]

(* The author may have left in the meantime; its publication still counts. *)
Publish(c, t) == /\ published' = Append(published, [topic |-> t, by |-> c])
                 /\ UNCHANGED <<status, subs>>
                 /\ \E r \in Replies : stream' = Streamed(c, t, r)

(* A report of the node is published on each topic of ts, in order.        *)
Announce(ts) ==
    /\ published' = published \o [i \in DOMAIN ts |-> [topic |-> ts[i], by |-> "node"]]
    /\ stream' = [d \in Clients |->
                    IF ~Here(d) THEN stream[d]
                    ELSE stream[d] \o FlattenSeq([i \in DOMAIN ts |->
                                         Notices(d, ts[i], Len(published) + i)])]
    /\ UNCHANGED <<status, subs>>

Leave(c) == /\ Here(c)
            /\ status' = [status EXCEPT ![c] = "left"]
            /\ subs' = [subs EXCEPT ![c] = [t \in Topics |-> 0]]
            /\ \E n \in 0..Len(stream[c]) :
                  stream' = [stream EXCEPT ![c] = SubSeq(@, 1, n)]
            /\ UNCHANGED published

Next == \/ \E c \in Clients :
              \/ Arrive(c) \/ Leave(c) \/ Answer(c)
              \/ \E t \in Topics : Subscribe(c, t) \/ Publish(c, t)
        \/ \E ts \in Batches : Announce(ts)

Spec == Init /\ [][Next]_vars
==============================================================================
