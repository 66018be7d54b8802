---------------------------- MODULE TopicRegistry ----------------------------
(***************************************************************************)
(* TopicRegistry of lib.rs: the one table every task shares, as operations *)
(* on its value.  The code holds a HashMap<Topic, Vec<UnboundedSender>>    *)
(* behind a Mutex that is never held across an await, so each operation is *)
(* one step.  A Vec is a bag here: how many senders of each client it      *)
(* holds.  The order of the Vec cannot be seen, since publish() runs under *)
(* the lock and sends to distinct channels.                                *)
(***************************************************************************)
EXTENDS Integers, Sequences

CONSTANT Clients        \* the connections

NoTopics == [t \in {} |-> {}]

NoSenders == [c \in Clients |-> 0]

(* entry(topic).or_default() *)
Entry(topics, topic) == IF topic \in DOMAIN topics THEN topics[topic] ELSE NoSenders

SetEntry(topics, topic, senders) ==
    [t \in DOMAIN topics \union {topic} |-> IF t = topic THEN senders ELSE topics[t]]

(* subscribe() pushes, also when the client is already there.              *)
Subscribed(topics, topic, c) ==
    SetEntry(topics, topic, [Entry(topics, topic) EXCEPT ![c] = @ + 1])

\* seeded fault: publish() takes the senders out instead of retaining them
Drained(topics, topic, open) == SetEntry(topics, topic, NoSenders)

\* seeded fault: publish() drops no sender
NeverPruned(topics, topic, open) == SetEntry(topics, topic, Entry(topics, topic))

(* publish() keeps the senders whose receiver is still open, and leaves an *)
(* entry behind even when nobody subscribed.                               *)
Retained(topics, topic, open) ==
    SetEntry(topics, topic,
             [c \in Clients |-> IF c \in open THEN Entry(topics, topic)[c] ELSE 0])

Copies(m, n) == [i \in 1..n |-> m]

\* seeded fault: one copy per client, however often it subscribed
DeliveredOnce(topics, chan, topic, open, m) ==
    [c \in Clients |->
        IF c \in open /\ Entry(topics, topic)[c] > 0 THEN Append(chan[c], m) ELSE chan[c]]
\* seeded fault: the loop stops at the first sender that is open
DeliveredToOne(topics, chan, topic, open, m) ==
    LET reached == {c \in open : Entry(topics, topic)[c] > 0}
    IN  [c \in Clients |->
            IF c \in reached /\ c = CHOOSE d \in reached : TRUE
            THEN Append(chan[c], m) ELSE chan[c]]
\* seeded fault: the message overtakes what is already queued
DeliveredFirst(topics, chan, topic, open, m) ==
    [c \in Clients |->
        IF c \in open THEN Copies(m, Entry(topics, topic)[c]) \o chan[c] ELSE chan[c]]

\* seeded fault: closed channels are written to as well
DeliveredToAll(topics, chan, topic, open, m) ==
    [c \in Clients |-> chan[c] \o Copies(m, Entry(topics, topic)[c])]

(* publish() sends one copy per sender to the channels that are open.      *)
Delivered(topics, chan, topic, open, m) ==
    [c \in Clients |->
        IF c \in open THEN chan[c] \o Copies(m, Entry(topics, topic)[c]) ELSE chan[c]]
==============================================================================
