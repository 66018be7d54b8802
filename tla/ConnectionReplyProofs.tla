------------------------ MODULE ConnectionReplyProofs -------------------------
(***************************************************************************)
(* What a client of Connections can count on, from the effect of each step *)
(* on the streams and the registry: its requests are answered once and in  *)
(* order, its subscriptions hold until it leaves, and its publications are *)
(* acknowledged, no more and no less.                                      *)
(***************************************************************************)
EXTENDS ConnectionStreamProofs, FiniteSetTheorems

------------------------------------------------------------------------------
(* Counting the replies of a sequence of messages.                         *)

(* There are at most n replies among n messages, and a longer beginning    *)
(* has as many or more.                                                    *)
LEMMA RepliesCount ==
    ASSUME NEW s, NEW n \in Nat, NEW k \in 0..n
    PROVE  /\ RepliesAmong(s, n) \in Nat
           /\ RepliesAmong(s, k) \in Nat
           /\ RepliesAmong(s, k) <= RepliesAmong(s, n)
<1> DEFINE R(x) == {i \in 1..x : s[i].kind = "reply"}
<1>1. IsFiniteSet(1..n)
  BY FS_Interval
<1>2. R(n) \in SUBSET (1..n) /\ R(k) \in SUBSET R(n)
  OBVIOUS
<1>3. IsFiniteSet(R(n))
  BY <1>1, <1>2, FS_Subset
<1>4. IsFiniteSet(R(k)) /\ Cardinality(R(k)) <= Cardinality(R(n))
  BY <1>2, <1>3, FS_Subset
<1>5. Cardinality(R(n)) \in Nat /\ Cardinality(R(k)) \in Nat
  BY <1>3, <1>4, FS_CardinalityType
<1> QED BY <1>4, <1>5 DEF RepliesAmong

(* No message, no reply.                                                   *)
LEMMA NoReplies ==
    ASSUME NEW s
    PROVE  RepliesAmong(s, 0) = 0
<1>1. {i \in 1..0 : s[i].kind = "reply"} = {}
  OBVIOUS
<1> QED BY <1>1, FS_EmptySet DEF RepliesAmong

(* The next message counts when it is a reply.                             *)
LEMMA NextReply ==
    ASSUME NEW s, NEW n \in Nat
    PROVE  RepliesAmong(s, n + 1) = RepliesAmong(s, n) + (IF s[n + 1].kind = "reply" THEN 1 ELSE 0)
<1> DEFINE R(x) == {i \in 1..x : s[i].kind = "reply"}
<1>1. RepliesAmong(s, n) \in Nat
  BY RepliesCount
<1>2. IsFiniteSet(R(n)) /\ n + 1 \notin R(n)
  <2>1. IsFiniteSet(1..n) /\ R(n) \in SUBSET (1..n)
    BY FS_Interval
  <2> QED BY <2>1, FS_Subset
<1>3. CASE s[n + 1].kind = "reply"
  <2>1. R(n + 1) = R(n) \union {n + 1}
    BY <1>3
  <2>2. Cardinality(R(n + 1)) = Cardinality(R(n)) + 1
    BY <1>2, <2>1, FS_AddElement
  <2> QED BY <1>3, <2>2 DEF RepliesAmong
<1>4. CASE s[n + 1].kind # "reply"
  <2>1. R(n + 1) = R(n)
    BY <1>4
  <2>2. RepliesAmong(s, n + 1) = RepliesAmong(s, n)
    BY <2>1 DEF RepliesAmong
  <2> QED BY <1>1, <1>4, <2>2
<1> QED BY <1>3, <1>4

(* Sequences that begin alike have as many replies there.                  *)
LEMMA SameReplies ==
    ASSUME NEW s, NEW t, NEW n \in Nat, \A i \in 1..n : s[i] = t[i]
    PROVE  RepliesAmong(s, n) = RepliesAmong(t, n)
<1>1. {i \in 1..n : s[i].kind = "reply"} = {i \in 1..n : t[i].kind = "reply"}
  OBVIOUS
<1> QED BY <1>1 DEF RepliesAmong

(* Messages that are no replies do not count.                              *)
LEMMA RepliesThenNotes ==
    ASSUME NEW s, NEW n \in Nat, NEW k \in 0..n, \A i \in (k + 1)..n : s[i].kind # "reply"
    PROVE  RepliesAmong(s, n) = RepliesAmong(s, k)
<1>1. {i \in 1..n : s[i].kind = "reply"} = {i \in 1..k : s[i].kind = "reply"}
  OBVIOUS
<1> QED BY <1>1 DEF RepliesAmong

------------------------------------------------------------------------------
(* A stream whose replies answer the requests of a, as far as they go.     *)
Answers(s, a) ==
    /\ RepliesAmong(s, Len(s)) <= Len(a)
    /\ \A i \in DOMAIN s : s[i].kind = "reply" => s[i] = ReplyTo(a[RepliesAmong(s, i)])

(* A stream that breaks off has answered the first requests.               *)
LEMMA AnswersPrefix ==
    ASSUME NEW s \in Seq(Messages), NEW n \in 0..Len(s), NEW a \in Seq(Frames), Answers(s, a)
    PROVE  Answers(SubSeq(s, 1, n), a)
<1> DEFINE p == SubSeq(s, 1, n)
<1>1. p \in Seq(Messages) /\ Len(p) = n /\ DOMAIN p = 1..n /\ \A i \in 1..n : p[i] = s[i]
  OBVIOUS
<1> HIDE DEF p
<1>2. \A i \in 0..n : RepliesAmong(p, i) = RepliesAmong(s, i)
  <2> SUFFICES ASSUME NEW i \in 0..n PROVE RepliesAmong(p, i) = RepliesAmong(s, i)
    OBVIOUS
  <2>1. i \in Nat /\ \A j \in 1..i : p[j] = s[j]
    BY <1>1
  <2> QED BY <2>1, SameReplies
<1>3. RepliesAmong(p, Len(p)) <= Len(a)
  <2>1. Len(s) \in Nat /\ n \in 0..Len(s)
    OBVIOUS
  <2>2. /\ RepliesAmong(s, n) <= RepliesAmong(s, Len(s))
        /\ RepliesAmong(s, n) \in Nat /\ RepliesAmong(s, Len(s)) \in Nat
    BY <2>1, RepliesCount
  <2>3. RepliesAmong(p, Len(p)) = RepliesAmong(s, n)
    BY <1>1, <1>2
  <2> QED BY <2>2, <2>3 DEF Answers
<1>4. \A i \in DOMAIN p : p[i].kind = "reply" => p[i] = ReplyTo(a[RepliesAmong(p, i)])
  <2> SUFFICES ASSUME NEW i \in DOMAIN p, p[i].kind = "reply"
               PROVE  p[i] = ReplyTo(a[RepliesAmong(p, i)])
    OBVIOUS
  <2>1. i \in DOMAIN s /\ p[i] = s[i] /\ RepliesAmong(p, i) = RepliesAmong(s, i)
    BY <1>1, <1>2
  <2> QED BY <2>1 DEF Answers
<1> QED BY <1>3, <1>4 DEF Answers, p

(* A request more does not change what is answered.                        *)
LEMMA AnswersAsked ==
    ASSUME NEW s \in Seq(Messages), NEW a \in Seq(Frames), NEW f \in Frames, Answers(s, a)
    PROVE  Answers(s, Append(a, f))
<1>1. /\ Len(Append(a, f)) = Len(a) + 1 /\ \A k \in 1..Len(a) : Append(a, f)[k] = a[k]
      /\ Len(s) \in Nat
  OBVIOUS
<1>2. RepliesAmong(s, Len(s)) \in Nat /\ RepliesAmong(s, Len(s)) <= Len(a)
  <2>1. Len(s) \in 0..Len(s)
    BY <1>1
  <2> QED BY <1>1, <2>1, RepliesCount DEF Answers
<1>3. ASSUME NEW i \in DOMAIN s, s[i].kind = "reply"
      PROVE  s[i] = ReplyTo(Append(a, f)[RepliesAmong(s, i)])
  <2>1. i \in 1..Len(s) /\ i - 1 \in Nat /\ i - 1 \in 0..Len(s) /\ i \in 0..Len(s)
    OBVIOUS
  <2>2. /\ RepliesAmong(s, i) <= RepliesAmong(s, Len(s)) /\ RepliesAmong(s, i) \in Nat
        /\ RepliesAmong(s, i - 1) \in Nat
    BY <1>1, <2>1, RepliesCount
  <2>3. RepliesAmong(s, (i - 1) + 1) = RepliesAmong(s, i - 1) + (IF s[(i - 1) + 1].kind = "reply" THEN 1 ELSE 0)
    BY <2>1, NextReply
  <2>4. (i - 1) + 1 = i
    BY <2>1
  <2>5. RepliesAmong(s, i) = RepliesAmong(s, i - 1) + 1
    BY <1>3, <2>3, <2>4
  <2>6. RepliesAmong(s, i) \in 1..Len(a)
    BY <1>2, <2>2, <2>5
  <2>7. s[i] = ReplyTo(a[RepliesAmong(s, i)])
    BY <1>3 DEF Answers
  <2> QED BY <1>1, <2>6, <2>7
<1>4. RepliesAmong(s, Len(s)) <= Len(Append(a, f))
  BY <1>1, <1>2
<1> QED BY <1>3, <1>4 DEF Answers

(* Notices at the end answer nothing.                                      *)
LEMMA AnswersNotes ==
    ASSUME NEW s \in Seq(Messages), NEW t \in Seq(Messages), NEW a \in Seq(Frames), Answers(s, a),
           \A i \in DOMAIN t : t[i].kind # "reply"
    PROVE  /\ Answers(s \o t, a)
           /\ RepliesAmong(s \o t, Len(s \o t)) = RepliesAmong(s, Len(s))
<1> DEFINE u == s \o t
<1>1. /\ u \in Seq(Messages) /\ Len(u) = Len(s) + Len(t)
      /\ Len(s) \in Nat /\ Len(t) \in Nat
      /\ DOMAIN u = 1..Len(u) /\ DOMAIN s = 1..Len(s)
  OBVIOUS
<1>2. \A i \in 1..Len(s) : u[i] = s[i]
  OBVIOUS
<1>3. \A i \in (Len(s) + 1)..Len(u) : u[i].kind # "reply"
  <2> SUFFICES ASSUME NEW i \in (Len(s) + 1)..Len(u) PROVE u[i].kind # "reply"
    OBVIOUS
  <2>1. i - Len(s) \in DOMAIN t /\ u[i] = t[i - Len(s)]
    BY <1>1
  <2> QED BY <2>1
<1> HIDE DEF u
<1>4. \A i \in 0..Len(s) : RepliesAmong(u, i) = RepliesAmong(s, i)
  <2> SUFFICES ASSUME NEW i \in 0..Len(s) PROVE RepliesAmong(u, i) = RepliesAmong(s, i)
    OBVIOUS
  <2>1. i \in Nat /\ \A j \in 1..i : u[j] = s[j]
    BY <1>1, <1>2
  <2> QED BY <2>1, SameReplies
<1>5. RepliesAmong(u, Len(u)) = RepliesAmong(s, Len(s))
  <2>1. Len(s) \in 0..Len(u) /\ Len(u) \in Nat
    BY <1>1
  <2>2. RepliesAmong(u, Len(u)) = RepliesAmong(u, Len(s))
    BY <1>3, <2>1, RepliesThenNotes
  <2> QED BY <1>1, <1>4, <2>2
<1>6. ASSUME NEW i \in DOMAIN u, u[i].kind = "reply" PROVE u[i] = ReplyTo(a[RepliesAmong(u, i)])
  <2>1. i \in DOMAIN s /\ u[i] = s[i] /\ RepliesAmong(u, i) = RepliesAmong(s, i)
    BY <1>1, <1>2, <1>3, <1>4, <1>6
  <2> QED BY <1>6, <2>1 DEF Answers
<1> QED BY <1>5, <1>6 DEF Answers, u

(* The answer to the next request at the end.                              *)
LEMMA AnswersReply ==
    ASSUME NEW s \in Seq(Messages), NEW a \in Seq(Frames), Answers(s, a),
           NEW m \in Messages, m.kind = "reply",
           RepliesAmong(s, Len(s)) + 1 <= Len(a),
           m = ReplyTo(a[RepliesAmong(s, Len(s)) + 1])
    PROVE  /\ Answers(Append(s, m), a)
           /\ RepliesAmong(Append(s, m), Len(Append(s, m))) = RepliesAmong(s, Len(s)) + 1
<1> DEFINE u == Append(s, m)
           n == Len(s)
<1>1. /\ n \in Nat /\ Len(u) = n + 1 /\ DOMAIN u = 1..(n + 1) /\ u[n + 1] = m
      /\ DOMAIN s = 1..n /\ \A i \in 1..n : u[i] = s[i]
  OBVIOUS
<1>2. RepliesAmong(s, n) + 1 <= Len(a) /\ m = ReplyTo(a[RepliesAmong(s, n) + 1])
  OBVIOUS
<1> HIDE DEF u, n
<1>3. \A i \in 0..n : RepliesAmong(u, i) = RepliesAmong(s, i)
  <2> SUFFICES ASSUME NEW i \in 0..n PROVE RepliesAmong(u, i) = RepliesAmong(s, i)
    OBVIOUS
  <2>1. i \in Nat /\ \A j \in 1..i : u[j] = s[j]
    BY <1>1
  <2> QED BY <2>1, SameReplies
<1>4. RepliesAmong(u, n + 1) = RepliesAmong(s, n) + 1
  <2>1. RepliesAmong(u, n + 1) = RepliesAmong(u, n) + (IF u[n + 1].kind = "reply" THEN 1 ELSE 0)
    BY <1>1, NextReply
  <2>2. RepliesAmong(u, n) = RepliesAmong(s, n)
    BY <1>1, <1>3
  <2> QED BY <1>1, <2>1, <2>2
<1>5. ASSUME NEW i \in DOMAIN u, u[i].kind = "reply" PROVE u[i] = ReplyTo(a[RepliesAmong(u, i)])
  <2>1. CASE i = n + 1
    BY <1>1, <1>2, <1>4, <2>1
  <2>2. CASE i # n + 1
    <3>1. i \in DOMAIN s /\ u[i] = s[i] /\ RepliesAmong(u, i) = RepliesAmong(s, i)
      BY <1>1, <1>3, <2>2
    <3> QED BY <1>5, <3>1 DEF Answers
  <2> QED BY <2>1, <2>2
<1>6. RepliesAmong(u, Len(u)) = RepliesAmong(s, Len(s)) + 1
  BY <1>1, <1>4 DEF n
<1> QED BY <1>1, <1>2, <1>4, <1>5, <1>6 DEF Answers, u

------------------------------------------------------------------------------
(* What a request that is answered appends to the streams.                 *)

(* The answer a request gets, by what is decided about it.                 *)
LEMMA ReplyForms ==
    ASSUME NEW f
    PROVE  /\ Decide(f).act = "refuse" /\ Decide(f).code \in Codes
                => ReplyTo(f) = Reply(0, Decide(f).code)
           /\ Decide(f).act = "propose" /\ Decide(f).proposal.check # "valid"
                => ReplyTo(f) = Reply(0, Code("Liquidex"))
           /\ Decide(f).act = "pong" => ReplyTo(f) = Reply(Decide(f).id, "pong")
           /\ Decide(f).act = "subscribe" => ReplyTo(f) = Reply(Decide(f).id, "subscribed")
           /\ Decide(f).act = "relay" => ReplyTo(f) = Reply(Decide(f).id, "published")
           /\ Decide(f).act = "propose" /\ Decide(f).proposal.check = "valid"
                => ReplyTo(f) = Reply(Decide(f).id, "published")
<1> DEFINE d == Decide(f)
<1>1. ASSUME d.act = "refuse", d.code \in Codes PROVE ReplyTo(f) = Reply(0, d.code)
  <2>1. Refusal(f) = d.code /\ d.code # "none"
    BY <1>1 DEF Refusal, Codes
  <2> QED BY <2>1 DEF ReplyTo
<1>2. ASSUME d.act = "propose", d.proposal.check # "valid"
      PROVE  ReplyTo(f) = Reply(0, Code("Liquidex"))
  <2>1. Refusal(f) = "ParseError" /\ Code("Liquidex") = "ParseError"
    BY <1>2 DEF Refusal, Code
  <2> QED BY <2>1 DEF ReplyTo
<1>3. ASSUME ~(d.act = "refuse"), ~(d.act = "propose" /\ d.proposal.check # "valid")
      PROVE  Refusal(f) = "none"
  BY <1>3, Zenon DEF Refusal
<1>4. ASSUME d.act = "pong" PROVE ReplyTo(f) = Reply(d.id, "pong")
  <2>1. Refusal(f) = "none"
    BY <1>3, <1>4
  <2> QED BY <1>4, <2>1 DEF ReplyTo
<1>5. ASSUME d.act = "subscribe" PROVE ReplyTo(f) = Reply(d.id, "subscribed")
  <2>1. Refusal(f) = "none"
    BY <1>3, <1>5
  <2> QED BY <1>5, <2>1 DEF ReplyTo
<1>6. ASSUME d.act = "relay" PROVE ReplyTo(f) = Reply(d.id, "published")
  <2>1. Refusal(f) = "none"
    BY <1>3, <1>6
  <2> QED BY <1>6, <2>1 DEF ReplyTo
<1>7. ASSUME d.act = "propose", d.proposal.check = "valid"
      PROVE  ReplyTo(f) = Reply(d.id, "published")
  <2>1. Refusal(f) = "none"
    BY <1>3, <1>7
  <2> QED BY <1>7, <2>1 DEF ReplyTo
<1> QED BY <1>1, <1>2, <1>4, <1>5, <1>6, <1>7

(* Some notices reach the clients that are here, then the author of f is   *)
(* answered.                                                               *)
Told(c, f, d, notes) ==
    /\ \A i \in DOMAIN notes : notes[i].kind # "reply"
    /\ Stream(d)' = IF Here(d) THEN (Stream(d) \o notes) \o (IF d = c THEN <<ReplyTo(f)>> ELSE <<>>)
                    ELSE Stream(d)
Replied(c, f) ==
    /\ ReplyTo(f) \in Messages /\ ReplyTo(f).kind = "reply"
    /\ \A d \in Clients : Here(d)' <=> Here(d)
    /\ \A d \in Clients : \E notes \in Seq(Messages) : Told(c, f, d, notes)

(* An answer alone.                                                        *)
LEMMA AnsweredReplied ==
    ASSUME TypeOK, NEW c \in Clients, NEW f, ReplyTo(f) \in Messages, ReplyTo(f).kind = "reply",
           Answered(c, ReplyTo(f))
    PROVE  Replied(c, f)
<1>1. ASSUME NEW d \in Clients PROVE Told(c, f, d, <<>>)
  <2>1. Stream(d) \in Seq(Messages)
    BY StreamType
  <2>2. /\ (Stream(d) \o <<>>) \o <<>> = Stream(d)
        /\ (Stream(d) \o <<>>) \o <<ReplyTo(f)>> = Append(Stream(d), ReplyTo(f))
    BY <2>1
  <2>3. \A i \in DOMAIN <<>> : <<>>[i].kind # "reply"
    OBVIOUS
  <2>4. CASE d = c
    BY <2>2, <2>3, <2>4 DEF Told, Answered
  <2>5. CASE d # c
    BY <2>2, <2>3, <2>5 DEF Told, Answered
  <2> QED BY <2>4, <2>5
<1>2. <<>> \in Seq(Messages)
  OBVIOUS
<1> QED BY <1>1, <1>2 DEF Replied, Answered

(* A publication and its acknowledgement.                                  *)
LEMMA AnnouncedReplied ==
    ASSUME TypeOK, NEW c \in Clients, NEW f, NEW t \in Topics,
           ReplyTo(f) \in Messages, ReplyTo(f).kind = "reply", Announced(c, t, ReplyTo(f))
    PROVE  Replied(c, f)
<1>1. ASSUME NEW d \in Clients PROVE \E notes \in Seq(Messages) : Told(c, f, d, notes)
  <2>1. PICK n \in Nat \ {0} : n = Len(published) + 1
    BY DEF TypeOK
  <2>2. PICK k \in Nat : k = Entry(topics, t)[d]
    <3>1. IsRegistry(topics)
      BY DEF TypeOK, IsRegistry
    <3>2. Entry(topics, t) \in [Clients -> Nat]
      BY <3>1, EntryType
    <3> QED BY <3>2
  <2> DEFINE notes == Copies(Note(t, n), k)
  <2>3. Note(t, n) \in Messages /\ Note(t, n).kind # "reply"
    BY DEF Note, Messages
  <2>4. notes \in Seq(Messages) /\ \A i \in DOMAIN notes : notes[i].kind # "reply"
    BY <2>3 DEF Copies
  <2>5. Told(c, f, d, notes)
    BY <2>1, <2>2, <2>4 DEF Told, Announced
  <2> QED BY <2>4, <2>5
<1> QED BY <1>1 DEF Replied, Announced

(* A refusal.                                                              *)
LEMMA RefusedReplied ==
    ASSUME TypeOK, NEW c \in Clients, NEW f, NEW code \in Codes, RefusedWith(c, f, code)
    PROVE  Replied(c, f)
<1>1. ReplyTo(f) = Reply(0, code)
  BY ReplyForms DEF RefusedWith
<1>2. Reply(0, code) \in Messages /\ Reply(0, code).kind = "reply"
  BY IdMaxAssumption, RepliesAreMessages DEF Reply
<1> QED BY <1>1, <1>2, AnsweredReplied DEF RefusedWith

(* A publication.                                                          *)
LEMMA PublishedReplied ==
    ASSUME TypeOK, NEW c \in Clients, NEW f, NEW t \in Topics, Publishes(c, f, t)
    PROVE  Replied(c, f)
<1>1. ReplyTo(f) = Reply(Decide(f).id, "published")
  BY ReplyForms DEF Publishes
<1>2. /\ Reply(Decide(f).id, "published") \in Messages
      /\ Reply(Decide(f).id, "published").kind = "reply"
  BY RepliesAreMessages DEF Publishes, Reply
<1> QED BY <1>1, <1>2, AnnouncedReplied DEF Publishes

(* A request that is not left open is answered as its frame deserves.      *)
LEMMA OutcomeReplied ==
    ASSUME TypeOK, NEW c \in Clients, NEW f, Outcome(c, f), ~LeftOpen(c, f)
    PROVE  Replied(c, f)
<1>1. ASSUME NEW code \in Codes, RefusedWith(c, f, code) PROVE Replied(c, f)
  BY <1>1, RefusedReplied
<1>2. CASE Pinged(c, f)
  <2>1. ReplyTo(f) = Reply(Decide(f).id, "pong")
    BY <1>2, ReplyForms DEF Pinged
  <2>2. Reply(Decide(f).id, "pong") \in Messages /\ Reply(Decide(f).id, "pong").kind = "reply"
    BY <1>2, RepliesAreMessages DEF Pinged, Reply
  <2> QED BY <1>2, <2>1, <2>2, AnsweredReplied DEF Pinged
<1>3. CASE Subscribes(c, f)
  <2>1. ReplyTo(f) = Reply(Decide(f).id, "subscribed")
    BY <1>3, ReplyForms DEF Subscribes
  <2>2. /\ Reply(Decide(f).id, "subscribed") \in Messages
        /\ Reply(Decide(f).id, "subscribed").kind = "reply"
    BY <1>3, RepliesAreMessages DEF Subscribes, Reply
  <2> QED BY <1>3, <2>1, <2>2, AnsweredReplied DEF Subscribes
<1>4. ASSUME NEW t \in Topics, Publishes(c, f, t) PROVE Replied(c, f)
  BY <1>4, PublishedReplied
<1> QED BY <1>1, <1>2, <1>3, <1>4 DEF Outcome

------------------------------------------------------------------------------
(* What a handler does next: it resumes reading once it has answered, or   *)
(* finds out that nobody listens.                                          *)
Resumes(c) ==
    \E to \in {"reading", "joining"} :
        reader' = [reader EXCEPT ![c] = to] /\ (Here(c) => to = "reading")

(* The answer is the last thing a handler does about a request.            *)
LEMMA RespondResumes ==
    ASSUME NEW c \in Clients, NEW q, NEW m, Respond(c, q, m)
    PROVE  Resumes(c)
BY DEF Respond, Resumes, Here

(* A frame that is read: the handler panics, waits for the node with it,   *)
(* or has answered it.                                                     *)
LEMMA RequestReplies ==
    ASSUME TypeOK, NEW c \in Clients, NEW f \in Frames,
           \/ HandleRefused(c, f) \/ HandlePing(c, f) \/ HandleSubscribe(c, f)
           \/ HandleRelay(c, f) \/ HandlePanic(c, f) \/ HandleProposal(c, f)
    PROVE  \/ /\ Quiet /\ pending' = pending
              /\ reader' = [reader EXCEPT ![c] = "panicked"]
           \/ /\ Quiet /\ pending' = [pending EXCEPT ![c] = <<f>>]
              /\ reader' = [reader EXCEPT ![c] = "awaiting"]
           \/ /\ Replied(c, f) /\ pending' = pending /\ Resumes(c)
<1>1. UNCHANGED <<fwd, hand, wire, peer>>
  BY DEF HandleRefused, HandlePing, HandleSubscribe, HandleRelay, HandlePanic, HandleProposal, taskVars
<1>2. CASE HandleRefused(c, f) \/ HandlePing(c, f) \/ HandleSubscribe(c, f) \/ HandleRelay(c, f)
  <2>1. Decide(f).act \in {"refuse", "pong", "subscribe", "relay"}
    BY <1>2 DEF HandleRefused, HandlePing, HandleSubscribe, HandleRelay
  <2>2. Outcome(c, f) /\ ~LeftOpen(c, f)
    BY <2>1, RequestEffect DEF LeftOpen
  <2>3. Replied(c, f)
    BY <2>2, OutcomeReplied
  <2>4. pending' = pending
    BY <1>2 DEF HandleRefused, HandlePing, HandleSubscribe, HandleRelay, taskVars
  <2>5. Resumes(c)
    BY <1>2, RespondResumes DEF HandleRefused, HandlePing, HandleSubscribe, HandleRelay, Publish
  <2> QED BY <2>3, <2>4, <2>5
<1>3. CASE HandlePanic(c, f)
  <2>1. chan' = chan /\ pending' = pending /\ reader' = [reader EXCEPT ![c] = "panicked"]
    BY <1>3 DEF HandlePanic, taskVars
  <2>2. Quiet
    BY <1>1, <2>1, SameStream DEF Quiet, Same
  <2> QED BY <2>1, <2>2
<1>4. CASE HandleProposal(c, f) /\ Decide(f).proposal.check = "no_needed_tx"
  <2>1. /\ Decide(f).act = "propose" /\ Respond(c, chan, Reply(0, Code("Liquidex")))
        /\ pending' = pending
    BY <1>4 DEF HandleProposal
  <2>2. ReplyTo(f) = Reply(0, Code("Liquidex"))
    BY <1>4, <2>1, ReplyForms
  <2>3. Code("Liquidex") \in Codes
    BY DEF Code, Codes
  <2>4. ReplyTo(f) \in Messages /\ ReplyTo(f).kind = "reply"
    BY <2>2, <2>3, IdMaxAssumption, RepliesAreMessages DEF Reply
  <2>5. Answered(c, ReplyTo(f))
    BY <1>1, <2>1, <2>2, <2>4, AnswerStream
  <2>6. Replied(c, f)
    BY <2>4, <2>5, AnsweredReplied
  <2> QED BY <2>1, <2>6, RespondResumes
<1>5. CASE HandleProposal(c, f) /\ Decide(f).proposal.check # "no_needed_tx"
  <2>1. /\ chan' = chan /\ pending' = [pending EXCEPT ![c] = <<f>>]
        /\ reader' = [reader EXCEPT ![c] = "awaiting"]
    BY <1>5 DEF HandleProposal
  <2>2. Quiet
    BY <1>1, <2>1, SameStream DEF Quiet, Same
  <2> QED BY <2>1, <2>2
<1> QED BY <1>2, <1>3, <1>4, <1>5

(* The node has answered about the proposal that waits: so has the relay.  *)
LEMMA NodeReplies ==
    ASSUME TypeOK, NEW c \in Clients, NodeAnswers(c)
    PROVE  Replied(c, Head(pending[c])) /\ Resumes(c) /\ pending' = [pending EXCEPT ![c] = <<>>]
<1> DEFINE f == Head(pending[c])
<1>1. PICK m, q : Respond(c, q, m)
  BY DEF NodeAnswers, Publish
<1>2. Resumes(c)
  BY <1>1, RespondResumes
<1>3. \/ \E code \in Codes : RefusedWith(c, f, code)
      \/ \E t \in Topics : Publishes(c, f, t)
  BY NodeEffect
<1>4. pending' = [pending EXCEPT ![c] = <<>>]
  BY DEF NodeAnswers
<1> HIDE DEF f
<1>5. Replied(c, f)
  <2>1. ASSUME NEW code \in Codes, RefusedWith(c, f, code) PROVE Replied(c, f)
    BY <2>1, RefusedReplied
  <2>2. ASSUME NEW t \in Topics, Publishes(c, f, t) PROVE Replied(c, f)
    BY <2>2, PublishedReplied
  <2> QED BY <1>3, <2>1, <2>2
<1> QED BY <1>2, <1>4, <1>5 DEF f

------------------------------------------------------------------------------
(* RepliesInRequestOrder.  The inductive invariant adds that the proposal  *)
(* a handler waits for the node with is the last frame it has read.        *)

Owed(c) == IF reader[c] \in {"awaiting", "panicked"} THEN 1 ELSE 0
Served(c) ==
    /\ Answers(Stream(c), asked[c])
    /\ Here(c) => RepliesAmong(Stream(c), Len(Stream(c))) = Len(asked[c]) - Owed(c)
PendingLast(c) ==
    reader[c] = "awaiting" =>
        Len(asked[c]) > 0 /\ Head(pending[c]) = asked[c][Len(asked[c])]
RepliesInv == \A c \in Clients : Served(c) /\ PendingLast(c)

(* Served restates RepliesInRequestOrder, client by client.                *)
LEMMA ServedInOrder == (\A c \in Clients : Served(c)) => RepliesInRequestOrder
BY DEF Served, Answers, Owed, RepliesInRequestOrder

(* Nothing asked, nothing answered.                                        *)
LEMMA ServedNothing ==
    ASSUME NEW a \in Seq(Frames)
    PROVE  Answers(<<>>, a) /\ RepliesAmong(<<>>, Len(<<>>)) = 0
<1>1. Len(<<>>) = 0 /\ DOMAIN <<>> = {}
  OBVIOUS
<1>2. RepliesAmong(<<>>, Len(<<>>)) = 0
  BY <1>1, NoReplies
<1> QED BY <1>1, <1>2 DEF Answers

(* Whoever the step does not concern is served as before.                  *)
LEMMA ServedSame ==
    ASSUME NEW d \in Clients, Served(d), Same(d), asked'[d] = asked[d], Owed(d)' = Owed(d)
    PROVE  Served(d)'
BY DEF Served, Same

(* A client that leaves has been answered in order so far.                 *)
LEMMA ServedLeaves ==
    ASSUME TypeOK, NEW c \in Clients, Served(c), Leaves(c), asked'[c] = asked[c]
    PROVE  Served(c)'
<1>1. PICK n \in 0..Len(Stream(c)) : Stream(c)' = SubSeq(Stream(c), 1, n)
  BY DEF Leaves
<1>2. Stream(c) \in Seq(Messages) /\ asked[c] \in Seq(Frames)
  BY StreamType DEF TypeOK
<1>3. Answers(SubSeq(Stream(c), 1, n), asked[c])
  BY <1>2, AnswersPrefix DEF Served
<1> QED BY <1>1, <1>3 DEF Served, Leaves

(* A client that is not concerned by an answer may get notices.            *)
LEMMA ServedOthers ==
    ASSUME TypeOK, NEW c \in Clients, NEW f, Replied(c, f), NEW d \in Clients \ {c}, Served(d),
           asked'[d] = asked[d], Owed(d)' = Owed(d)
    PROVE  Served(d)'
<1>1. PICK notes \in Seq(Messages) : Told(c, f, d, notes)
  BY DEF Replied
<1>2. Stream(d) \in Seq(Messages) /\ asked[d] \in Seq(Frames)
  BY StreamType DEF TypeOK
<1>3. Here(d)' <=> Here(d)
  BY DEF Replied
<1>4. CASE ~Here(d)
  BY <1>1, <1>3, <1>4 DEF Told, Served
<1>5. CASE Here(d)
  <2>1. Stream(d) \o notes \in Seq(Messages)
    BY <1>2
  <2>2. (Stream(d) \o notes) \o <<>> = Stream(d) \o notes
    BY <2>1
  <2>3. Stream(d)' = Stream(d) \o notes
    BY <1>1, <1>5, <2>2 DEF Told
  <2>4. /\ Answers(Stream(d) \o notes, asked[d])
        /\ RepliesAmong(Stream(d) \o notes, Len(Stream(d) \o notes)) = RepliesAmong(Stream(d), Len(Stream(d)))
    BY <1>1, <1>2, AnswersNotes DEF Told, Served
  <2> QED BY <1>3, <1>5, <2>3, <2>4 DEF Served
<1> QED BY <1>4, <1>5

(* Appending a message is joining a sequence of that message.              *)
LEMMA AppendJoins ==
    ASSUME NEW s \in Seq(Messages), NEW m \in Messages
    PROVE  Append(s, m) = s \o <<m>>
OBVIOUS

(* The author of the next request to be answered is answered.              *)
LEMMA ServedAuthor ==
    ASSUME TypeOK, NEW c \in Clients, NEW f, Replied(c, f), Answers(Stream(c), asked'[c]),
           asked'[c] \in Seq(Frames), Len(asked'[c]) > 0, asked'[c][Len(asked'[c])] = f,
           Here(c) => RepliesAmong(Stream(c), Len(Stream(c))) = Len(asked'[c]) - 1,
           Resumes(c)
    PROVE  Served(c)'
<1> DEFINE a == asked'[c]
           m == ReplyTo(f)
<1>1. PICK notes \in Seq(Messages) : Told(c, f, c, notes)
  BY DEF Replied
<1>2. Stream(c) \in Seq(Messages) /\ m \in Messages /\ m.kind = "reply"
  BY StreamType DEF Replied
<1>3. Here(c)' <=> Here(c)
  BY DEF Replied
<1>4. CASE ~Here(c)
  BY <1>1, <1>3, <1>4 DEF Told, Served
<1>5. CASE Here(c)
  <2> DEFINE u == Stream(c) \o notes
  <2>1. u \in Seq(Messages)
    BY <1>2
  <2>2. Stream(c)' = u \o <<m>>
    BY <1>1, <1>5 DEF Told
  <2>3. Answers(u, a) /\ RepliesAmong(u, Len(u)) = RepliesAmong(Stream(c), Len(Stream(c)))
    BY <1>1, <1>2, AnswersNotes DEF Told
  <2>4. RepliesAmong(u, Len(u)) = Len(a) - 1 /\ Len(a) \in Nat
    BY <1>5, <2>3
  <2> HIDE DEF u, a, m
  <2>5. Append(u, m) = u \o <<m>>
    <3>1. m \in Messages
      BY <1>2 DEF m
    <3> QED BY <2>1, <3>1, AppendJoins
  <2>6. a[RepliesAmong(u, Len(u)) + 1] = f /\ RepliesAmong(u, Len(u)) + 1 <= Len(a) /\ a \in Seq(Frames)
    BY <2>4 DEF a
  <2>7. m = ReplyTo(a[RepliesAmong(u, Len(u)) + 1])
    BY <2>6 DEF m
  <2>8. Answers(Append(u, m), a) /\ RepliesAmong(Append(u, m), Len(Append(u, m))) = RepliesAmong(u, Len(u)) + 1
    BY <1>2, <2>1, <2>3, <2>6, <2>7, AnswersReply
  <2>9. reader'[c] = "reading"
    BY <1>5 DEF Resumes, TypeOK
  <2>10. Owed(c)' = 0
    BY <2>9 DEF Owed
  <2>11. RepliesAmong(Stream(c)', Len(Stream(c)')) = Len(a)
    BY <2>2, <2>4, <2>5, <2>8
  <2> QED BY <2>2, <2>4, <2>5, <2>8, <2>10, <2>11 DEF Served, a
<1> QED BY <1>4, <1>5

------------------------------------------------------------------------------
(* The steps, first those that read and answer no request.                 *)

(* A step of c alone that changes neither what was asked, nor what waits   *)
(* for the node, nor what is owed, except that the node's failure leaves   *)
(* the request unanswered for good.                                        *)
Unasked ==
    /\ asked' = asked
    /\ \A d \in Clients : /\ Owed(d)' = Owed(d)
                          /\ reader'[d] = "awaiting" => reader[d] = "awaiting" /\ pending'[d] = pending[d]

(* These are the steps that leave the requests alone.                      *)
LEMMA UnaskedSteps ==
    ASSUME TypeOK, NEW c \in Clients,
           \/ Connect(c) \/ Peer(c) \/ Closing(c) \/ ReaderSeesProtocolError(c)
           \/ Forward(c) \/ NodeFails(c)
    PROVE  Unasked
<1>1. \A d \in Clients : reader[d] \in {"off", "reading", "awaiting", "joining", "ended", "panicked"}
  BY DEF TypeOK
<1>2. reader \in [Clients -> {"off", "reading", "awaiting", "joining", "ended", "panicked"}]
  BY DEF TypeOK
<1>3. pending \in [Clients -> Seq(Frames)]
  BY DEF TypeOK
<1>4. CASE Connect(c)
  BY <1>2, <1>4 DEF Connect, Unasked, Owed
<1>5. CASE Peer(c)
  BY <1>5 DEF Peer, PeerLeaves, PeerStalls, PeerResumes, Unasked, Owed
<1>6. CASE Closing(c)
  BY <1>2, <1>6 DEF Closing, ReaderSeesClose, Join, Unasked, Owed
<1>7. CASE ReaderSeesProtocolError(c)
  BY <1>2, <1>7 DEF ReaderSeesProtocolError, Unasked, Owed
<1>8. CASE Forward(c)
  BY <1>8 DEF Forward, ForwardTakes, ForwardEnds, ForwardSends, ForwardFails, Unasked, Owed
<1>9. CASE NodeFails(c)
  BY <1>2, <1>3, <1>9 DEF NodeFails, Unasked, Owed
<1> QED BY <1>4, <1>5, <1>6, <1>7, <1>8, <1>9

(* Such a step leaves everybody served.                                    *)
LEMMA UnaskedServes ==
    ASSUME TypeOK, FreshInv, RepliesInv, Unasked,
           Quiet \/ \E c \in Clients : Leaves(c) \/ (Arrives(c) /\ asked[c] = <<>> /\ Owed(c) = 0)
    PROVE  RepliesInv'
<1> SUFFICES ASSUME NEW d \in Clients PROVE Served(d)' /\ PendingLast(d)'
  BY DEF RepliesInv
<1>1. /\ Served(d) /\ PendingLast(d)
      /\ asked'[d] = asked[d] /\ Owed(d)' = Owed(d)
      /\ reader'[d] = "awaiting" => reader[d] = "awaiting" /\ pending'[d] = pending[d]
  BY DEF RepliesInv, Unasked
<1>2. PendingLast(d)'
  BY <1>1 DEF PendingLast
<1>3. CASE Same(d)
  BY <1>1, <1>2, <1>3, ServedSame
<1>4. CASE Leaves(d)
  BY <1>1, <1>2, <1>4, ServedLeaves
<1>5. CASE Arrives(d) /\ asked[d] = <<>> /\ Owed(d) = 0
  <2>1. asked[d] \in Seq(Frames) /\ Len(asked[d]) = 0
    BY <1>5 DEF TypeOK
  <2>2. Stream(d)' = <<>> /\ asked'[d] = asked[d] /\ Owed(d)' = 0
    BY <1>1, <1>5 DEF Arrives
  <2>3. Answers(<<>>, asked[d]) /\ RepliesAmong(<<>>, Len(<<>>)) = 0
    BY <2>1, ServedNothing
  <2>4. Served(d)'
    BY <2>1, <2>2, <2>3 DEF Served
  <2> QED BY <1>2, <2>4
<1> QED BY <1>3, <1>4, <1>5 DEF Quiet, Leaves, Arrives

(* A frame that is read: it is answered at once, or owed from now on.      *)
LEMMA RequestServes ==
    ASSUME TypeOK, RepliesInv, NEW c \in Clients, NEW f \in Frames, Reads(c, f),
           \/ HandleRefused(c, f) \/ HandlePing(c, f) \/ HandleSubscribe(c, f)
           \/ HandleRelay(c, f) \/ HandlePanic(c, f) \/ HandleProposal(c, f)
    PROVE  RepliesInv'
<1>1. /\ reader \in [Clients -> {"off", "reading", "awaiting", "joining", "ended", "panicked"}]
      /\ pending \in [Clients -> Seq(Frames)]
      /\ asked \in [Clients -> Seq(Frames)]
  BY DEF TypeOK
<1>2. reader[c] = "reading" /\ Owed(c) = 0
  BY DEF Reads, Owed
<1>3. /\ asked'[c] = Append(asked[c], f)
      /\ \A d \in Clients \ {c} : asked'[d] = asked[d]
  BY <1>1 DEF Reads
<1>4. asked[c] \in Seq(Frames)
  BY <1>1
<1>5. /\ asked'[c] \in Seq(Frames) /\ Len(asked'[c]) = Len(asked[c]) + 1
      /\ asked'[c][Len(asked'[c])] = f /\ Len(asked[c]) \in Nat
  BY <1>3, <1>4
<1>6. Stream(c) \in Seq(Messages)
  BY StreamType
<1>7. Answers(Stream(c), asked'[c])
  <2>1. Answers(Stream(c), asked[c])
    BY DEF RepliesInv, Served
  <2> QED BY <1>3, <1>4, <1>6, <2>1, AnswersAsked
<1>8. Here(c) => RepliesAmong(Stream(c), Len(Stream(c))) = Len(asked'[c]) - 1
  BY <1>2, <1>5 DEF RepliesInv, Served
<1>9. ASSUME NEW to, reader' = [reader EXCEPT ![c] = to], NEW d \in Clients \ {c}
      PROVE  reader'[d] = reader[d] /\ Owed(d)' = Owed(d)
  BY <1>1, <1>9 DEF Owed
<1>10. CASE /\ Quiet /\ pending' = pending
            /\ reader' = [reader EXCEPT ![c] = "panicked"]
  <2>1. ASSUME NEW d \in Clients \ {c} PROVE Served(d)' /\ PendingLast(d)'
    BY <1>3, <1>9, <1>10, <2>1, ServedSame DEF RepliesInv, PendingLast, Quiet
  <2>2. reader'[c] = "panicked"
    BY <1>1, <1>10
  <2>3. Owed(c)' = 1 /\ PendingLast(c)'
    BY <2>2 DEF Owed, PendingLast
  <2>4. Served(c)'
    BY <1>7, <1>8, <1>10, <2>3 DEF Served, Quiet, Same
  <2> QED BY <2>1, <2>3, <2>4 DEF RepliesInv
<1>11. CASE /\ Quiet /\ pending' = [pending EXCEPT ![c] = <<f>>]
            /\ reader' = [reader EXCEPT ![c] = "awaiting"]
  <2>1. ASSUME NEW d \in Clients \ {c} PROVE Served(d)' /\ PendingLast(d)'
    <3>1. pending'[d] = pending[d] /\ reader'[d] = reader[d] /\ Owed(d)' = Owed(d)
      BY <1>1, <1>9, <1>11
    <3> QED BY <1>3, <1>11, <3>1, ServedSame DEF RepliesInv, PendingLast, Quiet
  <2>2. reader'[c] = "awaiting" /\ pending'[c] = <<f>>
    BY <1>1, <1>11
  <2>3. Owed(c)' = 1 /\ PendingLast(c)'
    BY <1>5, <2>2 DEF Owed, PendingLast
  <2>4. Served(c)'
    BY <1>7, <1>8, <1>11, <2>3 DEF Served, Quiet, Same
  <2> QED BY <2>1, <2>3, <2>4 DEF RepliesInv
<1>12. CASE Replied(c, f) /\ pending' = pending /\ Resumes(c)
  <2>1. PICK to \in {"reading", "joining"} : reader' = [reader EXCEPT ![c] = to]
    BY <1>12 DEF Resumes
  <2>2. ASSUME NEW d \in Clients \ {c} PROVE Served(d)' /\ PendingLast(d)'
    <3>1. reader'[d] = reader[d] /\ Owed(d)' = Owed(d)
      BY <1>9, <2>1
    <3> QED BY <1>3, <1>12, <3>1, ServedOthers DEF RepliesInv, PendingLast
  <2>3. PendingLast(c)'
    BY <1>1, <2>1 DEF PendingLast
  <2>4. Served(c)'
    BY <1>5, <1>7, <1>8, <1>12, ServedAuthor
  <2> QED BY <2>2, <2>3, <2>4 DEF RepliesInv
<1> QED BY <1>10, <1>11, <1>12, RequestReplies

(* The node's answer settles the request that waits.                       *)
LEMMA NodeServes ==
    ASSUME TypeOK, RepliesInv, NEW c \in Clients, NodeAnswers(c)
    PROVE  RepliesInv'
<1> DEFINE f == Head(pending[c])
<1>1. /\ reader \in [Clients -> {"off", "reading", "awaiting", "joining", "ended", "panicked"}]
      /\ pending \in [Clients -> Seq(Frames)]
      /\ asked[c] \in Seq(Frames)
  BY DEF TypeOK
<1>2. reader[c] = "awaiting" /\ asked' = asked /\ Owed(c) = 1
  BY DEF NodeAnswers, Owed
<1>3. Replied(c, f) /\ Resumes(c) /\ pending' = [pending EXCEPT ![c] = <<>>]
  BY NodeReplies
<1>4. Len(asked'[c]) > 0 /\ asked'[c][Len(asked'[c])] = f
  BY <1>2 DEF RepliesInv, PendingLast
<1>5. PICK to \in {"reading", "joining"} : reader' = [reader EXCEPT ![c] = to]
  BY <1>3 DEF Resumes
<1>6. /\ Answers(Stream(c), asked'[c])
      /\ Here(c) => RepliesAmong(Stream(c), Len(Stream(c))) = Len(asked'[c]) - 1
  BY <1>2 DEF RepliesInv, Served
<1> HIDE DEF f
<1>7. ASSUME NEW d \in Clients \ {c} PROVE Served(d)' /\ PendingLast(d)'
  <2>1. reader'[d] = reader[d] /\ pending'[d] = pending[d] /\ Owed(d)' = Owed(d)
    BY <1>1, <1>3, <1>5 DEF Owed
  <2> QED BY <1>2, <1>3, <2>1, ServedOthers DEF RepliesInv, PendingLast
<1>8. PendingLast(c)'
  BY <1>1, <1>5 DEF PendingLast
<1>9. Served(c)'
  BY <1>1, <1>2, <1>3, <1>4, <1>6, ServedAuthor
<1> QED BY <1>7, <1>8, <1>9 DEF RepliesInv

------------------------------------------------------------------------------
(* RepliesInv holds at the start.                                          *)
LEMMA RepliesInit == Init => RepliesInv
<1> SUFFICES ASSUME Init, NEW c \in Clients PROVE Served(c) /\ PendingLast(c)
  BY DEF RepliesInv
<1>1. /\ asked[c] = <<>> /\ wire[c] = <<>> /\ reader[c] = "off" /\ ~Here(c)
  BY DEF Init, Here, RxOpen
<1>2. Stream(c) = <<>>
  BY <1>1 DEF Stream
<1>3. <<>> \in Seq(Frames)
  OBVIOUS
<1> QED BY <1>1, <1>2, <1>3, ServedNothing DEF Served, PendingLast

(* RepliesInv is inductive.                                                *)
LEMMA RepliesStep == TypeOK /\ FreshInv /\ RepliesInv /\ [Next]_vars => RepliesInv'
<1> SUFFICES ASSUME TypeOK, FreshInv, RepliesInv, [Next]_vars PROVE RepliesInv'
  OBVIOUS
<1>1. ASSUME NEW c \in Clients, Connect(c) PROVE RepliesInv'
  <2>1. reader[c] = "off"
    BY <1>1 DEF Connect
  <2>2. asked[c] = <<>> /\ Owed(c) = 0
    BY <2>1 DEF FreshInv, Owed
  <2> QED BY <1>1, <2>2, ConnectEffect, UnaskedSteps, UnaskedServes
<1>2. ASSUME NEW c \in Clients, Peer(c) \/ Forward(c) PROVE RepliesInv'
  BY <1>2, PeerEffect, ForwardEffect, UnaskedSteps, UnaskedServes
<1>3. ASSUME NEW c \in Clients, Closing(c) \/ ReaderSeesProtocolError(c) \/ NodeFails(c)
      PROVE  RepliesInv'
  BY <1>3, SilentEffect, UnaskedSteps, UnaskedServes
<1>4. ASSUME NEW c \in Clients, Request(c) PROVE RepliesInv'
  <2>1. PICK f \in Frames : \/ HandleRefused(c, f) \/ HandlePing(c, f) \/ HandleSubscribe(c, f)
                             \/ HandleRelay(c, f) \/ HandlePanic(c, f) \/ HandleProposal(c, f)
    BY <1>4 DEF Request
  <2>2. Reads(c, f)
    BY <2>1 DEF HandleRefused, HandlePing, HandleSubscribe, HandleRelay, HandlePanic, HandleProposal
  <2> QED BY <2>1, <2>2, RequestServes
<1>5. ASSUME NEW c \in Clients, NodeAnswers(c) PROVE RepliesInv'
  BY <1>5, NodeServes
<1>6. CASE UNCHANGED vars
  <2>1. Quiet
    BY <1>6, SameStream DEF vars, Quiet, Same
  <2>2. Unasked
    BY <1>6 DEF vars, Unasked, Owed
  <2> QED BY <2>1, <2>2, UnaskedServes
<1> QED BY <1>1, <1>2, <1>3, <1>4, <1>5, <1>6 DEF Next, Node

(* Replies come back in the order of the requests, one each, and none is   *)
(* missing but the one of the request being checked or of the one that     *)
(* panicked, whatever the node, the other clients and the forward tasks    *)
(* do.                                                                     *)
THEOREM RepliesCorrect == Spec => []RepliesInRequestOrder
<1>1. Init => TypeOK /\ FreshInv /\ RepliesInv
  BY InitType, FreshInit, RepliesInit
<1>2. TypeOK /\ FreshInv /\ RepliesInv /\ [Next]_vars => (TypeOK /\ FreshInv /\ RepliesInv)'
  BY StepType, FreshStep, RepliesStep
<1>3. RepliesInv => RepliesInRequestOrder
  BY ServedInOrder DEF RepliesInv
<1> QED BY <1>1, <1>2, <1>3, PTL DEF Spec

------------------------------------------------------------------------------
(* Counting the members of a sequence that are in a set.                   *)

(* They are as many as their places, which are finitely many.              *)
LEMMA CountType ==
    ASSUME NEW X, NEW s \in Seq(X), NEW T
    PROVE  CountIn(s, T) \in Nat /\ IsFiniteSet({i \in DOMAIN s : s[i] \in T})
<1>1. IsFiniteSet(DOMAIN s)
  <2>1. Len(s) \in Nat /\ DOMAIN s = 1..Len(s)
    OBVIOUS
  <2> QED BY <2>1, FS_Interval
<1>2. IsFiniteSet({i \in DOMAIN s : s[i] \in T})
  <2>1. {i \in DOMAIN s : s[i] \in T} \in SUBSET DOMAIN s
    OBVIOUS
  <2> QED BY <1>1, <2>1, FS_Subset
<1> QED BY <1>2, FS_CardinalityType DEF CountIn

(* The empty sequence has none.                                            *)
LEMMA CountNothing ==
    ASSUME NEW T
    PROVE  CountIn(<<>>, T) = 0
<1>1. {i \in DOMAIN <<>> : <<>>[i] \in T} = {}
  OBVIOUS
<1> QED BY <1>1, FS_EmptySet DEF CountIn

(* One more member counts when it is in the set.                           *)
LEMMA CountAppend ==
    ASSUME NEW X, NEW s \in Seq(X), NEW e \in X, NEW T
    PROVE  CountIn(Append(s, e), T) = CountIn(s, T) + (IF e \in T THEN 1 ELSE 0)
<1> DEFINE u == Append(s, e)
           In(v) == {i \in DOMAIN v : v[i] \in T}
<1>1. /\ DOMAIN u = DOMAIN s \union {Len(s) + 1} /\ Len(s) + 1 \notin DOMAIN s
      /\ u[Len(s) + 1] = e /\ \A i \in DOMAIN s : u[i] = s[i]
  OBVIOUS
<1>2. CountIn(s, T) \in Nat /\ IsFiniteSet(In(s))
  BY CountType
<1> HIDE DEF u
<1>3. CASE e \in T
  <2>1. In(u) = In(s) \union {Len(s) + 1} /\ Len(s) + 1 \notin In(s)
    BY <1>1, <1>3
  <2>2. Cardinality(In(u)) = Cardinality(In(s)) + 1
    BY <1>2, <2>1, FS_AddElement
  <2> QED BY <1>3, <2>2 DEF CountIn, u
<1>4. CASE e \notin T
  <2>1. In(u) = In(s)
    BY <1>1, <1>4
  <2>2. CountIn(u, T) = CountIn(s, T)
    BY <2>1 DEF CountIn
  <2> QED BY <1>2, <1>4, <2>2 DEF u
<1> QED BY <1>3, <1>4

(* Members that are not in the set do not count.                           *)
LEMMA CountOthers ==
    ASSUME NEW X, NEW s \in Seq(X), NEW more \in Seq(X), NEW T,
           \A i \in DOMAIN more : more[i] \notin T
    PROVE  CountIn(s \o more, T) = CountIn(s, T)
<1> DEFINE u == s \o more
<1>1. /\ DOMAIN s \subseteq DOMAIN u /\ \A i \in DOMAIN s : u[i] = s[i]
      /\ \A i \in DOMAIN u \ DOMAIN s : i - Len(s) \in DOMAIN more /\ u[i] = more[i - Len(s)]
  OBVIOUS
<1> HIDE DEF u
<1>2. {i \in DOMAIN u : u[i] \in T} = {i \in DOMAIN s : s[i] \in T}
  BY <1>1
<1> QED BY <1>2 DEF CountIn, u

(* A beginning has no more than the whole.                                 *)
LEMMA CountPrefix ==
    ASSUME NEW X, NEW s \in Seq(X), NEW n \in 0..Len(s), NEW T
    PROVE  CountIn(SubSeq(s, 1, n), T) <= CountIn(s, T)
<1> DEFINE u == SubSeq(s, 1, n)
           In(v) == {i \in DOMAIN v : v[i] \in T}
<1>1. DOMAIN u \subseteq DOMAIN s /\ \A i \in DOMAIN u : u[i] = s[i]
  OBVIOUS
<1> HIDE DEF u
<1>2. In(u) \in SUBSET In(s)
  BY <1>1
<1>3. Cardinality(In(u)) <= Cardinality(In(s))
  <2>1. IsFiniteSet(In(s))
    BY CountType
  <2> QED BY <1>2, <2>1, FS_Subset
<1> QED BY <1>3 DEF CountIn, u

------------------------------------------------------------------------------
(* SubscriptionsHold.  The registry is as good as the client's requests    *)
(* (Held) for as long as the client has not left, even if its channel is   *)
(* closed, and that is only so for a client that asked for nothing and     *)
(* whose handler is over (Over): the case in which a publication may drop  *)
(* what it finds.                                                          *)
Held(c) == RxOpen(c) \/ peer[c] # "gone" =>
               \A t \in Topics : Entry(topics, t)[c] = AskedTimes(c, t)

Over(c) == fwd[c] = "done" /\ peer[c] # "gone" =>
               ~HandlerHoldsSender(c) /\ \A t \in Topics : AskedTimes(c, t) = 0

SendersInv == \A c \in Clients : Held(c) /\ Over(c)

(* The invariant is stronger than the property.                            *)
LEMMA SendersHold == TypeOK /\ FreshInv /\ SendersInv => SubscriptionsHold
<1> SUFFICES ASSUME TypeOK, FreshInv, SendersInv, NEW c \in Clients
             PROVE  /\ peer[c] # "gone" /\ (\E t \in Topics : AskedTimes(c, t) > 0) => RxOpen(c)
                    /\ RxOpen(c) => \A t \in Topics : Entry(topics, t)[c] = AskedTimes(c, t)
  BY DEF SubscriptionsHold
<1>1. ASSUME peer[c] # "gone", NEW t \in Topics, AskedTimes(c, t) > 0 PROVE RxOpen(c)
  <2>1. fwd[c] # "done"
    BY <1>1 DEF SendersInv, Over
  <2>2. fwd[c] # "none"
    <3>1. fwd[c] = "none" => asked[c] = <<>>
      BY DEF TypeOK, FreshInv
    <3>2. asked[c] = <<>> => AskedTimes(c, t) = 0
      BY CountNothing DEF AskedTimes
    <3> QED BY <1>1, <3>1, <3>2
  <2> QED BY <2>1, <2>2 DEF RxOpen, TypeOK
<1> QED BY <1>1 DEF SendersInv, Held

(* Nobody asked for anything at the start.                                 *)
LEMMA SendersInit == Init => SendersInv
<1> SUFFICES ASSUME Init, NEW c \in Clients PROVE Held(c) /\ Over(c)
  BY DEF SendersInv
<1>1. topics = NoTopics /\ asked[c] = <<>> /\ fwd[c] = "none"
  BY DEF Init
<1>2. \A t \in Topics : Entry(topics, t)[c] = 0 /\ AskedTimes(c, t) = 0
  BY <1>1, CountNothing DEF Entry, NoTopics, NoSenders, AskedTimes
<1> QED BY <1>1, <1>2 DEF Held, Over

(* A registry without a sender of c has none under any topic.              *)
LEMMA NoEntry ==
    ASSUME TypeOK, NEW c \in Clients, ~RegistryHoldsSender(c), NEW t \in Topics
    PROVE  Entry(topics, t)[c] = 0
<1>1. ASSUME t \in DOMAIN topics PROVE topics[t][c] \in Nat /\ ~(topics[t][c] > 0)
  BY <1>1 DEF TypeOK, RegistryHoldsSender
<1> QED BY <1>1 DEF Entry, NoSenders

(* The steps that neither read a frame nor touch the registry.             *)
LEMMA SendersKept ==
    ASSUME TypeOK, FreshInv, SendersInv, NEW c \in Clients,
           \/ Connect(c) \/ Peer(c) \/ Closing(c) \/ ReaderSeesProtocolError(c)
           \/ Forward(c) \/ NodeFails(c)
    PROVE  SendersInv'
<1>1. topics' = topics /\ asked' = asked
  BY DEF Connect, Peer, PeerLeaves, PeerStalls, PeerResumes, Closing, ReaderSeesClose, Join,
         ReaderSeesProtocolError, Forward, ForwardTakes, ForwardEnds, ForwardSends, ForwardFails,
         NodeFails
<1>2. \A d \in Clients, t \in Topics : /\ AskedTimes(d, t)' = AskedTimes(d, t)
                                       /\ (Entry(topics, t)[d])' = Entry(topics, t)[d]
  BY <1>1 DEF AskedTimes, Entry
<1>3. /\ fwd \in [Clients -> {"none", "recv", "send", "done"}]
      /\ reader \in [Clients -> {"off", "reading", "awaiting", "joining", "ended", "panicked"}]
      /\ peer \in [Clients -> {"up", "stalled", "gone"}]
  BY DEF TypeOK
<1>4. ASSUME NEW d \in Clients, RxOpen(d)' \/ peer'[d] # "gone"
      PROVE  RxOpen(d) \/ peer[d] # "gone"
  <2>1. CASE Connect(c)
    BY <1>3, <1>4, <2>1 DEF Connect, FreshInv, RxOpen
  <2>2. CASE Peer(c)
    BY <1>3, <1>4, <2>2 DEF Peer, PeerLeaves, PeerStalls, PeerResumes, RxOpen
  <2>3. CASE Forward(c)
    BY <1>3, <1>4, <2>3 DEF Forward, ForwardTakes, ForwardEnds, ForwardSends, ForwardFails, RxOpen
  <2>4. CASE Closing(c) \/ ReaderSeesProtocolError(c) \/ NodeFails(c)
    BY <1>4, <2>4 DEF Closing, ReaderSeesClose, Join, ReaderSeesProtocolError, NodeFails, RxOpen
  <2> QED BY <2>1, <2>2, <2>3, <2>4
<1>5. ASSUME NEW d \in Clients, fwd'[d] = "done", peer'[d] # "gone"
      PROVE  \/ fwd[d] = "done" /\ peer[d] # "gone"
             \/ d = c /\ NoSenderLeft(c) /\ reader' = reader /\ peer[c] # "gone"
  <2>1. CASE Connect(c)
    BY <1>3, <1>5, <2>1 DEF Connect
  <2>2. CASE Peer(c)
    BY <1>3, <1>5, <2>2 DEF Peer, PeerLeaves, PeerStalls, PeerResumes
  <2>3. CASE Forward(c)
    BY <1>3, <1>5, <2>3 DEF Forward, ForwardTakes, ForwardEnds, ForwardSends, ForwardFails
  <2>4. CASE Closing(c) \/ ReaderSeesProtocolError(c) \/ NodeFails(c)
    BY <1>5, <2>4 DEF Closing, ReaderSeesClose, Join, ReaderSeesProtocolError, NodeFails
  <2> QED BY <2>1, <2>2, <2>3, <2>4
<1>6. ASSUME NEW d \in Clients, fwd[d] = "done", HandlerHoldsSender(d)' PROVE HandlerHoldsSender(d)
  <2>1. CASE Connect(c)
    <3>1. fwd[c] = "none"
      BY <2>1 DEF Connect, TypeOK
    <3> QED BY <1>3, <1>6, <2>1, <3>1 DEF Connect, HandlerHoldsSender
  <2>2. CASE Peer(c) \/ Forward(c)
    BY <1>6, <2>2 DEF Peer, PeerLeaves, PeerStalls, PeerResumes, Forward, ForwardTakes,
                      ForwardEnds, ForwardSends, ForwardFails, HandlerHoldsSender
  <2>3. CASE Closing(c) \/ ReaderSeesProtocolError(c) \/ NodeFails(c)
    BY <1>3, <1>6, <2>3 DEF Closing, ReaderSeesClose, Join, ReaderSeesProtocolError, NodeFails,
                            HandlerHoldsSender
  <2> QED BY <2>1, <2>2, <2>3
<1>7. ASSUME NEW d \in Clients PROVE Held(d)'
  BY <1>2, <1>4 DEF Held, SendersInv
<1>8. ASSUME NEW d \in Clients, fwd'[d] = "done", peer'[d] # "gone"
      PROVE  ~HandlerHoldsSender(d)' /\ \A t \in Topics : AskedTimes(d, t)' = 0
  <2>1. CASE fwd[d] = "done" /\ peer[d] # "gone"
    BY <1>2, <1>6, <2>1 DEF SendersInv, Over
  <2>2. CASE d = c /\ NoSenderLeft(c) /\ reader' = reader /\ peer[c] # "gone"
    <3>1. ~HandlerHoldsSender(d)'
      BY <2>2 DEF NoSenderLeft, HandlerHoldsSender
    <3>2. \A t \in Topics : Entry(topics, t)[d] = 0
      BY <2>2, NoEntry DEF NoSenderLeft
    <3>3. \A t \in Topics : Entry(topics, t)[d] = AskedTimes(d, t)
      BY <2>2 DEF SendersInv, Held
    <3> QED BY <1>2, <3>1, <3>2, <3>3
  <2> QED BY <1>5, <1>8, <2>1, <2>2
<1> QED BY <1>7, <1>8 DEF SendersInv, Over

(* A request of c counts as a subscription if it is one.                   *)
Counts(c, f) ==
    \A d \in Clients, t \in Topics :
        AskedTimes(d, t)' = AskedTimes(d, t) + (IF d = c /\ f \in Subscribing(t) THEN 1 ELSE 0)

(* It does when it is read.                                                *)
LEMMA ReadsCounts ==
    ASSUME TypeOK, NEW c \in Clients, NEW f \in Frames, Reads(c, f)
    PROVE  Counts(c, f)
<1> SUFFICES ASSUME NEW d \in Clients, NEW t \in Topics
             PROVE  AskedTimes(d, t)' = AskedTimes(d, t) + (IF d = c /\ f \in Subscribing(t) THEN 1 ELSE 0)
  BY DEF Counts
<1>1. asked \in [Clients -> Seq(Frames)]
  BY DEF TypeOK
<1>2. AskedTimes(d, t) \in Nat
  BY <1>1, CountType DEF AskedTimes
<1>3. CASE d = c
  <2>1. asked'[d] = Append(asked[d], f) /\ asked[d] \in Seq(Frames)
    BY <1>1, <1>3 DEF Reads
  <2>2. CountIn(Append(asked[d], f), Subscribing(t)) =
          CountIn(asked[d], Subscribing(t)) + (IF f \in Subscribing(t) THEN 1 ELSE 0)
    BY <2>1, CountAppend
  <2> QED BY <1>3, <2>1, <2>2 DEF AskedTimes
<1>4. CASE d # c
  <2>1. asked'[d] = asked[d]
    BY <1>1, <1>4 DEF Reads
  <2>2. AskedTimes(d, t)' = AskedTimes(d, t)
    BY <2>1 DEF AskedTimes
  <2> QED BY <1>2, <1>4, <2>2
<1> QED BY <1>3, <1>4

(* A proposal never does, so that it need not be counted when it is        *)
(* settled.                                                                *)
LEMMA NodeCounts ==
    ASSUME TypeOK, NEW c \in Clients, NodeAnswers(c)
    PROVE  Counts(c, Head(pending[c]))
<1>1. Decide(Head(pending[c])).act = "propose" /\ asked' = asked
  BY PendingFrame DEF NodeAnswers
<1>2. \A t : Head(pending[c]) \notin Subscribing(t)
  BY <1>1 DEF Subscribing
<1>3. \A d \in Clients, t \in Topics : AskedTimes(d, t)' = AskedTimes(d, t) /\ AskedTimes(d, t) \in Nat
  <2> SUFFICES ASSUME NEW d \in Clients, NEW t \in Topics
               PROVE  AskedTimes(d, t)' = AskedTimes(d, t) /\ AskedTimes(d, t) \in Nat
    OBVIOUS
  <2>1. asked[d] \in Seq(Frames)
    BY DEF TypeOK
  <2> QED BY <1>1, <2>1, CountType DEF AskedTimes
<1> QED BY <1>2, <1>3 DEF Counts

(* A request leaves the registry as good as the requests of the clients    *)
(* that have not left: it adds a sender where it counts a subscription,    *)
(* and a publication drops no sender of theirs.                            *)
LEMMA HeldOutcome ==
    ASSUME TypeOK, FreshInv, SendersInv, NEW c \in Clients, NEW f \in Frames,
           Outcome(c, f), Counts(c, f), UNCHANGED <<fwd, peer>>, NEW d \in Clients
    PROVE  Held(d)'
<1> SUFFICES ASSUME RxOpen(d) \/ peer[d] # "gone", NEW t \in Topics
             PROVE  (Entry(topics, t)[d])' = AskedTimes(d, t)'
  BY DEF Held, RxOpen
<1>1. Entry(topics, t)[d] = AskedTimes(d, t)
  BY DEF SendersInv, Held
<1>2. IsRegistry(topics)
  BY DEF TypeOK, IsRegistry
<1>3. Entry(topics, t)[d] \in Nat
  BY <1>2, EntryType
<1>4. f \in Subscribing(t) <=> Decide(f).act = "subscribe" /\ Decide(f).topic = t
  BY DEF Subscribing
<1>5. AskedTimes(d, t)' = Entry(topics, t)[d] + (IF d = c /\ f \in Subscribing(t) THEN 1 ELSE 0)
  BY <1>1 DEF Counts
<1>6. CASE Decide(f).act # "subscribe" /\ topics' = topics
  BY <1>3, <1>4, <1>5, <1>6 DEF Entry
<1>7. CASE Subscribes(c, f)
  <2>1. /\ Decide(f).act = "subscribe" /\ Decide(f).topic \in Topics
        /\ topics' = Subscribed(topics, Decide(f).topic, c)
    BY <1>7 DEF Subscribes
  <2>2. Entry(Subscribed(topics, Decide(f).topic, c), t)[d] =
          IF t = Decide(f).topic /\ d = c THEN Entry(topics, t)[d] + 1 ELSE Entry(topics, t)[d]
    BY <1>2, <2>1, SubscribedEntry
  <2>3. (Entry(topics, t)[d])' = Entry(Subscribed(topics, Decide(f).topic, c), t)[d]
    BY <2>1 DEF Entry
  <2> QED BY <1>3, <1>4, <1>5, <2>1, <2>2, <2>3
<1>8. ASSUME NEW u \in Topics, Publishes(c, f, u) PROVE (Entry(topics, t)[d])' = AskedTimes(d, t)'
  <2>1. Decide(f).act # "subscribe" /\ topics' = Retained(topics, u, OpenClients)
    BY <1>8 DEF Publishes
  <2>2. Entry(Retained(topics, u, OpenClients), t)[d] =
          IF t = u /\ d \notin OpenClients THEN 0 ELSE Entry(topics, t)[d]
    BY <1>2, RetainedEntry
  <2>3. (Entry(topics, t)[d])' = Entry(Retained(topics, u, OpenClients), t)[d]
    BY <2>1 DEF Entry
  <2>4. AskedTimes(d, t)' = Entry(topics, t)[d]
    BY <1>3, <1>4, <1>5, <2>1
  <2>5. ASSUME d \notin OpenClients PROVE Entry(topics, t)[d] = 0
    <3>1. ~RxOpen(d) /\ peer[d] # "gone"
      BY <2>5 DEF OpenClients
    <3>2. fwd[d] = "none" \/ fwd[d] = "done"
      BY <3>1 DEF RxOpen, TypeOK
    <3>3. CASE fwd[d] = "none"
      <4>1. asked[d] = <<>>
        BY <3>3 DEF TypeOK, FreshInv
      <4> QED BY <1>1, <4>1, CountNothing DEF AskedTimes
    <3>4. CASE fwd[d] = "done"
      BY <1>1, <3>1, <3>4 DEF SendersInv, Over
    <3> QED BY <3>2, <3>3, <3>4
  <2> QED BY <2>2, <2>3, <2>4, <2>5
<1>9. ASSUME Outcome(c, f), ~Subscribes(c, f), \A u \in Topics : ~Publishes(c, f, u)
      PROVE  Decide(f).act # "subscribe" /\ topics' = topics
  BY <1>9 DEF Outcome, LeftOpen, RefusedWith, Pinged
<1> QED BY <1>6, <1>7, <1>8, <1>9

(* A handler that works on a request is the only one that asks.            *)
LEMMA OverOutcome ==
    ASSUME TypeOK, SendersInv, NEW c \in Clients, NEW f \in Frames, Counts(c, f),
           HandlerHoldsSender(c), UNCHANGED <<fwd, peer>>,
           \A d \in Clients \ {c} : reader'[d] = reader[d], NEW d \in Clients
    PROVE  Over(d)'
<1> SUFFICES ASSUME fwd[d] = "done", peer[d] # "gone"
             PROVE  ~HandlerHoldsSender(d)' /\ \A t \in Topics : AskedTimes(d, t)' = 0
  BY DEF Over
<1>1. ~HandlerHoldsSender(d) /\ \A t \in Topics : AskedTimes(d, t) = 0
  BY DEF SendersInv, Over
<1>2. d # c
  BY <1>1
<1>3. ~HandlerHoldsSender(d)'
  BY <1>1, <1>2 DEF HandlerHoldsSender
<1>4. \A t \in Topics : AskedTimes(d, t)' = 0
  BY <1>1, <1>2 DEF Counts
<1> QED BY <1>3, <1>4

(* SendersInv is inductive relative to TypeOK and FreshInv.                *)
LEMMA SendersStep == TypeOK /\ FreshInv /\ SendersInv /\ [Next]_vars => SendersInv'
<1> SUFFICES ASSUME TypeOK, FreshInv, SendersInv, [Next]_vars PROVE SendersInv'
  OBVIOUS
<1>1. ASSUME NEW c \in Clients, \/ Connect(c) \/ Peer(c) \/ Closing(c)
                                \/ ReaderSeesProtocolError(c) \/ Forward(c) \/ NodeFails(c)
      PROVE  SendersInv'
  BY <1>1, SendersKept
<1>2. ASSUME NEW c \in Clients, Request(c) \/ NodeAnswers(c)
      PROVE  /\ HandlerHoldsSender(c) /\ UNCHANGED <<fwd, peer>>
             /\ \A d \in Clients \ {c} : reader'[d] = reader[d]
  <2>1. HandledBy(c)
    BY <1>2, RequestHandledBy, NodeHandledBy DEF Node
  <2>2. HandlerHoldsSender(c) /\ UNCHANGED <<fwd, peer>>
    BY <2>1 DEF HandledBy, HandlerStep, HandlerHoldsSender
  <2>3. PICK to : reader' = [reader EXCEPT ![c] = to]
    BY <2>1 DEF HandledBy
  <2> QED BY <2>2, <2>3 DEF TypeOK
<1>3. ASSUME NEW c \in Clients, Request(c) PROVE SendersInv'
  <2>1. PICK f \in Frames : \/ HandleRefused(c, f) \/ HandlePing(c, f) \/ HandleSubscribe(c, f)
                             \/ HandleRelay(c, f) \/ HandlePanic(c, f) \/ HandleProposal(c, f)
    BY <1>3 DEF Request
  <2>2. Counts(c, f)
    BY <2>1, ReadsCounts DEF HandleRefused, HandlePing, HandleSubscribe, HandleRelay,
                             HandlePanic, HandleProposal
  <2>3. Outcome(c, f)
    BY <2>1, RequestEffect
  <2> QED BY <1>2, <1>3, <2>2, <2>3, HeldOutcome, OverOutcome DEF SendersInv
<1>4. ASSUME NEW c \in Clients, NodeAnswers(c) PROVE SendersInv'
  <2> DEFINE f == Head(pending[c])
  <2>1. f \in Frames /\ Counts(c, f) /\ Outcome(c, f)
    BY <1>4, PendingFrame, NodeCounts, NodeEffect DEF NodeAnswers, Outcome
  <2> HIDE DEF f
  <2> QED BY <1>2, <1>4, <2>1, HeldOutcome, OverOutcome DEF SendersInv
<1>5. CASE UNCHANGED vars
  BY <1>5 DEF vars, SendersInv, Held, Over, RxOpen, HandlerHoldsSender, AskedTimes, Entry
<1> QED BY <1>1, <1>3, <1>4, <1>5 DEF Next, Node

(* Nobody else ends a subscription: whatever is published, and whoever     *)
(* leaves, fails or panics, the registry holds one sender for each time a  *)
(* client that has not left subscribed, and its channel is open.           *)
THEOREM SubscriptionsCorrect == Spec => []SubscriptionsHold
<1>1. Init => TypeOK /\ FreshInv /\ SendersInv
  BY InitType, FreshInit, SendersInit
<1>2. TypeOK /\ FreshInv /\ SendersInv /\ [Next]_vars => (TypeOK /\ FreshInv /\ SendersInv)'
  BY StepType, FreshStep, SendersStep
<1>3. TypeOK /\ FreshInv /\ SendersInv => SubscriptionsHold
  BY SendersHold
<1> QED BY <1>1, <1>2, <1>3, PTL DEF Spec
------------------------------------------------------------------------------
(* PublicationsAreAcknowledged.  The invariant adds that a client that has *)
(* not connected has published nothing.                                    *)
By(c) == [topic : Topics, by : {c}]

Acknowledged(c) ==
    LET told == CountIn(Stream(c), Acknowledgements)
        done == CountIn(published, By(c))
    IN  /\ told <= done
        /\ Here(c) => told = done
        /\ reader[c] = "off" => done = 0

AckInv == \A c \in Clients : Acknowledged(c)

(* Both counts are numbers.                                                *)
LEMMA AckType ==
    ASSUME TypeOK, NEW c \in Clients
    PROVE  /\ CountIn(Stream(c), Acknowledgements) \in Nat
           /\ CountIn(published, By(c)) \in Nat
<1>1. Stream(c) \in Seq(Messages) /\ published \in Seq([topic : Topics, by : Clients \union {"node"}])
  BY StreamType DEF TypeOK
<1> QED BY <1>1, CountType

(* Nothing is published at the start.                                      *)
LEMMA AckInit == Init => AckInv
<1> SUFFICES ASSUME Init, NEW c \in Clients PROVE Acknowledged(c)
  BY DEF AckInv
<1>1. published = <<>> /\ wire[c] = <<>> /\ ~Here(c)
  BY DEF Init, Here, RxOpen
<1>2. Stream(c) = <<>>
  BY <1>1 DEF Stream
<1> QED BY <1>1, <1>2, CountNothing DEF Acknowledged

(* A connection is made once.                                              *)
LEMMA NeverOffAgain ==
    ASSUME TypeOK, [Next]_vars, NEW d \in Clients, reader'[d] = "off"
    PROVE  reader[d] = "off"
<1>1. reader \in [Clients -> {"off", "reading", "awaiting", "joining", "ended", "panicked"}]
  BY DEF TypeOK
<1>2. CASE UNCHANGED vars
  BY <1>2 DEF vars
<1>3. ASSUME NEW c \in Clients, Request(c) \/ Node(c) PROVE reader[d] = "off"
  <2>1. HandledBy(c)
    BY <1>3, RequestHandledBy, NodeHandledBy
  <2>2. PICK to \in {"reading", "awaiting", "joining", "panicked"} : reader' = [reader EXCEPT ![c] = to]
    BY <2>1 DEF HandledBy
  <2> QED BY <1>1, <2>2
<1>4. ASSUME NEW c \in Clients, Connect(c) \/ Peer(c) \/ Forward(c) PROVE reader[d] = "off"
  BY <1>1, <1>4 DEF Connect, Peer, PeerLeaves, PeerStalls, PeerResumes, Forward, ForwardTakes,
                    ForwardEnds, ForwardSends, ForwardFails
<1>5. ASSUME NEW c \in Clients, Closing(c) \/ ReaderSeesProtocolError(c) PROVE reader[d] = "off"
  BY <1>1, <1>5 DEF Closing, ReaderSeesClose, Join, ReaderSeesProtocolError
<1> QED BY <1>2, <1>3, <1>4, <1>5 DEF Next

(* A step that publishes nothing and tells the client nothing of that kind.*)
LEMMA AckSame ==
    ASSUME AckInv, NEW d \in Clients, published' = published,
           reader'[d] = "off" => reader[d] = "off",
           Here(d)' => Here(d),
           CountIn(Stream(d)', Acknowledgements) = CountIn(Stream(d), Acknowledgements)
    PROVE  Acknowledged(d)'
BY DEF AckInv, Acknowledged

(* A step that answers no request.                                         *)
LEMMA AckQuiet ==
    ASSUME TypeOK, AckInv, NEW d \in Clients, published' = published,
           reader'[d] = "off" => reader[d] = "off",
           Same(d) \/ Leaves(d) \/ Arrives(d)
    PROVE  Acknowledged(d)'
<1>1. CASE Same(d)
  BY <1>1, AckSame DEF Same
<1>2. CASE Leaves(d)
  <2>1. PICK n \in 0..Len(Stream(d)) : Stream(d)' = SubSeq(Stream(d), 1, n)
    BY <1>2 DEF Leaves
  <2>2. Stream(d) \in Seq(Messages)
    BY StreamType
  <2>3. CountIn(Stream(d)', Acknowledgements) <= CountIn(Stream(d), Acknowledgements)
    BY <2>1, <2>2, CountPrefix
  <2>4. CountIn(Stream(d)', Acknowledgements) \in Nat
    <3>1. SubSeq(Stream(d), 1, n) \in Seq(Messages)
      BY <2>2
    <3> QED BY <2>1, <3>1, CountType
  <2> QED BY <1>2, <2>3, <2>4, AckType DEF AckInv, Acknowledged, Leaves
<1>3. CASE Arrives(d)
  <2>1. reader[d] = "off"
    BY <1>3 DEF Arrives, Status, TypeOK
  <2>2. Stream(d)' = <<>>
    BY <1>3 DEF Arrives
  <2> QED BY <2>1, <2>2, CountNothing DEF AckInv, Acknowledged
<1> QED BY <1>1, <1>2, <1>3

(* An answer that is no acknowledgement.                                   *)
LEMMA AckAnswered ==
    ASSUME TypeOK, AckInv, NEW c \in Clients, NEW m \in Messages, m \notin Acknowledgements,
           Answered(c, m), published' = published, NEW d \in Clients,
           reader'[d] = "off" => reader[d] = "off"
    PROVE  Acknowledged(d)'
<1>1. Here(d)' <=> Here(d)
  BY DEF Answered
<1>2. CASE Here(d) /\ d = c
  <2>1. Stream(d)' = Append(Stream(d), m) /\ Stream(d) \in Seq(Messages)
    BY <1>2, StreamType DEF Answered
  <2>2. CountIn(Append(Stream(d), m), Acknowledgements) = CountIn(Stream(d), Acknowledgements) + 0
    BY <2>1, CountAppend
  <2>3. CountIn(Stream(d)', Acknowledgements) = CountIn(Stream(d), Acknowledgements)
    BY <2>1, <2>2, AckType
  <2> QED BY <1>1, <2>3, AckSame
<1>3. CASE ~(Here(d) /\ d = c)
  <2>1. Stream(d)' = Stream(d)
    BY <1>3 DEF Answered
  <2> QED BY <1>1, <2>1, AckSame
<1> QED BY <1>2, <1>3

(* The copies of a message outside a set are outside it.                   *)
LEMMA CopiesOthers ==
    ASSUME NEW m \in Messages, NEW k \in Nat, NEW T, m \notin T
    PROVE  Copies(m, k) \in Seq(Messages) /\ \A i \in DOMAIN Copies(m, k) : Copies(m, k)[i] \notin T
BY DEF Copies

(* A publication of c is counted for c, and told to c if it is here.       *)
LEMMA AckAnnounced ==
    ASSUME TypeOK, AckInv, NEW c \in Clients, NEW t \in Topics, NEW m \in Messages,
           m \in Acknowledgements, Announced(c, t, m),
           published' = Append(published, [topic |-> t, by |-> c]), NEW d \in Clients,
           reader'[d] = "off" => reader[d] = "off", reader[c] # "off"
    PROVE  Acknowledged(d)'
<1> DEFINE more == IF d = c THEN 1 ELSE 0
           told == CountIn(Stream(d), Acknowledgements)
           done == CountIn(published, By(d))
<1>1. Here(d)' <=> Here(d)
  BY DEF Announced
<1>2. CountIn(published', By(d)) = done + more
  <2> DEFINE Publications == [topic : Topics, by : Clients \union {"node"}]
             last == [topic |-> t, by |-> c]
  <2>1. published \in Seq(Publications) /\ last \in Publications
    BY DEF TypeOK
  <2>2. last \in By(d) <=> d = c
    BY DEF By
  <2>3. published' = Append(published, last)
    OBVIOUS
  <2> HIDE DEF Publications, last
  <2>4. CountIn(Append(published, last), By(d)) =
          CountIn(published, By(d)) + (IF last \in By(d) THEN 1 ELSE 0)
    BY <2>1, CountAppend
  <2> QED BY <2>2, <2>3, <2>4
<1>3. Here(d) => CountIn(Stream(d)', Acknowledgements) = told + more
  <2> SUFFICES ASSUME Here(d) PROVE CountIn(Stream(d)', Acknowledgements) = told + more
    OBVIOUS
  <2> DEFINE notes == Copies(Note(t, Len(published) + 1), Entry(topics, t)[d])
             s == Stream(d) \o notes
  <2>1. Stream(d) \in Seq(Messages)
    BY StreamType
  <2>2. notes \in Seq(Messages) /\ \A i \in DOMAIN notes : notes[i] \notin Acknowledgements
    <3>1. Len(published) + 1 \in Nat \ {0} /\ IsRegistry(topics)
      BY DEF TypeOK, IsRegistry
    <3>2. Entry(topics, t)[d] \in Nat
      BY <3>1, EntryType
    <3>3. Note(t, Len(published) + 1) \in Messages
      BY <3>1 DEF Note, Messages
    <3>4. Note(t, Len(published) + 1) \notin Acknowledgements
      BY DEF Note, Acknowledgements, Reply
    <3> QED BY <3>2, <3>3, <3>4, CopiesOthers
  <2>3. Stream(d)' = s \o (IF d = c THEN <<m>> ELSE <<>>)
    BY DEF Announced
  <2> HIDE DEF notes
  <2>4. CountIn(s, Acknowledgements) = told /\ s \in Seq(Messages)
    BY <2>1, <2>2, CountOthers
  <2> HIDE DEF s
  <2>5. s \o <<m>> = Append(s, m) /\ s \o <<>> = s
    BY <2>4
  <2>6. CountIn(Append(s, m), Acknowledgements) = told + 1
    BY <2>4, CountAppend
  <2>7. told \in Nat
    BY AckType
  <2> HIDE DEF told
  <2>8. CASE d = c
    BY <2>3, <2>5, <2>6, <2>8
  <2>9. CASE d # c
    BY <2>3, <2>4, <2>5, <2>7, <2>9
  <2> QED BY <2>8, <2>9
<1>4. ~Here(d) => Stream(d)' = Stream(d)
  BY DEF Announced
<1>5. told \in Nat /\ done \in Nat
  BY AckType
<1>6. reader'[d] = "off" => done = 0 /\ d # c
  BY DEF AckInv, Acknowledged
<1>7. told <= done /\ (Here(d) => told = done)
  BY DEF AckInv, Acknowledged
<1>8. Acknowledged(d)' <=>
        /\ CountIn(Stream(d)', Acknowledgements) <= done + more
        /\ Here(d)' => CountIn(Stream(d)', Acknowledgements) = done + more
        /\ reader'[d] = "off" => done + more = 0
  BY <1>2 DEF Acknowledged
<1> QED BY <1>1, <1>3, <1>4, <1>5, <1>6, <1>7, <1>8

(* A request is acknowledged if it publishes, and not otherwise.           *)
LEMMA AckOutcome ==
    ASSUME TypeOK, AckInv, NEW c \in Clients, NEW f, Outcome(c, f), reader[c] # "off",
           NEW d \in Clients, reader'[d] = "off" => reader[d] = "off"
    PROVE  Acknowledged(d)'
<1>1. ASSUME NEW id, NEW res, res # "published" PROVE Reply(id, res) \notin Acknowledgements
  BY <1>1 DEF Reply, Acknowledgements
<1>2. CASE LeftOpen(c, f)
  BY <1>2, AckQuiet DEF LeftOpen, Quiet
<1>3. ASSUME NEW code \in Codes, RefusedWith(c, f, code) PROVE Acknowledged(d)'
  <2>1. Reply(0, code) \in Messages /\ Reply(0, code) \notin Acknowledgements
    BY <1>1, IdMaxAssumption, RepliesAreMessages DEF Codes
  <2> QED BY <1>3, <2>1, AckAnswered DEF RefusedWith
<1>4. CASE Pinged(c, f)
  <2>1. Reply(Decide(f).id, "pong") \in Messages /\ Reply(Decide(f).id, "pong") \notin Acknowledgements
    BY <1>1, <1>4, RepliesAreMessages DEF Pinged
  <2> QED BY <1>4, <2>1, AckAnswered DEF Pinged
<1>5. CASE Subscribes(c, f)
  <2>1. /\ Reply(Decide(f).id, "subscribed") \in Messages
        /\ Reply(Decide(f).id, "subscribed") \notin Acknowledgements
    BY <1>1, <1>5, RepliesAreMessages DEF Subscribes
  <2> QED BY <1>5, <2>1, AckAnswered DEF Subscribes
<1>6. ASSUME NEW t \in Topics, Publishes(c, f, t) PROVE Acknowledged(d)'
  <2>1. /\ Reply(Decide(f).id, "published") \in Messages
        /\ Reply(Decide(f).id, "published") \in Acknowledgements
    BY <1>6, RepliesAreMessages DEF Publishes, Acknowledgements
  <2> QED BY <1>6, <2>1, AckAnnounced DEF Publishes
<1> QED BY <1>2, <1>3, <1>4, <1>5, <1>6 DEF Outcome

(* AckInv is inductive relative to TypeOK and FreshInv.                    *)
LEMMA AckStep == TypeOK /\ FreshInv /\ AckInv /\ [Next]_vars => AckInv'
<1> SUFFICES ASSUME TypeOK, FreshInv, AckInv, [Next]_vars, NEW d \in Clients PROVE Acknowledged(d)'
  BY DEF AckInv
<1>1. reader'[d] = "off" => reader[d] = "off"
  BY NeverOffAgain
<1>2. CASE /\ UNCHANGED <<topics, asked, published>>
           /\ Quiet \/ \E c \in Clients : Arrives(c) \/ Leaves(c)
  <2>1. Same(d) \/ Leaves(d) \/ Arrives(d)
    BY <1>2 DEF Quiet, Arrives, Leaves
  <2> QED BY <1>1, <1>2, <2>1, AckQuiet
<1>3. ASSUME NEW c \in Clients, NEW f \in Frames, Reads(c, f), Outcome(c, f) PROVE Acknowledged(d)'
  BY <1>1, <1>3, AckOutcome DEF Reads
<1>4. ASSUME NEW c \in Clients, NodeAnswers(c), Outcome(c, Head(pending[c])) PROVE Acknowledged(d)'
  BY <1>1, <1>4, AckOutcome DEF NodeAnswers
<1> QED BY <1>2, <1>3, <1>4, StepEffect

(* A client that is here has been told of each of its publications, in     *)
(* every interleaving with the node, the panics and the other clients; one *)
(* that left was told of no more than it made.                             *)
THEOREM AcknowledgedCorrect == Spec => []PublicationsAreAcknowledged
<1>1. Init => TypeOK /\ FreshInv /\ AckInv
  BY InitType, FreshInit, AckInit
<1>2. TypeOK /\ FreshInv /\ AckInv /\ [Next]_vars => (TypeOK /\ FreshInv /\ AckInv)'
  BY StepType, FreshStep, AckStep
<1>3. AckInv => PublicationsAreAcknowledged
  BY DEF AckInv, Acknowledged, By, PublicationsAreAcknowledged
<1> QED BY <1>1, <1>2, <1>3, PTL DEF Spec
==============================================================================
