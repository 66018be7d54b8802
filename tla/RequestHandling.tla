--------------------------- MODULE RequestHandling ---------------------------
(***************************************************************************)
(* The text branch of handle_connection's loop, one frame at a time, with  *)
(* the decision the relay takes: every frame of Texts is tried.  The       *)
(* properties compare Decide with statements about the frame itself.       *)
(***************************************************************************)
EXTENDS Requests

CONSTANTS
    Atoms,      \* what strings are made of
    Strings,    \* the strings tried
    Assets,     \* asset ids: strings without a colon
    Texts,      \* the frames tried
    NoText      \* no frame is being handled

ASSUME StringsAssumption ==
    /\ Strings \union Assets \subseteq Seq(Atoms)
    /\ \A asset \in Assets : \A i \in DOMAIN asset : asset[i] # ":"

(* What a frame can be once jsonrpc_lite and serde have read it: a numeric *)
(* id is an i64, and the two fields of a readable pair are strings.        *)
ASSUME TextsAssumption ==
    \A t \in Texts :
        \/ t.form = "garbage"
        \/ /\ t.form = "rpc"
           /\ t.id.kind = "num" => t.id.n \in Int
           /\ t.params.form \in {"none", "array", "map"}
           /\ t.params.form = "map" /\ t.params.key = "pair" /\ t.params.body.ok
              => t.params.body.input \in Strings /\ t.params.body.output \in Strings

VARIABLES text, outcome

vars == <<text, outcome>>

Idle == [act |-> "idle"]

Init == text = NoText /\ outcome = Idle

Receive(t) == /\ text = NoText
              /\ text' = t
              /\ UNCHANGED outcome

Handle == /\ text # NoText /\ outcome = Idle
          /\ outcome' = Decide(text)
          /\ UNCHANGED text

NextFrame == /\ outcome # Idle
             /\ text' = NoText
             /\ outcome' = Idle

Next == (\E t \in Texts : Receive(t)) \/ Handle \/ NextFrame

Spec == Init /\ [][Next]_vars

------------------------------------------------------------------------------
Handled == outcome # Idle
IsRpc == Handled /\ text.form = "rpc"
LegalId == text.id.kind = "num" /\ text.id.n \in 1..(IdMax - 1)
SingleRoot == text.params.form = "map" /\ text.params.size = 1
Row == <<text.method, text.params.key>>
Readable == text.params.key = "ping" \/ text.params.body.ok

Acts == {"subscribe", "relay", "propose", "pong"}

(* Type invariant: an outcome is an act with its id, a panic, or a refusal *)
(* with one of the four JSON-RPC codes the relay uses.                     *)
TypeOK ==
    /\ text \in Texts \union {NoText}
    /\ \/ outcome = Idle
       \/ outcome.act = "panic"
       \/ outcome.act = "refuse" /\ outcome.code \in
            {"ParseError", "InvalidRequest", "MethodNotFound", "InvalidParams"}
       \/ outcome.act \in Acts /\ outcome.id \in 1..(IdMax - 1)

(***************************************************************************)
(* The frame is acted on exactly when its id is in range, its method and   *)
(* its single root are a row of the table below, its body is readable and, *)
(* for `any`, content is present to publish and absent to subscribe; the   *)
(* reply echoes the id.  The parsing stages of jsonrpc.rs and the two      *)
(* matches of process_message have to agree on it.                         *)
(***************************************************************************)
ExpectedAct ==
    IF ~(LegalId /\ SingleRoot /\ Readable) THEN "none"
    ELSE CASE Row \in {"subscribe"} \X {"address", "tx", "pair"} -> "subscribe"
           [] Row = <<"subscribe", "any">> /\ ~text.params.body.content -> "subscribe"
           [] Row = <<"publish", "any">> /\ text.params.body.content -> "relay"
           [] Row = <<"publish", "ping">> -> "pong"
           [] Row = <<"publish", "proposal">> -> "propose"
           [] OTHER -> "none"

ActsOnTheTable ==
    IsRpc => IF ExpectedAct = "none"
             THEN outcome.act \in {"refuse", "panic"}
             ELSE outcome.act = ExpectedAct /\ outcome.id = text.id.n

(* The handler panics on exactly one kind of frame: a legal id, a known    *)
(* method, and a single known root whose value serde cannot read.  Every   *)
(* other ill-formed frame is answered.                                     *)
PanicsOnUnreadableBodyOnly ==
    IsRpc => (outcome.act = "panic" <=>
                 /\ LegalId /\ text.method \in Methods /\ SingleRoot
                 /\ text.params.key \in RootKeys /\ ~text.params.body.ok)

(* A client reaches the validated namespace only by subscribing to an      *)
(* address, a tx or a pair: `any` neither reads nor writes it.             *)
NamespacesKeptApart ==
    IsRpc /\ outcome.act \in {"subscribe", "relay"} =>
        (outcome.topic.ns = "unvalidated" <=> text.params.key = "any")

(* The proposals that sell x for y are heard by the subscriptions to that  *)
(* pair, and to no other pair, whatever strings are in the two fields: the *)
(* name "in:out" is unambiguous because asset ids hold no colon.  But an   *)
(* address or a txid may be any string: one that spells "in:out" is a      *)
(* subscription to the pair as well, and nothing else is.                  *)
WhoHearsAProposal ==
    IsRpc /\ outcome.act = "subscribe" =>
        LET root == text.params
        IN  \A x, y \in Assets :
                outcome.topic = TopicFromProposal([input |-> x, output |-> y])
                <=> \/ root.key = "pair" /\ root.body.input = x /\ root.body.output = y
                    \/ root.key \in {"address", "tx"} /\ root.body.name = x \o <<":">> \o y

(* A request built with the constructors of NexusRequest means to the relay*)
(* what its constructor says, as long as its id is one the relay takes:    *)
(* the topic is the one the listener announces the address or transaction  *)
(* on, the proposal is the one built.  Writer and parser agree.            *)
BuiltRequestsServed ==
    IsRpc /\ LegalId =>
        LET id == text.id.n
            Built(request) == text = ToText(request)
        IN  /\ Built(NewPing(id)) => outcome = [act |-> "pong", id |-> id]
            /\ \A name \in Strings :
                  Built(NewAddressSubscribe(id, name)) \/ Built(NewTxidSubscribe(id, name))
                  => outcome = [act |-> "subscribe", id |-> id, topic |-> Validated(name)]
            /\ \A proposal \in [ok : {TRUE}, input : Assets, output : Assets] :
                  Built(NewPublishProposal(id, proposal))
                  => outcome = [act |-> "propose", id |-> id, proposal |-> proposal]

------------------------------------------------------------------------------
(* What the README says, where the code does otherwise.                    *)

(* The README lists `ping`, `txid`, `wallet` and `proposal` (README.md:66, *)
(* 69, 70, 71) among the subscriptions, `pset` (README.md:89) among the    *)
(* publications, and `unsubscribe` (README.md:33) among the methods: a     *)
(* well-formed frame of these is served.                                   *)
DocumentedRequestsServed ==
    IsRpc /\ LegalId /\ SingleRoot /\ Readable
          /\ \/ Row \in {"subscribe"} \X {"ping", "txid", "wallet", "proposal"}
             \/ Row = <<"publish", "pset">>
             \/ Row = <<"unsubscribe", "any">> /\ ~text.params.body.content
        => outcome.act \in Acts \union {"unsubscribe"}
==============================================================================
