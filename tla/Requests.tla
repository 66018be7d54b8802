------------------------------- MODULE Requests ------------------------------
(***************************************************************************)
(* What the relay makes of one text frame: jsonrpc.rs (parse a NexusRequest*)
(* and find its topic) and the dispatch of process_message in lib.rs.      *)
(* Decide(text) is the whole decision; the modules that own the registry   *)
(* and the channels carry it out.                                          *)
(*                                                                         *)
(* A string is a sequence of atoms, so that "in:out" can be told from a    *)
(* string that merely contains it.  A frame is a record:                   *)
(*   [form |-> "garbage"]     JsonRpc::parse fails                         *)
(*   [form |-> "rpc", id |-> .., method |-> .., params |-> ..]             *)
(*       id      [kind |-> "absent" | "string"] or [kind |-> "num", n |-> i]*)
(*       method  the method name; "" when the frame has none               *)
(*       params  [form |-> "none" | "array"], or [form |-> "map",          *)
(*               size |-> number of keys, key |-> .., body |-> ..]         *)
(*       body    [ok |-> FALSE] when serde cannot read the value as the    *)
(*               type the key asks for, else [ok |-> TRUE, fields]; for a  *)
(*               proposal with input and output, and what Connections and  *)
(*               NexusRelay tell proposals apart by                        *)
(***************************************************************************)
EXTENDS Integers, Sequences

CONSTANT IdMax      \* u32::MAX, scaled down for model checking

ASSUME IdMaxAssumption == IdMax \in Nat

\* seeded fault: one namespace for every topic
OneNamespace(name) == [ns |-> "unvalidated", name |-> name]

(* enum Topic *)
Validated(name) == [ns |-> "validated", name |-> name]
Unvalidated(name) == [ns |-> "unvalidated", name |-> name]

Ok(val) == [tag |-> "ok", val |-> val]
Err(error) == [tag |-> "err", error |-> error]
Panic == [tag |-> "panic"]          \* an unwrap() on an Err unwinds the task

------------------------------------------------------------------------------
(* jsonrpc.rs *)

\* seeded fault: any number is an id
AnyNumber(id) == id.kind = "num"

(* parse_id accepts 1 .. u32::MAX - 1. *)
IdAccepted(id) == id.kind = "num" /\ id.n > 0 /\ id.n < IdMax

Methods == {"publish", "subscribe", "unsubscribe"}

RootKeys == {"any", "address", "tx", "pair", "proposal", "wallet", "pset"}

(* parse_params.  The value under "ping" is not looked at.                 *)
ParseParams(p) ==
    CASE p.form = "array" -> Err("ArrayParamsAreInvalid")
      [] p.form = "map" ->
            IF p.size # 1 THEN Err("ParamsMustContainASingleRootElement")
            ELSE IF p.key = "ping" THEN Ok([key |-> "ping"])
            ELSE IF p.key \notin RootKeys THEN Err("InvalidParams")
            ELSE IF p.body.ok THEN Ok([key |-> p.key, body |-> p.body])
            ELSE Panic
      [] OTHER -> Ok([key |-> "empty"])

(* Params::validate_for_method. *)
ValidateForMethod(params, method) ==
    IF params.key = "any"
    THEN IF method = (IF params.body.content THEN "publish" ELSE "subscribe")
         THEN Ok({}) ELSE Err("InvalidParams")
    ELSE IF <<params.key, method>> \in
                {"address", "tx", "wallet", "pair"} \X {"subscribe"}
                \union {"proposal", "pset", "ping"} \X {"publish"}
    THEN Ok({}) ELSE Err("InvalidParamsForThisMethod")

\* seeded fault: the params are read before the id and the method
TryFromParamsFirst(text) ==
    LET params == ParseParams(text.params)
    IN  IF params.tag # "ok" THEN params
        ELSE IF ~IdAccepted(text.id) THEN Err("InvalidId")
        ELSE IF text.method \notin Methods THEN Err("InvalidMethod")
        ELSE LET valid == ValidateForMethod(params.val, text.method)
             IN  IF valid.tag # "ok" THEN valid
                 ELSE Ok([id |-> text.id.n, method |-> text.method, params |-> params.val])

(* TryFrom<JsonRpc> for NexusRequest: the first check that fails answers.  *)
TryFrom(text) ==
    IF ~IdAccepted(text.id) THEN Err("InvalidId")
    ELSE IF text.method \notin Methods THEN Err("InvalidMethod")
    ELSE LET params == ParseParams(text.params)
             valid == ValidateForMethod(params.val, text.method)
         IN  IF params.tag # "ok" THEN params
             ELSE IF valid.tag # "ok" THEN valid
             ELSE Ok([id |-> text.id.n, method |-> text.method, params |-> params.val])

\* seeded fault: no separator between the two asset ids
NoSeparator(input, output) == input \o output

(* format!("{}:{}", input, output) *)
PairName(input, output) == input \o <<":">> \o output

(* topic_from_params.  Nothing checks that an address is an address.       *)
TopicFromParams(params) ==
    CASE params.key = "any" -> Ok(Unvalidated(params.body.name))
      [] params.key \in {"address", "tx", "pset"} -> Ok(Validated(params.body.name))
      [] params.key = "pair" -> Ok(Validated(PairName(params.body.input, params.body.output)))
      [] OTHER -> Err("InvalidParams")

TopicFromProposal(proposal) == Validated(PairName(proposal.input, proposal.output))

\* seeded fault: the variant's name goes out as the code
RawCode(error) == error

(* The JSON-RPC code an error is answered with.  Errors that are not       *)
(* jsonrpc::Error (LWK's) are answered as if the text had not parsed.      *)
Code(error) ==
    CASE error = "InvalidId" -> "InvalidRequest"
      [] error = "InvalidMethod" -> "MethodNotFound"
      [] error \in {"ParseError", "Liquidex"} -> "ParseError"
      [] OTHER -> "InvalidParams"

------------------------------------------------------------------------------
(* The dispatch of process_message: what is left to do.                    *)

Refuse(error) == [act |-> "refuse", code |-> Code(error)]

Dispatch(request) ==
    LET key == request.params.key
        topic == TopicFromParams(request.params)
    IN  CASE request.method = "subscribe" ->
               IF topic.tag = "ok"
               THEN [act |-> "subscribe", id |-> request.id, topic |-> topic.val]
               ELSE Refuse(topic.error)
          [] request.method = "publish" /\ key = "ping" ->
               [act |-> "pong", id |-> request.id]
          [] request.method = "publish" /\ key = "proposal" ->
               [act |-> "propose", id |-> request.id, proposal |-> request.params.body]
          [] request.method = "publish" /\ key = "any" ->
               [act |-> "relay", id |-> request.id,
                topic |-> Unvalidated(request.params.body.name)]
          [] OTHER -> Refuse("InvalidParams")

Decide(text) ==
    IF text.form = "garbage" THEN Refuse("ParseError")
    ELSE LET request == TryFrom(text)
         IN  CASE request.tag = "panic" -> [act |-> "panic"]
               [] request.tag = "err" -> Refuse(request.error)
               [] OTHER -> Dispatch(request.val)
------------------------------------------------------------------------------
(* The requests a wallet builds with this crate, and their text.           *)

NexusRequest(id, method, key, body) ==
    [id |-> id, method |-> method, params |-> [key |-> key, body |-> body]]

NewAddressSubscribe(id, address) ==
    NexusRequest(id, "subscribe", "address", [ok |-> TRUE, name |-> address])
NewTxidSubscribe(id, txid) ==
    NexusRequest(id, "subscribe", "tx", [ok |-> TRUE, name |-> txid])
NewPublishProposal(id, proposal) == NexusRequest(id, "publish", "proposal", proposal)

\* seeded fault: a ping is a special subscribe
NewPingSubscribe(id) == NexusRequest(id, "subscribe", "ping", [ok |-> TRUE])

NewPing(id) == NexusRequest(id, "publish", "ping", [ok |-> TRUE])

(* Display for NexusRequest: Params is an enum, so one root element.       *)
ToText(request) ==
    [form |-> "rpc", id |-> [kind |-> "num", n |-> request.id], method |-> request.method,
     params |-> [form |-> "map", size |-> 1,
                 key |-> request.params.key, body |-> request.params.body]]
==============================================================================
