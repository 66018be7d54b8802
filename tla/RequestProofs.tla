---------------------------- MODULE RequestProofs ----------------------------
(***************************************************************************)
(* What the relay makes of a frame, for every frame, every u32::MAX and    *)
(* every string: the properties of RequestHandling.                        *)
(*                                                                         *)
(* The state only remembers which frame was decided (IInv), so the work is *)
(* in Decide.  The first lemmas say what each stage of jsonrpc.rs returns  *)
(* and when; HandledFrame and ServedFrame put the stages together for the  *)
(* frame at hand, and the theorems read their tables off them.             *)
(***************************************************************************)
EXTENDS RequestHandling, TLAPS

IInv == /\ text \in Texts \union {NoText}
        /\ \/ outcome = Idle
           \/ text # NoText /\ outcome = Decide(text)

(* An outcome is the decision about the frame that is being handled.       *)
THEOREM Invariance == Spec => []IInv
<1>1. Init => IInv
  BY DEF Init, IInv
<1>2. IInv /\ [Next]_vars => IInv'
  <2> SUFFICES ASSUME IInv, [Next]_vars PROVE IInv'
    OBVIOUS
  <2>1. ASSUME NEW t \in Texts, Receive(t) PROVE IInv'
    BY <2>1 DEF IInv, Receive
  <2>2. CASE Handle
    BY <2>2 DEF IInv, Handle
  <2>3. CASE NextFrame
    BY <2>3 DEF IInv, NextFrame
  <2>4. CASE UNCHANGED vars
    BY <2>4 DEF IInv, vars
  <2> QED BY <2>1, <2>2, <2>3, <2>4 DEF Next
<1> QED BY <1>1, <1>2, PTL DEF Spec

------------------------------------------------------------------------------
(* The stages.                                                             *)

(* parse_params, branch by branch. *)
LEMMA ParseParamsCases ==
    ASSUME NEW p, p.form \in {"none", "array", "map"}
    PROVE  ParseParams(p) =
             IF p.form = "array" THEN Err("ArrayParamsAreInvalid")
             ELSE IF p.form = "none" THEN Ok([key |-> "empty"])
             ELSE IF p.size # 1 THEN Err("ParamsMustContainASingleRootElement")
             ELSE IF p.key = "ping" THEN Ok([key |-> "ping"])
             ELSE IF p.key \notin RootKeys THEN Err("InvalidParams")
             ELSE IF p.body.ok THEN Ok([key |-> p.key, body |-> p.body])
             ELSE Panic
BY DEF ParseParams

(* An unwrap, the first error, or the request that is dispatched. *)
LEMMA Decided ==
    ASSUME NEW t, t.form = "rpc"
    PROVE  Decide(t) = IF TryFrom(t).tag = "panic" THEN [act |-> "panic"]
                       ELSE IF TryFrom(t).tag = "err" THEN Refuse(TryFrom(t).error)
                       ELSE Dispatch(TryFrom(t).val)
BY DEF Decide

(* process_message never panics by itself. *)
LEMMA DispatchActs ==
    ASSUME NEW r
    PROVE  Dispatch(r).act \in {"subscribe", "pong", "propose", "relay", "refuse"}
BY DEF Dispatch, Refuse

(* try_from unwinds on an unreadable body only, once the cheaper checks passed. *)
LEMMA Panics ==
    ASSUME NEW t, t.params.form \in {"none", "array", "map"}
    PROVE  TryFrom(t).tag = "panic" <=>
             /\ IdAccepted(t.id) /\ t.method \in Methods
             /\ t.params.form = "map" /\ t.params.size = 1
             /\ t.params.key \in RootKeys /\ ~t.params.body.ok
<1> DEFINE params == ParseParams(t.params)
<1>1. params.tag = "panic" <=> /\ t.params.form = "map" /\ t.params.size = 1
                               /\ t.params.key \in RootKeys /\ ~t.params.body.ok
  BY ParseParamsCases, "ping" \notin RootKeys DEF RootKeys, Ok, Err, Panic
<1>2. ValidateForMethod(params.val, t.method).tag # "panic"
  BY DEF ValidateForMethod, Ok, Err
<1>3. params = Panic \/ params.tag # "panic"
  BY ParseParamsCases DEF Ok, Err, Panic
<1> QED BY <1>1, <1>2, <1>3 DEF TryFrom, Ok, Err, Panic

(* The handler panics on an unreadable body of a known root only.          *)
THEOREM PanicsCorrect == Spec => []PanicsOnUnreadableBodyOnly
<1>1. ASSUME IInv PROVE PanicsOnUnreadableBodyOnly
  <2> SUFFICES ASSUME IsRpc
               PROVE  outcome.act = "panic" <=>
                 /\ LegalId /\ text.method \in Methods /\ SingleRoot
                 /\ text.params.key \in RootKeys /\ ~text.params.body.ok
    BY DEF PanicsOnUnreadableBodyOnly
  <2>1. outcome = Decide(text) /\ text \in Texts /\ text.form = "rpc"
    BY <1>1 DEF IInv, IsRpc, Handled
  <2>2. /\ text.params.form \in {"none", "array", "map"}
        /\ text.id.kind = "num" => text.id.n \in Int
    BY <2>1, TextsAssumption
  <2>3. LegalId <=> IdAccepted(text.id)
    BY <2>2, IdMaxAssumption DEF LegalId, IdAccepted
  <2>4. outcome.act = "panic" <=> TryFrom(text).tag = "panic"
    BY <2>1, Decided, DispatchActs DEF Refuse
  <2> QED BY <2>2, <2>3, <2>4, Panics DEF SingleRoot
<1> QED BY <1>1, Invariance, PTL

(* What try_from has checked, and the request it returns. *)
LEMMA Accepted ==
    ASSUME NEW t, t.params.form \in {"none", "array", "map"}, TryFrom(t).tag = "ok"
    PROVE  /\ IdAccepted(t.id) /\ t.method \in Methods
           /\ t.params.form = "map" =>
                /\ t.params.size = 1
                /\ \/ t.params.key = "ping"
                   \/ t.params.key \in RootKeys /\ t.params.body.ok
           /\ ParseParams(t.params).tag = "ok"
           /\ ValidateForMethod(ParseParams(t.params).val, t.method).tag = "ok"
           /\ TryFrom(t).val = [id |-> t.id.n, method |-> t.method,
                                params |-> ParseParams(t.params).val]
<1> DEFINE params == ParseParams(t.params)
           valid == ValidateForMethod(params.val, t.method)
<1>1. IdAccepted(t.id) /\ t.method \in Methods
  BY DEF TryFrom, Err
<1>2. TryFrom(t) = IF params.tag # "ok" THEN params
                   ELSE IF valid.tag # "ok" THEN valid
                   ELSE Ok([id |-> t.id.n, method |-> t.method, params |-> params.val])
  BY <1>1 DEF TryFrom
<1>3. params.tag = "ok" /\ valid.tag = "ok"
  BY <1>2
<1>4. t.params.form = "map" =>
                /\ t.params.size = 1
                /\ \/ t.params.key = "ping"
                   \/ t.params.key \in RootKeys /\ t.params.body.ok
  BY <1>3, ParseParamsCases DEF Ok, Err, Panic
<1> QED BY <1>1, <1>2, <1>3, <1>4 DEF Ok

(* Params that parse: none at all, a ping, or a known root with a readable body. *)
LEMMA ParsedRoot ==
    ASSUME NEW p, p.form \in {"none", "array", "map"}, ParseParams(p).tag = "ok"
    PROVE  \/ p.form = "none" /\ ParseParams(p).val = [key |-> "empty"]
           \/ /\ p.form = "map" /\ p.size = 1 /\ p.key = "ping"
              /\ ParseParams(p).val = [key |-> "ping"]
           \/ /\ p.form = "map" /\ p.size = 1 /\ p.key \in RootKeys /\ p.body.ok
              /\ ParseParams(p).val = [key |-> p.key, body |-> p.body]
BY ParseParamsCases DEF Ok, Err, Panic

(* The table of validate_for_method. *)
LEMMA Valid ==
    ASSUME NEW params, NEW method
    PROVE  ValidateForMethod(params, method).tag = "ok" <=>
             \/ /\ params.key = "any"
                /\ method = (IF params.body.content THEN "publish" ELSE "subscribe")
             \/ params.key \in {"address", "tx", "wallet", "pair"} /\ method = "subscribe"
             \/ params.key \in {"proposal", "pset", "ping"} /\ method = "publish"
BY DEF ValidateForMethod, Ok, Err

(* Dispatch, request by request. *)
LEMMA DispatchTable ==
    ASSUME NEW r
    PROVE  /\ Dispatch(r).act = "subscribe" =>
                /\ r.method = "subscribe" /\ r.params.key \in {"any", "address", "tx", "pset", "pair"}
                /\ Dispatch(r) = [act |-> "subscribe", id |-> r.id,
                                  topic |-> TopicFromParams(r.params).val]
           /\ Dispatch(r).act = "relay" =>
                /\ r.method = "publish" /\ r.params.key = "any"
                /\ Dispatch(r) = [act |-> "relay", id |-> r.id,
                                  topic |-> Unvalidated(r.params.body.name)]
           /\ Dispatch(r).act = "pong" =>
                /\ r.method = "publish" /\ r.params.key = "ping"
                /\ Dispatch(r) = [act |-> "pong", id |-> r.id]
           /\ Dispatch(r).act = "propose" =>
                /\ r.method = "publish" /\ r.params.key = "proposal"
                /\ Dispatch(r) = [act |-> "propose", id |-> r.id, proposal |-> r.params.body]
           /\ r.method = "subscribe" /\ r.params.key \in {"any", "address", "tx", "pair"}
                => Dispatch(r).act = "subscribe"
           /\ r.method = "publish" /\ r.params.key = "any" => Dispatch(r).act = "relay"
           /\ r.method = "publish" /\ r.params.key = "ping" => Dispatch(r).act = "pong"
           /\ r.method = "publish" /\ r.params.key = "proposal" => Dispatch(r).act = "propose"
BY DEF Dispatch, Refuse, TopicFromParams, Ok, Err

------------------------------------------------------------------------------
(* The frame at hand.                                                      *)

Request == TryFrom(text).val

(* The outcome follows from how far the frame got. *)
LEMMA HandledFrame ==
    ASSUME IInv, IsRpc
    PROVE  /\ text.params.form \in {"none", "array", "map"}
           /\ LegalId <=> IdAccepted(text.id)
           /\ \/ TryFrom(text).tag = "panic" /\ outcome = [act |-> "panic"]
              \/ TryFrom(text).tag = "err" /\ outcome = Refuse(TryFrom(text).error)
              \/ TryFrom(text).tag = "ok" /\ outcome = Dispatch(Request)
<1>1. outcome = Decide(text) /\ text \in Texts /\ text.form = "rpc"
  BY DEF IInv, IsRpc, Handled
<1>2. /\ text.params.form \in {"none", "array", "map"}
      /\ text.id.kind = "num" => text.id.n \in Int
  BY <1>1, TextsAssumption
<1>3. LegalId <=> IdAccepted(text.id)
  BY <1>2, IdMaxAssumption DEF LegalId, IdAccepted
<1>4. TryFrom(text).tag \in {"ok", "err", "panic"}
  BY DEF TryFrom, ParseParams, ValidateForMethod, Ok, Err, Panic
<1> QED BY <1>1, <1>2, <1>3, <1>4, Decided DEF Request

(* A frame that is acted on passed every stage, with its parts unchanged. *)
LEMMA ServedFrame ==
    ASSUME IInv, IsRpc, outcome.act \in Acts
    PROVE  /\ outcome = Dispatch(Request)
           /\ LegalId /\ SingleRoot /\ Readable
           /\ Request.id = text.id.n /\ Request.method = text.method
           /\ Request.params.key = text.params.key
           /\ text.params.key # "ping" => Request.params.body = text.params.body
           /\ ValidateForMethod(Request.params, Request.method).tag = "ok"
<1>1. TryFrom(text).tag = "ok" /\ outcome = Dispatch(Request)
  BY HandledFrame DEF Acts, Refuse
<1>2. /\ IdAccepted(text.id)
      /\ ParseParams(text.params).tag = "ok"
      /\ ValidateForMethod(ParseParams(text.params).val, text.method).tag = "ok"
      /\ Request = [id |-> text.id.n, method |-> text.method,
                    params |-> ParseParams(text.params).val]
  BY <1>1, HandledFrame, Accepted DEF Request
<1>3. Request.params.key # "empty"
  BY <1>1, DispatchTable DEF Acts
<1>4. \/ /\ text.params.form = "map" /\ text.params.size = 1 /\ text.params.key = "ping"
         /\ Request.params = [key |-> "ping"]
      \/ /\ text.params.form = "map" /\ text.params.size = 1
         /\ text.params.key \in RootKeys /\ text.params.body.ok
         /\ Request.params = [key |-> text.params.key, body |-> text.params.body]
  BY <1>2, <1>3, HandledFrame, ParsedRoot
<1>5. /\ Request.params.key = text.params.key
      /\ text.params.key # "ping" => Request.params.body = text.params.body
      /\ SingleRoot /\ Readable
  BY <1>4 DEF SingleRoot, Readable
<1> QED BY <1>1, <1>2, <1>5, HandledFrame

(* Only `any` names a topic of the open namespace. *)
LEMMA TopicNamespace ==
    ASSUME NEW params
    PROVE  /\ params.key = "any" =>
                TopicFromParams(params).val.ns = "unvalidated"
           /\ params.key \in {"address", "tx", "pset", "pair"} =>
                TopicFromParams(params).val.ns = "validated"
BY DEF TopicFromParams, Validated, Unvalidated, Ok

(* A client reaches the namespace of the node's notices by subscribing only.*)
THEOREM NamespacesCorrect == Spec => []NamespacesKeptApart
<1>1. ASSUME IInv PROVE NamespacesKeptApart
  <2> SUFFICES ASSUME IsRpc, outcome.act \in {"subscribe", "relay"}
               PROVE  outcome.topic.ns = "unvalidated" <=> text.params.key = "any"
    BY DEF NamespacesKeptApart
  <2>1. outcome = Dispatch(Request) /\ Request.params.key = text.params.key
    BY <1>1, ServedFrame DEF Acts
  <2>2. CASE outcome.act = "subscribe"
    <3>1. /\ Request.params.key \in {"any", "address", "tx", "pset", "pair"}
          /\ outcome.topic = TopicFromParams(Request.params).val
      BY <2>1, <2>2, DispatchTable
    <3>2. CASE Request.params.key = "any"
      BY <2>1, <3>1, <3>2, TopicNamespace
    <3>3. CASE Request.params.key # "any"
      BY <2>1, <3>1, <3>3, TopicNamespace
    <3> QED BY <3>2, <3>3
  <2>3. CASE outcome.act = "relay"
    BY <2>1, <2>3, DispatchTable DEF Unvalidated
  <2> QED BY <2>2, <2>3
<1> QED BY <1>1, Invariance, PTL

(* The three places that decide about a request agree on one table. *)
LEMMA Table == IInv => ActsOnTheTable
<1>1. ASSUME IInv PROVE ActsOnTheTable
  <2> SUFFICES ASSUME IsRpc
               PROVE  IF ExpectedAct = "none"
                      THEN outcome.act \in {"refuse", "panic"}
                      ELSE outcome.act = ExpectedAct /\ outcome.id = text.id.n
    BY DEF ActsOnTheTable
  <2>1. outcome.act \in Acts \union {"refuse", "panic"}
    BY <1>1, HandledFrame, DispatchActs DEF Acts, Refuse
  <2>2. ASSUME outcome.act \in Acts
        PROVE  outcome.act = ExpectedAct /\ outcome.id = text.id.n
    <3>1. LegalId /\ SingleRoot /\ Readable
      BY <1>1, <2>2, ServedFrame
    <3>2. /\ outcome = Dispatch(Request)
          /\ Request.id = text.id.n /\ Request.method = text.method
          /\ Request.params.key = text.params.key
          /\ text.params.key # "ping" => Request.params.body = text.params.body
          /\ ValidateForMethod(Request.params, Request.method).tag = "ok"
      BY <1>1, <2>2, ServedFrame
    <3>3. outcome.id = text.id.n
      BY <2>2, <3>2, DispatchTable DEF Acts
    <3>4. \/ /\ outcome.act = "subscribe" /\ text.method = "subscribe"
             /\ text.params.key \in {"address", "tx", "pair"}
          \/ /\ outcome.act = "subscribe" /\ text.method = "subscribe"
             /\ text.params.key = "any" /\ ~text.params.body.content
          \/ /\ outcome.act = "relay" /\ text.method = "publish"
             /\ text.params.key = "any" /\ text.params.body.content
          \/ outcome.act = "pong" /\ text.method = "publish" /\ text.params.key = "ping"
          \/ outcome.act = "propose" /\ text.method = "publish" /\ text.params.key = "proposal"
      BY <2>2, <3>2, DispatchTable, Valid DEF Acts
    <3>5. outcome.act = ExpectedAct
      <4>1. CASE /\ outcome.act = "subscribe" /\ text.method = "subscribe"
                 /\ text.params.key \in {"address", "tx", "pair"}
        BY <3>1, <4>1 DEF ExpectedAct, Row
      <4>2. CASE /\ outcome.act = "subscribe" /\ text.method = "subscribe"
                 /\ text.params.key = "any" /\ ~text.params.body.content
        BY <3>1, <4>2 DEF ExpectedAct, Row
      <4>3. CASE /\ outcome.act = "relay" /\ text.method = "publish"
                 /\ text.params.key = "any" /\ text.params.body.content
        BY <3>1, <4>3 DEF ExpectedAct, Row
      <4>4. CASE outcome.act = "pong" /\ text.method = "publish" /\ text.params.key = "ping"
        BY <3>1, <4>4 DEF ExpectedAct, Row
      <4>5. CASE outcome.act = "propose" /\ text.method = "publish" /\ text.params.key = "proposal"
        BY <3>1, <4>5 DEF ExpectedAct, Row
      <4> QED BY <3>4, <4>1, <4>2, <4>3, <4>4, <4>5
    <3> QED BY <3>3, <3>5
  <2>3. ASSUME ExpectedAct # "none" PROVE outcome.act \in Acts
    <3>1. LegalId /\ SingleRoot /\ Readable
      BY <2>3 DEF ExpectedAct
    <3>2. \/ /\ text.method = "subscribe" /\ text.params.key \in {"address", "tx", "pair"}
          \/ /\ text.method = "subscribe" /\ text.params.key = "any" /\ ~text.params.body.content
          \/ /\ text.method = "publish" /\ text.params.key = "any" /\ text.params.body.content
          \/ text.method = "publish" /\ text.params.key = "ping"
          \/ text.method = "publish" /\ text.params.key = "proposal"
      BY <2>3 DEF ExpectedAct, Row
    <3>3. /\ ParseParams(text.params).tag = "ok"
          /\ ParseParams(text.params).val.key = text.params.key
          /\ text.params.key # "ping" =>
               ParseParams(text.params).val.body = text.params.body
      BY <1>1, <3>1, <3>2, HandledFrame, ParseParamsCases
         DEF SingleRoot, Readable, RootKeys, Ok, Err, Panic
    <3>4. ValidateForMethod(ParseParams(text.params).val, text.method).tag = "ok"
      BY <3>2, <3>3, Valid
    <3>5. IdAccepted(text.id) /\ text.method \in Methods
      BY <1>1, <3>1, <3>2, HandledFrame DEF Methods
    <3>6. TryFrom(text) = Ok([id |-> text.id.n, method |-> text.method,
                              params |-> ParseParams(text.params).val])
      BY <3>3, <3>4, <3>5 DEF TryFrom
    <3>7. /\ TryFrom(text).tag = "ok" /\ Request.method = text.method
          /\ Request.params.key = text.params.key
      BY <3>3, <3>6 DEF Ok, Request
    <3>8. outcome = Dispatch(Request)
      BY <1>1, <3>7, HandledFrame
    <3> QED BY <3>2, <3>7, <3>8, DispatchTable DEF Acts
  <2> QED BY <2>1, <2>2, <2>3 DEF Acts
<1> QED BY <1>1

(* The relay acts on the table of RequestHandling, whatever is sent to it. *)
THEOREM TableCorrect == Spec => []ActsOnTheTable
BY Table, Invariance, PTL

(* Every error has one of four JSON-RPC codes. *)
LEMMA CodeRange ==
    ASSUME NEW error
    PROVE  Code(error) \in {"ParseError", "InvalidRequest", "MethodNotFound", "InvalidParams"}
BY DEF Code

(* A refusal of process_message is that of an error. *)
LEMMA DispatchRefusal ==
    ASSUME NEW r, Dispatch(r).act = "refuse"
    PROVE  \E error : Dispatch(r) = Refuse(error)
BY DEF Dispatch, Refuse

(* Outcomes keep their type: an act echoes a legal id, a refusal has a code.*)
THEOREM TypeCorrect == Spec => []TypeOK
<1>1. ASSUME IInv PROVE TypeOK
  <2>1. text \in Texts \union {NoText}
    BY <1>1 DEF IInv
  <2>2. CASE outcome = Idle
    BY <2>1, <2>2 DEF TypeOK
  <2>3. CASE Handled /\ text.form = "garbage"
    <3>1. outcome = Refuse("ParseError")
      BY <1>1, <2>3 DEF IInv, Handled, Decide
    <3> QED BY <2>1, <3>1, CodeRange DEF TypeOK, Refuse
  <2>4. CASE IsRpc
    <3>1. outcome.act \in Acts \union {"refuse", "panic"}
      BY <1>1, <2>4, HandledFrame, DispatchActs DEF Acts, Refuse
    <3>2. CASE outcome.act = "panic"
      BY <2>1, <3>2 DEF TypeOK
    <3>3. CASE outcome.act = "refuse"
      <4>1. \E error : outcome = Refuse(error)
        BY <1>1, <2>4, <3>3, HandledFrame, DispatchRefusal
      <4> QED BY <2>1, <3>3, <4>1, CodeRange DEF TypeOK, Refuse
    <3>4. CASE outcome.act \in Acts
      <4>1. outcome.id = text.id.n /\ LegalId
        <5>1. ExpectedAct # "none"
          BY <1>1, <2>4, <3>4, Table DEF ActsOnTheTable, Acts
        <5> QED BY <1>1, <2>4, <5>1, Table DEF ActsOnTheTable, ExpectedAct
      <4> QED BY <2>1, <3>4, <4>1 DEF TypeOK, LegalId
    <3> QED BY <3>1, <3>2, <3>3, <3>4
  <2> QED
    <3>1. text \in Texts \/ outcome = Idle
      BY <1>1 DEF IInv
    <3> QED BY <2>2, <2>3, <2>4, <3>1, TextsAssumption DEF IsRpc, Handled
<1> QED BY <1>1, Invariance, PTL

(* The text of a request has its parts, and a single root. *)
LEMMA BuiltFrame ==
    ASSUME NEW request, text = ToText(request)
    PROVE  /\ text.form = "rpc" /\ text.id.n = request.id /\ text.method = request.method
           /\ SingleRoot
           /\ text.params.key = request.params.key /\ text.params.body = request.params.body
BY DEF ToText, SingleRoot

(* The two subscriptions a wallet can build. *)
LEMMA BuiltSubscribe ==
    ASSUME NEW n, NEW name, NEW request,
           request = NewAddressSubscribe(n, name) \/ request = NewTxidSubscribe(n, name)
    PROVE  /\ request.method = "subscribe" /\ request.params.key \in {"address", "tx"}
           /\ request.params.body.ok /\ request.params.body.name = name
BY DEF NewAddressSubscribe, NewTxidSubscribe, NexusRequest

(* The topic of an address or a transaction is its name. *)
LEMMA TopicOfName ==
    ASSUME NEW params, params.key \in {"address", "tx"}
    PROVE  TopicFromParams(params).val = Validated(params.body.name)
BY DEF TopicFromParams, Ok

(* What a constructor of NexusRequest promises is what the relay does with *)
(* its text, for every legal id and every string.                          *)
THEOREM BuiltCorrect == Spec => []BuiltRequestsServed
<1>1. ASSUME IInv PROVE BuiltRequestsServed
  <2> SUFFICES ASSUME IsRpc, LegalId
               PROVE  LET id == text.id.n
                          Built(request) == text = ToText(request)
                      IN  /\ Built(NewPing(id)) => outcome = [act |-> "pong", id |-> id]
                          /\ \A name \in Strings :
                                Built(NewAddressSubscribe(id, name)) \/ Built(NewTxidSubscribe(id, name))
                                => outcome = [act |-> "subscribe", id |-> id, topic |-> Validated(name)]
                          /\ \A proposal \in [ok : {TRUE}, input : Assets, output : Assets] :
                                Built(NewPublishProposal(id, proposal))
                                => outcome = [act |-> "propose", id |-> id, proposal |-> proposal]
    BY DEF BuiltRequestsServed
  <2> DEFINE id == text.id.n
             Built(request) == text = ToText(request)
  <2>0. ASSUME SingleRoot, Readable, ExpectedAct # "none"
        PROVE  /\ outcome.act = ExpectedAct /\ outcome = Dispatch(Request)
               /\ Request.id = text.id.n
               /\ Request.params.key = text.params.key
               /\ text.params.key # "ping" => Request.params.body = text.params.body
    <3>1. outcome.act = ExpectedAct
      BY <1>1, <2>0, Table DEF ActsOnTheTable
    <3>2. outcome.act \in Acts
      BY <2>0, <3>1 DEF ExpectedAct, Acts
    <3> QED BY <1>1, <3>1, <3>2, ServedFrame
  <2>1. ASSUME Built(NewPing(id)) PROVE outcome = [act |-> "pong", id |-> id]
    <3>1. SingleRoot /\ text.method = "publish" /\ text.params.key = "ping"
      BY <2>1, BuiltFrame DEF NewPing, NexusRequest
    <3>2. Readable /\ ExpectedAct = "pong"
      BY <3>1 DEF Readable, ExpectedAct, Row
    <3> QED BY <2>0, <3>1, <3>2, DispatchTable
  <2>2. ASSUME NEW name \in Strings,
               Built(NewAddressSubscribe(id, name)) \/ Built(NewTxidSubscribe(id, name))
        PROVE  outcome = [act |-> "subscribe", id |-> id, topic |-> Validated(name)]
    <3>1. /\ SingleRoot /\ text.method = "subscribe" /\ text.params.key \in {"address", "tx"}
          /\ text.params.body.ok /\ text.params.body.name = name
      <4>1. PICK request : /\ Built(request)
                           /\ \/ request = NewAddressSubscribe(id, name)
                              \/ request = NewTxidSubscribe(id, name)
        BY <2>2
      <4> QED BY <4>1, BuiltFrame, BuiltSubscribe
    <3>2. Readable /\ ExpectedAct = "subscribe"
      BY <3>1 DEF Readable, ExpectedAct, Row
    <3>3. /\ outcome.act = "subscribe" /\ outcome = Dispatch(Request) /\ Request.id = id
          /\ Request.params.key \in {"address", "tx"} /\ Request.params.body.name = name
      BY <2>0, <3>1, <3>2
    <3>4. TopicFromParams(Request.params).val = Validated(name)
      BY <3>3, TopicOfName
    <3> QED BY <3>3, <3>4, DispatchTable
  <2>3. ASSUME NEW proposal \in [ok : {TRUE}, input : Assets, output : Assets],
               Built(NewPublishProposal(id, proposal))
        PROVE  outcome = [act |-> "propose", id |-> id, proposal |-> proposal]
    <3>1. /\ SingleRoot /\ text.method = "publish" /\ text.params.key = "proposal"
          /\ text.params.body = proposal
      BY <2>3, BuiltFrame DEF NewPublishProposal, NexusRequest
    <3>2. Readable /\ ExpectedAct = "propose"
      BY <3>1 DEF Readable, ExpectedAct, Row
    <3> QED BY <2>0, <3>1, <3>2, DispatchTable
  <2> QED BY <2>1, <2>2, <2>3
<1> QED BY <1>1, Invariance, PTL

------------------------------------------------------------------------------
(* The name of a pair of assets is that of no other pair of strings: the   *)
(* colon of the one name is where the colon of the other is.               *)
LEMMA PairNameUnique ==
    ASSUME NEW in \in Strings, NEW out \in Strings, NEW x \in Assets, NEW y \in Assets,
           PairName(in, out) = PairName(x, y)
    PROVE  in = x /\ out = y
<1> DEFINE s == (in \o <<":">>) \o out
           t == (x \o <<":">>) \o y
<1>1. /\ in \in Seq(Atoms) /\ out \in Seq(Atoms) /\ x \in Seq(Atoms) /\ y \in Seq(Atoms)
      /\ <<":">> \in Seq(Atoms \union {":"})
  BY StringsAssumption
<1>2. s = t
  BY DEF PairName
<1>3. /\ Len(s) = Len(in) + 1 + Len(out) /\ Len(t) = Len(x) + 1 + Len(y)
      /\ s[Len(in) + 1] = ":" /\ t[Len(x) + 1] = ":"
      /\ \A i \in 1..Len(in) : s[i] = in[i]
      /\ \A i \in 1..Len(out) : s[Len(in) + 1 + i] = out[i]
      /\ \A i \in 1..Len(x) : t[i] = x[i]
      /\ \A i \in 1..Len(y) : t[Len(x) + 1 + i] = y[i]
  BY <1>1
<1>4. /\ \A i \in 1..Len(x) : x[i] # ":"
      /\ \A i \in 1..Len(y) : y[i] # ":"
  BY <1>1, StringsAssumption
<1>5. Len(in) = Len(x)
  <2>1. ~(Len(in) < Len(x))
    <3> SUFFICES ASSUME Len(in) < Len(x) PROVE FALSE
      OBVIOUS
    <3> DEFINE i == Len(in) + 1
    <3>1. i \in 1..Len(x)
      BY <1>1
    <3>2. t[i] = x[i]
      BY <1>3, <3>1
    <3> QED BY <1>2, <1>3, <1>4, <3>1, <3>2
  <2>2. ~(Len(in) > Len(x))
    <3> SUFFICES ASSUME Len(in) > Len(x) PROVE FALSE
      OBVIOUS
    <3> DEFINE i == Len(in) - Len(x)
    <3>1. i \in 1..Len(y) /\ Len(x) + 1 + i = Len(in) + 1
      BY <1>1, <1>2, <1>3
    <3>2. t[Len(x) + 1 + i] = y[i]
      BY <1>3, <3>1
    <3> QED BY <1>2, <1>3, <1>4, <3>1, <3>2
  <2> QED BY <1>1, <2>1, <2>2
<1>6. Len(out) = Len(y)
  BY <1>1, <1>2, <1>3, <1>5
<1>7. in = x
  <2>1. ASSUME NEW i \in 1..Len(x) PROVE in[i] = x[i]
    BY <1>2, <1>3, <1>5
  <2> QED BY <1>1, <1>5, <2>1
<1>8. out = y
  <2>1. ASSUME NEW i \in 1..Len(y) PROVE out[i] = y[i]
    <3>1. s[Len(in) + 1 + i] = out[i] /\ t[Len(x) + 1 + i] = y[i]
      BY <1>3, <1>6
    <3> QED BY <1>2, <1>5, <3>1
  <2> QED BY <1>1, <1>6, <2>1
<1> QED BY <1>7, <1>8

(* Whoever hears the proposals that sell x for y subscribed to that pair,   *)
(* or to an address or a txid spelled like its name, for every pair of     *)
(* assets and whatever strings the clients sent.                           *)
THEOREM WhoHearsCorrect == Spec => []WhoHearsAProposal
<1>1. ASSUME IInv PROVE WhoHearsAProposal
  <2> DEFINE root == text.params
  <2> SUFFICES ASSUME IsRpc, outcome.act = "subscribe", NEW x \in Assets, NEW y \in Assets
               PROVE  outcome.topic = TopicFromProposal([input |-> x, output |-> y])
                      <=> \/ root.key = "pair" /\ root.body.input = x /\ root.body.output = y
                          \/ root.key \in {"address", "tx"} /\ root.body.name = x \o <<":">> \o y
    BY DEF WhoHearsAProposal
  <2>1. /\ outcome = Dispatch(Request) /\ SingleRoot /\ Readable
        /\ Request.params.key = root.key
        /\ root.key # "ping" => Request.params.body = root.body
        /\ ValidateForMethod(Request.params, Request.method).tag = "ok"
    BY <1>1, ServedFrame DEF Acts
  <2>2. /\ Request.method = "subscribe"
        /\ Request.params.key \in {"any", "address", "tx", "pset", "pair"}
        /\ outcome.topic = TopicFromParams(Request.params).val
    BY <2>1, DispatchTable
  <2>3. root.key \in {"any", "address", "tx", "pair"}
    BY <2>1, <2>2, Valid
  <2>4. /\ TopicFromProposal([input |-> x, output |-> y]) = Validated(PairName(x, y))
        /\ TopicFromProposal([input |-> x, output |-> y]).ns = "validated"
    BY DEF TopicFromProposal, Validated
  <2>5. CASE root.key = "any"
    BY <2>1, <2>2, <2>4, <2>5, TopicNamespace
  <2>6. CASE root.key \in {"address", "tx"}
    <3>1. outcome.topic = Validated(root.body.name)
      BY <2>1, <2>2, <2>6, TopicOfName
    <3>2. outcome.topic = Validated(PairName(x, y)) <=> root.body.name = PairName(x, y)
      BY <3>1 DEF Validated
    <3>3. PairName(x, y) = x \o <<":">> \o y
      BY DEF PairName
    <3> QED BY <2>4, <2>6, <3>2, <3>3
  <2>7. CASE root.key = "pair"
    <3>1. outcome.topic = Validated(PairName(root.body.input, root.body.output))
      BY <2>1, <2>2, <2>7 DEF TopicFromParams, Ok
    <3>2. root.body.input \in Strings /\ root.body.output \in Strings
      BY <1>1, <2>1, <2>7, TextsAssumption DEF IInv, IsRpc, Handled, SingleRoot, Readable
    <3>3. outcome.topic = Validated(PairName(x, y))
          <=> PairName(root.body.input, root.body.output) = PairName(x, y)
      BY <3>1 DEF Validated
    <3> QED BY <2>4, <2>7, <3>2, <3>3, PairNameUnique
  <2> QED BY <2>3, <2>5, <2>6, <2>7
<1> QED BY <1>1, Invariance, PTL
==============================================================================
