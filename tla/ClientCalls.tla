---------------------------- MODULE ClientCalls ----------------------------
(***************************************************************************)
(* A call on its way through the client, and its answer on the way back:   *)
(* a tool's input becomes a call, the call a request, the request is       *)
(* served by a mirror node, and what the mirror node sends is read object  *)
(* by object and field by field.  The steps are added to those of          *)
(* Conversions: it is one program that holds a value.                      *)
(***************************************************************************)
EXTENDS Conversions, Requests, MirrorApi, Replies

CONSTANTS
  Arguments,   \* the texts that callers pass as ids
  Numerals,    \* the texts of numbers, for the limits that tools are given
  Parameters,  \* the values of one parameter
  WireNumbers  \* the integers that mirror nodes send

\* What a parameter asks for, each time as the text that the api documents.
Asked(parameter) ==
  CASE parameter.is \in {"undefined", "empty"} -> {}
    [] parameter.is \in {"scalar", "operator"} -> {Text(parameter)}
    [] parameter.is \in {"array", "filter"} -> {Text(item) : item \in ToSet(parameter.items)}

Constraints(params) ==
  [key \in {k \in DOMAIN params : Asked(params[k]) # {}} |-> Asked(params[key])]

\* The parameters of a kind that buildUrl does not declare.
Undeclared(params) == {key \in DOMAIN params : ~ IsQueryParamValue(params[key])}

Meant(endpoint, args, constraints, undeclared) ==
  [endpoint |-> endpoint, args |-> args, constraints |-> constraints, undeclared |-> undeclared]

ArgumentsFor(name) == [1 .. Cardinality(Slots(OperationOf(name).path)) -> Arguments]

ParametersFor(name) ==
  IF OperationOf(name).filtered THEN [{"limit", "timestamp"} -> Parameters]
  ELSE {<< >>}

----------------------------------------------------------------------------
(* What the tools promise: by name the endpoint, by schema the inputs.     *)
(* Where a description speaks of filters that the schema does not have, it *)
(* is the schema that counts here.                                         *)

Promise(resource, op, required, optional) ==
  [endpoint |-> <<resource, op>>, required |-> required, optional |-> optional]

Promises ==
  [hedera_get_account |-> Promise("accounts", "get", {"accountId"}, {}),
   hedera_list_accounts |-> Promise("accounts", "list", {}, {"limit"}),
   hedera_get_account_balance |-> Promise("balances", "list", {"accountId"}, {}),
   hedera_get_token |-> Promise("tokens", "get", {"tokenId"}, {}),
   hedera_list_tokens |-> Promise("tokens", "list", {}, {"limit"}),
   hedera_get_transaction |-> Promise("transactions", "get", {"transactionId"}, {}),
   hedera_list_transactions |-> Promise("transactions", "list", {}, {"accountId", "limit"}),
   hedera_get_schedule |-> Promise("schedules", "get", {"scheduleId"}, {}),
   hedera_get_topic |-> Promise("topics", "get", {"topicId"}, {}),
   hedera_get_topic_messages |-> Promise("topics", "getMessages", {"topicId"}, {"limit"}),
   hedera_get_contract |-> Promise("contracts", "get", {"contractId"}, {}),
   hedera_get_block |-> Promise("blocks", "get", {"blockNumberOrHash"}, {}),
   hedera_get_exchange_rate |-> Promise("network", "getExchangeRate", {}, {}),
   hedera_get_network_supply |-> Promise("network", "getSupply", {}, {}),
   hedera_get_network_fees |-> Promise("network", "getFees", {}, {}),
   hedera_get_network_stake |-> Promise("network", "getStake", {}, {}),
   getForAccount |-> Promise("balances", "list", {"accountId"}, {}),
   getTokenBalance |-> Promise("balances", "list", {"accountId"}, {}),
   listSchedulesByAccount |-> Promise("schedules", "list", {"accountId"}, {"limit", "order"}),
   getSignatureProgress |-> Promise("schedules", "get", {"scheduleId"}, {})]

InputsFor(tool) ==
  LET p == Promises[tool]
  IN UNION {{input \in [p.required \cup more -> Arguments] :
               "limit" \in more => input["limit"] \in Numerals} : more \in SUBSET p.optional}

\* A required input is the argument of the endpoint, if that has one; all else
\* narrows down the answer.
Ids(promise) ==
  IF Wildcards(EndpointOf(promise.endpoint).path) = {} THEN {} ELSE promise.required

Filter(name) == IF name = "accountId" THEN "account.id" ELSE name

MeantByTool(tool, input) ==
  LET ids == Ids(Promises[tool])
      filters == DOMAIN input \ ids
  IN Meant(Promises[tool].endpoint,
           IF ids = {} THEN << >> ELSE <<input[CHOOSE name \in ids : TRUE]>>,
           [key \in {Filter(name) : name \in filters} |->
              {input[CHOOSE name \in filters : Filter(name) = key]}],
           {})

\* Words of the api's own paths, which are no ids.
Words ==
  UNION {LET path == EndpointOf(name).path
         IN {path[i] : i \in DOMAIN path \ Wildcards(path)} : name \in EndpointNames}

IsArgument(text) ==
  /\ text \in Seq(STRING)
  /\ text # << >>
  /\ \A word \in Words : text # <<word>>
  /\ \A i \in DOMAIN text : \A token \in DOMAIN Escapes : text[i] # Escapes[token]

Items ==
  [is : {"scalar"}, value : Seq(STRING)]
    \cup [is : {"operator"}, operator : Seq(STRING), value : Seq(STRING)]

IsParameter(parameter) ==
  /\ parameter.is \in ParameterKinds
  /\ parameter.is \in {"array", "filter"} => parameter.items \in Seq(Items)

ASSUME ClientCallsAssumption ==
  /\ \A text \in Arguments : IsArgument(text)
  /\ \A parameter \in Parameters : IsParameter(parameter)
  /\ WireNumbers \subseteq Int

----------------------------------------------------------------------------
(* What the tables of the client and of the api have to do with each other *)

\* An operation asks for the endpoint of its name, with an argument wherever that
\* has one.
AsksItsEndpoint(name) ==
  LET op == OperationOf(name)
      endpoint == EndpointOf(name)
  IN /\ op.verb = endpoint.verb
     /\ op.path \in Seq(STRING) /\ endpoint.path \in Seq(STRING)
     /\ Len(op.path) = Len(endpoint.path)
     /\ Slots(op.path) = Wildcards(endpoint.path)
     /\ \A i \in DOMAIN op.path \ Slots(op.path) : op.path[i] = endpoint.path[i]

EndpointsDiffer ==
  \A name, other \in EndpointNames :
    EndpointOf(name).verb = EndpointOf(other).verb /\ EndpointOf(name).path = EndpointOf(other).path
      => name = other

\* A tool asks for the endpoint that it promises, with its one id where that has
\* an argument, and with every other input under its name in the api.
KeepsItsPromise(tool) ==
  LET t == Tools[tool]
      p == Promises[tool]
      ids == Ids(p)
      filters == ((p.required \cup p.optional) \ ids) \ {"limit"}
      op == OperationOf(p.endpoint)
  IN /\ p.endpoint = <<t.resource, t.op>> /\ p.endpoint \in EndpointNames
     /\ \/ ids = {} /\ t.args = << >>
        \/ \E name \in ids : ids = {name} /\ t.args = <<name>>
     /\ Cardinality(Slots(op.path)) = Len(t.args)
     /\ \A i \in Slots(op.path) : op.path[i] # Raw
     /\ DOMAIN t.filters = {Filter(name) : name \in filters}
     /\ \A name \in filters : t.filters[Filter(name)] = name /\ Filter(name) # "limit"
     /\ t.limit \in {"input", "one", "none"}
     /\ "limit" \notin p.required /\ (t.limit = "input" <=> "limit" \in p.optional)
     /\ ~ op.filtered => t.limit = "none" /\ filters = {}

ASSUME TablesAgree ==
  /\ \A name \in EndpointNames : AsksItsEndpoint(name)
  /\ EndpointsDiffer
  /\ \A word \in Words :
       word \notin DOMAIN Escapes /\ \A token \in DOMAIN Escapes : word # Escapes[token]
  /\ \A tool \in DOMAIN Promises : KeepsItsPromise(tool)

----------------------------------------------------------------------------
(* Calls begin with a tool or with a method *)

ClientInit ==
  \/ /\ form = "tool"
     /\ \E tool \in DOMAIN Promises : \E input \in InputsFor(tool) :
          /\ value = [tool |-> tool, input |-> input]
          /\ meant = MeantByTool(tool, input)
  \/ /\ form = "call"
     /\ \E name \in EndpointNames :
          \E args \in ArgumentsFor(name), params \in ParametersFor(name) :
            /\ value = Call(name[1], name[2], args, params)
            /\ meant = Meant(name, args, Constraints(params), Undeclared(params))

----------------------------------------------------------------------------
(* The way there *)

CallTool ==
  /\ form = "tool"
  /\ Becomes("call", UseTool(value.tool, value.input))
  /\ UNCHANGED meant

Send ==
  /\ form = "call"
  /\ LET request == Request(value)
     IN IF TooLong(request) THEN Reject
        ELSE Becomes("request",
                     [sent |-> request, expects |-> OperationOf(<<value.resource, value.op>>)])
  /\ UNCHANGED meant

\* The mirror node takes a path apart at its slashes, and behind /api/v1.
SplitUpTo(path) ==
  LET split[n \in 0 .. Len(path)] ==
        IF n = 0 THEN <<<< >>>>
        ELSE LET texts == split[n - 1]
             IN IF path[n] = "/" THEN Append(texts, << >>)
                ELSE Append(Front(texts), Append(Last(texts), path[n]))
  IN split

Split(path) == SplitUpTo(path)[Len(path)]

Segments(path) == SubSeq(Split(path), 4, Len(Split(path)))

Served(request) == Route(request.verb, Segments(request.path))

----------------------------------------------------------------------------
(* The way back *)

Object(mapper, schema) == [mapper |-> mapper, schema |-> schema]

\* createPageExtractor and unwrapTransaction look for their items under a key,
\* the other methods take the body.  Where the other is sent, nothing is found.
Unwrapped(operation, endpoint) ==
  Object(operation.mapper,
         IF endpoint.key = (IF operation.key = Whole THEN Body ELSE operation.key)
         THEN endpoint.schema ELSE "Nothing")

\* From here on history has whether the answer is one to what was asked, and
\* of a field what was sent.
Answer ==
  /\ form = "request"
  /\ Served(value.sent) # NotFound
  /\ value.expects.mapper # Untouched
  /\ Becomes("object", Unwrapped(value.expects, EndpointOf(Served(value.sent))))
  /\ meant' = [asked |-> Served(value.sent) = meant.endpoint]

Integer(n, wide) == [type |-> "integer", number |-> n, wide |-> wide]
ArrayOf(items) == [type |-> "array", of |-> items]
ObjectOf(schema) == [type |-> "object", of |-> schema]

\* What a mirror node may send: any field may be null, or missing in an older
\* release; a field that no release sends is missing.
ValuesOf(field) ==
  {Undefined, Null} \cup
    CASE field.is = "int64" -> {Integer(n, TRUE) : n \in WireNumbers}
      [] field.is = "int32" -> {Integer(n, FALSE) : n \in {m \in WireNumbers : IsSafeInteger(m)}}
      [] field.is = "text" -> {EmptyText} \cup {JsString(IntegerString(n)) : n \in WireNumbers}
      [] field.is = "flag" -> {JsBoolean(b) : b \in BOOLEAN}
      [] field.is = "texts" -> {EmptyArray, ArrayOf("texts")}
      [] field.is = "object" -> {ObjectOf(field.of)}
      [] field.is = "list" -> {EmptyArray, ArrayOf(field.of)}

MaySend(schema, name) ==
  IF name \in DOMAIN Schemas[schema] THEN ValuesOf(Schemas[schema][name]) ELSE {Undefined}

\* Mutant: the body is parsed without a reviver.
InBodyRounded(sent) ==
  IF sent.type = "integer" THEN JsNumber(ToNumber(sent.number)) ELSE sent

InBody(sent) ==
  IF sent.type = "integer" THEN SafeReviver([plain |-> TRUE, number |-> sent.number]) ELSE sent

Fits(how, sent) == sent.type = (IF how \in {"parts", "partsOrUndefined"} THEN "array" ELSE "object")

Field(mapper, name, told) == [mapper |-> mapper, name |-> name, told |-> told]

\* A field takes the name of what it is read from, but for the decoded one.
Source(mapper, name) ==
  LET reading == Mappers[mapper][name]
  IN IF reading.how = "decodeHexString" THEN reading.of ELSE name

ReadField ==
  /\ form = "object"
  /\ \E name \in DOMAIN Mappers[value.mapper] :
       LET how == Mappers[value.mapper][name].how
       IN /\ ~ IsPart(how)
          /\ \E sent \in MaySend(value.schema, Source(value.mapper, name)) :
               /\ Becomes("field", Field(value.mapper, name, Reading(how, InBody(sent))))
               /\ meant' = [asked |-> meant.asked, sent |-> sent]

ReadPart ==
  /\ form = "object"
  /\ \E name \in DOMAIN Mappers[value.mapper] :
       LET reading == Mappers[value.mapper][name]
       IN /\ IsPart(reading.how)
          /\ \E sent \in MaySend(value.schema, name) :
               IF Fits(reading.how, sent)
               THEN Becomes("object", Object(reading.of, sent.of)) /\ UNCHANGED meant
               ELSE /\ Becomes("field", Field(value.mapper, name, OfWrongPart(reading.how)))
                    /\ meant' = [asked |-> meant.asked, sent |-> sent]

ClientNext == CallTool \/ Send \/ Answer \/ ReadField \/ ReadPart

ClientSpec == (Init \/ ClientInit) /\ [][Next \/ ClientNext]_vars

----------------------------------------------------------------------------
(* Properties *)

Unescaped(segment) ==
  [i \in DOMAIN segment |->
     IF \E token \in DOMAIN Escapes : Escapes[token] = segment[i]
     THEN CHOOSE token \in DOMAIN Escapes : Escapes[token] = segment[i]
     ELSE segment[i]]

\* What would need to be escaped is not put into the path as it is.
NothingToEscape(name, args) ==
  LET path == OperationOf(name).path
  IN \A i \in Slots(path) : path[i] = Raw =>
       \A token \in ToSet(args[Place(Slots(path), i)]) : token \notin DOMAIN Escapes

\* The mirror node is asked for what the caller of a method or a tool asked
\* for: the endpoint of that name, each id in its place and as it was given,
\* and each condition the caller set, no more and no less; only a limit may
\* be the client's own.  Two kinds of calls are left out, and go wrong: a serial
\* or sequence number with a slash, a colon or a null byte, which those methods put
\* into the path unescaped, and a condition that buildUrl's own types do not have,
\* an object of operators or an array of plain values.
RequestsSayWhatWasAsked ==
  form = "request" =>
    LET segments == Segments(value.sent.path)
        slots == Wildcards(EndpointOf(meant.endpoint).path)
        query == value.sent.query
        asked == meant.constraints
    IN /\ Len(meant.args) = Cardinality(slots)
       /\ NothingToEscape(meant.endpoint, meant.args) =>
            /\ Served(value.sent) = meant.endpoint
            /\ \A i \in slots : Unescaped(segments[i]) = meant.args[Place(slots, i)]
       /\ DOMAIN asked \ meant.undeclared \subseteq DOMAIN query
       /\ \A key \in DOMAIN query \ meant.undeclared :
            \/ ToSet(query[key]) = (IF key \in DOMAIN asked THEN asked[key] ELSE {})
            \/ key = "limit" /\ key \notin DOMAIN asked

\* 64-bit integers that the public types declare as numbers.
DeclaredNumbers ==
  {"block_number", "denominator", "expiration_time", "node_id", "nonce", "numerator",
   "staked_node_id", "transaction_index"}

Blanks ==
  {Undefined, Null, EmptyText, JsString(IntegerString(0)), JsNumber(0), JsBoolean(FALSE),
   EmptyArray, EmptyObject, Decoded(EmptyText)}

DecodedFields == {"error_message_decoded", "message", "running_hash"}

Says(told, sent, name) ==
  CASE IsMissing(sent) \/ sent = EmptyText -> told \in Blanks
    [] sent.type = "integer" ->
         \/ told.type = "string" /\ told.string = IntegerString(sent.number)
         \/ /\ told.type = "number" /\ told.number = ToNumber(sent.number)
            /\ sent.wide => name \in DeclaredNumbers
    [] OTHER -> told = IF name \in DecodedFields THEN Decoded(sent) ELSE sent

\* A field that a mapper reads says what was answered, whatever was asked for, and
\* in a part or in a part of a part: an integer of 64 bits is told digit by digit, or, where the
\* public types declare a number, as the number closest to it, which beyond 2^53 may
\* be another one; all else is told as it was sent but for the messages and
\* hashes that are decoded, and what is null or missing is told by a blank.  That
\* a mapper reads every field it is sent, or is sent every field it reads, is not
\* said, and not so.
ResultsSayWhatWasAnswered ==
  form = "field" /\ meant.asked => Says(value.told, meant.sent, value.name)

----------------------------------------------------------------------------
(* What the tables of the mappers and of the api have to do with each other *)

\* The ways of reading that tell everything a field of a kind may hold.
Tells(how, kind, name) ==
  IF name \in DecodedFields THEN kind = "text" /\ how \in {"decodeHexString", "decodeBase64"}
  ELSE \/ kind \in {"int64", "int32", "text"} /\ how \in {"str", "strReq", "ensureString"}
       \/ kind = "int32" /\ how \in {"num", "numOrNull"}
       \/ kind = "int64" /\ how \in {"num", "numOrNull"} /\ name \in DeclaredNumbers
       \/ kind = "text" /\ how = "asIs"
       \/ kind = "flag" /\ how \in {"bool", "boolOrNull"}
       \/ kind = "texts" /\ how = "arr"
       \/ kind = "object" /\ how \in {"part", "partOrNull", "asIs"}
       \/ kind = "list" /\ how = "parts"

Ways ==
  {"str", "strReq", "ensureString", "num", "numOrNull", "bool", "boolOrNull", "arr", "asIs",
   "decodeHexString", "decodeBase64"}

Agrees(object) ==
  \A name \in DOMAIN Mappers[object.mapper] :
    LET how == Mappers[object.mapper][name].how
        fields == Schemas[object.schema]
        source == Source(object.mapper, name)
    IN IF source \in DOMAIN fields THEN Tells(how, fields[source].is, name)
       ELSE how \in Ways \/ IsPart(how)

\* The objects that come with an object, and the mappers that are to read them.
PartsOf(object) ==
  LET readings == Mappers[object.mapper]
      fields == Schemas[object.schema]
  IN {Object(readings[name].of, fields[name].of) :
        name \in {n \in DOMAIN readings \cap DOMAIN fields : IsPart(readings[n].how)}}

Answered ==
  {Unwrapped(OperationOf(name), EndpointOf(name)) :
     name \in {n \in EndpointNames : OperationOf(n).mapper # Untouched}}

\* All objects that are read of answers to what was asked: the answers, their parts, and
\* twice the parts of those.  That there are no more is a conjunct of MappersAgree.
ObjectsRead ==
  LET read[level \in 0 .. 3] ==
        IF level = 0 THEN Answered
        ELSE LET above == read[level - 1] IN above \cup UNION {PartsOf(object) : object \in above}
  IN read[3]

ASSUME MappersAgree ==
  /\ Answered \subseteq ObjectsRead
  /\ \A object \in ObjectsRead : Agrees(object) /\ PartsOf(object) \subseteq ObjectsRead
============================================================================
