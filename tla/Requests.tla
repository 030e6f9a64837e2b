------------------------------ MODULE Requests ------------------------------
(***************************************************************************)
(* What the resource groups (src/resources) and the MCP tools              *)
(* (src/mcp/tool-descriptors.ts) ask of the request engine, and how        *)
(* buildUrl (src/http/url-builder.ts) writes it down.                      *)
(*                                                                         *)
(* A text, as in UrlPaths, is a sequence of tokens.  An operation is a     *)
(* verb, the segments of its path behind /api/v1 (Encoded and Raw stand    *)
(* for the next argument), whether it passes on parameters, the key under  *)
(* which it expects its items (Whole: the body itself), and the mapper of  *)
(* what it finds (Untouched: none).                                        *)
(***************************************************************************)
EXTENDS UrlPaths, FiniteSets, TLC

CONSTANT MaxUrlLength  \* in tokens of the path and parameters

Encoded == "encodeURIComponent(argument)"
Raw == "argument"
Whole == "response.data"
Untouched == "as it is"

Op(verb, path, filtered, key, mapper) ==
  [verb |-> verb, path |-> path, filtered |-> filtered, key |-> key, mapper |-> mapper]

List(path, key, mapper) == Op("GET", path, TRUE, key, mapper)
Get(path, mapper) == Op("GET", path, FALSE, Whole, mapper)
GetWith(path, mapper) == Op("GET", path, TRUE, Whole, mapper)
Post(path, mapper) == Op("POST", path, FALSE, Whole, mapper)

----------------------------------------------------------------------------
(* src/resources *)

Accounts ==
  LET Of(key, rest, mapper) == List(<<"accounts", Encoded>> \o rest, key, mapper)
  IN [list |-> List(<<"accounts">>, "accounts", "AccountSummary"),
      get |-> Get(<<"accounts", Encoded>>, "AccountDetail"),
      getNFTs |-> Of("nfts", <<"nfts">>, "TokenNft"),
      getTokens |-> Of("tokens", <<"tokens">>, "TokenRelationship"),
      getRewards |-> Of("rewards", <<"rewards">>, "StakingReward"),
      getCryptoAllowances |-> Of("allowances", <<"allowances", "crypto">>, "CryptoAllowance"),
      getTokenAllowances |-> Of("allowances", <<"allowances", "tokens">>, "TokenAllowance"),
      getNftAllowances |-> Of("allowances", <<"allowances", "nfts">>, "NftAllowance"),
      getOutstandingAirdrops |-> Of("airdrops", <<"airdrops", "outstanding">>, "Airdrop"),
      getPendingAirdrops |-> Of("airdrops", <<"airdrops", "pending">>, "Airdrop")]

Balances == [list |-> List(<<"balances">>, "balances", "BalanceEntry")]

Blocks ==
  [list |-> List(<<"blocks">>, "blocks", "Block"),
   get |-> Get(<<"blocks", Encoded>>, "Block")]

Contracts ==
  LET results == <<"contracts", "results">>
      one == <<"contracts", Encoded>>
  IN [list |-> List(<<"contracts">>, "contracts", "ContractSummary"),
      get |-> Get(one, "ContractDetail"),
      call |-> Post(<<"contracts", "call">>, "ContractCall"),
      getResults |-> List(results, "results", "ContractResult"),
      getResultsByContract |-> List(one \o <<"results">>, "results", "ContractResult"),
      getResultByTimestamp |-> Get(one \o <<"results", Encoded>>, "ContractResult"),
      getResultByTransactionIdOrHash |-> Get(results \o <<Encoded>>, "ContractResult"),
      getActions |-> Op("GET", results \o <<Encoded, "actions">>, FALSE,
                        "actions", "ContractAction"),
      getLogs |-> List(results \o <<"logs">>, "logs", "ContractLog"),
      getLogsByContract |-> List(one \o <<"results", "logs">>, "logs", "ContractLog"),
      getState |-> List(one \o <<"state">>, "state", "StateChange"),
      getOpcodes |-> Get(results \o <<Encoded, "opcodes">>, Untouched)]

Network ==
  [getExchangeRate |-> GetWith(<<"network", "exchangerate">>, "ExchangeRateSet"),
   getFees |-> GetWith(<<"network", "fees">>, "FeeSchedule"),
   estimateFees |-> Post(<<"network", "fees">>, Untouched),
   getNodes |-> List(<<"network", "nodes">>, "nodes", "NetworkNode"),
   getStake |-> Get(<<"network", "stake">>, "NetworkStake"),
   getSupply |-> GetWith(<<"network", "supply">>, "Supply")]

Schedules ==
  [list |-> List(<<"schedules">>, "schedules", "Schedule"),
   get |-> Get(<<"schedules", Encoded>>, "Schedule")]

Tokens ==
  LET one == <<"tokens", Encoded>>
      nft == one \o <<"nfts", Raw>>
  IN [list |-> List(<<"tokens">>, "tokens", "TokenSummary"),
      get |-> Get(one, "TokenDetail"),
      getBalances |-> List(one \o <<"balances">>, "balances", "TokenBalanceEntry"),
      getNFTs |-> List(one \o <<"nfts">>, "nfts", "TokenNft"),
      getNFTBySerial |-> Get(nft, "TokenNft"),
      getNFTTransactions |-> List(nft \o <<"transactions">>, "transactions", "NftTransaction")]

Topics ==
  LET one == <<"topics", Encoded>>
  IN [get |-> Get(one, "TopicInfo"),
      getMessages |-> List(one \o <<"messages">>, "messages", "TopicMessage"),
      getMessageBySequence |-> Get(one \o <<"messages", Raw>>, "TopicMessage"),
      getMessageByTimestamp |-> Get(<<"topics", "messages", Encoded>>, "TopicMessage")]

\* The transaction of an id comes as the first of a list.
Transactions ==
  [list |-> List(<<"transactions">>, "transactions", "Transaction"),
   get |-> List(<<"transactions", Encoded>>, "transactions", "Transaction")]

Resources ==
  [accounts |-> Accounts, balances |-> Balances, blocks |-> Blocks,
   contracts |-> Contracts, network |-> Network, schedules |-> Schedules,
   tokens |-> Tokens, topics |-> Topics, transactions |-> Transactions]

----------------------------------------------------------------------------
(* src/mcp/tool-descriptors.ts, and the methods that ask by way of others *)

\* Which inputs of a tool become arguments and which of them filters, under
\* which name; limit says whether it takes a limit, asks for one item, or has
\* none.
Tool(resource, op, args, filters, limit) ==
  [resource |-> resource, op |-> op, args |-> args, filters |-> filters, limit |-> limit]

Finds(resource, input) == Tool(resource, "get", <<input>>, << >>, "none")
Lists(resource, filters) == Tool(resource, "list", << >>, filters, "input")
Asks(op) == Tool("network", op, << >>, << >>, "none")

OfAccount == "account.id" :> "accountId"

EntityTools ==
  [hedera_get_account |-> Finds("accounts", "accountId"),
   hedera_list_accounts |-> Lists("accounts", << >>),
   hedera_get_account_balance |-> Tool("balances", "list", << >>, OfAccount, "one"),
   hedera_get_token |-> Finds("tokens", "tokenId"),
   hedera_list_tokens |-> Lists("tokens", << >>)]

LedgerTools ==
  [hedera_get_transaction |-> Finds("transactions", "transactionId"),
   hedera_list_transactions |-> Lists("transactions", OfAccount),
   hedera_get_schedule |-> Finds("schedules", "scheduleId"),
   hedera_get_topic |-> Finds("topics", "topicId"),
   hedera_get_topic_messages |-> Tool("topics", "getMessages", <<"topicId">>, << >>, "input"),
   hedera_get_contract |-> Finds("contracts", "contractId"),
   hedera_get_block |-> Finds("blocks", "blockNumberOrHash")]

NetworkTools ==
  [hedera_get_exchange_rate |-> Asks("getExchangeRate"),
   hedera_get_network_supply |-> Asks("getSupply"),
   hedera_get_network_fees |-> Asks("getFees"),
   hedera_get_network_stake |-> Asks("getStake")]

\* getTokenBalance asks as getForAccount does and picks the token itself.
Shortcuts ==
  [getForAccount |-> Tool("balances", "list", << >>, OfAccount, "one"),
   getTokenBalance |-> Tool("balances", "list", << >>, OfAccount, "one"),
   listSchedulesByAccount |-> Tool("schedules", "list", << >>, OfAccount @@ "order" :> "order", "input"),
   getSignatureProgress |-> Finds("schedules", "scheduleId")]

Tools == EntityTools @@ LedgerTools @@ NetworkTools @@ Shortcuts

----------------------------------------------------------------------------
(* Calls and their parameters *)

\* A parameter is missing, is the empty string, has a plain value, has an
\* operator and a value, is an array, of plain values or with operators, or is an
\* object with a value for each operator: the OperatorFilter of types/common.ts.
Missing == [is |-> "undefined"]
Empty == [is |-> "empty"]
Scalar(v) == [is |-> "scalar", value |-> v]
Operator(op, v) == [is |-> "operator", operator |-> op, value |-> v]
Several(items) == [is |-> "array", items |-> items]
OperatorFilter(items) == [is |-> "filter", items |-> items]

ParameterKinds == {"undefined", "empty", "scalar", "operator", "array", "filter"}

\* The parameters that buildUrl declares as its own: QueryParamValue.
IsQueryParamValue(parameter) ==
  /\ parameter.is \in ParameterKinds \ {"filter"}
  /\ parameter.is = "array" => \A i \in DOMAIN parameter.items : parameter.items[i].is = "operator"

Call(resource, op, args, params) ==
  [resource |-> resource, op |-> op, args |-> args, params |-> params]

\* input: what the caller gave the tool, by name.  A limit goes through
\* Number(), which leaves a numeral as it is.
UseTool(tool, input) ==
  LET t == Tools[tool]
      given(name) == IF name \in DOMAIN input THEN Scalar(input[name]) ELSE Missing
      limits == IF t.limit = "none" THEN {} ELSE {"limit"}
  IN Call(t.resource, t.op, [i \in DOMAIN t.args |-> input[t.args[i]]],
          [p \in DOMAIN t.filters \cup limits |->
             IF p \in DOMAIN t.filters THEN given(t.filters[p])
             ELSE IF t.limit = "one" THEN Scalar(<<"1">>) ELSE given("limit")])

----------------------------------------------------------------------------
(* The url *)

\* The language: names stay, all else is escaped and becomes part of a name.
Escapes ==
  [token \in {"/", ":", "NUL"} |->
     CASE token = "/" -> "%2F" [] token = ":" -> "%3A" [] token = "NUL" -> "%00"]

EncodeURIComponent(text) ==
  [i \in DOMAIN text |-> IF text[i] \in DOMAIN Escapes THEN Escapes[text[i]] ELSE text[i]]

Slots(path) == {i \in DOMAIN path : path[i] \in {Encoded, Raw}}

\* Which of the arguments a slot is for.
Place(slots, i) == Cardinality({j \in slots : j <= i})

Segment(path, args, i) ==
  CASE path[i] = Encoded -> EncodeURIComponent(args[Place(Slots(path), i)])
    [] path[i] = Raw -> args[Place(Slots(path), i)]
    [] OTHER -> <<path[i]>>

JoinedUpTo(segments) ==
  LET joined[n \in 0 .. Len(segments)] ==
        IF n = 0 THEN << >> ELSE (joined[n - 1] \o <<"/">>) \o segments[n]
  IN joined

Joined(segments) == JoinedUpTo(segments)[Len(segments)]

Path(op, args) ==
  Joined(<<<<"api">>, <<"v1">>>> \o [i \in DOMAIN op.path |-> Segment(op.path, args, i)])

\* What String() makes of an object.
ObjectText == <<"object">>

WithOperator(items) == Chosen(items, {i \in DOMAIN items : items[i].is = "operator"})

Text(item) == IF item.is = "operator" THEN item.operator \o item.value ELSE item.value

\* Mutant: a parameter is set, not appended, so the last of several stays.
BuildQueryLastWins(params) ==
  [key \in {k \in DOMAIN params : params[k].is \notin {"undefined", "empty"}} |->
     LET p == params[key]
         items == WithOperator(p.items)
     IN CASE p.is = "array" -> IF items = << >> THEN << >> ELSE <<Text(Last(items))>>
          [] p.is = "filter" -> <<ObjectText>>
          [] OTHER -> <<Text(p)>>]

\* For each key what is written behind it, once or several times: of an array the
\* items with an operator.
BuildQuery(params) ==
  [key \in {k \in DOMAIN params : params[k].is \notin {"undefined", "empty"}} |->
     LET p == params[key]
         items == WithOperator(p.items)
     IN CASE p.is = "array" -> [i \in DOMAIN items |-> Text(items[i])]
          [] p.is = "filter" -> <<ObjectText>>
          [] OTHER -> <<Text(p)>>]

OperationOf(name) == Resources[name[1]][name[2]]

Request(call) ==
  LET op == OperationOf(<<call.resource, call.op>>)
  IN [verb |-> op.verb,
      path |-> CleanPath(Path(op, call.args)),
      query |-> IF op.filtered THEN BuildQuery(call.params) ELSE << >>]

TooLong(request) ==
  Len(request.path)
    + FoldFunction(LAMBDA texts, n : Len(FlattenSeq(texts)) + n, 0, request.query) > MaxUrlLength
============================================================================
