----------------------------- MODULE MirrorApi -----------------------------
(***************************************************************************)
(* The mirror node's side of a call, which is not part of the client: the  *)
(* endpoints it serves and what the objects it answers with hold, as       *)
(* openapi.yml describes them.  Only what the client can ask for is here.  *)
(***************************************************************************)
EXTENDS Integers, Sequences, FiniteSets, TLC

Argument == "{}"
Wildcards(path) == {i \in DOMAIN path : path[i] = Argument}

\* An endpoint answers with an object of a schema, or with objects of it
\* under a key.
Endpoint(verb, path, key, schema) ==
  [verb |-> verb, path |-> path, key |-> key, schema |-> schema]

Body == "body"

One(path, schema) == Endpoint("GET", path, Body, schema)
Page(path, key, schema) == Endpoint("GET", path, key, schema)

----------------------------------------------------------------------------
(* Endpoints, by the name the client has for them *)

AccountEndpoints ==
  LET Of(key, rest, schema) == Page(<<"accounts", Argument>> \o rest, key, schema)
  IN [list |-> Page(<<"accounts">>, "accounts", "AccountInfo"),
      get |-> One(<<"accounts", Argument>>, "AccountBalanceTransactions"),
      getNFTs |-> Of("nfts", <<"nfts">>, "Nft"),
      getTokens |-> Of("tokens", <<"tokens">>, "TokenRelationship"),
      getRewards |-> Of("rewards", <<"rewards">>, "StakingReward"),
      getCryptoAllowances |-> Of("allowances", <<"allowances", "crypto">>, "CryptoAllowance"),
      getTokenAllowances |-> Of("allowances", <<"allowances", "tokens">>, "TokenAllowance"),
      getNftAllowances |-> Of("allowances", <<"allowances", "nfts">>, "NftAllowance"),
      getOutstandingAirdrops |-> Of("airdrops", <<"airdrops", "outstanding">>, "TokenAirdrop"),
      getPendingAirdrops |-> Of("airdrops", <<"airdrops", "pending">>, "TokenAirdrop")]

ContractEndpoints ==
  [list |-> Page(<<"contracts">>, "contracts", "Contract"),
   get |-> One(<<"contracts", Argument>>, "ContractResponse"),
   call |-> Endpoint("POST", <<"contracts", "call">>, Body, "ContractCallResponse"),
   getResults |-> Page(<<"contracts", "results">>, "results", "ContractResult"),
   getResultsByContract |-> Page(<<"contracts", Argument, "results">>, "results", "ContractResult"),
   getResultByTimestamp |->
     One(<<"contracts", Argument, "results", Argument>>, "ContractResultDetails"),
   getResultByTransactionIdOrHash |->
     One(<<"contracts", "results", Argument>>, "ContractResultDetails"),
   getActions |->
     Page(<<"contracts", "results", Argument, "actions">>, "actions", "ContractAction"),
   getLogs |-> Page(<<"contracts", "results", "logs">>, "logs", "ContractLog"),
   getLogsByContract |-> Page(<<"contracts", Argument, "results", "logs">>, "logs", "ContractLog"),
   getState |-> Page(<<"contracts", Argument, "state">>, "state", "ContractState"),
   getOpcodes |-> One(<<"contracts", "results", Argument, "opcodes">>, "OpcodesResponse")]

TokenEndpoints ==
  [list |-> Page(<<"tokens">>, "tokens", "Token"),
   get |-> One(<<"tokens", Argument>>, "TokenInfo"),
   getBalances |-> Page(<<"tokens", Argument, "balances">>, "balances", "TokenDistribution"),
   getNFTs |-> Page(<<"tokens", Argument, "nfts">>, "nfts", "Nft"),
   getNFTBySerial |-> One(<<"tokens", Argument, "nfts", Argument>>, "Nft"),
   getNFTTransactions |-> Page(<<"tokens", Argument, "nfts", Argument, "transactions">>,
                               "transactions", "NftTransactionTransfer")]

Endpoints ==
  [accounts |-> AccountEndpoints,
   balances |-> [list |-> Page(<<"balances">>, "balances", "AccountBalance")],
   blocks |-> [list |-> Page(<<"blocks">>, "blocks", "Block"),
               get |-> One(<<"blocks", Argument>>, "Block")],
   contracts |-> ContractEndpoints,
   network |->
     [getExchangeRate |-> One(<<"network", "exchangerate">>, "NetworkExchangeRateSetResponse"),
      getFees |-> One(<<"network", "fees">>, "NetworkFeesResponse"),
      estimateFees |-> Endpoint("POST", <<"network", "fees">>, Body, "FeeEstimateResponse"),
      getNodes |-> Page(<<"network", "nodes">>, "nodes", "NetworkNode"),
      getStake |-> One(<<"network", "stake">>, "NetworkStakeResponse"),
      getSupply |-> One(<<"network", "supply">>, "NetworkSupplyResponse")],
   schedules |-> [list |-> Page(<<"schedules">>, "schedules", "Schedule"),
                  get |-> One(<<"schedules", Argument>>, "Schedule")],
   tokens |-> TokenEndpoints,
   topics |->
     [get |-> One(<<"topics", Argument>>, "Topic"),
      getMessages |-> Page(<<"topics", Argument, "messages">>, "messages", "TopicMessage"),
      getMessageBySequence |-> One(<<"topics", Argument, "messages", Argument>>, "TopicMessage"),
      getMessageByTimestamp |-> One(<<"topics", "messages", Argument>>, "TopicMessage")],
   transactions |->
     [list |-> Page(<<"transactions">>, "transactions", "Transaction"),
      get |-> Page(<<"transactions", Argument>>, "transactions", "TransactionDetail")]]

EndpointNames ==
  UNION {{<<r, op>> : op \in DOMAIN Endpoints[r]} : r \in DOMAIN Endpoints}

EndpointOf(name) == Endpoints[name[1]][name[2]]

\* The endpoint that serves a path: where several fit, the one that spells
\* out most of it.
Serves(name, verb, segments) ==
  LET e == EndpointOf(name)
  IN /\ e.verb = verb
     /\ Len(e.path) = Len(segments)
     /\ \A i \in DOMAIN segments : e.path[i] = Argument \/ segments[i] = <<e.path[i]>>

Literals(name) ==
  LET path == EndpointOf(name).path
  IN Cardinality(DOMAIN path \ Wildcards(path))

NotFound == << >>

Route(verb, segments) ==
  LET fitting == {name \in EndpointNames : Serves(name, verb, segments)}
  IN IF fitting = {} THEN NotFound
     ELSE CHOOSE name \in fitting : \A other \in fitting : Literals(name) >= Literals(other)

----------------------------------------------------------------------------
(* Schemas: of each field, what is sent.  Integers of 64 bits are told     *)
(* from those that every number can hold.                                  *)

Sent(kind, names) == [name \in names |-> [is |-> kind, of |-> ""]]
Int64(names) == Sent("int64", names)
Int32(names) == Sent("int32", names)
Strings(names) == Sent("text", names)
Booleans(names) == Sent("flag", names)
StringLists(names) == Sent("texts", names)
Objects(schema, names) == [name \in names |-> [is |-> "object", of |-> schema]]
Arrays(schema, names) == [name \in names |-> [is |-> "list", of |-> schema]]
Keys(names) == Objects("Key", names)
Ranges(names) == Objects("TimestampRange", names)

SharedSchemas ==
  [Nothing |-> << >>,
   Key |-> Strings({"_type", "key"}),
   TimestampRange |-> Strings({"from", "to"}),
   Links |-> Strings({"next"}),
   TokenBalance |-> Strings({"token_id"}) @@ Int64({"balance"}),
   Transfer |-> Strings({"account"}) @@ Int64({"amount"}) @@ Booleans({"is_approval"}),
   TokenTransfer |->
     Strings({"account", "token_id"}) @@ Int64({"amount"}) @@ Booleans({"is_approval"}),
   NftTransfer |->
     Strings({"receiver_account_id", "sender_account_id", "token_id"})
     @@ Int64({"serial_number"}) @@ Booleans({"is_approval"}),
   StakingRewardTransfer |-> Strings({"account"}) @@ Int64({"amount"}),
   Limit |-> Strings({"account_id", "denominating_token_id"}) @@ Int64({"amount"}),
   AssessedCustomFee |->
     Strings({"collector_account_id", "token_id"}) @@ Int64({"amount"})
     @@ StringLists({"effective_payer_account_ids"})]

AccountInfo ==
  Strings({"account", "alias", "created_timestamp", "evm_address", "expiry_timestamp", "memo",
           "staked_account_id", "stake_period_start"})
  @@ Int64({"auto_renew_period", "ethereum_nonce", "pending_reward", "staked_node_id"})
  @@ Int32({"max_automatic_token_associations"})
  @@ Booleans({"decline_reward", "deleted", "receiver_sig_required"})
  @@ Objects("Balance", {"balance"}) @@ Keys({"key"})

TransactionFields ==
  Strings({"bytes", "consensus_timestamp", "entity_id", "max_fee", "memo_base64", "name", "node",
           "parent_consensus_timestamp", "result", "transaction_hash", "transaction_id",
           "valid_duration_seconds", "valid_start_timestamp"})
  @@ Int64({"charged_tx_fee"}) @@ Int32({"nonce"}) @@ Booleans({"high_volume", "scheduled"})
  @@ Keys({"batch_key"})
  @@ Arrays("Limit", {"max_custom_fees"})
  @@ Arrays("NftTransfer", {"nft_transfers"})
  @@ Arrays("StakingRewardTransfer", {"staking_reward_transfers"})
  @@ Arrays("TokenTransfer", {"token_transfers"})
  @@ Arrays("Transfer", {"transfers"})

AccountSchemas ==
  [AccountInfo |-> AccountInfo,
   AccountBalanceTransactions |->
     AccountInfo @@ Arrays("Transaction", {"transactions"}) @@ Objects("Links", {"links"}),
   Balance |->
     Strings({"timestamp"}) @@ Int64({"balance"}) @@ Arrays("TokenBalance", {"tokens"}),
   AccountBalance |->
     Strings({"account"}) @@ Int64({"balance"}) @@ Arrays("TokenBalance", {"tokens"}),
   Nft |->
     Strings({"account_id", "created_timestamp", "delegating_spender", "metadata",
              "modified_timestamp", "spender", "token_id"})
     @@ Int64({"serial_number"}) @@ Booleans({"deleted"}),
   TokenRelationship |->
     Strings({"created_timestamp", "freeze_status", "kyc_status", "token_id"})
     @@ Int64({"balance", "decimals"}) @@ Booleans({"automatic_association"}),
   StakingReward |-> Strings({"account_id", "timestamp"}) @@ Int64({"amount"}),
   CryptoAllowance |->
     Strings({"owner", "spender"}) @@ Int64({"amount", "amount_granted"}) @@ Ranges({"timestamp"}),
   TokenAllowance |->
     Strings({"owner", "spender", "token_id"}) @@ Int64({"amount", "amount_granted"})
     @@ Ranges({"timestamp"}),
   NftAllowance |->
     Strings({"owner", "spender", "token_id"}) @@ Booleans({"approved_for_all"})
     @@ Ranges({"timestamp"}),
   TokenAirdrop |->
     Strings({"receiver_id", "sender_id", "token_id"}) @@ Int64({"amount", "serial_number"})
     @@ Ranges({"timestamp"})]

ContractFields ==
  Strings({"auto_renew_account", "contract_id", "created_timestamp", "evm_address",
           "expiration_timestamp", "file_id", "memo", "obtainer_id", "proxy_account_id"})
  @@ Int64({"auto_renew_period", "nonce"}) @@ Int32({"max_automatic_token_associations"})
  @@ Booleans({"deleted", "permanent_removal"})
  @@ Keys({"admin_key"}) @@ Ranges({"timestamp"})

ContractResultFields ==
  Strings({"access_list", "address", "block_hash", "bloom", "call_result", "chain_id",
           "contract_id", "error_message", "failed_initcode", "from", "function_parameters",
           "gas_price", "hash", "max_fee_per_gas", "max_priority_fee_per_gas", "r", "result", "s",
           "status", "timestamp", "to"})
  @@ Int64({"amount", "block_gas_used", "block_number", "gas_consumed", "gas_limit", "gas_used",
            "nonce", "transaction_index"})
  @@ Int32({"type", "v"}) @@ StringLists({"created_contract_ids"})

ContractResultLogFields ==
  Strings({"address", "bloom", "contract_id", "data"}) @@ Int32({"index"})
  @@ StringLists({"topics"})

ContractSchemas ==
  [Contract |-> ContractFields,
   ContractResponse |-> ContractFields @@ Strings({"bytecode", "runtime_bytecode"}),
   ContractCallResponse |-> Strings({"result"}),
   ContractResult |-> ContractResultFields,
   ContractResultDetails |->
     ContractResultFields @@ Arrays("ContractResultLog", {"logs"})
     @@ Arrays("ContractResultStateChange", {"state_changes"}),
   ContractResultLog |-> ContractResultLogFields,
   ContractResultStateChange |->
     Strings({"address", "contract_id", "slot", "value_read", "value_written"}),
   ContractLog |->
     ContractResultLogFields
     @@ Strings({"block_hash", "root_contract_id", "timestamp", "transaction_hash"})
     @@ Int64({"block_number"}) @@ Int32({"transaction_index"}),
   ContractState |-> Strings({"address", "contract_id", "timestamp", "slot", "value"}),
   ContractAction |->
     Strings({"call_operation_type", "call_type", "caller", "caller_type", "from", "input",
              "recipient", "recipient_type", "result_data", "result_data_type", "timestamp", "to"})
     @@ Int64({"gas", "gas_used", "value"}) @@ Int32({"call_depth", "index"}),
   Block |->
     Strings({"hapi_version", "hash", "logs_bloom", "name", "previous_hash"})
     @@ Int64({"gas_used"}) @@ Int32({"count", "number", "size"}) @@ Ranges({"timestamp"})]

NetworkSchemas ==
  [NetworkExchangeRateSetResponse |->
     Strings({"timestamp"}) @@ Objects("ExchangeRate", {"current_rate", "next_rate"}),
   ExchangeRate |-> Int32({"cent_equivalent", "hbar_equivalent"}) @@ Int64({"expiration_time"}),
   NetworkFeesResponse |-> Strings({"timestamp"}) @@ Arrays("NetworkFee", {"fees"}),
   NetworkNode |->
     Strings({"description", "file_id", "memo", "node_account_id", "node_cert_hash", "public_key"})
     @@ Int64({"max_stake", "min_stake", "node_id", "reward_rate_start", "stake",
               "stake_not_rewarded", "stake_rewarded"})
     @@ Booleans({"decline_reward"}) @@ Keys({"admin_key"})
     @@ Objects("ServiceEndpoint", {"grpc_proxy_endpoint"})
     @@ Arrays("ServiceEndpoint", {"service_endpoints"})
     @@ Ranges({"staking_period", "timestamp"}),
   ServiceEndpoint |-> Strings({"domain_name", "ip_address_v4"}) @@ Int32({"port"}),
   NetworkStakeResponse |->
     Int64({"max_stake_rewarded", "max_staking_reward_rate_per_hbar", "max_total_reward",
            "reserved_staking_rewards", "reward_balance_threshold", "stake_total",
            "staking_period_duration", "staking_periods_stored", "staking_reward_rate",
            "staking_start_threshold", "unreserved_staking_reward_balance"})
     @@ Int32({"node_reward_fee_fraction", "staking_reward_fee_fraction"})
     @@ Ranges({"staking_period"}),
   NetworkSupplyResponse |-> Strings({"released_supply", "timestamp", "total_supply"})]

LedgerSchemas ==
  [Schedule |->
     Strings({"consensus_timestamp", "creator_account_id", "executed_timestamp",
              "expiration_time", "memo", "payer_account_id", "schedule_id", "transaction_body"})
     @@ Booleans({"deleted", "wait_for_expiry"}) @@ Keys({"admin_key"})
     @@ Arrays("ScheduleSignature", {"signatures"}),
   ScheduleSignature |->
     Strings({"consensus_timestamp", "public_key_prefix", "signature", "type"}),
   Topic |->
     Strings({"auto_renew_account", "created_timestamp", "memo", "topic_id"})
     @@ Int64({"auto_renew_period"}) @@ Booleans({"deleted"}) @@ Keys({"admin_key", "submit_key",
     "fee_schedule_key"}) @@ Arrays("Key", {"fee_exempt_key_list"})
     @@ Objects("ConsensusCustomFees", {"custom_fees"}) @@ Ranges({"timestamp"}),
   TopicMessage |->
     Strings({"consensus_timestamp", "message", "payer_account_id", "running_hash", "topic_id"})
     @@ Int32({"running_hash_version"}) @@ Int64({"sequence_number"})
     @@ Objects("ChunkInfo", {"chunk_info"}),
   ChunkInfo |-> Objects("TransactionId", {"initial_transaction_id"}) @@ Int32({"number", "total"}),
   TransactionId |->
     Strings({"account_id", "transaction_valid_start"}) @@ Int32({"nonce"})
     @@ Booleans({"scheduled"}),
   Transaction |-> TransactionFields,
   TransactionDetail |-> TransactionFields @@ Arrays("AssessedCustomFee", {"assessed_custom_fees"}),
   NftTransactionTransfer |->
     Strings({"consensus_timestamp", "receiver_account_id", "sender_account_id", "transaction_id",
              "type"})
     @@ Int32({"nonce"}) @@ Booleans({"is_approval"})]

TokenSchemas ==
  LET collected == Strings({"collector_account_id", "denominating_token_id"})
      exempt == Booleans({"all_collectors_are_exempt"})
  IN [Token |->
        Strings({"metadata", "name", "symbol", "token_id", "type"}) @@ Int64({"decimals"})
        @@ Keys({"admin_key"}),
      TokenInfo |->
        Strings({"auto_renew_account", "created_timestamp", "decimals", "initial_supply",
                 "max_supply", "memo", "metadata", "modified_timestamp", "name", "pause_status",
                 "supply_type", "symbol", "token_id", "total_supply", "treasury_account_id",
                 "type"})
        @@ Int64({"auto_renew_period", "expiry_timestamp"})
        @@ Booleans({"deleted", "freeze_default"})
        @@ Keys({"admin_key", "fee_schedule_key", "freeze_key", "kyc_key", "metadata_key",
                 "pause_key", "supply_key", "wipe_key"})
        @@ Objects("CustomFees", {"custom_fees"}),
      CustomFees |->
        Strings({"created_timestamp"}) @@ Arrays("FixedFee", {"fixed_fees"})
        @@ Arrays("FractionalFee", {"fractional_fees"}) @@ Arrays("RoyaltyFee", {"royalty_fees"}),
      FixedFee |-> collected @@ exempt @@ Int64({"amount"}),
      Fraction |-> Int64({"numerator", "denominator"}),
      FractionalFee |->
        collected @@ exempt @@ Objects("Fraction", {"amount"}) @@ Int64({"maximum", "minimum"})
        @@ Booleans({"net_of_transfers"}),
      RoyaltyFee |->
        Strings({"collector_account_id"}) @@ exempt @@ Objects("Fraction", {"amount"})
        @@ Objects("FallbackFee", {"fallback_fee"}),
      FallbackFee |-> Strings({"denominating_token_id"}) @@ Int64({"amount"}),
      TokenDistribution |-> Strings({"account"}) @@ Int64({"balance", "decimals"})]

Schemas ==
  SharedSchemas @@ AccountSchemas @@ ContractSchemas @@ NetworkSchemas @@ LedgerSchemas
  @@ TokenSchemas
=============================================================================
