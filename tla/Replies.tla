------------------------------ MODULE Replies -------------------------------
(***************************************************************************)
(* What the mappers (src/mappers) make of an object of a response body.  A *)
(* mapper says, for each field of its result, how it reads the field of    *)
(* that name.                                                              *)
(***************************************************************************)
EXTENDS Amounts, Sequences, TLC

Undefined == [type |-> "undefined"]
Null == [type |-> "null"]
JsBoolean(b) == [type |-> "boolean", boolean |-> b]
EmptyText == JsString([text |-> "empty"])
EmptyArray == [type |-> "emptyArray"]
EmptyObject == [type |-> "defaults"]

\* What a field decodes to is told by the text; Conversions has the decoding.
Decoded(text) == [type |-> "decoded", text |-> text]

----------------------------------------------------------------------------
(* How a field is read (src/mappers/common.ts) *)

Read(how, names) == [name \in names |-> [how |-> how, of |-> ""]]
StrReq(names) == Read("strReq", names)
StrOrNull(names) == Read("str", names)
Number(names) == Read("num", names)
Bool(names) == Read("bool", names)
Arr(names) == Read("arr", names)
EnsureString(names) == Read("ensureString", names)
DecodeBase64(names) == Read("decodeBase64", names)
AsIs(names) == Read("asIs", names)
NumberOrNull(names) == Read("numOrNull", names)
BoolOrNull(names) == Read("boolOrNull", names)
DecodeHexString(name, field) == name :> [how |-> "decodeHexString", of |-> field]

\* A part is an object of its own, an object or null, or an array of objects
\* that is empty, or undefined, when there is none.
Part(mapper, names) == [name \in names |-> [how |-> "part", of |-> mapper]]
PartOrNull(mapper, names) == [name \in names |-> [how |-> "partOrNull", of |-> mapper]]
Parts(mapper, names) == [name \in names |-> [how |-> "parts", of |-> mapper]]

MapKey(names) == PartOrNull("HieroKey", names)
MapTimestampRange(names) == Part("TimestampRange", names)

IsMissing(v) == v.type \in {"undefined", "null"}

Reading(how, v) ==
  CASE how = "str" -> IF IsMissing(v) THEN Null ELSE JsString(Str(v))
    [] how = "strReq" -> IF IsMissing(v) THEN EmptyText ELSE JsString(Str(v))
    [] how = "ensureString" ->
         JsString(IF IsMissing(v) THEN IntegerString(0) ELSE Str(v))
    [] how = "num" -> JsNumber(IF IsMissing(v) THEN 0 ELSE Num(v))
    [] how = "numOrNull" -> IF IsMissing(v) THEN Null ELSE JsNumber(Num(v))
    [] how = "bool" -> IF IsMissing(v) THEN JsBoolean(FALSE) ELSE v
    [] how = "boolOrNull" -> IF IsMissing(v) THEN Null ELSE v
    [] how = "arr" -> IF v.type = "array" THEN v ELSE EmptyArray
    [] how = "asIs" -> IF IsMissing(v) THEN Null ELSE v
    [] how = "decodeHexString" -> IF IsMissing(v) \/ v = EmptyText THEN Null ELSE Decoded(v)
    [] how = "decodeBase64" -> Decoded(IF IsMissing(v) THEN EmptyText ELSE v)

IsPart(how) == how \in {"part", "partOrNull", "parts", "partsOrUndefined"}

\* What a mapper makes of a part that is not there as it expects it: asRecord
\* gives it an object without fields, arr an array without items.
OfWrongPart(how) ==
  CASE how = "part" -> EmptyObject
    [] how = "partOrNull" -> Null
    [] how = "parts" -> EmptyArray
    [] how = "partsOrUndefined" -> Undefined

----------------------------------------------------------------------------
(* src/mappers/account.ts, balance.ts, block.ts *)

MapTokenBalance == StrReq({"token_id", "balance"})

MapAccountBalance == StrReq({"balance", "timestamp"}) @@ Parts("TokenBalance", {"tokens"})

MapAccountSummary ==
  StrReq({"account", "ethereum_nonce", "memo", "pending_reward"})
  @@ StrOrNull({"alias", "auto_renew_period", "created_timestamp", "evm_address",
                "expiry_timestamp", "staked_account_id", "stake_period_start"})
  @@ Part("AccountBalance", {"balance"}) @@ MapKey({"key"})
  @@ Bool({"decline_reward", "deleted"}) @@ BoolOrNull({"receiver_sig_required"})
  @@ Number({"max_automatic_token_associations"}) @@ NumberOrNull({"staked_node_id"})

\* mapAccountTransaction reads what mapTransaction does.
MapAccountDetail ==
  MapAccountSummary @@ Parts("Transaction", {"transactions"}) @@ Part("Links", {"links"})

MapTokenRelationship ==
  Bool({"automatic_association"}) @@ EnsureString({"decimals"})
  @@ StrReq({"balance", "created_timestamp", "freeze_status", "kyc_status", "token_id"})

MapStakingReward == StrReq({"account_id", "amount", "timestamp"})

MapCryptoAllowance ==
  StrReq({"amount", "amount_granted", "owner", "spender"}) @@ MapTimestampRange({"timestamp"})

MapTokenAllowance ==
  StrReq({"amount", "amount_granted", "owner", "spender", "token_id"})
  @@ MapTimestampRange({"timestamp"})

MapNftAllowance ==
  Bool({"approved_for_all"}) @@ StrReq({"owner", "spender", "token_id"})
  @@ MapTimestampRange({"timestamp"})

MapAirdrop ==
  StrReq({"amount", "receiver_id", "sender_id", "token_id"}) @@ StrOrNull({"serial_number"})
  @@ MapTimestampRange({"timestamp"})

MapBalanceEntry == StrReq({"account", "balance"}) @@ Parts("TokenBalance", {"tokens"})

MapBlock ==
  Number({"count", "number", "size"}) @@ MapTimestampRange({"timestamp"})
  @@ StrReq({"gas_used", "hapi_version", "hash", "logs_bloom", "name", "previous_hash"})

----------------------------------------------------------------------------
(* src/mappers/contract.ts *)

MapContractSummary ==
  MapKey({"admin_key"}) @@ MapTimestampRange({"timestamp"})
  @@ StrOrNull({"auto_renew_account", "auto_renew_period", "expiration_timestamp", "file_id",
                "obtainer_id", "proxy_account_id"})
  @@ StrReq({"contract_id", "created_timestamp", "evm_address", "memo", "nonce"})
  @@ Bool({"deleted"}) @@ BoolOrNull({"permanent_removal"})
  @@ Number({"max_automatic_token_associations"})

MapContractDetail == MapContractSummary @@ StrReq({"bytecode", "runtime_bytecode"})

MapContractLog ==
  StrReq({"address", "bloom", "contract_id", "data", "timestamp", "block_hash",
          "transaction_hash"})
  @@ StrOrNull({"root_contract_id"}) @@ Arr({"topics"})
  @@ Number({"index", "block_number", "transaction_index"})

MapStateChange ==
  StrReq({"address", "contract_id", "slot", "value_read"}) @@ StrOrNull({"value_written"})

MapContractResult ==
  StrOrNull({"access_list", "call_result", "contract_id", "error_message", "failed_initcode",
             "gas_consumed", "to"})
  @@ StrReq({"address", "amount", "block_gas_used", "block_hash", "bloom", "chain_id", "from",
             "function_parameters", "gas_limit", "gas_price", "gas_used", "hash",
             "max_fee_per_gas", "max_priority_fee_per_gas", "r", "result", "s", "status",
             "timestamp"})
  @@ Number({"block_number", "nonce", "transaction_index", "type", "v"})
  @@ Arr({"created_contract_ids"})
  @@ DecodeHexString("error_message_decoded", "error_message")
  @@ Parts("ContractLog", {"logs"}) @@ Parts("StateChange", {"state_changes"})

MapContractAction ==
  Number({"call_depth", "index"})
  @@ StrReq({"call_operation_type", "call_type", "caller", "caller_type", "from", "gas",
             "gas_used", "result_data_type", "timestamp", "value"})
  @@ StrOrNull({"input", "recipient", "recipient_type", "result_data", "to"})

MapContractCall == StrReq({"result"})

----------------------------------------------------------------------------
(* src/mappers/network.ts *)

MapServiceEndpoint == StrReq({"ip_address_v4", "domain_name"}) @@ Number({"port"})

MapNetworkNode ==
  AsIs({"admin_key"}) @@ Number({"node_id"})
  @@ StrReq({"description", "file_id", "max_stake", "memo", "min_stake", "node_account_id",
             "node_cert_hash", "public_key", "reward_rate_start", "stake", "stake_not_rewarded",
             "stake_rewarded"})
  @@ Parts("ServiceEndpoint", {"service_endpoints"})
  @@ MapTimestampRange({"staking_period", "timestamp"})

MapNetworkStake ==
  StrReq({"max_stake_rewarded", "max_staking_reward_rate_per_hbar", "max_total_reward",
          "reserved_staking_rewards", "reward_balance_threshold", "stake_total",
          "staking_period_duration", "staking_periods_stored", "staking_reward_rate",
          "staking_start_threshold", "unreserved_staking_reward_balance"})
  @@ Number({"node_reward_fee_fraction", "staking_reward_fee_fraction"})
  @@ MapTimestampRange({"staking_period"})

MapExchangeRate == Number({"cent_equivalent", "expiration_time", "hbar_equivalent"})

MapExchangeRateSet ==
  Part("ExchangeRate", {"current_rate", "next_rate"}) @@ StrReq({"timestamp"})

MapSupply == StrReq({"released_supply", "timestamp", "total_supply"})

MapFee == StrReq({"gas", "transaction_type"})

\* Unlike elsewhere, arrays that are missing stay undefined.
MapFeeSchedule ==
  [name \in {"current", "next"} |-> [how |-> "partsOrUndefined", of |-> "Fee"]]
  @@ StrReq({"timestamp"})

----------------------------------------------------------------------------
(* src/mappers/schedule.ts, token.ts, topic.ts, transaction.ts *)

MapSignature == StrReq({"consensus_timestamp", "public_key_prefix", "signature", "type"})

MapSchedule ==
  MapKey({"admin_key"}) @@ Bool({"deleted", "wait_for_expiry"})
  @@ StrOrNull({"consensus_timestamp", "executed_timestamp", "expiration_time"})
  @@ StrReq({"creator_account_id", "memo", "payer_account_id", "schedule_id",
             "transaction_body"})
  @@ Parts("Signature", {"signatures"})

MapFractionAmount == Number({"numerator", "denominator"})

MapFixedFee ==
  Bool({"all_collectors_are_exempt"}) @@ StrReq({"amount", "collector_account_id"})
  @@ StrOrNull({"denominating_token_id"})

MapFractionalFee ==
  Bool({"all_collectors_are_exempt", "net_of_transfers"})
  @@ Part("FractionAmount", {"amount"}) @@ StrReq({"collector_account_id", "minimum"})
  @@ StrOrNull({"denominating_token_id", "maximum"})

MapRoyaltyFee ==
  Bool({"all_collectors_are_exempt"}) @@ Part("FractionAmount", {"amount"})
  @@ StrReq({"collector_account_id"}) @@ PartOrNull("FixedFee", {"fallback_fee"})

MapCustomFees ==
  StrReq({"created_timestamp"}) @@ Parts("FixedFee", {"fixed_fees"})
  @@ Parts("FractionalFee", {"fractional_fees"}) @@ Parts("RoyaltyFee", {"royalty_fees"})

MapTokenSummary ==
  MapKey({"admin_key"}) @@ EnsureString({"decimals"})
  @@ StrReq({"metadata", "name", "symbol", "token_id", "type"})

MapTokenDetail ==
  MapTokenSummary
  @@ StrOrNull({"auto_renew_account", "auto_renew_period", "expiry_timestamp"})
  @@ StrReq({"created_timestamp", "initial_supply", "max_supply", "memo", "modified_timestamp",
             "pause_status", "supply_type", "total_supply", "treasury_account_id"})
  @@ Part("CustomFees", {"custom_fees"}) @@ Bool({"deleted", "freeze_default"})
  @@ MapKey({"fee_schedule_key", "freeze_key", "kyc_key", "metadata_key", "pause_key",
             "supply_key", "wipe_key"})

MapTokenNft ==
  StrReq({"account_id", "created_timestamp", "metadata", "modified_timestamp",
          "serial_number", "token_id"})
  @@ StrOrNull({"delegating_spender", "spender"}) @@ Bool({"deleted"})

MapTokenBalanceEntry == StrReq({"account", "balance"}) @@ EnsureString({"decimals"})

MapChunkInfo ==
  Part("InitialTransactionId", {"initial_transaction_id"}) @@ Number({"number", "total"})

MapInitialTransactionId ==
  StrReq({"account_id", "transaction_valid_start"}) @@ Number({"nonce"}) @@ Bool({"scheduled"})

MapTopicInfo ==
  AsIs({"admin_key", "submit_key"}) @@ StrOrNull({"auto_renew_account", "auto_renew_period"})
  @@ StrReq({"created_timestamp", "memo", "topic_id"}) @@ Bool({"deleted"})
  @@ MapTimestampRange({"timestamp"})

MapTopicMessage ==
  PartOrNull("ChunkInfo", {"chunk_info"}) @@ DecodeBase64({"message", "running_hash"})
  @@ StrReq({"consensus_timestamp", "payer_account_id", "sequence_number", "topic_id"})
  @@ Number({"running_hash_version"})

MapTransaction ==
  StrOrNull({"bytes", "entity_id", "node", "parent_consensus_timestamp"})
  @@ StrReq({"charged_tx_fee", "consensus_timestamp", "max_fee", "memo_base64", "name", "result",
             "transaction_hash", "transaction_id", "valid_duration_seconds",
             "valid_start_timestamp"})
  @@ Number({"nonce"}) @@ Bool({"scheduled"})
  @@ Parts("NftTransfer", {"nft_transfers"})
  @@ Parts("StakingRewardTransfer", {"staking_reward_transfers"})
  @@ Parts("TokenTransfer", {"token_transfers"}) @@ Parts("Transfer", {"transfers"})

\* The objects that mapTransaction makes of its transfers.
Transfers ==
  [NftTransfer |->
     Bool({"is_approval"}) @@ StrOrNull({"receiver_account_id", "sender_account_id"})
     @@ StrReq({"serial_number", "token_id"}),
   StakingRewardTransfer |-> StrReq({"account", "amount"}),
   TokenTransfer |-> StrReq({"account", "amount", "token_id"}) @@ Bool({"is_approval"}),
   Transfer |-> StrReq({"account", "amount"}) @@ Bool({"is_approval"})]

MapNftTransaction ==
  StrReq({"consensus_timestamp", "transaction_id", "type"}) @@ Bool({"is_approval"})
  @@ Number({"nonce"}) @@ StrOrNull({"receiver_account_id", "sender_account_id"})

----------------------------------------------------------------------------

Mappers ==
  Transfers @@
  [HieroKey |-> StrReq({"_type", "key"}),
   TimestampRange |-> StrReq({"from"}) @@ StrOrNull({"to"}),
   Links |-> StrOrNull({"next"}),
   TokenBalance |-> MapTokenBalance, AccountBalance |-> MapAccountBalance,
   AccountSummary |-> MapAccountSummary, AccountDetail |-> MapAccountDetail,
   TokenRelationship |-> MapTokenRelationship, StakingReward |-> MapStakingReward,
   CryptoAllowance |-> MapCryptoAllowance, TokenAllowance |-> MapTokenAllowance,
   NftAllowance |-> MapNftAllowance, Airdrop |-> MapAirdrop,
   BalanceEntry |-> MapBalanceEntry, Block |-> MapBlock,
   ContractSummary |-> MapContractSummary, ContractDetail |-> MapContractDetail,
   ContractLog |-> MapContractLog, StateChange |-> MapStateChange,
   ContractResult |-> MapContractResult, ContractAction |-> MapContractAction,
   ContractCall |-> MapContractCall, ServiceEndpoint |-> MapServiceEndpoint,
   NetworkNode |-> MapNetworkNode, NetworkStake |-> MapNetworkStake,
   ExchangeRate |-> MapExchangeRate, ExchangeRateSet |-> MapExchangeRateSet,
   Supply |-> MapSupply, Fee |-> MapFee, FeeSchedule |-> MapFeeSchedule,
   Signature |-> MapSignature, Schedule |-> MapSchedule,
   FractionAmount |-> MapFractionAmount, FixedFee |-> MapFixedFee,
   FractionalFee |-> MapFractionalFee, RoyaltyFee |-> MapRoyaltyFee,
   CustomFees |-> MapCustomFees, TokenSummary |-> MapTokenSummary,
   TokenDetail |-> MapTokenDetail, TokenNft |-> MapTokenNft,
   TokenBalanceEntry |-> MapTokenBalanceEntry, ChunkInfo |-> MapChunkInfo,
   InitialTransactionId |-> MapInitialTransactionId, TopicInfo |-> MapTopicInfo,
   TopicMessage |-> MapTopicMessage, Transaction |-> MapTransaction,
   NftTransaction |-> MapNftTransaction]
=============================================================================
