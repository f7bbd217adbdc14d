------------------------------- MODULE Protocol -------------------------------
(***************************************************************************)
(* What an operation has to look like before anything is evaluated, and    *)
(* who has to sign it: validate() and get_required_authorities of every    *)
(* operation a transaction may contain (the two proof-of-work operations   *)
(* and the operations whose validate() always fails are left out).  AnyX   *)
(* is what can be sent as operation X and ValidX what validate() lets      *)
(* through.                                                                *)
(*                                                                         *)
(* Text, JSON and authorities are classes of what validate() tells apart;  *)
(* a name is well-formed or not.  The owner, active and posting authority  *)
(* of a new account are checked alike and are one field.                   *)
(***************************************************************************)
EXTENDS Operations

CONSTANTS
  Names, WellFormed,          \* what can be sent as a name; account names
  PIXA_ICO_ACCOUNT, PIXA_TEAM_ACCOUNT,
  Amounts, HIVE_MAX_ACCOUNT_CREATION_FEE, HIVE_MIN_ACCOUNT_CREATION_FEE,
  Percents, ONE_HUNDRED_PERCENT, Times, HIVE_MIN_RECURRENT_TRANSFERS_RECURRENCE,
  HIVE_PROPOSAL_MAX_IDS_NUMBER,
  Parties, HeldAssets         \* names and assets to build escrows of

ASSUME ProtocolAssumption ==
  /\ WellFormed \subseteq Names \ {NoName}
  /\ Amounts \subseteq Int /\ Percents \subseteq Int /\ Times \subseteq Nat
  /\ HIVE_MIN_ACCOUNT_CREATION_FEE <= HIVE_MAX_ACCOUNT_CREATION_FEE

--------------------
(* Kinds of fields, and the checks of validation.hpp *)

Assets == [symbol : {"HIVE", "HBD", "VESTS"}, amount : Amounts]
Prices == [base : Assets, quote : Assets]
Texts == {"empty", "good", "long", "not utf8"}
Jsons == {"empty", "good", "broken"}
Authorities == {"good", "impossible", "trivial", "malformed", "too many members"}

is_asset_type(asset, symbol) == asset.symbol = symbol
not_negative(asset, symbol) == is_asset_type(asset, symbol) /\ asset.amount >= 0
greater_than_zero(asset, symbol) == is_asset_type(asset, symbol) /\ asset.amount > 0
liquid(asset) == asset.symbol \in {"HIVE", "HBD"}
valid_account_names(names) == names \subseteq WellFormed
valid_text(text) == text \notin {"long", "not utf8"}
not_empty(text) == text = "good"
validate_json_with_fallback(json) == json # "broken"
in_100_percent_range(n) == n <= ONE_HUNDRED_PERCENT
validate_auth_size(authority) == authority # "too many members"
authority_validate(authority) == authority # "malformed"
creation_fee(asset) == not_negative(asset, "HIVE") /\ asset.amount <= HIVE_MAX_ACCOUNT_CREATION_FEE
SumOf(weighted) == FoldSet(LAMBDA b, sum : sum + b.weight, 0, weighted)
price_validate(price) == price.base.amount > 0 /\ price.quote.amount > 0 /\ price.base.symbol # price.quote.symbol
\* asset * price: the amount of the other asset, rounded towards zero.
Times_price(asset, price) ==
  IF asset.amount < 0 THEN -((-asset.amount * price.quote.amount) \div price.base.amount)
  ELSE (asset.amount * price.quote.amount) \div price.base.amount
market(sold, bought) == {sold.symbol, bought.symbol} = {"HIVE", "HBD"}

--------------------
(* Accounts *)

AnyAccountCreate ==
  [op : {"account_create"}, fee : Assets, creator : Names, new_account_name : Names, authorities : Authorities, json : Jsons]
ValidAccountCreate ==
  {o \in AnyAccountCreate :
     /\ valid_account_names({o.new_account_name}) /\ creation_fee(o.fee)
     /\ authority_validate(o.authorities) /\ validate_auth_size(o.authorities) /\ validate_json_with_fallback(o.json)}

AnyClaimAccount == [op : {"claim_account"}, creator : Names, fee : Assets]
ValidClaimAccount == {o \in AnyClaimAccount : valid_account_names({o.creator}) /\ creation_fee(o.fee)}

AnyCreateClaimedAccount ==
  [op : {"create_claimed_account"}, creator : Names, new_account_name : Names, authorities : Authorities, json : Jsons]
ValidCreateClaimedAccount ==
  {o \in AnyCreateClaimedAccount :
     /\ valid_account_names({o.creator, o.new_account_name})
     /\ authority_validate(o.authorities) /\ validate_auth_size(o.authorities) /\ validate_json_with_fallback(o.json)}

\* changes: which of the optional fields are set.
AnyAccountUpdate ==
  [op : {"account_update"}, account : Names, changes : SUBSET {"owner", "active", "posting"}, authorities : Authorities, json : Jsons]
ValidAccountUpdate ==
  {o \in AnyAccountUpdate : valid_account_names({o.account}) /\ validate_json_with_fallback(o.json)}

AnyAccountUpdate2 ==
  [op : {"account_update2"}, account : Names, changes : SUBSET {"owner", "active", "posting", "json_metadata"},
   authorities : Authorities, json : Jsons]
ValidAccountUpdate2 ==
  {o \in AnyAccountUpdate2 :
     /\ valid_account_names({o.account}) /\ validate_json_with_fallback(o.json)
     /\ o.changes \intersect {"owner", "active", "posting"} # {} => validate_auth_size(o.authorities)}

AnyRequestAccountRecovery ==
  [op : {"request_account_recovery"}, recovery_account : Names, account_to_recover : Names, new_owner_authority : Authorities]
ValidRequestAccountRecovery ==
  {o \in AnyRequestAccountRecovery :
     valid_account_names({o.recovery_account, o.account_to_recover}) /\ authority_validate(o.new_owner_authority)}

\* same: the new authority is the recent one.
AnyRecoverAccount ==
  [op : {"recover_account"}, account_to_recover : Names, new_owner_authority : Authorities,
   recent_owner_authority : Authorities, same : BOOLEAN]
ValidRecoverAccount ==
  {o \in AnyRecoverAccount :
     /\ valid_account_names({o.account_to_recover}) /\ ~o.same
     /\ o.new_owner_authority \notin {"impossible", "trivial", "malformed"}
     /\ o.recent_owner_authority \notin {"impossible", "malformed"}}

AnyChangeRecoveryAccount == [op : {"change_recovery_account"}, account_to_recover : Names, new_recovery_account : Names]
ValidChangeRecoveryAccount ==
  {o \in AnyChangeRecoveryAccount : valid_account_names({o.account_to_recover, o.new_recovery_account})}

AnyDeclineVotingRights == [op : {"decline_voting_rights"}, account : Names, decline : BOOLEAN]
ValidDeclineVotingRights == {o \in AnyDeclineVotingRights : valid_account_names({o.account})}

--------------------
(* Content *)

AnyComment ==
  [op : {"comment"}, parent_author : Names, author : Names, permlinks : Texts, title : Texts, body : Texts, json : Jsons]
ValidComment ==
  {o \in AnyComment :
     /\ valid_text(o.title) /\ o.body \notin {"empty", "not utf8"}
     /\ valid_account_names({o.parent_author, o.author} \ {NoName}) /\ o.author # NoName
     /\ valid_text(o.permlinks) /\ validate_json_with_fallback(o.json)}

\* sorted: the accounts are listed in strictly ascending order.
Beneficiaries == {bs \in SUBSET [account : Names, weight : Percents \ (Int \ Nat)] : Cardinality(bs) <= 2}
ValidBeneficiaries ==
  {bs \in Beneficiaries :
     /\ \A b \in bs : valid_account_names({b.account}) /\ in_100_percent_range(b.weight)
     /\ in_100_percent_range(SumOf(bs))}

\* With no beneficiaries, or with some and the rest in order.
AnyCommentOptions ==
  [op : {"comment_options"}, author : Names, permlink : Texts, percent_hbd : Percents \ (Int \ Nat),
   max_accepted_payout : Assets, beneficiaries : {{}}, sorted : {TRUE}]
  \union
  [op : {"comment_options"}, author : WellFormed, permlink : {"good"}, percent_hbd : {0},
   max_accepted_payout : {HBD_asset(1)}, beneficiaries : Beneficiaries \ {{}}, sorted : BOOLEAN]
ValidCommentOptions ==
  {o \in AnyCommentOptions :
     /\ valid_account_names({o.author}) /\ in_100_percent_range(o.percent_hbd)
     /\ not_negative(o.max_accepted_payout, "HBD") /\ valid_text(o.permlink)
     /\ o.beneficiaries \in ValidBeneficiaries /\ o.sorted
     /\ Cardinality({b.account : b \in o.beneficiaries}) = Cardinality(o.beneficiaries)}

AnyDeleteComment == [op : {"delete_comment"}, author : Names, permlink : Texts]
ValidDeleteComment == {o \in AnyDeleteComment : valid_account_names({o.author}) /\ valid_text(o.permlink)}

AnyVote == [op : {"vote"}, voter : Names, author : Names, permlink : Texts, weight : Percents]
ValidVote ==
  {o \in AnyVote :
     /\ valid_account_names({o.voter, o.author}) /\ valid_text(o.permlink)
     /\ in_100_percent_range(IF o.weight < 0 THEN -o.weight ELSE o.weight)}

\* required_auths and required_posting_auths are sets of names that are not looked at.
AnyCustom ==
  [op : {"custom"}, required_auths : SUBSET Names, required_posting_auths : {{}}, json : {"empty"}]
ValidCustom == {o \in AnyCustom : o.required_auths # {}}

AnyCustomJson == [op : {"custom_json"}, required_auths : SUBSET Names, required_posting_auths : SUBSET Names, json : Jsons]
ValidCustomJson ==
  {o \in AnyCustomJson : o.required_auths \union o.required_posting_auths # {} /\ o.json = "good"}

--------------------
(* Transfers, savings and escrow *)

AnyTransfer == [op : {"transfer"}, from : Names, to : Names, amount : Assets, memo : Texts]
ValidTransfer ==
  {o \in AnyTransfer :
     /\ valid_account_names({o.from, o.to}) /\ o.amount.amount > 0 /\ valid_text(o.memo)
     /\ o.amount.symbol = "VESTS" => o.from \in {PIXA_ICO_ACCOUNT, PIXA_TEAM_ACCOUNT}}

AnyRecurrentTransfer ==
  [op : {"recurrent_transfer"}, from : Names, to : Names, amount : Assets, memo : {"good", "long"}, recurrence : Times,
   executions : {0, 1, 2}]
ValidRecurrentTransfer ==
  {o \in AnyRecurrentTransfer :
     /\ valid_account_names({o.from, o.to}) /\ o.from # o.to /\ liquid(o.amount) /\ o.amount.amount >= 0
     /\ o.recurrence >= HIVE_MIN_RECURRENT_TRANSFERS_RECURRENCE /\ valid_text(o.memo) /\ o.executions >= 1}

\* An account may transfer to the vesting of another, which need not be named.
AnyTransferToVesting == [op : {"transfer_to_vesting"}, from : Names, to : Names, amount : Assets]
ValidTransferToVesting ==
  {o \in AnyTransferToVesting :
     o.from # NoName /\ valid_account_names({o.from, o.to} \ {NoName}) /\ greater_than_zero(o.amount, "HIVE")}

AnyWithdrawVesting == [op : {"withdraw_vesting"}, account : Names, vesting_shares : Assets]
ValidWithdrawVesting ==
  {o \in AnyWithdrawVesting : valid_account_names({o.account}) /\ is_asset_type(o.vesting_shares, "VESTS")}

AnySetWithdrawVestingRoute ==
  [op : {"set_withdraw_vesting_route"}, from_account : Names, to_account : Names, percent : Percents \ (Int \ Nat)]
ValidSetWithdrawVestingRoute ==
  {o \in AnySetWithdrawVestingRoute : valid_account_names({o.from_account, o.to_account}) /\ in_100_percent_range(o.percent)}

AnyDelegateVestingShares ==
  [op : {"delegate_vesting_shares"}, delegator : Names, delegatee : Names, vesting_shares : Assets]
ValidDelegateVestingShares ==
  {o \in AnyDelegateVestingShares :
     /\ valid_account_names({o.delegator, o.delegatee}) /\ o.delegator # o.delegatee
     /\ not_negative(o.vesting_shares, "VESTS")}

AnyTransferToSavings == [op : {"transfer_to_savings"}, from : Names, to : Names, amount : Assets, memo : Texts]
ValidTransferToSavings ==
  {o \in AnyTransferToSavings :
     valid_account_names({o.from, o.to}) /\ liquid(o.amount) /\ o.amount.amount > 0 /\ valid_text(o.memo)}

AnyTransferFromSavings == [op : {"transfer_from_savings"}, from : Names, to : Names, amount : Assets, memo : Texts]
ValidTransferFromSavings ==
  {o \in AnyTransferFromSavings :
     valid_account_names({o.from, o.to}) /\ liquid(o.amount) /\ o.amount.amount > 0 /\ valid_text(o.memo)}

AnyCancelTransferFromSavings == [op : {"cancel_transfer_from_savings"}, from : Names]
ValidCancelTransferFromSavings == {o \in AnyCancelTransferFromSavings : valid_account_names({o.from})}

AnyClaimRewardBalance ==
  [op : {"claim_reward_balance"}, account : Names, reward_hive : Assets, reward_hbd : Assets, reward_vests : Assets]
ValidClaimRewardBalance ==
  {o \in AnyClaimRewardBalance :
     /\ valid_account_names({o.account})
     /\ not_negative(o.reward_hive, "HIVE") /\ not_negative(o.reward_hbd, "HBD") /\ not_negative(o.reward_vests, "VESTS")
     /\ o.reward_hive.amount > 0 \/ o.reward_hbd.amount > 0 \/ o.reward_vests.amount > 0}

AnyEscrowTransfer ==
  [op : {"escrow_transfer"}, from : Parties, to : Parties, agent : Parties, hive_amount : HeldAssets, hbd_amount : HeldAssets,
   fee : HeldAssets, ratification_deadline : Times, escrow_expiration : Times, json : {"good", "broken"}]
ValidEscrowTransfer ==
  {o \in AnyEscrowTransfer :
     /\ valid_account_names({o.from, o.to, o.agent}) /\ o.agent \notin {o.from, o.to}
     /\ liquid(o.fee) /\ o.fee.amount >= 0
     /\ not_negative(o.hbd_amount, "HBD") /\ not_negative(o.hive_amount, "HIVE")
     /\ o.hbd_amount.amount + o.hive_amount.amount > 0
     /\ o.ratification_deadline < o.escrow_expiration /\ validate_json_with_fallback(o.json)}

AnyEscrowApprove == [op : {"escrow_approve"}, from : Parties, to : Parties, agent : Parties, who : Parties]
ValidEscrowApprove ==
  {o \in AnyEscrowApprove : valid_account_names({o.from, o.to, o.agent, o.who}) /\ o.who \in {o.to, o.agent}}

AnyEscrowDispute == [op : {"escrow_dispute"}, from : Parties, to : Parties, agent : Parties, who : Parties]
\* Mutant: whoever signs it, and who signs it is not shown for itself.
DisputeByAnyone == {o \in AnyEscrowDispute : valid_account_names({o.from, o.to, o.agent, o.who})}
ValidEscrowDispute ==
  {o \in AnyEscrowDispute : valid_account_names({o.from, o.to, o.agent, o.who}) /\ o.who \in {o.from, o.to}}

AnyEscrowRelease ==
  [op : {"escrow_release"}, from : Parties, to : Parties, agent : Parties, who : Parties, receiver : Parties,
   hive_amount : HeldAssets, hbd_amount : HeldAssets]
ReleaseAmounts(o) ==
  /\ not_negative(o.hbd_amount, "HBD") /\ not_negative(o.hive_amount, "HIVE")
  /\ o.hbd_amount.amount > 0 \/ o.hive_amount.amount > 0
ValidEscrowRelease ==
  {o \in AnyEscrowRelease :
     /\ valid_account_names({o.from, o.to, o.agent, o.who, o.receiver})
     /\ o.who \in {o.from, o.to, o.agent} /\ o.receiver \in {o.from, o.to} /\ ReleaseAmounts(o)}

--------------------
(* Market and conversions *)

AnyConvert == [op : {"convert"}, owner : Names, amount : Assets]
ValidConvert == {o \in AnyConvert : valid_account_names({o.owner}) /\ greater_than_zero(o.amount, "HBD")}

AnyCollateralizedConvert == [op : {"collateralized_convert"}, owner : Names, amount : Assets]
ValidCollateralizedConvert ==
  {o \in AnyCollateralizedConvert : valid_account_names({o.owner}) /\ greater_than_zero(o.amount, "HIVE")}

AnyFeedPublish == [op : {"feed_publish"}, publisher : Names, exchange_rate : Prices]
ValidFeedPublish ==
  {o \in AnyFeedPublish :
     /\ valid_account_names({o.publisher}) /\ market(o.exchange_rate.base, o.exchange_rate.quote)
     /\ price_validate(o.exchange_rate)}

AnyLimitOrderCreate == [op : {"limit_order_create"}, owner : Names, amount_to_sell : Assets, min_to_receive : Assets]
ValidLimitOrderCreate ==
  {o \in AnyLimitOrderCreate :
     /\ valid_account_names({o.owner}) /\ market(o.amount_to_sell, o.min_to_receive)
     /\ price_validate([base |-> o.amount_to_sell, quote |-> o.min_to_receive])}

AnyLimitOrderCreate2 == [op : {"limit_order_create2"}, owner : Names, amount_to_sell : Assets, exchange_rate : Prices]
ValidLimitOrderCreate2 ==
  {o \in AnyLimitOrderCreate2 :
     /\ valid_account_names({o.owner}) /\ o.amount_to_sell.symbol = o.exchange_rate.base.symbol
     /\ market(o.amount_to_sell, o.exchange_rate.quote) /\ price_validate(o.exchange_rate)
     /\ Times_price(o.amount_to_sell, o.exchange_rate) > 0}

AnyLimitOrderCancel == [op : {"limit_order_cancel"}, owner : Names]
ValidLimitOrderCancel == {o \in AnyLimitOrderCancel : valid_account_names({o.owner})}

--------------------
(* Witnesses, proxies and proposals *)

\* legacy_chain_properties; block_size and budgets: whether they are within the limits of the protocol.
AnyWitnessUpdate ==
  [op : {"witness_update"}, owner : Names, url : Texts, fee : Assets, account_creation_fee : Amounts,
   block_size : {"in range", "out of range"}, hbd_interest_rate : {0, 20}]
ValidWitnessUpdate ==
  {o \in AnyWitnessUpdate :
     /\ valid_account_names({o.owner}) /\ not_empty(o.url) /\ o.fee.amount >= 0
     /\ o.account_creation_fee \in HIVE_MIN_ACCOUNT_CREATION_FEE .. HIVE_MAX_ACCOUNT_CREATION_FEE
     /\ o.block_size = "in range" /\ o.hbd_interest_rate = 0}

\* The properties that are not given are not looked at: all are given, all but one, or none.
WitnessProperties == {"key", "account_creation_fee", "numbers", "hbd_interest_rate", "exchange_rate", "url"}
GivenProperties == {WitnessProperties, {}} \union {WitnessProperties \ {p} : p \in WitnessProperties}
AnyWitnessSetProperties ==
  [op : {"witness_set_properties"}, owner : Names, given : GivenProperties, account_creation_fee : HeldAssets,
   numbers : {"in range", "out of range"}, hbd_interest_rate : {0, 20}, exchange_rate : [base : HeldAssets, quote : HeldAssets],
   url : {"good", "long"}]
ValidWitnessSetProperties ==
  {o \in AnyWitnessSetProperties :
     /\ valid_account_names({o.owner}) /\ "key" \in o.given
     /\ "account_creation_fee" \in o.given =>
          /\ is_asset_type(o.account_creation_fee, "HIVE")
          /\ o.account_creation_fee.amount \in HIVE_MIN_ACCOUNT_CREATION_FEE .. HIVE_MAX_ACCOUNT_CREATION_FEE
     /\ "numbers" \in o.given => o.numbers = "in range"
     /\ "hbd_interest_rate" \in o.given => o.hbd_interest_rate = 0
     /\ "exchange_rate" \in o.given =>
          /\ is_asset_type(o.exchange_rate.base, "HBD") /\ is_asset_type(o.exchange_rate.quote, "HIVE")
          /\ price_validate(o.exchange_rate)
     /\ "url" \in o.given => not_empty(o.url)}

AnyAccountWitnessVote == [op : {"account_witness_vote"}, account : Names, witness : Names, approve : BOOLEAN]
ValidAccountWitnessVote == {o \in AnyAccountWitnessVote : valid_account_names({o.account, o.witness})}

AnyAccountWitnessProxy == [op : {"account_witness_proxy"}, account : Names, proxy : Names]
ValidAccountWitnessProxy ==
  {o \in AnyAccountWitnessProxy :
     valid_account_names({o.account}) /\ valid_account_names({o.proxy} \ {NoName}) /\ o.proxy # o.account}

AnyWitnessBlockApprove == [op : {"witness_block_approve"}, witness : Names]
ValidWitnessBlockApprove == {o \in AnyWitnessBlockApprove : valid_account_names({o.witness})}

AnyCreateProposal ==
  [op : {"create_proposal"}, creator : Names, receiver : Names, start_date : Times, end_date : Times, daily_pay : Assets,
   subject : {"empty", "good", "long"}, permlink : {"empty", "good", "long"}]
ValidCreateProposal ==
  {o \in AnyCreateProposal :
     /\ valid_account_names({o.creator, o.receiver}) /\ o.end_date > o.start_date /\ not_negative(o.daily_pay, "HBD")
     /\ not_empty(o.subject) /\ not_empty(o.permlink)}

AnyUpdateProposal ==
  [op : {"update_proposal"}, creator : Names, proposal_id : {-1, 0, 1}, daily_pay : Assets, subject : Texts, permlink : Texts]
ValidUpdateProposal ==
  {o \in AnyUpdateProposal :
     /\ valid_account_names({o.creator}) /\ o.proposal_id >= 0 /\ not_negative(o.daily_pay, "HBD")
     /\ not_empty(o.subject) /\ not_empty(o.permlink)}

\* proposal_ids: how many there are.
ProposalIds == 0 .. HIVE_PROPOSAL_MAX_IDS_NUMBER + 1
AnyUpdateProposalVotes == [op : {"update_proposal_votes"}, voter : Names, proposal_ids : ProposalIds, approve : BOOLEAN]
ValidUpdateProposalVotes ==
  {o \in AnyUpdateProposalVotes :
     valid_account_names({o.voter}) /\ o.proposal_ids \in 1 .. HIVE_PROPOSAL_MAX_IDS_NUMBER}
AnyRemoveProposal == [op : {"remove_proposal"}, proposal_owner : Names, proposal_ids : ProposalIds]
ValidRemoveProposal ==
  {o \in AnyRemoveProposal :
     valid_account_names({o.proposal_owner}) /\ o.proposal_ids \in 1 .. HIVE_PROPOSAL_MAX_IDS_NUMBER}

AnyOperation ==
  UNION {AnyAccountCreate, AnyClaimAccount, AnyCreateClaimedAccount, AnyAccountUpdate, AnyAccountUpdate2,
         AnyRequestAccountRecovery, AnyRecoverAccount, AnyChangeRecoveryAccount, AnyDeclineVotingRights, AnyComment,
         AnyCommentOptions, AnyDeleteComment, AnyVote, AnyCustom, AnyCustomJson, AnyTransfer, AnyRecurrentTransfer,
         AnyTransferToVesting, AnyWithdrawVesting, AnySetWithdrawVestingRoute, AnyDelegateVestingShares,
         AnyTransferToSavings, AnyTransferFromSavings, AnyCancelTransferFromSavings, AnyClaimRewardBalance,
         AnyEscrowTransfer, AnyEscrowApprove, AnyEscrowDispute, AnyEscrowRelease, AnyConvert, AnyCollateralizedConvert,
         AnyFeedPublish, AnyLimitOrderCreate, AnyLimitOrderCreate2, AnyLimitOrderCancel, AnyWitnessUpdate,
         AnyWitnessSetProperties, AnyAccountWitnessVote, AnyAccountWitnessProxy, AnyWitnessBlockApprove,
         AnyCreateProposal, AnyUpdateProposal, AnyUpdateProposalVotes, AnyRemoveProposal}
ValidOperation ==
  UNION {ValidAccountCreate, ValidClaimAccount, ValidCreateClaimedAccount, ValidAccountUpdate, ValidAccountUpdate2,
         ValidRequestAccountRecovery, ValidRecoverAccount, ValidChangeRecoveryAccount, ValidDeclineVotingRights, ValidComment,
         ValidCommentOptions, ValidDeleteComment, ValidVote, ValidCustom, ValidCustomJson, ValidTransfer,
         ValidRecurrentTransfer, ValidTransferToVesting, ValidWithdrawVesting, ValidSetWithdrawVestingRoute,
         ValidDelegateVestingShares, ValidTransferToSavings, ValidTransferFromSavings, ValidCancelTransferFromSavings,
         ValidClaimRewardBalance, ValidEscrowTransfer, ValidEscrowApprove, ValidEscrowDispute, ValidEscrowRelease,
         ValidConvert, ValidCollateralizedConvert, ValidFeedPublish, ValidLimitOrderCreate, ValidLimitOrderCreate2,
         ValidLimitOrderCancel, ValidWitnessUpdate, ValidWitnessSetProperties, ValidAccountWitnessVote,
         ValidAccountWitnessProxy, ValidWitnessBlockApprove, ValidCreateProposal, ValidUpdateProposal,
         ValidUpdateProposalVotes, ValidRemoveProposal}

--------------------
(* Who has to sign *)

OwnerRequired == [change_recovery_account |-> "account_to_recover", decline_voting_rights |-> "account"]

ActiveRequired ==
  [account_create |-> "creator", claim_account |-> "creator", create_claimed_account |-> "creator",
   request_account_recovery |-> "recovery_account", transfer |-> "from", recurrent_transfer |-> "from",
   transfer_to_vesting |-> "from", withdraw_vesting |-> "account", set_withdraw_vesting_route |-> "from_account",
   delegate_vesting_shares |-> "delegator", transfer_to_savings |-> "from", transfer_from_savings |-> "from",
   cancel_transfer_from_savings |-> "from", escrow_transfer |-> "from", escrow_approve |-> "who", escrow_dispute |-> "who",
   escrow_release |-> "who", convert |-> "owner", collateralized_convert |-> "owner", feed_publish |-> "publisher",
   limit_order_create |-> "owner", limit_order_create2 |-> "owner", limit_order_cancel |-> "owner",
   witness_update |-> "owner", account_witness_vote |-> "account", account_witness_proxy |-> "account",
   create_proposal |-> "creator", update_proposal |-> "creator", update_proposal_votes |-> "voter",
   remove_proposal |-> "proposal_owner"]

PostingRequired ==
  [comment |-> "author", comment_options |-> "author", delete_comment |-> "author", vote |-> "voter",
   claim_reward_balance |-> "account"]

NamedIn(o, table) == IF o.op \in DOMAIN table THEN {o[table[o.op]]} ELSE {}
Updates(o) == o.op \in {"account_update", "account_update2"}

get_required_owner_authorities(o) ==
  NamedIn(o, OwnerRequired) \union (IF Updates(o) /\ "owner" \in o.changes THEN {o.account} ELSE {})

\* Any metadata that is not posting's is changed with the active key.
get_required_active_authorities(o) ==
  NamedIn(o, ActiveRequired)
  \union (IF /\ Updates(o) /\ "owner" \notin o.changes
             /\ o.op = "account_update" \/ o.changes # {}
          THEN {o.account} ELSE {})
  \union (IF o.op \in {"custom", "custom_json"} THEN o.required_auths ELSE {})

get_required_posting_authorities(o) ==
  NamedIn(o, PostingRequired)
  \union (IF o.op = "account_update2" /\ o.changes = {} THEN {o.account} ELSE {})
  \union (IF o.op = "custom_json" THEN o.required_posting_auths ELSE {})

\* Signed by the key of a witness, or by keys the operation itself names.
get_required_witness_signatures(o) == IF o.op = "witness_block_approve" THEN {o.witness} ELSE {}
get_required_authorities(o) == o.op \in {"witness_set_properties", "recover_account"}

RequiredAccounts(o) ==
  get_required_owner_authorities(o) \union get_required_active_authorities(o) \union get_required_posting_authorities(o)

--------------------
(* An operation on its way: validated, its signatures verified, shown *)

CONSTANT Existing             \* the accounts there are
ASSUME ExistingAssumption == Existing \subseteq WellFormed

VARIABLES operation, verdict, impacted, balances
pvars == <<operation, verdict, impacted, balances>>

ProtocolInit(sent) ==
  operation \in sent /\ verdict = "received" /\ impacted = {} /\ balances = {}

operation_validate ==
  /\ verdict = "received"
  /\ verdict' = IF operation \in ValidOperation THEN "valid" ELSE "refused"
  /\ UNCHANGED <<operation, impacted, balances>>

\* The authority of an account that does not exist cannot be looked up; a
\* signature may be missing in any case.
verify_authority ==
  /\ verdict = "valid"
  /\ \/ verdict' = "refused"
     \/ /\ RequiredAccounts(operation) \union get_required_witness_signatures(operation) \subseteq Existing
        /\ verdict' = "authorised"
  /\ UNCHANGED <<operation, impacted, balances>>

notify_operation ==
  /\ verdict = "authorised"
  /\ verdict' = "shown"
  /\ impacted' = operation_get_impacted_accounts(operation)
  /\ balances' = operation_get_impacted_balances(operation)
  /\ UNCHANGED operation

ProtocolNext == operation_validate \/ verify_authority \/ notify_operation

--------------------
(* The amount all balances change by, in one asset *)
NetChange(symbol) ==
  FoldSet(LAMBDA c, sum : IF c.asset.symbol = symbol THEN sum + c.sign * c.asset.amount ELSE sum, 0, balances)

(***************************************************************************)
(* An operation that got through validate() and the check of signatures    *)
(* is accounted for: every account that had to sign has it in its history, *)
(* and nobody else but well-formed accounts; every account whose balance   *)
(* it changes has it in its history; it takes from nobody but who signed;  *)
(* and it creates nothing, unless it hands out a reward or what an escrow  *)
(* holds.  Four parts written apart from each other (validate,             *)
(* get_required_*_authorities, get_impacted_account_visitor and            *)
(* impacted_balance_collector) have to agree for that: who signs for an    *)
(* escrow is shown only as the party validate() makes it be.               *)
(***************************************************************************)
OperationsAccountable ==
  verdict = "shown" =>
    /\ RequiredAccounts(operation) \subseteq impacted
    /\ impacted \subseteq RequiredAccounts(operation) \union WellFormed
    /\ \A c \in balances :
         /\ c.account \in impacted \union {HIVE_NULL_ACCOUNT}
         /\ c.sign * c.asset.amount < 0 => c.account \in RequiredAccounts(operation)
    /\ operation.op \notin {"claim_reward_balance", "escrow_release"} =>
         \A symbol \in {"HIVE", "HBD", "VESTS"} : NetChange(symbol) <= 0
===============================================================================
