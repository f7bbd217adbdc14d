------------------------------ MODULE Operations ------------------------------
(***************************************************************************)
(* Operations as records: what the chain reports of itself.  A virtual     *)
(* operation is never part of a transaction: the chain makes it where a    *)
(* block, or another operation, has an effect that the operation does not  *)
(* name.  Two things are derived from every reported operation: in whose   *)
(* history it is shown (get_impacted_account_visitor) and whose liquid     *)
(* balance it changes (impacted_balance_collector).  Here those two are    *)
(* tables; everything else about an operation is where it is evaluated.    *)
(***************************************************************************)
EXTENDS Integers, Sequences, FiniteSets, FiniteSetsExt, SequencesExt

CONSTANTS HIVE_NULL_ACCOUNT, TREASURY, OBSOLETE_TREASURY, HIVE_INIT_MINER_NAME, NoName

Asset(symbol, amount) == [symbol |-> symbol, amount |-> amount]
HIVE_asset(amount) == Asset("HIVE", amount)
HBD_asset(amount) == Asset("HBD", amount)
VEST_asset(amount) == Asset("VESTS", amount)

--------------------
(* Operations of transactions, as far as they move balances *)

transfer_operation(from, to, amount) == [op |-> "transfer", from |-> from, to |-> to, amount |-> amount]
transfer_to_savings_operation(from, to, amount) == [op |-> "transfer_to_savings", from |-> from, to |-> to, amount |-> amount]
escrow_transfer_operation(from, to, agent, balance, fee) ==
  [op |-> "escrow_transfer", from |-> from, to |-> to, agent |-> agent,
   hive_amount |-> HIVE_asset(balance["HIVE"]), hbd_amount |-> HBD_asset(balance["HBD"]), fee |-> fee]
escrow_release_operation(escrow, who, receiver, amounts) ==
  [op |-> "escrow_release", from |-> escrow.from, to |-> escrow.to, agent |-> escrow.agent, who |-> who,
   receiver |-> receiver, hive_amount |-> HIVE_asset(amounts["HIVE"]), hbd_amount |-> HBD_asset(amounts["HBD"])]
limit_order_create_operation(owner, amount) == [op |-> "limit_order_create", owner |-> owner, amount_to_sell |-> amount]
convert_operation(owner, amount) == [op |-> "convert", owner |-> owner, amount |-> amount]
collateralized_convert_operation(owner, amount) == [op |-> "collateralized_convert", owner |-> owner, amount |-> amount]
claim_reward_balance_operation(account, hive, hbd, vests) ==
  [op |-> "claim_reward_balance", account |-> account, reward_hive |-> HIVE_asset(hive),
   reward_hbd |-> HBD_asset(hbd), reward_vests |-> VEST_asset(vests)]

--------------------
(* Virtual operations *)

fill_convert_request_operation(owner, in, out) ==
  [op |-> "fill_convert_request", owner |-> owner, amount_in |-> in, amount_out |-> out]
fill_collateralized_convert_request_operation(owner, in, out, excess) ==
  [op |-> "fill_collateralized_convert_request", owner |-> owner, amount_in |-> in, amount_out |-> out,
   excess_collateral |-> excess]
collateralized_convert_immediate_conversion_operation(owner, out) ==
  [op |-> "collateralized_convert_immediate_conversion", owner |-> owner, hbd_out |-> out]
author_reward_operation(author, parts, must_be_claimed) ==
  [op |-> "author_reward", author |-> author, hbd_payout |-> HBD_asset(parts["HBD"]),
   hive_payout |-> HIVE_asset(parts["HIVE"]), vesting_payout |-> VEST_asset(parts["VESTS"]),
   payout_must_be_claimed |-> must_be_claimed]
curation_reward_operation(curator, reward, author, must_be_claimed) ==
  [op |-> "curation_reward", curator |-> curator, reward |-> reward, author |-> author,
   payout_must_be_claimed |-> must_be_claimed]
comment_benefactor_reward_operation(benefactor, author, parts, must_be_claimed) ==
  [op |-> "comment_benefactor_reward", benefactor |-> benefactor, author |-> author,
   hbd_payout |-> HBD_asset(parts["HBD"]), hive_payout |-> HIVE_asset(parts["HIVE"]),
   vesting_payout |-> VEST_asset(parts["VESTS"]), payout_must_be_claimed |-> must_be_claimed]
interest_operation(owner, interest, is_saved_into_hbd_balance) ==
  [op |-> "interest", owner |-> owner, interest |-> interest, is_saved_into_hbd_balance |-> is_saved_into_hbd_balance]
fill_order_operation(current_owner, current_pays, open_owner, open_pays) ==
  [op |-> "fill_order", current_owner |-> current_owner, current_pays |-> current_pays,
   open_owner |-> open_owner, open_pays |-> open_pays]
limit_order_cancelled_operation(seller, amount_back) ==
  [op |-> "limit_order_cancelled", seller |-> seller, amount_back |-> amount_back]
fill_transfer_from_savings_operation(from, to, amount) ==
  [op |-> "fill_transfer_from_savings", from |-> from, to |-> to, amount |-> amount]
producer_reward_operation(producer, vesting_shares) ==
  [op |-> "producer_reward", producer |-> producer, vesting_shares |-> vesting_shares]
clear_null_account_balance_operation(total_cleared) ==
  [op |-> "clear_null_account_balance", total_cleared |-> total_cleared]
consolidate_treasury_balance_operation(total_moved) ==
  [op |-> "consolidate_treasury_balance", total_moved |-> total_moved]
proposal_fee_operation(creator, treasury, fee) ==
  [op |-> "proposal_fee", creator |-> creator, treasury |-> treasury, fee |-> fee]
proposal_pay_operation(receiver, payer, payment) ==
  [op |-> "proposal_pay", receiver |-> receiver, payer |-> payer, payment |-> payment]
dhf_funding_operation(treasury, funds) ==
  [op |-> "dhf_funding", treasury |-> treasury, additional_funds |-> funds]
dhf_conversion_operation(treasury, hive, hbd) ==
  [op |-> "dhf_conversion", treasury |-> treasury, hive_amount_in |-> hive, hbd_amount_out |-> hbd]
transfer_to_vesting_completed_operation(from, to, hive, vests) ==
  [op |-> "transfer_to_vesting_completed", from_account |-> from, to_account |-> to, hive_vested |-> hive,
   vesting_shares_received |-> vests]
fill_recurrent_transfer_operation(from, to, amount) ==
  [op |-> "fill_recurrent_transfer", from |-> from, to |-> to, amount |-> amount]
failed_recurrent_transfer_operation(from, to, amount) ==
  [op |-> "failed_recurrent_transfer", from |-> from, to |-> to, amount |-> amount]
escrow_approved_operation(escrow, fee) ==
  [op |-> "escrow_approved", from |-> escrow.from, to |-> escrow.to, agent |-> escrow.agent, fee |-> fee]
escrow_rejected_operation(escrow, balance, fee) ==
  [op |-> "escrow_rejected", from |-> escrow.from, to |-> escrow.to, agent |-> escrow.agent,
   hive_amount |-> HIVE_asset(balance["HIVE"]), hbd_amount |-> HBD_asset(balance["HBD"]), fee |-> fee]
--------------------
(* In whose history an operation is shown: the fields that name an account *)

\* Whoever has to sign: the template of the visitor.
SignerShown ==
  [account_update |-> <<"account">>, account_update2 |-> <<"account">>, claim_account |-> <<"creator">>,
   delete_comment |-> <<"author">>, withdraw_vesting |-> <<"account">>, witness_update |-> <<"owner">>,
   limit_order_create |-> <<"owner">>, limit_order_create2 |-> <<"owner">>, limit_order_cancel |-> <<"owner">>,
   convert |-> <<"owner">>, collateralized_convert |-> <<"owner">>, cancel_transfer_from_savings |-> <<"from">>,
   decline_voting_rights |-> <<"account">>, claim_reward_balance |-> <<"account">>, witness_block_approve |-> <<>>,
   custom |-> <<>>, custom_json |-> <<>>]

PartiesShown ==
  [account_create |-> <<"creator", "new_account_name">>, account_create_with_delegation |-> <<"creator", "new_account_name">>,
   account_created |-> <<"creator", "new_account_name">>, comment |-> <<"author", "parent_author">>,
   comment_options |-> <<"author">>, vote |-> <<"voter", "author">>, transfer |-> <<"from", "to">>,
   escrow_transfer |-> <<"from", "to", "agent">>, escrow_approve |-> <<"from", "to", "agent">>,
   escrow_dispute |-> <<"from", "to", "agent">>, escrow_release |-> <<"from", "to", "agent">>,
   transfer_to_vesting |-> <<"from", "to">>]

OtherPartiesShown ==
  [set_withdraw_vesting_route |-> <<"from_account", "to_account">>, account_witness_vote |-> <<"account", "witness">>,
   account_witness_proxy |-> <<"account", "proxy">>, feed_publish |-> <<"publisher">>, pow |-> <<"worker_account">>,
   pow2 |-> <<"worker_account">>, request_account_recovery |-> <<"recovery_account", "account_to_recover">>,
   recover_account |-> <<"account_to_recover">>, change_recovery_account |-> <<"account_to_recover">>,
   transfer_to_savings |-> <<"from", "to">>, transfer_from_savings |-> <<"from", "to">>,
   delegate_vesting_shares |-> <<"delegator", "delegatee">>, witness_set_properties |-> <<"owner">>,
   create_claimed_account |-> <<"creator", "new_account_name">>, recurrent_transfer |-> <<"from", "to">>]

RewardShown ==
  [author_reward |-> <<"author">>, curation_reward |-> <<"curator">>, liquidity_reward |-> <<"owner">>,
   interest |-> <<"owner">>, fill_convert_request |-> <<"owner">>, fill_collateralized_convert_request |-> <<"owner">>,
   fill_vesting_withdraw |-> <<"from_account", "to_account">>,
   transfer_to_vesting_completed |-> <<"from_account", "to_account">>, pow_reward |-> <<"worker">>,
   vesting_shares_split |-> <<"owner">>, shutdown_witness |-> <<"owner">>,
   fill_order |-> <<"current_owner", "open_owner">>, limit_order_cancelled |-> <<"seller">>,
   fill_transfer_from_savings |-> <<"from", "to">>, return_vesting_delegation |-> <<"account">>,
   comment_reward |-> <<"author">>, effective_comment_vote |-> <<"voter", "author">>,
   ineffective_delete_comment |-> <<"author">>, comment_payout_update |-> <<"author">>,
   comment_benefactor_reward |-> <<"benefactor", "author">>, producer_reward |-> <<"producer">>]

EventShown ==
  [proposal_pay |-> <<"payer", "receiver">>, create_proposal |-> <<"creator", "receiver">>,
   update_proposal |-> <<"creator">>, update_proposal_votes |-> <<"voter">>, remove_proposal |-> <<"proposal_owner">>,
   dhf_funding |-> <<"treasury">>, delayed_voting |-> <<"voter">>, hardfork |-> <<>>,
   hardfork_hive |-> <<"treasury", "account">>, hardfork_hive_restore |-> <<"treasury", "account">>,
   dhf_conversion |-> <<"treasury">>, consolidate_treasury_balance |-> <<>>, clear_null_account_balance |-> <<>>,
   expired_account_notification |-> <<"account">>,
   changed_recovery_account |-> <<"account", "old_recovery_account", "new_recovery_account">>, system_warning |-> <<>>,
   fill_recurrent_transfer |-> <<"from", "to">>, failed_recurrent_transfer |-> <<"from", "to">>,
   producer_missed |-> <<"producer">>, proposal_fee |-> <<"creator", "treasury">>,
   collateralized_convert_immediate_conversion |-> <<"owner">>, escrow_approved |-> <<"from", "to", "agent">>,
   escrow_rejected |-> <<"from", "to", "agent">>, proxy_cleared |-> <<"account", "proxy">>,
   declined_voting_rights |-> <<"account">>]

Shown == SignerShown @@ PartiesShown @@ OtherPartiesShown @@ RewardShown @@ EventShown

\* Accounts that no field names, or a list does.
AlsoShown(o) ==
  CASE o.op = "clear_null_account_balance" -> {HIVE_NULL_ACCOUNT}
    [] o.op = "consolidate_treasury_balance" -> {TREASURY, OBSOLETE_TREASURY}
    [] o.op \in {"hardfork", "system_warning"} -> {HIVE_INIT_MINER_NAME}
    [] o.op = "comment_options" -> {b.account : b \in o.beneficiaries}
    [] o.op = "hardfork_hive" -> o.other_affected_accounts
    [] o.op \in {"custom", "custom_json"} -> o.required_auths \union o.required_posting_auths
    [] OTHER -> {}

\* A parent, a receiver or a proxy that is not given is not shown.
operation_get_impacted_accounts(o) ==
  IF o.op = "fill_vesting_withdraw" /\ o.withdrawn.amount = 0 THEN {}   \* an empty implied route
  ELSE ({o[f] : f \in Range(Shown[o.op])} \union AlsoShown(o)) \ {NoName}

--------------------
(* Whose balance an operation changes, by which field, and in which direction *)

BlockChanges ==
  [fill_vesting_withdraw |-> {<<"to_account", "deposited", 1>>, <<"from_account", "withdrawn", -1>>},
   producer_reward |-> {<<"producer", "vesting_shares", 1>>},
   claim_account |-> {<<"creator", "fee", -1>>}, account_create |-> {<<"creator", "fee", -1>>},
   account_create_with_delegation |-> {<<"creator", "fee", -1>>},
   hardfork_hive |-> {<<"treasury", "hive_transferred", 1>>, <<"treasury", "hbd_transferred", 1>>,
                      <<"treasury", "total_hive_from_vests", 1>>},
   hardfork_hive_restore |-> {<<"treasury", "hive_transferred", -1>>, <<"treasury", "hbd_transferred", -1>>,
                              <<"account", "hive_transferred", 1>>, <<"account", "hbd_transferred", 1>>},
   fill_recurrent_transfer |-> {<<"to", "amount", 1>>, <<"from", "amount", -1>>},
   fill_transfer_from_savings |-> {<<"to", "amount", 1>>}, liquidity_reward |-> {<<"owner", "payout", 1>>},
   fill_convert_request |-> {<<"owner", "amount_out", 1>>},
   fill_collateralized_convert_request |-> {<<"owner", "excess_collateral", 1>>},
   escrow_transfer |-> {<<"from", "hive_amount", -1>>, <<"from", "hbd_amount", -1>>, <<"from", "fee", -1>>},
   escrow_release |-> {<<"receiver", "hive_amount", 1>>, <<"receiver", "hbd_amount", 1>>}]

\* The fee of a new account is null's for a moment.
BurntFees == {"claim_account", "account_create", "account_create_with_delegation"}

TradeChanges ==
  [transfer |-> {<<"from", "amount", -1>>, <<"to", "amount", 1>>},
   transfer_to_vesting_completed |-> {<<"to_account", "vesting_shares_received", 1>>, <<"from_account", "hive_vested", -1>>},
   pow_reward |-> {<<"worker", "reward", 1>>},
   limit_order_create |-> {<<"owner", "amount_to_sell", -1>>}, limit_order_create2 |-> {<<"owner", "amount_to_sell", -1>>},
   convert |-> {<<"owner", "amount", -1>>}, collateralized_convert |-> {<<"owner", "amount", -1>>},
   transfer_to_savings |-> {<<"from", "amount", -1>>},
   fill_order |-> {<<"open_owner", "current_pays", 1>>, <<"current_owner", "open_pays", 1>>},
   limit_order_cancelled |-> {<<"seller", "amount_back", 1>>},
   claim_reward_balance |-> {<<"account", "reward_hive", 1>>, <<"account", "reward_hbd", 1>>, <<"account", "reward_vests", 1>>}]

FundChanges ==
  [proposal_pay |-> {<<"receiver", "payment", 1>>, <<"payer", "payment", -1>>},
   dhf_funding |-> {<<"treasury", "additional_funds", 1>>},
   dhf_conversion |-> {<<"treasury", "hive_amount_in", -1>>, <<"treasury", "hbd_amount_out", 1>>},
   account_created |-> {<<"new_account_name", "initial_vesting_shares", 1>>},
   proposal_fee |-> {<<"creator", "fee", -1>>, <<"treasury", "fee", 1>>},
   collateralized_convert_immediate_conversion |-> {<<"owner", "hbd_out", 1>>},
   escrow_approved |-> {<<"agent", "fee", 1>>},
   escrow_rejected |-> {<<"from", "hbd_amount", 1>>, <<"from", "hive_amount", 1>>, <<"from", "fee", 1>>}]

\* Rewards, which count only if they need not be claimed.
RewardChanges ==
  [author_reward |-> {<<"author", "hbd_payout", 1>>, <<"author", "hive_payout", 1>>, <<"author", "vesting_payout", 1>>},
   curation_reward |-> {<<"curator", "reward", 1>>},
   comment_benefactor_reward |-> {<<"benefactor", "hbd_payout", 1>>, <<"benefactor", "hive_payout", 1>>,
                                  <<"benefactor", "vesting_payout", 1>>}]

Changes == BlockChanges @@ TradeChanges @@ FundChanges

ByField(o, changes) == {[account |-> o[c[1]], asset |-> o[c[2]], sign |-> c[3], field |-> c[2]] : c \in changes}

Change(account, asset) == [account |-> account, asset |-> asset, sign |-> 1, field |-> "total"]

operation_get_impacted_balances(o) ==
  (IF o.op \in DOMAIN Changes THEN ByField(o, Changes[o.op]) ELSE {})
  \union (IF o.op \in DOMAIN RewardChanges /\ ~o.payout_must_be_claimed THEN ByField(o, RewardChanges[o.op]) ELSE {})
  \union (IF o.op \in BurntFees THEN {Change(HIVE_NULL_ACCOUNT, o.fee)} ELSE {})
  \union (IF o.op = "consolidate_treasury_balance" THEN {Change(TREASURY, a) : a \in o.total_moved} ELSE {})
  \union (IF o.op = "interest" /\ o.is_saved_into_hbd_balance THEN {Change(o.owner, o.interest)} ELSE {})

--------------------
(* An observer that keeps balances and unclaimed rewards of every account  *)
(* from what its history shows                                             *)

Unclaimed(o) ==
  IF o.op \in DOMAIN RewardChanges /\ o.payout_must_be_claimed THEN ByField(o, RewardChanges[o.op])
  ELSE IF o.op = "claim_reward_balance" THEN {[c EXCEPT !.sign = -1] : c \in ByField(o, Changes[o.op])}
  ELSE {}

NothingTracked == [HIVE |-> 0, HBD |-> 0, VESTS |-> 0]

\* clear_null_account_balance and consolidate_treasury_balance empty an account.
Emptied(o) ==
  CASE o.op = "clear_null_account_balance" -> {HIVE_NULL_ACCOUNT}
    [] o.op = "consolidate_treasury_balance" -> {OBSOLETE_TREASURY}
    [] OTHER -> {}

Apply(pots, o, changes) ==
  FoldSet(LAMBDA c, p : IF c.account \in operation_get_impacted_accounts(o)
                        THEN [p EXCEPT ![c.account][c.asset.symbol] = @ + c.sign * c.asset.amount] ELSE p,
          [a \in DOMAIN pots |-> IF a \in Emptied(o) THEN NothingTracked ELSE pots[a]], changes)

Tracked(t, o) ==
  [balance |-> Apply(t.balance, o, operation_get_impacted_balances(o)), rewards |-> Apply(t.rewards, o, Unclaimed(o))]
===============================================================================
