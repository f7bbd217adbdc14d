---- MODULE Ledger ----
(***************************************************************************)
(* The two liquid tokens and everything that holds them.  HIVE and HBD are *)
(* the names the code has for PIXA and PXS.  Balances move through a       *)
(* temp_balance in the code, which refuses to be destroyed while it holds  *)
(* anything; here a move is one expression that takes and gives.           *)
(*                                                                         *)
(* Amounts are counted in the smallest unit and prices are fractions, so   *)
(* truncation happens where it does in the code.  Hardforks up to 30 are   *)
(* active.                                                                 *)
(***************************************************************************)
EXTENDS ChainState, Operations

CONSTANTS
  HIVE_100_PERCENT, HIVE_HBD_HARD_LIMIT, hbd_stop_percent, hbd_start_percent,
  hbd_interest_rate, HIVE_SECONDS_PER_YEAR, HIVE_HBD_INTEREST_COMPOUND_INTERVAL,
  HIVE_FEED_HISTORY_WINDOW, HIVE_VOTING_MANA_REGENERATION_SECONDS, downvote_pool_percent

ASSUME LedgerAssumption ==
  /\ Cardinality({NoAccount, HIVE_NULL_ACCOUNT, TREASURY, OBSOLETE_TREASURY}) = 4
  /\ {HIVE_100_PERCENT, HIVE_SECONDS_PER_YEAR, HIVE_FEED_HISTORY_WINDOW,
      HIVE_VOTING_MANA_REGENERATION_SECONDS} \subseteq Nat \ {0}
  /\ downvote_pool_percent \in 1..HIVE_100_PERCENT
  /\ HIVE_HBD_HARD_LIMIT \in 1..(HIVE_100_PERCENT - 1)
  /\ hbd_start_percent < hbd_stop_percent
  /\ {hbd_interest_rate, HIVE_HBD_INTEREST_COMPOUND_INTERVAL} \subseteq Nat

\* Every operation is reported, and tracked is what an observer makes of it.
Notify(d, o) == [d EXCEPT !.tracked = Tracked(@, o)]

Symbol == {"HIVE", "HBD"}
Nothing == [HIVE |-> 0, HBD |-> 0]
is_treasury(a) == a \in {TREASURY, OBSOLETE_TREASURY}

--------------------
(* Prices: base HBD are worth quote HIVE *)

ToHive(hbd, price) == (hbd * price.quote) \div price.base
ToHbd(hive, price) == (hive * price.base) \div price.quote
PriceLess(p, q) == p.base * q.quote < q.base * p.quote

get_hbd_price(d) == d.feed.current_median_history

\* The element at size / 2 of the sorted prices, counted from 0.
Sorted(prices) == SortSeq(prices, PriceLess)
MedianOf(prices) == Sorted(prices)[Len(prices) \div 2 + 1]

hbd_supply_without_treasury(d) == d.gpo.current_hbd_supply - d.acc[TREASURY].balance["HBD"]

\* The lowest price at which HBD are at most the hard limit of all tokens.
min_price(d) ==
  [base |-> (HIVE_100_PERCENT - HIVE_HBD_HARD_LIMIT) * hbd_supply_without_treasury(d),
   quote |-> HIVE_HBD_HARD_LIMIT * d.gpo.current_supply]

\* price is what the scheduled witnesses report.
update_median_feed(d, price) ==
  LET all == Append(d.feed.price_history, price)
      history == IF Len(all) > HIVE_FEED_HISTORY_WINDOW THEN Tail(all) ELSE all
      median == MedianOf(history)
      corrected == IF hbd_supply_without_treasury(d) > 0 /\ PriceLess(median, min_price(d))
                   THEN min_price(d) ELSE median
  IN  [d EXCEPT !.feed = [price_history |-> history, current_median_history |-> corrected,
                          market_median_history |-> median, current_min_history |-> Head(Sorted(history))]]

--------------------
(* Supply: dynamic_global_property_object *)

FullVirtualSupply(gpo, price) == ToHive(gpo.current_hbd_supply, price) + gpo.current_supply

issue_HIVE(d, amount) ==
  [d EXCEPT !.gpo.current_supply = @ + amount, !.gpo.virtual_supply = @ + amount]

burn_HIVE(d, amount) == issue_HIVE(d, -amount)

issue_HBD(d, amount) ==
  [d EXCEPT !.gpo.current_hbd_supply = @ + amount,
            !.gpo.virtual_supply = @ + ToHive(amount, get_hbd_price(d))]

burn_HBD(d, amount, full) ==
  LET burnt == [d.gpo EXCEPT !.current_hbd_supply = @ - amount]
      price == get_hbd_price(d)
  IN  [d EXCEPT !.gpo = [burnt EXCEPT !.virtual_supply =
         IF full THEN FullVirtualSupply(burnt, price) ELSE @ - ToHive(amount, price)]]

\* Mutant: the HIVE stays.
ConvertKeepsHive(d, hive, hbd) == [d EXCEPT !.gpo.current_hbd_supply = @ + hbd]

\* convert_HIVE_to_exact_HBD: the virtual supply is left alone.
convert_HIVE_to_exact_HBD(d, hive, hbd) ==
  [d EXCEPT !.gpo.current_hbd_supply = @ + hbd, !.gpo.current_supply = @ - hive]

\* Mutant: the virtual supply is never computed again.
ConvertUnsettled(d, hive, full) == convert_HIVE_to_exact_HBD(d, hive, ToHbd(hive, get_hbd_price(d)))

convert_HIVE_to_HBD(d, hive, full) ==
  LET converted == convert_HIVE_to_exact_HBD(d, hive, ToHbd(hive, get_hbd_price(d)))
  IN  IF full THEN [converted EXCEPT !.gpo.virtual_supply = FullVirtualSupply(converted.gpo, get_hbd_price(d))]
      ELSE converted

calculate_HBD_percent(d) ==
  LET hbd == Max({0, hbd_supply_without_treasury(d)})
      as_hive == ToHive(hbd, get_hbd_price(d))
      virtual == as_hive + d.gpo.current_supply
  IN  (as_hive * HIVE_100_PERCENT + virtual \div 2) \div virtual

VirtualSupply(d) == FullVirtualSupply(d.gpo, get_hbd_price(d))

update_virtual_supply(d) ==
  LET percent == calculate_HBD_percent(d)
  IN  [d EXCEPT !.gpo.virtual_supply = VirtualSupply(d),
                !.gpo.hbd_print_rate =
                  IF percent >= hbd_stop_percent THEN 0
                  ELSE IF percent <= hbd_start_percent THEN HIVE_100_PERCENT
                  ELSE ((hbd_stop_percent - percent) * HIVE_100_PERCENT)
                         \div (hbd_stop_percent - hbd_start_percent)]

--------------------
(* Vesting: HIVE in a fund, and shares of it *)

get_vesting_share_price(gpo) ==
  IF gpo.total_vesting_fund_hive = 0 \/ gpo.total_vesting_shares = 0 THEN [vests |-> 1000, hive |-> 1]
  ELSE [vests |-> gpo.total_vesting_shares, hive |-> gpo.total_vesting_fund_hive]

get_reward_vesting_share_price(gpo) ==
  [vests |-> gpo.total_vesting_shares + gpo.pending_rewarded_vesting_shares,
   hive |-> gpo.total_vesting_fund_hive + gpo.pending_rewarded_vesting_hive]

ToVests(hive, price) == (hive * price.vests) \div price.hive
VestsToHive(vests, price) == (vests * price.hive) \div price.vests

\* Mana grows to the cap, evenly over the regeneration time, and falls to it at once.
Regenerated(mana, cap, seconds) ==
  IF mana >= cap THEN cap
  ELSE Min({cap, mana + (cap * Min({seconds, HIVE_VOTING_MANA_REGENERATION_SECONDS}))
                          \div HIVE_VOTING_MANA_REGENERATION_SECONDS})

DownvotePool(vests) == (vests * downvote_pool_percent) \div HIVE_100_PERCENT

\* Both bars of a, which are always updated together; new VESTS come with mana.
update_manabar(d, a, new_mana) ==
  LET x == d.acc[a]
      seconds == d.gpo.time - x.mana_update
  IN  [d EXCEPT !.acc[a].voting_mana = Regenerated(@, x.vesting_shares, seconds) + new_mana,
                !.acc[a].downvote_mana = Regenerated(@, DownvotePool(x.vesting_shares), seconds) + DownvotePool(new_mana),
                !.acc[a].mana_update = d.gpo.time]

\* adjust_account_vesting_balance of HIVE that was already taken from somewhere.
create_vesting(d, a, hive) ==
  LET vests == ToVests(hive, get_vesting_share_price(d.gpo))
  IN  [update_manabar(d, a, vests) EXCEPT
                !.gpo.total_vesting_fund_hive = @ + hive, !.gpo.total_vesting_shares = @ + vests,
                !.acc[a].vesting_shares = @ + vests]

\* The same as a reward that has to be claimed.
create_reward_vesting(d, a, hive) ==
  LET vests == ToVests(hive, get_reward_vesting_share_price(d.gpo))
  IN  [d EXCEPT !.gpo.pending_rewarded_vesting_hive = @ + hive,
                !.gpo.pending_rewarded_vesting_shares = @ + vests,
                !.acc[a].vest_rewards = @ + vests, !.acc[a].vest_rewards_as_hive = @ + hive]

\* convert_VESTS_to_HIVE of all VESTS of a; the HIVE is for the caller.
AllVestsAsHive(d, a) == VestsToHive(d.acc[a].vesting_shares, get_vesting_share_price(d.gpo))
convert_VESTS_to_HIVE(d, a) ==
  [d EXCEPT !.gpo.total_vesting_fund_hive = @ - AllVestsAsHive(d, a),
            !.gpo.total_vesting_shares = @ - d.acc[a].vesting_shares,
            !.acc[a].vesting_shares = 0]

\* The HIVE behind the unclaimed VESTS of a is for the caller.
liquify_reward_balance(d, a) ==
  [d EXCEPT !.gpo.pending_rewarded_vesting_hive = @ - d.acc[a].vest_rewards_as_hive,
            !.gpo.pending_rewarded_vesting_shares = @ - d.acc[a].vest_rewards,
            !.acc[a].vest_rewards = 0, !.acc[a].vest_rewards_as_hive = 0]

--------------------
(* Balances of an account *)

\* A negative amount needs the balance: Covers is the assertion.
adjust_balance(d, a, symbol, amount) == [d EXCEPT !.acc[a].balance[symbol] = @ + amount]
Covers(d, a, symbol, amount) == d.acc[a].balance[symbol] >= amount

adjust_reward_balance(d, a, symbol, amount) == [d EXCEPT !.acc[a].rewards[symbol] = @ + amount]

\* HBD in savings earn interest: the time they were there is added up before
\* the balance changes, and paid for once in a while.
Interest(d, a, time) ==
  LET x == d.acc[a]
      seconds == x.hbd_seconds + x.savings["HBD"] * (time - x.hbd_seconds_last_update)
      paid == seconds > 0 /\ time - x.hbd_last_interest_payment > HIVE_HBD_INTEREST_COMPOUND_INTERVAL
      interest == ((seconds \div HIVE_SECONDS_PER_YEAR) * hbd_interest_rate) \div HIVE_100_PERCENT
  IN  IF x.hbd_seconds_last_update = time THEN d
      ELSE IF ~paid THEN [d EXCEPT !.acc[a].hbd_seconds = seconds, !.acc[a].hbd_seconds_last_update = time]
      ELSE [Notify(issue_HBD(d, interest), interest_operation(a, HBD_asset(interest), FALSE)) EXCEPT
              !.acc[a].savings["HBD"] = @ + interest, !.acc[a].hbd_seconds = 0,
              !.acc[a].hbd_seconds_last_update = time, !.acc[a].hbd_last_interest_payment = time]

adjust_savings_balance(d, a, symbol, amount, time) ==
  LET settled == IF symbol = "HBD" THEN Interest(d, a, time) ELSE d
  IN  [settled EXCEPT !.acc[a].savings[symbol] = @ + amount]

FreshLedgerAccount(balance) ==
  [balance |-> balance, savings |-> Nothing, rewards |-> Nothing,
   vesting_shares |-> 0, vest_rewards |-> 0, vest_rewards_as_hive |-> 0,
   hbd_seconds |-> 0, hbd_seconds_last_update |-> 0, hbd_last_interest_payment |-> 0,
   voting_mana |-> 0, downvote_mana |-> 0, mana_update |-> 0, last_post |-> 0, last_root_post |-> 0,
   last_post_edit |-> 0, pending_escrow_transfers |-> 0, savings_withdraw_requests |-> 0, open_recurrent_transfers |-> 0]

--------------------
(***************************************************************************)
(* Operations that move liquid tokens: transfers, savings, escrow,         *)
(* recurrent transfers, rewards and power up, and what a block does with   *)
(* the requests that are due; then the market, the conversions and the     *)
(* proposals of the treasury.  The fields of db that are owned here:       *)
(* escrow, savings_withdraw, recurrent_transfer, and those each later      *)
(* section names.                                                          *)
(***************************************************************************)

CONSTANTS
  HIVE_MAX_PENDING_TRANSFERS, HIVE_SAVINGS_WITHDRAW_REQUEST_LIMIT, HIVE_SAVINGS_WITHDRAW_TIME,
  HIVE_MAX_OPEN_RECURRENT_TRANSFERS, HIVE_MAX_RECURRENT_TRANSFER_END_DATE,
  HIVE_MAX_CONSECUTIVE_RECURRENT_TRANSFER_FAILURES, HIVE_MAX_RECURRENT_TRANSFERS_PER_BLOCK,
  Recurrence, Executions      \* what recurrent transfers ask for

ASSUME TransfersAssumption ==
  /\ {HIVE_MAX_PENDING_TRANSFERS, HIVE_SAVINGS_WITHDRAW_REQUEST_LIMIT, HIVE_SAVINGS_WITHDRAW_TIME,
      HIVE_MAX_OPEN_RECURRENT_TRANSFERS, HIVE_MAX_RECURRENT_TRANSFER_END_DATE,
      HIVE_MAX_CONSECUTIVE_RECURRENT_TRANSFER_FAILURES,
      HIVE_MAX_RECURRENT_TRANSFERS_PER_BLOCK} \subseteq Nat \ {0}
  /\ Recurrence \subseteq Nat \ {0} /\ Executions \subseteq Nat \ {0}

NoTransfers == [escrow |-> {}, savings_withdraw |-> {}, recurrent_transfer |-> {}]

--------------------
(* Transfers *)

\* Of HIVE and HBD; transfers of VESTS are in Governance.
\* HIVE for the treasury becomes HBD at once, without a full update of the
\* virtual supply when the amount is too small to give any.
Transfer(from, to, symbol, amount) ==
  /\ Covers(db, from, symbol, amount)
  /\ LET hbd == ToHbd(amount, get_hbd_price(db))
         taken == adjust_balance(db, from, symbol, -amount)
         moved == IF symbol = "HIVE" /\ is_treasury(to)
                  THEN Notify(adjust_balance(convert_HIVE_to_HBD(taken, amount, hbd > 0), to, "HBD", hbd),
                              dhf_conversion_operation(to, HIVE_asset(amount), HBD_asset(hbd)))
                  ELSE adjust_balance(taken, to, symbol, amount)
     IN  db' = Notify(moved, transfer_operation(from, to, Asset(symbol, amount)))
  /\ UNCHANGED <<now, world>>

TransferToVesting(from, to, amount) ==
  /\ ~is_treasury(to) /\ Covers(db, from, "HIVE", amount)
  /\ db' = Notify(create_vesting(adjust_balance(db, from, "HIVE", -amount), to, amount),
                  transfer_to_vesting_completed_operation(from, to, HIVE_asset(amount),
                    VEST_asset(ToVests(amount, get_vesting_share_price(db.gpo)))))
  /\ UNCHANGED <<now, world>>

\* Claimed VESTS take their part of the HIVE behind all unclaimed ones along.
ClaimRewardBalance(a, hive, hbd, vests) ==
  LET x == db.acc[a]
      moved == IF vests = x.vest_rewards THEN x.vest_rewards_as_hive
               ELSE (vests * x.vest_rewards_as_hive) \div x.vest_rewards
      seen == Notify(db, claim_reward_balance_operation(a, hive, hbd, vests))
      paid == adjust_balance(adjust_balance(adjust_reward_balance(adjust_reward_balance(seen,
                a, "HIVE", -hive), a, "HBD", -hbd), a, "HIVE", hive), a, "HBD", hbd)
  IN  /\ hive + hbd + vests > 0
      /\ hive <= x.rewards["HIVE"] /\ hbd <= x.rewards["HBD"] /\ vests <= x.vest_rewards
      /\ db' = [update_manabar(paid, a, vests) EXCEPT
                 !.acc[a].vesting_shares = @ + vests, !.acc[a].vest_rewards = @ - vests,
                 !.acc[a].vest_rewards_as_hive = @ - moved,
                 !.gpo.total_vesting_shares = @ + vests, !.gpo.total_vesting_fund_hive = @ + moved,
                 !.gpo.pending_rewarded_vesting_shares = @ - vests,
                 !.gpo.pending_rewarded_vesting_hive = @ - moved]
      /\ UNCHANGED <<now, world>>

--------------------
(* Savings *)

TransferToSavings(from, to, symbol, amount) ==
  /\ ~is_treasury(to) /\ Covers(db, from, symbol, amount)
  /\ db' = Notify(adjust_savings_balance(adjust_balance(db, from, symbol, -amount), to, symbol, amount, now),
                  transfer_to_savings_operation(from, to, Asset(symbol, amount)))
  /\ UNCHANGED <<now, world>>

NewWithdrawal(from, to, symbol, amount, request_id) ==
  [from |-> from, to |-> to, symbol |-> symbol, amount |-> amount, request_id |-> request_id,
   complete |-> now + HIVE_SAVINGS_WITHDRAW_TIME]

\* The limit and the savings are looked at before interest is added.
TransferFromSavings(from, to, symbol, amount, request_id) ==
  /\ db.acc[from].savings_withdraw_requests < HIVE_SAVINGS_WITHDRAW_REQUEST_LIMIT
  /\ symbol = "HBD" \/ ~is_treasury(to)
  /\ db.acc[from].savings[symbol] >= amount
  /\ \A s \in db.savings_withdraw : s.from # from \/ s.request_id # request_id
  /\ db' = [adjust_savings_balance(db, from, symbol, -amount, now) EXCEPT
              !.savings_withdraw = @ \union {NewWithdrawal(from, to, symbol, amount, request_id)},
              !.acc[from].savings_withdraw_requests = @ + 1]
  /\ UNCHANGED <<now, world>>

CancelTransferFromSavings(s) ==
  /\ db' = [adjust_savings_balance(db, s.from, s.symbol, s.amount, now) EXCEPT
              !.savings_withdraw = @ \ {s}, !.acc[s.from].savings_withdraw_requests = @ - 1]
  /\ UNCHANGED <<now, world>>

FillWithdrawal(d, s) ==
  [Notify(adjust_balance(d, s.to, s.symbol, s.amount),
          fill_transfer_from_savings_operation(s.from, s.to, Asset(s.symbol, s.amount))) EXCEPT
     !.savings_withdraw = @ \ {s}, !.acc[s.from].savings_withdraw_requests = @ - 1]

process_savings_withdraws(d, time) ==
  FoldSet(LAMBDA s, e : FillWithdrawal(e, s), d, {s \in d.savings_withdraw : s.complete <= time})

--------------------
(* Escrow *)

Balance(hive, hbd) == [HIVE |-> hive, HBD |-> hbd]
MoveAll(d, a, amounts) ==
  adjust_balance(adjust_balance(d, a, "HIVE", amounts["HIVE"]), a, "HBD", amounts["HBD"])

\* The fee is of one of the tokens.
FeeAsset(fee) == IF fee["HBD"] > 0 THEN HBD_asset(fee["HBD"]) ELSE HIVE_asset(fee["HIVE"])

ValidEscrow(from, to, agent, amounts, deadline, expiration) ==
  /\ amounts # Nothing /\ agent \notin {from, to} /\ deadline < expiration

NewEscrow(from, to, agent, escrow_id, amounts, fee, deadline, expiration) ==
  [from |-> from, to |-> to, agent |-> agent, escrow_id |-> escrow_id, balance |-> amounts, fee |-> fee,
   deadline |-> deadline, expiration |-> expiration, to_approved |-> FALSE, agent_approved |-> FALSE,
   disputed |-> FALSE]

EscrowTransfer(from, to, agent, escrow_id, amounts, fee, deadline, expiration) ==
  /\ ValidEscrow(from, to, agent, amounts, deadline, expiration)
  /\ deadline > now /\ expiration > now
  /\ db.acc[from].pending_escrow_transfers < HIVE_MAX_PENDING_TRANSFERS
  /\ Covers(db, from, "HIVE", amounts["HIVE"] + fee["HIVE"])
  /\ Covers(db, from, "HBD", amounts["HBD"] + fee["HBD"])
  /\ \A e \in db.escrow : e.from # from \/ e.escrow_id # escrow_id
  /\ db' = [Notify(MoveAll(MoveAll(db, from, [s \in Symbol |-> -amounts[s]]), from, [s \in Symbol |-> -fee[s]]),
                   escrow_transfer_operation(from, to, agent, amounts, FeeAsset(fee))) EXCEPT
              !.escrow = @ \union {NewEscrow(from, to, agent, escrow_id, amounts, fee, deadline, expiration)},
              !.acc[from].pending_escrow_transfers = @ + 1]
  /\ UNCHANGED <<now, world>>

is_approved(e) == e.to_approved /\ e.agent_approved

remove_escrow(d, e) ==
  [Notify(MoveAll(MoveAll(d, e.from, e.balance), e.from, e.fee),
          escrow_rejected_operation(e, e.balance, FeeAsset(e.fee))) EXCEPT
     !.escrow = @ \ {e}, !.acc[e.from].pending_escrow_transfers = @ - 1]

Replace(d, e, changed) == [d EXCEPT !.escrow = (@ \ {e}) \union {changed}]

\* The agent is paid when both approved.
EscrowApprove(e, who, approve) ==
  LET changed == [e EXCEPT !.to_approved = @ \/ who = e.to, !.agent_approved = @ \/ who = e.agent]
  IN  /\ who \in {e.to, e.agent}
      /\ e.deadline >= now
      /\ who = e.to => ~e.to_approved
      /\ who = e.agent => ~e.agent_approved
      /\ db' = IF ~approve THEN remove_escrow(db, e)
               ELSE IF ~is_approved(changed) THEN Replace(db, e, changed)
               ELSE Notify(MoveAll(Replace(db, e, [changed EXCEPT !.fee = Nothing]), e.agent, e.fee),
                           escrow_approved_operation(e, FeeAsset(e.fee)))
      /\ UNCHANGED <<now, world>>

EscrowDispute(e, who) ==
  /\ who \in {e.from, e.to}
  /\ now < e.expiration /\ is_approved(e) /\ ~e.disputed
  /\ db' = Replace(db, e, [e EXCEPT !.disputed = TRUE])
  /\ UNCHANGED <<now, world>>

\* In a dispute only the agent decides; otherwise one party gives to the other,
\* and after the expiration also to itself.
MayRelease(e, who, receiver) ==
  IF e.disputed THEN who = e.agent
  ELSE /\ who \in {e.from, e.to}
       /\ e.expiration > now => /\ who = e.from => receiver = e.to
                                /\ who # e.from => receiver = e.from

EscrowRelease(e, who, receiver, amounts) ==
  LET left == [s \in Symbol |-> e.balance[s] - amounts[s]]
      paid == Notify(MoveAll(db, receiver, amounts), escrow_release_operation(e, who, receiver, amounts))
  IN  /\ amounts # Nothing
      /\ \A s \in Symbol : left[s] >= 0
      /\ receiver \in {e.from, e.to} /\ is_approved(e)
      /\ MayRelease(e, who, receiver)
      /\ db' = IF left = Nothing
               THEN [paid EXCEPT !.escrow = @ \ {e}, !.acc[e.from].pending_escrow_transfers = @ - 1]
               ELSE Replace(paid, e, [e EXCEPT !.balance = left])
      /\ UNCHANGED <<now, world>>

expire_escrow_ratification(d, time) ==
  FoldSet(LAMBDA e, x : remove_escrow(x, e), d,
          {e \in d.escrow : ~is_approved(e) /\ e.deadline <= time})

--------------------
(* Recurrent transfers *)

get_final_trigger_date(r) == r.trigger_date + r.recurrence * (r.remaining_executions - 1)

\* Object ids only order what exists, so the next one need not be new for ever.
NextId(objects) == 1 + Max({0} \union {o.id : o \in objects})

\* The first payment is due at the end of the block that creates the transfer.
NewRecurrent(from, to, pair_id, symbol, amount, recurrence, executions) ==
  [from |-> from, to |-> to, pair_id |-> pair_id, symbol |-> symbol, amount |-> amount, recurrence |-> recurrence,
   remaining_executions |-> executions, consecutive_failures |-> 0, trigger_date |-> now,
   id |-> NextId(db.recurrent_transfer)]

\* by_from_to_id: the pair id tells the transfers between two accounts apart.
Recurrent(from, to, pair_id) == {r \in db.recurrent_transfer : r.from = from /\ r.to = to /\ r.pair_id = pair_id}

\* Amount 0 removes the transfer.  A change keeps the date of the next payment
\* unless the recurrence changes.
RecurrentTransfer(from, to, pair_id, symbol, amount, recurrence, executions) ==
  LET new == NewRecurrent(from, to, pair_id, symbol, amount, recurrence, executions)
      old == Recurrent(from, to, pair_id)
      Changed(r) == [new EXCEPT !.id = r.id, !.consecutive_failures = r.consecutive_failures,
                       !.trigger_date = IF r.recurrence = recurrence THEN r.trigger_date ELSE now + recurrence]
      Lasts(r) == get_final_trigger_date(r) <= now + HIVE_MAX_RECURRENT_TRANSFER_END_DATE
  IN  /\ from # to
      /\ Covers(db, from, symbol, amount) /\ executions >= 2
      /\ \/ /\ old = {}
            /\ db.acc[from].open_recurrent_transfers < HIVE_MAX_OPEN_RECURRENT_TRANSFERS
            /\ amount # 0 /\ Lasts(new)
            /\ db' = [db EXCEPT !.recurrent_transfer = @ \union {new},
                                !.acc[from].open_recurrent_transfers = @ + 1]
         \/ /\ old # {} /\ amount = 0
            /\ db' = [db EXCEPT !.recurrent_transfer = @ \ old,
                                !.acc[from].open_recurrent_transfers = @ - 1]
         \/ \E r \in old :
            /\ amount # 0 /\ Lasts(Changed(r))
            /\ db' = [db EXCEPT !.recurrent_transfer = (@ \ old) \union {Changed(r)}]
      /\ UNCHANGED <<now, world>>

\* One payment, or one failure; the last of either removes the transfer.
Execute(d, r) ==
  LET pays == Covers(d, r.from, r.symbol, r.amount)
      amount == Asset(r.symbol, r.amount)
      moved == IF pays
               THEN Notify(adjust_balance(adjust_balance(d, r.from, r.symbol, -r.amount), r.to, r.symbol, r.amount),
                           fill_recurrent_transfer_operation(r.from, r.to, amount))
               ELSE Notify(d, failed_recurrent_transfer_operation(r.from, r.to, amount))
      later == [r EXCEPT !.consecutive_failures = IF pays THEN 0 ELSE @ + 1,
                         !.trigger_date = @ + r.recurrence, !.remaining_executions = @ - 1]
      ends == \/ later.remaining_executions = 0
              \/ later.consecutive_failures >= HIVE_MAX_CONSECUTIVE_RECURRENT_TRANSFER_FAILURES
  IN  IF ends
      THEN [moved EXCEPT !.recurrent_transfer = @ \ {r}, !.acc[r.from].open_recurrent_transfers = @ - 1]
      ELSE [moved EXCEPT !.recurrent_transfer = (@ \ {r}) \union {later}]

NoTransfer == [id |-> 0]

\* The order of by_trigger_date; NoTransfer is its end.
NextRecurrent(d, after, time) ==
  LET Before(r, s) == r.trigger_date < s.trigger_date \/ (r.trigger_date = s.trigger_date /\ r.id < s.id)
      due == {r \in d.recurrent_transfer : r.trigger_date <= time /\ (after # NoTransfer => Before(after, r))}
  IN  IF due = {} THEN NoTransfer ELSE CHOOSE r \in due : \A s \in due \ {r} : Before(r, s)

\* The iterator moves on before its object is changed.
process_recurrent_transfers(d, time) ==
  LET run[i \in 0..HIVE_MAX_RECURRENT_TRANSFERS_PER_BLOCK] ==
        IF i = 0 THEN [d |-> d, current |-> NextRecurrent(d, NoTransfer, time)]
        ELSE LET s == run[i - 1]
             IN  IF s.current = NoTransfer THEN s
                 ELSE [d |-> Execute(s.d, s.current), current |-> NextRecurrent(s.d, s.current, time)]
  IN  run[HIVE_MAX_RECURRENT_TRANSFERS_PER_BLOCK].d

--------------------
(***************************************************************************)
(* The internal market of HIVE and HBD.  An order sells base of one token  *)
(* for quote of the other; a new order is matched at the prices of the old *)
(* ones, best first.  The field of db owned here: limit_order.             *)
(***************************************************************************)

CONSTANTS HIVE_MAX_LIMIT_ORDER_EXPIRATION

ASSUME MarketAssumption == HIVE_MAX_LIMIT_ORDER_EXPIRATION \in Nat \ {0}

NoOrders == [limit_order |-> {}]

Other(symbol) == IF symbol = "HIVE" THEN "HBD" ELSE "HIVE"

NewOrder(seller, orderid, symbol, amount, quote, expiration) ==
  [seller |-> seller, orderid |-> orderid, symbol |-> symbol, for_sale |-> amount, base |-> amount,
   quote |-> quote, expiration |-> expiration, id |-> NextId(db.limit_order)]

\* What an amount of the sold token brings, and what one of the bought token costs.
Receives(order, amount) == (amount * order.quote) \div order.base
Costs(order, amount) == (amount * order.base) \div order.quote

\* An old order that sells what the new one buys, at a price not above the limit.
Matches(new, old) ==
  /\ old.symbol = Other(new.symbol)
  /\ old.base * new.base >= old.quote * new.quote

\* The order of by_price: the best for the buyer first, then the oldest.
Best(orders) ==
  CHOOSE o \in orders : \A p \in orders \ {o} :
    \/ p.base * o.quote < o.base * p.quote
    \/ p.base * o.quote = o.base * p.quote /\ o.id < p.id

cancel_order(d, order) ==
  [Notify(adjust_balance(d, order.seller, order.symbol, order.for_sale),
          limit_order_cancelled_operation(order.seller, Asset(order.symbol, order.for_sale))) EXCEPT
     !.limit_order = @ \ {order}]

\* The seller gets its part; a rest too small to sell for anything is given back.
fill_order(d, order, pays, receives) ==
  LET left == [order EXCEPT !.for_sale = @ - pays]
      paid == [adjust_balance(d, order.seller, Other(order.symbol), receives) EXCEPT
                 !.limit_order = (@ \ {order}) \union {left}]
  IN  IF left.for_sale = 0 THEN [paid EXCEPT !.limit_order = @ \ {left}]
      ELSE IF Receives(left, left.for_sale) = 0 THEN cancel_order(paid, left) ELSE paid

Holds(d, id) == {o \in d.limit_order : o.id = id}

\* One of the two orders is filled at the price of the old one.  asserted: an
\* assertion of match failed, so that the operation was refused.
match(d, new, old) ==
  LET whole == new.for_sale <= Receives(old, old.for_sale)
      new_receives == IF whole THEN Costs(old, new.for_sale) ELSE old.for_sale
      old_receives == IF whole THEN new.for_sale ELSE Receives(old, old.for_sale)
      seen == Notify(d, fill_order_operation(new.seller, Asset(new.symbol, old_receives),
                                             old.seller, Asset(old.symbol, new_receives)))
      filled == fill_order(fill_order(seen, new, old_receives, new_receives), old, new_receives, old_receives)
  IN  [filled EXCEPT !.asserted = @ \/ (Holds(filled, new.id) # {} /\ Holds(filled, old.id) # {})
                                     \/ (old_receives # new.for_sale /\ new_receives # old.for_sale)]

MeetAtMost(d) == Cardinality(d.limit_order)

\* Every old order within the limit is met once, until the new order is gone.
apply_order(d, order) ==
  LET n == MeetAtMost(d)
      run[i \in 0..n] ==
        IF i = 0 THEN d
        ELSE LET e == run[i - 1]
                 new == Holds(e, order.id)
                 old == {o \in e.limit_order : Matches(order, o)}
             IN  IF new = {} \/ old = {} THEN e ELSE match(e, CHOOSE o \in new : TRUE, Best(old))
  IN  run[n]

\* limit_order_create and limit_order_create2, whose price is given by quote.
LimitOrderCreate(seller, orderid, symbol, amount, quote, expiration, fill_or_kill) ==
  LET order == NewOrder(seller, orderid, symbol, amount, quote, expiration)
      seen == Notify(db, limit_order_create_operation(seller, Asset(symbol, amount)))
      created == [adjust_balance(seen, seller, symbol, -amount) EXCEPT !.limit_order = @ \union {order}]
      applied == apply_order(created, order)
  IN  /\ expiration > now /\ expiration <= now + HIVE_MAX_LIMIT_ORDER_EXPIRATION
      /\ Covers(db, seller, symbol, amount)
      /\ \A o \in db.limit_order : o.seller # seller \/ o.orderid # orderid
      /\ fill_or_kill => Holds(applied, order.id) = {}
      /\ db' = applied
      /\ UNCHANGED <<now, world>>

LimitOrderCancel(order) ==
  /\ db' = cancel_order(db, order)
  /\ UNCHANGED <<now, world>>

clear_expired_orders(d, time) ==
  FoldSet(LAMBDA o, e : cancel_order(e, o), d, {o \in d.limit_order : o.expiration < time})

--------------------
(***************************************************************************)
(* Conversion of HBD to HIVE after a delay at the price of that time, and  *)
(* of HIVE to HBD at once against collateral, settled after the same       *)
(* delay.  The fields of db owned here: convert_request and                *)
(* collateralized_convert_request.                                         *)
(***************************************************************************)

CONSTANTS
  HIVE_CONVERSION_DELAY, HIVE_COLLATERALIZED_CONVERSION_DELAY,
  HIVE_CONVERSION_COLLATERAL_RATIO, HIVE_COLLATERALIZED_CONVERSION_FEE

ASSUME ConversionsAssumption ==
  /\ {HIVE_CONVERSION_DELAY, HIVE_COLLATERALIZED_CONVERSION_DELAY,
      HIVE_COLLATERALIZED_CONVERSION_FEE} \subseteq Nat \ {0}
  /\ HIVE_CONVERSION_COLLATERAL_RATIO \in Nat /\ HIVE_CONVERSION_COLLATERAL_RATIO >= HIVE_100_PERCENT

NoConversions == [convert_request |-> {}, collateralized_convert_request |-> {}]

\* multiply_with_fee: the fee makes HIVE dearer in both directions.
ToHbdWithFee(hive, price) ==
  (hive * price.base * HIVE_100_PERCENT)
    \div (price.quote * (HIVE_100_PERCENT + HIVE_COLLATERALIZED_CONVERSION_FEE))
ToHiveWithFee(hbd, price) ==
  (hbd * price.quote * (HIVE_100_PERCENT + HIVE_COLLATERALIZED_CONVERSION_FEE))
    \div (price.base * HIVE_100_PERCENT)

Free(requests, owner, requestid) == \A r \in requests : r.owner # owner \/ r.requestid # requestid

NewRequest(owner, amount, requestid) ==
  [owner |-> owner, requestid |-> requestid, amount |-> amount, date |-> now + HIVE_CONVERSION_DELAY]

Convert(owner, amount, requestid) ==
  /\ Covers(db, owner, "HBD", amount) /\ Free(db.convert_request, owner, requestid)
  /\ db' = [Notify(adjust_balance(db, owner, "HBD", -amount), convert_operation(owner, HBD_asset(amount))) EXCEPT
              !.convert_request = @ \union {NewRequest(owner, amount, requestid)}]
  /\ UNCHANGED <<now, world>>

NewCollateralizedRequest(owner, amount, converted, requestid) ==
  [owner |-> owner, requestid |-> requestid, collateral |-> amount, converted |-> converted,
   date |-> now + HIVE_COLLATERALIZED_CONVERSION_DELAY]

\* The HBD are there at once; the HIVE for them are burnt when it is settled.
CollateralizedConvert(owner, amount, requestid) ==
  LET immediate == (amount * HIVE_100_PERCENT) \div HIVE_CONVERSION_COLLATERAL_RATIO
      converted == ToHbdWithFee(immediate, db.feed.current_min_history)
      issued == adjust_balance(issue_HBD(adjust_balance(db, owner, "HIVE", -amount), converted),
                               owner, "HBD", converted)
  IN  /\ Covers(db, owner, "HIVE", amount) /\ db.gpo.hbd_print_rate > 0
      /\ converted > 0 /\ calculate_HBD_percent(issued) <= hbd_stop_percent
      /\ Free(db.collateralized_convert_request, owner, requestid)
      /\ db' = [Notify(Notify(issued, collateralized_convert_operation(owner, HIVE_asset(amount))),
                       collateralized_convert_immediate_conversion_operation(owner, HBD_asset(converted))) EXCEPT
                  !.collateralized_convert_request = @ \union
                    {NewCollateralizedRequest(owner, amount, converted, requestid)}]
      /\ UNCHANGED <<now, world>>

\* Mutant: a shortfall takes more than the collateral.
RequiredBeyondCollateral(d, r) == ToHiveWithFee(r.converted, d.feed.market_median_history)

\* What is burnt of the collateral: at most all of it.
RequiredHive(d, r) ==
  Min({r.collateral, ToHiveWithFee(r.converted, d.feed.market_median_history)})

\* Everything that is due is collected, the difference issued or burnt, and
\* then paid out.
process_conversions(d, time) ==
  LET due == {r \in d.convert_request : r.date <= time}
      settled == {r \in d.collateralized_convert_request : r.date <= time}
      hive_to_issue == SumOver(due, LAMBDA r : ToHive(r.amount, get_hbd_price(d)))
                         - SumOver(settled, LAMBDA r : RequiredHive(d, r))
      hive_balance == SumOver(settled, LAMBDA r : r.collateral)
      hbd_balance == SumOver(due, LAMBDA r : r.amount)
      supply == burn_HBD(issue_HIVE(d, hive_to_issue), hbd_balance, FALSE)
      Give(e, owner, hive, o) == Notify(adjust_balance(e, owner, "HIVE", hive), o)
      paid == FoldSet(LAMBDA r, e : LET hive == ToHive(r.amount, get_hbd_price(d)) IN
                        Give(e, r.owner, hive, fill_convert_request_operation(r.owner, HBD_asset(r.amount), HIVE_asset(hive))),
                      supply, due)
      returned == FoldSet(LAMBDA r, e : LET hive == r.collateral - RequiredHive(d, r) IN
                            Give(e, r.owner, hive, fill_collateralized_convert_request_operation(r.owner,
                              HIVE_asset(RequiredHive(d, r)), HBD_asset(r.converted), HIVE_asset(hive))),
                          paid, settled)
  IN  [returned EXCEPT !.convert_request = @ \ due, !.collateralized_convert_request = @ \ settled,
                       !.asserted = @ \/ hive_balance + hive_to_issue < 0]

--------------------
(***************************************************************************)
(* Proposals, votes for them, and what the treasury pays: dhf_evaluator,   *)
(* dhf_helper and dhf_processor.  The fields of db owned here: proposal    *)
(* and proposal_vote, and the maintenance times of gpo.                    *)
(*                                                                         *)
(* The power of a voter is what it has vested: delays and proxies are in   *)
(* Governance.  That a proposal names a post of its creator or receiver is *)
(* not modelled.                                                           *)
(***************************************************************************)

CONSTANTS
  HIVE_TREASURY_FEE, HIVE_PROPOSAL_FEE_INCREASE_DAYS, HIVE_PROPOSAL_FEE_INCREASE_AMOUNT,
  HIVE_ONE_DAY_SECONDS, HIVE_PROPOSAL_MAINTENANCE_CLEANUP, HIVE_PROPOSAL_MAINTENANCE_PERIOD,
  HIVE_DAILY_PROPOSAL_MAINTENANCE_PERIOD, HIVE_PROPOSAL_CONVERSION_RATE, HIVE_MIN_PAYOUT_HBD,
  total_amount_divider, remove_threshold

ASSUME TreasuryAssumption ==
  /\ {HIVE_ONE_DAY_SECONDS, HIVE_PROPOSAL_MAINTENANCE_PERIOD, HIVE_DAILY_PROPOSAL_MAINTENANCE_PERIOD,
      total_amount_divider, remove_threshold} \subseteq Nat \ {0}
  /\ {HIVE_TREASURY_FEE, HIVE_PROPOSAL_FEE_INCREASE_DAYS, HIVE_PROPOSAL_FEE_INCREASE_AMOUNT,
      HIVE_PROPOSAL_MAINTENANCE_CLEANUP, HIVE_MIN_PAYOUT_HBD} \subseteq Nat
  /\ HIVE_PROPOSAL_CONVERSION_RATE \in 0..HIVE_100_PERCENT

NoProposals == [proposal |-> {}, proposal_vote |-> {}]

--------------------
(* Operations *)

ProposalFee(start_date, end_date) ==
  LET run_time == end_date - start_date
      increase_from == HIVE_PROPOSAL_FEE_INCREASE_DAYS * HIVE_ONE_DAY_SECONDS
  IN  HIVE_TREASURY_FEE + IF run_time > increase_from
                          THEN HIVE_PROPOSAL_FEE_INCREASE_AMOUNT *
                                 (run_time \div HIVE_ONE_DAY_SECONDS - HIVE_PROPOSAL_FEE_INCREASE_DAYS)
                          ELSE 0

\* paid and since are history: what the proposal received since the start of an
\* unbroken row of full payments, and where that row began.
NewProposal(creator, receiver, start_date, end_date, daily_pay) ==
  [id |-> NextId(db.proposal), creator |-> creator, receiver |-> receiver, start_date |-> start_date,
   end_date |-> end_date, daily_pay |-> daily_pay, total_votes |-> 0, removed |-> FALSE, paid |-> 0, since |-> -1]

CreateProposal(creator, receiver, start_date, end_date, daily_pay) ==
  LET fee == ProposalFee(start_date, end_date)
  IN  /\ start_date < end_date /\ end_date > now
      /\ Covers(db, creator, "HBD", fee)
      /\ db' = [Notify(adjust_balance(adjust_balance(db, creator, "HBD", -fee), TREASURY, "HBD", fee),
                       proposal_fee_operation(creator, TREASURY, HBD_asset(fee))) EXCEPT
                  !.proposal = @ \union {NewProposal(creator, receiver, start_date, end_date, daily_pay)}]
      /\ UNCHANGED <<now, world>>

ReplaceProposal(d, p, changed) == [d EXCEPT !.proposal = (@ \ {p}) \union {changed}]

UpdateProposal(p, daily_pay, end_date) ==
  /\ daily_pay <= p.daily_pay
  /\ end_date # p.end_date => end_date < p.end_date /\ end_date > p.start_date
  /\ db' = ReplaceProposal(db, p, [p EXCEPT !.daily_pay = daily_pay, !.end_date = end_date, !.since = -1])
  /\ UNCHANGED <<now, world>>

UpdateProposalVotes(voter, ps, approve) ==
  /\ \A p \in ps : ~p.removed /\ now <= p.end_date
  /\ db' = [db EXCEPT !.proposal_vote =
              LET cast == {[proposal_id |-> p.id, voter |-> voter] : p \in ps}
              IN  IF approve THEN @ \union cast ELSE @ \ cast]
  /\ UNCHANGED <<now, world>>

\* remove_guard: votes go first, and the proposal only while the limit lasts.
\* Which votes go first is the order of names.
remove_proposal(s, p) ==
  LET votes == {v \in s.d.proposal_vote : v.proposal_id = p.id}
      n == Min({s.limit, Cardinality(votes)})
      gone == CHOOSE vs \in SUBSET votes : Cardinality(vs) = n
      d == [s.d EXCEPT !.proposal_vote = @ \ gone]
  IN  IF s.limit > n THEN [d |-> [d EXCEPT !.proposal = @ \ {p}], limit |-> s.limit - n - 1]
      ELSE [d |-> d, limit |-> 0]

Marked(p, time) == [p EXCEPT !.removed = TRUE, !.end_date = time - HIVE_PROPOSAL_MAINTENANCE_CLEANUP]

\* The owner is looked at only while the limit lasts (until hardfork 31).
RemoveProposal(owner, ps) ==
  LET order == SetToSortSeq(ps, LAMBDA p, q : p.id < q.id)
      run[i \in 0..Len(order)] ==
        IF i = 0 THEN [d |-> db, limit |-> remove_threshold, refused |-> FALSE]
        ELSE LET s == run[i - 1]
                 p == order[i]
                 t == remove_proposal(s, p)
                 d == IF p \in t.d.proposal /\ ~p.removed THEN ReplaceProposal(t.d, p, Marked(p, now)) ELSE t.d
             IN  [d |-> d, limit |-> t.limit, refused |-> s.refused \/ (s.limit > 0 /\ p.creator # owner)]
  IN  /\ ~run[Len(order)].refused
      /\ db' = run[Len(order)].d
      /\ UNCHANGED <<now, world>>

--------------------
(* Every block *)

\* The order of by_end_date; the rest waits for the next block.
remove_old_proposals(d, time) ==
  LET order == SetToSortSeq({p \in d.proposal : p.end_date <= time},
                            LAMBDA p, q : p.end_date < q.end_date \/ (p.end_date = q.end_date /\ p.id < q.id))
      run[i \in 0..Len(order)] ==
        IF i = 0 THEN [d |-> d, limit |-> remove_threshold]
        ELSE LET s == run[i - 1]
             IN  IF s.limit = 0 \/ ~order[i].removed THEN s ELSE remove_proposal(s, order[i])
  IN  run[Len(order)].d

is_maintenance_period(d, time) == d.gpo.next_maintenance_time <= time

\* What the blocks gave since the last time is reported at once.
record_funding(d, time) ==
  IF is_maintenance_period(d, time) /\ d.gpo.dhf_interval_ledger > 0
  THEN [Notify(d, dhf_funding_operation(TREASURY, HBD_asset(d.gpo.dhf_interval_ledger))) EXCEPT
          !.gpo.dhf_interval_ledger = 0]
  ELSE d

convert_funds(d, time) ==
  LET hive == (HIVE_PROPOSAL_CONVERSION_RATE * d.acc[TREASURY].balance["HIVE"]) \div HIVE_100_PERCENT
      hbd == ToHbd(hive, get_hbd_price(d))
      next == [d EXCEPT !.gpo.next_daily_maintenance_time = time + HIVE_DAILY_PROPOSAL_MAINTENANCE_PERIOD]
  IN  IF d.gpo.next_daily_maintenance_time > time THEN d
      ELSE IF d.acc[TREASURY].balance["HIVE"] = 0 \/ hbd < HIVE_MIN_PAYOUT_HBD THEN next
      ELSE Notify(adjust_balance(convert_HIVE_to_HBD(adjust_balance(next, TREASURY, "HIVE", -hive), hive, TRUE),
                                 TREASURY, "HBD", hbd),
                  dhf_conversion_operation(TREASURY, HIVE_asset(hive), HBD_asset(hbd)))

calculate_votes(d, p) ==
  SumOver({v \in d.proposal_vote : v.proposal_id = p.id}, LAMBDA v : d.acc[v.voter].vesting_shares)

sort_by_votes(proposals) ==
  SetToSortSeq(proposals, LAMBDA p, q : p.total_votes > q.total_votes
                                        \/ (p.total_votes = q.total_votes /\ p.id < q.id))

calculate_maintenance_budget(d, time) ==
  ((d.acc[TREASURY].balance["HBD"] \div total_amount_divider) * (time - d.gpo.last_budget_time))
    \div HIVE_ONE_DAY_SECONDS

\* The difference of two totals since the start, so that nothing is lost to rounding.
period_pay(d, p, time) ==
  LET from == Max({d.gpo.last_budget_time, p.start_date})
      Total(t) == ((t - p.start_date) * p.daily_pay) \div HIVE_ONE_DAY_SECONDS
  IN  Total(time) - Total(from)

Pay(d, p, amount) ==
  [Notify(adjust_balance(adjust_balance(d, TREASURY, "HBD", -amount), p.receiver, "HBD", amount),
          proposal_pay_operation(p.receiver, TREASURY, HBD_asset(amount))) EXCEPT
     !.asserted = @ \/ amount > d.acc[TREASURY].balance["HBD"]]

\* The best proposals first, until the budget of the period is used up.
transfer_payments(d, time, budget, order) ==
  LET Row(p, full) == IF full THEN [p EXCEPT !.paid = (IF p.since = -1 THEN 0 ELSE @) + period_pay(d, p, time),
                                             !.since = IF @ = -1 THEN Max({d.gpo.last_budget_time, p.start_date}) ELSE @]
                      ELSE [p EXCEPT !.paid = 0, !.since = -1]
      Step(s, p) ==
        IF s.limit = 0 \/ p.total_votes = 0 THEN [d |-> ReplaceProposal(s.d, p, Row(p, FALSE)), limit |-> 0]
        ELSE LET pay == period_pay(d, p, time)
             IN  IF pay >= s.limit
                 THEN [d |-> Pay(ReplaceProposal(s.d, p, Row(p, pay = s.limit)), p, s.limit), limit |-> 0]
                 ELSE [d |-> Pay(ReplaceProposal(s.d, p, Row(p, TRUE)), p, pay), limit |-> s.limit - pay]
  IN  FoldLeft(Step, [d |-> d, limit |-> budget], order).d

make_payments(d, time) ==
  LET ended == {p \in d.proposal : p.end_date < time /\ p.start_date <= time}
      counted == [d EXCEPT !.proposal = ended \union {[p EXCEPT !.total_votes = calculate_votes(d, p)] :
                                                        p \in d.proposal \ ended}]
      active == {p \in counted.proposal : p.start_date <= time /\ time <= p.end_date}
      paid == IF active = {} THEN counted
              ELSE transfer_payments(counted, time, calculate_maintenance_budget(d, time), sort_by_votes(active))
  IN  IF ~is_maintenance_period(d, time) THEN d
      ELSE [paid EXCEPT !.gpo.last_budget_time = time,
                        !.gpo.next_maintenance_time = time + HIVE_PROPOSAL_MAINTENANCE_PERIOD]

process_proposals(d, time) ==
  make_payments(convert_funds(record_funding(remove_old_proposals(d, time), time), time), time)
====
