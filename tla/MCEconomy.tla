------------------------------- MODULE MCEconomy -------------------------------
EXTENDS Economy

Base(accounts, balance, vests) ==
  LET special == {"null", "omnibus", "dao"}
      all == accounts \union special
      ids == SetToSeq(all)
      Own(a) == [id |-> CHOOSE i \in DOMAIN ids : ids[i] = a] @@
                IF a \in accounts THEN [FreshLedgerAccount(balance) EXCEPT
                                           !.vesting_shares = vests, !.voting_mana = vests, !.downvote_mana = DownvotePool(vests)]
                ELSE FreshLedgerAccount(Nothing)
      n == Cardinality(accounts)
  IN  [accounts |-> accounts, acc |-> [a \in all |-> Own(a)],
       gpo |-> [current_supply |-> n * (balance["HIVE"] + vests), current_hbd_supply |-> n * balance["HBD"],
                virtual_supply |-> n * (balance["HIVE"] + vests + 2 * balance["HBD"]), hbd_print_rate |-> 100,
                total_vesting_fund_hive |-> n * vests, total_vesting_shares |-> n * vests,
                pending_rewarded_vesting_hive |-> 0, pending_rewarded_vesting_shares |-> 0,
                dhf_interval_ledger |-> 0, next_maintenance_time |-> 0, last_budget_time |-> 0,
                next_daily_maintenance_time |-> 0, head_block_num |-> 0, time |-> 0],
       reward_fund |-> [reward_balance |-> 0, recent_claims |-> 6, last_update |-> 0],
       permlinks |-> {}, weights |-> {}, options |-> {},
       price |-> [base |-> 1, quote |-> 2],
       ids |-> {1}, times |-> {1, 2, 3}, amounts |-> {}, prices |-> {}, witnesses |-> {"alice"}, last |-> 3,
       schedule |-> [num_scheduled_witnesses |-> 1, weight |-> 1, witness_pay_normalization_factor |-> 1],
       operations |-> {}, transactions |-> 4]

\* The account starts with an amount of a token as well.
Funded(w, a, symbol, amount) ==
  [w EXCEPT !.acc[a].balance[symbol] = @ + amount,
            !.gpo.current_supply = IF symbol = "HIVE" THEN @ + amount ELSE @,
            !.gpo.current_hbd_supply = IF symbol = "HBD" THEN @ + amount ELSE @,
            !.gpo.virtual_supply = @ + (IF symbol = "HBD" THEN 2 ELSE 1) * amount]

All(operations, accounts) == operations \X accounts

Two == {"alice", "bob"}

TransferWorld ==
  [Base(Two, [HIVE |-> 10, HBD |-> 7], 20) EXCEPT
     !.accounts = Two \union {"null", "omnibus", "dao"}, !.amounts = {3}, !.transactions = 3,
     !.operations = All({"transfer", "power_up", "save"}, {"alice"}), !.times = {1, 2}, !.last = 2]

SavingsWorld ==
  [Base(Two, [HIVE |-> 4, HBD |-> 9], 20) EXCEPT
     !.accounts = Two, !.amounts = {4}, !.ids = {1, 2},
     !.operations = All({"save", "unsave"}, {"alice"}), !.times = {1, 2, 4}, !.last = 4]

EscrowWorld ==
  [Base(Two \union {"carol"}, [HIVE |-> 5, HBD |-> 5], 20) EXCEPT
     !.amounts = {2}, !.operations = {<<"escrow", "alice">>} \union All({"approve", "dispute", "release"}, Two \union {"carol"}),
     !.times = {1, 2, 3}, !.last = 3]

RecurrentWorld ==
  [Base(Two \union {"carol"}, [HIVE |-> 3, HBD |-> 0], 20) EXCEPT
     !.amounts = {2}, !.operations = All({"recur"}, Two), !.times = {1, 3, 4}, !.last = 4, !.transactions = 3]

\* Recurrent transfers, told apart by their pair id, bring HIVE to the treasury.
TreasuryWorld ==
  [Base(Two, [HIVE |-> 9, HBD |-> 1], 20) EXCEPT
     !.accounts = {"alice", "omnibus"}, !.ids = {0, 1}, !.amounts = {3}, !.operations = All({"recur"}, {"alice"}),
     !.times = {1, 2, 3, 4}, !.last = 4, !.transactions = 3]

MarketWorld ==
  [Base(Two \union {"carol"}, [HIVE |-> 4, HBD |-> 4], 20) EXCEPT
     !.amounts = {1, 3}, !.operations = All({"order"}, Two \union {"carol"}), !.times = {1, 3}, !.last = 3,
     !.transactions = 3]

ConvertWorld ==
  [Base(Two, [HIVE |-> 20, HBD |-> 7], 20) EXCEPT
     !.amounts = {3, 10}, !.operations = All({"convert"}, {"alice"}), !.prices = {[base |-> 1, quote |-> 9], [base |-> 2, quote |-> 3]},
     !.times = {1, 2, 3}, !.last = 3]

ProposalWorld ==
  [Funded(Base(Two, [HIVE |-> 0, HBD |-> 5], 20), "omnibus", "HBD", 30) EXCEPT
     !.amounts = {5}, !.operations = {<<"propose", "alice">>} \union All({"vote_proposal"}, Two),
     !.times = {1, 2, 4}, !.last = 4]

UpdateWorld ==
  [Funded(Base(Two, [HIVE |-> 0, HBD |-> 3], 20), "omnibus", "HBD", 30) EXCEPT
     !.amounts = {3, 5}, !.operations = {<<"propose", "alice">>, <<"vote_proposal", "bob">>},
     !.times = {1, 2, 4}, !.last = 4, !.transactions = 3]

ClaimWorld ==
  LET b == Base(Two, [HIVE |-> 10, HBD |-> 7], 20)
      Rich(x) == [x EXCEPT !.rewards = [HIVE |-> 2, HBD |-> 1], !.vest_rewards = 3, !.vest_rewards_as_hive = 4]
  IN  [b EXCEPT !.acc = [a \in DOMAIN @ |-> IF is_treasury(a) THEN @[a] ELSE Rich(@[a])],
         !.gpo.current_supply = @ + 6 * 3, !.gpo.current_hbd_supply = @ + 3,
         !.gpo.virtual_supply = @ + 6 * 3 + 6,
         !.gpo.pending_rewarded_vesting_hive = 12, !.gpo.pending_rewarded_vesting_shares = 9,
         !.schedule = [num_scheduled_witnesses |-> 2, weight |-> 3, witness_pay_normalization_factor |-> 4],
         !.amounts = {1, 2}, !.operations = All({"claim"}, Two), !.times = {1, 2}, !.last = 2]

AllOptions ==
  [percent_hbd : {100}, max_payout : {100}, allow_votes : {TRUE}, allow_curation : BOOLEAN,
   beneficiaries : {{}, {[account |-> "carol", weight |-> 40], [account |-> "omnibus", weight |-> 30]}}]

\* Votes are placed, changed and taken back on two comments.
VoteWorld ==
  [Base(Two, [HIVE |-> 5, HBD |-> 0], 40) EXCEPT
     !.permlinks = {"p"}, !.weights = {100, 0, -100}, !.transactions = 4, !.reward_fund.reward_balance = 30,
     !.gpo.current_supply = @ + 30, !.gpo.virtual_supply = @ + 30,
     !.operations = All({"comment", "vote"}, Two), !.times = {2, 3, 5, 6}, !.last = 6]

\* Replies come and go while their parents are paid.
ReplyWorld ==
  [Base(Two, [HIVE |-> 5, HBD |-> 0], 40) EXCEPT
     !.permlinks = {"p", "q"}, !.weights = {100, -100}, !.transactions = 4,
     !.operations = All({"comment", "delete"}, Two) \union {<<"vote", "bob">>}, !.times = {2, 5, 6}, !.last = 6]

\* Options and beneficiaries.
OptionWorld ==
  [Base(Two \union {"carol"}, [HIVE |-> 5, HBD |-> 0], 40) EXCEPT
     !.permlinks = {"p"}, !.weights = {100}, !.transactions = 4, !.reward_fund.reward_balance = 90, !.options = AllOptions,
     !.gpo.current_supply = @ + 90, !.gpo.virtual_supply = @ + 90,
     !.operations = All({"comment", "options"}, {"alice"}) \union {<<"vote", "bob">>, <<"vote", "carol">>},
     !.times = {2, 3, 5, 6}, !.last = 6]

EconomyWorlds == {TransferWorld, SavingsWorld, EscrowWorld, RecurrentWorld, TreasuryWorld, MarketWorld,
                  ConvertWorld, ProposalWorld, UpdateWorld, ClaimWorld, VoteWorld, ReplyWorld, OptionWorld}
===============================================================================
