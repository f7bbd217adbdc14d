---- MODULE Economy ----
(***************************************************************************)
(* Comments, votes and what they earn: hive_evaluator_social,              *)
(* database_comment and util/reward; then the whole economy, one block     *)
(* after another.  The fields of db owned here: comment, comment_cashout,  *)
(* comment_vote and reward_fund.                                           *)
(*                                                                         *)
(* A comment waits for its payout while it has a comment_cashout.  Titles, *)
(* bodies and metadata are not part of the chain state.  The effective     *)
(* VESTS of a voter are its own: delegations are in Governance.            *)
(***************************************************************************)
EXTENDS Ledger

CONSTANTS
  HIVE_SOFT_MAX_COMMENT_DEPTH, HIVE_MIN_ROOT_COMMENT_INTERVAL, HIVE_MIN_REPLY_INTERVAL,
  HIVE_MIN_COMMENT_EDIT_INTERVAL, HIVE_CASHOUT_WINDOW_SECONDS, HIVE_UPVOTE_LOCKOUT_SECONDS,
  vote_power_reserve_rate, PIXA_HF30_VOTE_DUST_THRESHOLD, early_voting_seconds, mid_voting_seconds,
  HIVE_RECENT_RSHARES_DECAY_TIME_HF19, percent_curation_rewards, content_constant,
  MAX_ACCEPTED_PAYOUT     \* of a new comment

ASSUME ContentAssumption ==
  /\ {HIVE_CASHOUT_WINDOW_SECONDS, HIVE_UPVOTE_LOCKOUT_SECONDS, vote_power_reserve_rate,
      HIVE_RECENT_RSHARES_DECAY_TIME_HF19, content_constant, early_voting_seconds} \subseteq Nat \ {0}
  /\ {HIVE_SOFT_MAX_COMMENT_DEPTH, HIVE_MIN_ROOT_COMMENT_INTERVAL, HIVE_MIN_REPLY_INTERVAL,
      HIVE_MIN_COMMENT_EDIT_INTERVAL, PIXA_HF30_VOTE_DUST_THRESHOLD, mid_voting_seconds,
      MAX_ACCEPTED_PAYOUT} \subseteq Nat
  /\ percent_curation_rewards \in 0..HIVE_100_PERCENT

\* paid is history: how often a comment was paid; payouts is history: what the
\* comments of the last block were paid.
NoContent ==
  [comment |-> {}, comment_cashout |-> {}, comment_vote |-> {}, payouts |-> {}]

Root == <<>>
Key(c) == <<c.author, c.permlink>>
CommentsAt(d, key) == {c \in d.comment : Key(c) = key}
CashoutOf(d, key) == {c \in d.comment_cashout : Key(c) = key}
VotesFor(d, key) == {v \in d.comment_vote : Key(v) = key}

--------------------
(* Comments *)

\* on_reply: only a parent that still waits for its payout counts its replies.
on_reply(d, parent, delta) ==
  [d EXCEPT !.comment_cashout = {IF Key(c) = parent THEN [c EXCEPT !.children = @ + delta] ELSE c : c \in @}]

NewCashout(author, permlink, id) ==
  [author |-> author, permlink |-> permlink, id |-> id, created |-> now,
   cashout_time |-> now + HIVE_CASHOUT_WINDOW_SECONDS, children |-> 0, was_voted_on |-> FALSE,
   net_rshares |-> 0, vote_rshares |-> 0, total_vote_weight |-> 0, allow_votes |-> TRUE,
   allow_curation_rewards |-> TRUE, max_accepted_payout |-> MAX_ACCEPTED_PAYOUT,
   percent_hbd |-> HIVE_100_PERCENT, beneficiaries |-> {}]

Nesting(parent) == IF parent = Root THEN 0 ELSE 1 + (CHOOSE c \in CommentsAt(db, parent) : TRUE).depth

\* What comment_evaluator asks of a reply, new or edited.
ParentFits(parent) ==
  parent # Root => CommentsAt(db, parent) # {} /\ Nesting(parent) - 1 < HIVE_SOFT_MAX_COMMENT_DEPTH

CommentObject(author, permlink, parent, id) ==
  [author |-> author, permlink |-> permlink, id |-> id, parent |-> parent, depth |-> Nesting(parent), paid |-> 0]

NewComment(author, permlink, parent) ==
  LET id == NextId(db.comment)
      comment == CommentObject(author, permlink, parent, id)
  IN  /\ CommentsAt(db, <<author, permlink>>) = {} /\ ParentFits(parent)
      /\ IF parent = Root THEN now - db.acc[author].last_root_post > HIVE_MIN_ROOT_COMMENT_INTERVAL
         ELSE now - db.acc[author].last_post >= HIVE_MIN_REPLY_INTERVAL
      /\ db' = [on_reply(db, parent, 1) EXCEPT
                  !.acc[author].last_root_post = IF parent = Root THEN now ELSE @,
                  !.acc[author].last_post = now, !.acc[author].last_post_edit = now,
                  !.comment = @ \union {comment},
                  !.comment_cashout = @ \union {NewCashout(author, permlink, id)}]
      /\ UNCHANGED <<now, world>>

EditComment(c, parent) ==
  /\ ParentFits(parent)
  /\ now - db.acc[c.author].last_post_edit >= HIVE_MIN_COMMENT_EDIT_INTERVAL
  /\ c.parent = parent
  /\ db' = [db EXCEPT !.acc[c.author].last_post_edit = now]
  /\ UNCHANGED <<now, world>>

DeleteComment(c) ==
  /\ \E cashout \in CashoutOf(db, Key(c)) :
       /\ cashout.children = 0 /\ cashout.net_rshares <= 0
       /\ db' = on_reply([db EXCEPT !.comment = @ \ {c}, !.comment_cashout = @ \ {cashout},
                                    !.comment_vote = @ \ VotesFor(db, Key(c))], c.parent, -1)
  /\ UNCHANGED <<now, world>>

\* Options only ever get stricter, and those that take something from voters are
\* refused once there was a vote.  No beneficiaries: the extension is absent.
CommentOptions(c, percent_hbd, max_payout, allow_votes, allow_curation, beneficiaries) ==
  /\ SumOver(beneficiaries, LAMBDA b : b.weight) <= HIVE_100_PERCENT
  /\ \E cashout \in CashoutOf(db, Key(c)) :
       /\ ~allow_curation \/ ~allow_votes \/ max_payout < cashout.max_accepted_payout => ~cashout.was_voted_on
       /\ allow_curation => cashout.allow_curation_rewards
       /\ allow_votes => cashout.allow_votes
       /\ max_payout <= cashout.max_accepted_payout /\ percent_hbd <= cashout.percent_hbd
       /\ beneficiaries # {} => /\ cashout.beneficiaries = {} /\ ~cashout.was_voted_on
                                /\ \A b \in beneficiaries : b.account \in DOMAIN db.acc
       /\ db' = [db EXCEPT !.comment_cashout = (@ \ {cashout}) \union
                  {[cashout EXCEPT !.percent_hbd = percent_hbd, !.max_accepted_payout = max_payout,
                                   !.allow_votes = allow_votes, !.allow_curation_rewards = allow_curation,
                                   !.beneficiaries = IF beneficiaries = {} THEN @ ELSE beneficiaries]}]
  /\ UNCHANGED <<now, world>>

--------------------
(* Votes *)

\* fc::uint128_approx_sqrt, the integer part.
approx_sqrt(n) == CHOOSE r \in 0..n : r * r <= n /\ (r + 1) * (r + 1) > n

\* evaluate_reward_curve of the two curves that hardfork 25 left in use.
convergent_linear(rshares) ==
  ((rshares + content_constant) * (rshares + content_constant) - content_constant * content_constant)
    \div (rshares + 4 * content_constant)
convergent_square_root(rshares) == rshares \div approx_sqrt(rshares + 2 * content_constant)

Positive(n) == Max({0, n})
Abs(n) == IF n < 0 THEN -n ELSE n

\* What a vote costs, rounded up: a part of all the mana the VESTS can hold.
UsedMana(vests, weight) ==
  LET denominator == vote_power_reserve_rate * HIVE_VOTING_MANA_REGENERATION_SECONDS
  IN  ((vests * Abs(weight) * HIVE_ONE_DAY_SECONDS) \div HIVE_100_PERCENT + denominator - 1) \div denominator

\* A downvote takes from its own pool first, and needs more than it uses.
HasMana(x, used, weight) ==
  IF weight < 0 THEN x.voting_mana + x.downvote_mana > used ELSE x.voting_mana >= used
UseMana(x, used, weight) ==
  LET from_pool == IF weight < 0 THEN Min({used, x.downvote_mana}) ELSE 0
  IN  [x EXCEPT !.downvote_mana = @ - from_pool, !.voting_mana = Positive(@ - (used - from_pool))]

\* Votes close to the payout count less.
RsharesOf(used, weight, cashout_delta) ==
  LET full == Positive(used - PIXA_HF30_VOTE_DUST_THRESHOLD)
      counted == IF cashout_delta < HIVE_UPVOTE_LOCKOUT_SECONDS
                 THEN (full * cashout_delta) \div HIVE_UPVOTE_LOCKOUT_SECONDS ELSE full
  IN  IF weight < 0 THEN -counted ELSE counted

\* The share in the curation rewards: early votes count in full.
VoteWeight(cashout, before, after) ==
  LET gain == Positive(convergent_square_root(after) - convergent_square_root(before))
      age == now - cashout.created
  IN  IF age < early_voting_seconds THEN gain
      ELSE IF age < early_voting_seconds + mid_voting_seconds THEN gain \div 2 ELSE gain \div 8

\* Mutant: what the replaced vote counted stays counted.
NetAddsUp(rshares, previous) == rshares

NetChange(rshares, previous) == rshares - previous.rshares

NoVote == [rshares |-> 0, weight |-> 0, percent |-> 0]

\* A vote on a comment that was paid is accepted and does nothing.
VoteAfterPayout(voter, c) ==
  /\ CashoutOf(db, Key(c)) = {}
  /\ UNCHANGED <<db, now, world>>

NewVote(voter, cashout, percent, weight, rshares) ==
  [author |-> cashout.author, permlink |-> cashout.permlink, voter |-> voter, percent |-> percent,
   weight |-> weight, rshares |-> rshares]

Vote(voter, cashout, weight) ==
  LET ready == update_manabar(db, voter, 0)
      x == ready.acc[voter]
      old == {v \in VotesFor(db, Key(cashout)) : v.voter = voter}
      previous == IF old = {} THEN NoVote ELSE CHOOSE v \in old : TRUE
      used == UsedMana(x.vesting_shares, weight)
      rshares == RsharesOf(used, weight, cashout.cashout_time - now)
      others == cashout.vote_rshares - Positive(previous.rshares)
      counts == rshares > 0 /\ cashout.allow_curation_rewards /\ percent_curation_rewards > 0
      vote_weight == IF counts THEN VoteWeight(cashout, others, others + rshares) ELSE 0
      vote == NewVote(voter, cashout, weight, vote_weight, rshares)
  IN  /\ weight > 0 => cashout.allow_votes
      /\ now < cashout.cashout_time
      /\ weight # previous.percent
      /\ HasMana(x, used, weight)
      /\ db' = [ready EXCEPT
                  !.acc[voter] = UseMana(@, used, weight),
                  !.comment_vote = (@ \ old) \union {vote},
                  !.comment_cashout = (@ \ {cashout}) \union
                    {[cashout EXCEPT !.was_voted_on = TRUE,
                                     !.net_rshares = @ + NetChange(rshares, previous),
                                     !.vote_rshares = others + Positive(rshares),
                                     !.total_vote_weight = @ + vote_weight - previous.weight]}]
      /\ UNCHANGED <<now, world>>

--------------------
(* Payouts *)

\* HIVE that was taken from the fund becomes HBD as far as the print rate allows
\* and whole units of HBD go; the rest stays HIVE.
PrintedFrom(d, hive) ==
  LET price == get_hbd_price(d)
      offered == (d.gpo.hbd_print_rate * hive) \div HIVE_100_PERCENT
      hbd == ToHbd(offered, price)
  IN  Min({offered, (hbd * price.quote + price.base - 1) \div price.base})

award_hbd(d, a, hive) ==
  LET converted == PrintedFrom(d, hive)
      printed == adjust_reward_balance(convert_HIVE_to_HBD(d, converted, TRUE), a, "HBD", ToHbd(converted, get_hbd_price(d)))
  IN  IF hive = 0 THEN d ELSE adjust_reward_balance(printed, a, "HIVE", hive - converted)

\* The part of a reward that may be HBD; the rest is VESTS.
LiquidPart(hive, percent_hbd) == (hive * percent_hbd) \div (2 * HIVE_100_PERCENT)

PayReward(d, a, hive, percent_hbd) ==
  LET liquid == LiquidPart(hive, percent_hbd)
  IN  create_reward_vesting(award_hbd(d, a, liquid), a, hive - liquid)

\* What is reported of it.
RewardParts(d, hive, percent_hbd) ==
  LET liquid == LiquidPart(hive, percent_hbd)
      converted == PrintedFrom(d, liquid)
  IN  [HBD |-> ToHbd(converted, get_hbd_price(d)), HIVE |-> liquid - converted,
       VESTS |-> ToVests(hive - liquid, get_reward_vesting_share_price(d.gpo))]

PayAuthor(d, a, hive, percent_hbd) ==
  Notify(PayReward(d, a, hive, percent_hbd), author_reward_operation(a, RewardParts(d, hive, percent_hbd), TRUE))

\* The treasury has nothing to claim.
PayBeneficiary(d, a, author, hive, percent_hbd) ==
  LET hbd == ToHbd(hive, get_hbd_price(d))
  IN  IF is_treasury(a)
      THEN Notify(adjust_balance(convert_HIVE_to_HBD(d, hive, TRUE), TREASURY, "HBD", hbd),
                  comment_benefactor_reward_operation(a, author, [NothingTracked EXCEPT !.HBD = hbd], FALSE))
      ELSE Notify(PayReward(d, a, hive, percent_hbd),
                  comment_benefactor_reward_operation(a, author, RewardParts(d, hive, percent_hbd), TRUE))

\* The fund, the claims and the price are those of the whole block.  That there are
\* claims is asserted.
get_rshare_reward(fund, total_claims, cashout, price) ==
  LET payout == (fund * convergent_linear(cashout.net_rshares)) \div total_claims
  IN  IF total_claims = 0 \/ ToHbd(payout, price) < HIVE_MIN_PAYOUT_HBD THEN 0
      ELSE Min({payout, ToHive(cashout.max_accepted_payout, price)})

CuratorClaim(cashout, tokens, v) ==
  IF cashout.allow_curation_rewards /\ cashout.total_vote_weight > 0
  THEN (tokens * v.weight) \div cashout.total_vote_weight ELSE 0

\* What pay_curators takes from the fund; what nobody claims stays there.
CuratorsTake(d, cashout, tokens) ==
  SumOver(VotesFor(d, Key(cashout)), LAMBDA v : CuratorClaim(cashout, tokens, v))

PayCurator(d, curator, author, hive) ==
  IF hive = 0 THEN d
  ELSE Notify(create_reward_vesting(d, curator, hive),
              curation_reward_operation(curator, VEST_asset(ToVests(hive, get_reward_vesting_share_price(d.gpo))), author, TRUE))

pay_curators(d, cashout, tokens) ==
  FoldLeft(LAMBDA e, v : PayCurator(e, v.voter, cashout.author, CuratorClaim(cashout, tokens, v)), d,
           SetToSortSeq(VotesFor(d, Key(cashout)),
             LAMBDA v, w : v.weight > w.weight \/ (v.weight = w.weight /\ d.acc[v.voter].id < d.acc[w.voter].id)))

\* The comment is paid reward from the fund, and its votes are gone.
cashout_comment_helper(d, cashout, reward) ==
  LET curation_tokens == (reward * percent_curation_rewards) \div HIVE_100_PERCENT
      author_tokens == reward - curation_tokens
      Share(b) == (author_tokens * b.weight) \div HIVE_100_PERCENT
      for_others == SumOver(cashout.beneficiaries, Share)
      curated == pay_curators(d, cashout, curation_tokens)
      shared == FoldLeft(LAMBDA e, b : PayBeneficiary(e, b.account, cashout.author, Share(b), cashout.percent_hbd), curated,
                         SetToSortSeq(cashout.beneficiaries, LAMBDA b, c : d.acc[b.account].id < d.acc[c.account].id))
      paid == PayAuthor(shared, cashout.author, author_tokens - for_others, cashout.percent_hbd)
      taken == CuratorsTake(d, cashout, curation_tokens) + author_tokens
  IN  [(IF reward > 0 THEN [paid EXCEPT !.reward_fund.reward_balance = @ - taken] ELSE d) EXCEPT
         !.comment_vote = @ \ VotesFor(d, Key(cashout))]

DueCashouts(d, time) ==
  SetToSortSeq({c \in d.comment_cashout : c.cashout_time <= time},
               LAMBDA c, e : c.cashout_time < e.cashout_time \/ (c.cashout_time = e.cashout_time /\ c.id < e.id))

\* All comments that are due claim their part before the first of them is paid.
process_comment_cashout(d, time) ==
  LET fund == d.reward_fund
      elapsed == time - fund.last_update
      decayed == IF elapsed <= HIVE_RECENT_RSHARES_DECAY_TIME_HF19
                 THEN fund.recent_claims - (fund.recent_claims * elapsed) \div HIVE_RECENT_RSHARES_DECAY_TIME_HF19
                 ELSE 0
      due == DueCashouts(d, time)
      claims == decayed + FoldLeft(LAMBDA n, c : n + convergent_linear(Positive(c.net_rshares)), 0, due)
      RewardOf(c) == IF c.net_rshares > 0
                     THEN get_rshare_reward(fund.reward_balance, claims, c, get_hbd_price(d)) ELSE 0
      Pay1(e, c) ==
        [cashout_comment_helper(e, c, RewardOf(c)) EXCEPT
           !.comment_cashout = @ \ {c},
           !.comment = {IF Key(x) = Key(c) THEN [x EXCEPT !.paid = @ + 1] ELSE x : x \in @},
           !.payouts = @ \union {[key |-> Key(c), net_rshares |-> c.net_rshares, max |-> c.max_accepted_payout,
                                  reward |-> RewardOf(c)]}]
  IN  [FoldLeft(Pay1, [d EXCEPT !.payouts = {}], due) EXCEPT
         !.reward_fund.recent_claims = claims, !.reward_fund.last_update = time,
         !.asserted = @ \/ (claims = 0 /\ \E c \in Range(due) : c.net_rshares > 0)]

--------------------
(***************************************************************************)
(* What every block does with the tokens, in the order of _apply_block,    *)
(* and the composition of the modules about them.                          *)
(***************************************************************************)

CONSTANTS
  inflation_rate, HIVE_BLOCKS_PER_YEAR,      \* of HIVE_100_PERCENT, in a year
  content_reward_percent, vesting_reward_percent, proposal_fund_percent,
  HIVE_MAX_WITNESSES

ASSUME EconomyAssumption ==
  /\ {HIVE_BLOCKS_PER_YEAR, HIVE_MAX_WITNESSES} \subseteq Nat \ {0} /\ inflation_rate \in Nat
  /\ content_reward_percent + vesting_reward_percent + proposal_fund_percent \in 0..HIVE_100_PERCENT

--------------------
(* Every block *)

TotalHive(d, a) ==
  AllVestsAsHive(d, a) + d.acc[a].vest_rewards_as_hive
    + d.acc[a].balance["HIVE"] + d.acc[a].savings["HIVE"] + d.acc[a].rewards["HIVE"]
TotalHbd(d, a) == d.acc[a].balance["HBD"] + d.acc[a].savings["HBD"] + d.acc[a].rewards["HBD"]

\* The totals that are not 0; VESTS count as HIVE, and once more as VESTS.
collect_account_total_balance(d, a) ==
  {x \in {HIVE_asset(TotalHive(d, a)), HBD_asset(TotalHbd(d, a)),
          VEST_asset(d.acc[a].vesting_shares + d.acc[a].vest_rewards)} : x.amount > 0}

\* VESTS become HIVE, and what has to be claimed no longer has to be.
Liquidated(d, a) ==
  [liquify_reward_balance(convert_VESTS_to_HIVE(d, a), a) EXCEPT !.acc[a].balance = Nothing, !.acc[a].rewards = Nothing]

\* Whatever null owns is burnt; savings leave their interest behind.
clear_null_account_balance(d, time) ==
  LET a == HIVE_NULL_ACCOUNT
      savings == d.acc[a].savings
      hbd == TotalHbd(d, a)
      settled == IF savings["HBD"] = 0 THEN d ELSE adjust_savings_balance(d, a, "HBD", -savings["HBD"], time)
      seen == Notify(settled, clear_null_account_balance_operation(collect_account_total_balance(d, a)))
      burnt == burn_HIVE([Liquidated(seen, a) EXCEPT !.acc[a].savings["HIVE"] = 0], TotalHive(d, a))
  IN  IF collect_account_total_balance(d, a) = {} THEN d ELSE IF hbd = 0 THEN burnt ELSE burn_HBD(burnt, hbd, TRUE)

\* Whatever the old treasury owns moves to the new one.
consolidate_treasury_balance(d, time) ==
  LET a == OBSOLETE_TREASURY
      x == d.acc[a]
      hive == x.balance["HIVE"] + AllVestsAsHive(d, a) + x.vest_rewards_as_hive
      Save(e, symbol) == IF x.savings[symbol] = 0 THEN e
                         ELSE adjust_savings_balance(adjust_savings_balance(e, a, symbol, -x.savings[symbol], time),
                                                     TREASURY, symbol, x.savings[symbol], time)
      seen == Notify(Save(Save(d, "HIVE"), "HBD"), consolidate_treasury_balance_operation(collect_account_total_balance(d, a)))
  IN  IF collect_account_total_balance(d, a) = {} THEN d
      ELSE [Liquidated(seen, a) EXCEPT
              !.acc[TREASURY].balance["HIVE"] = @ + hive, !.acc[TREASURY].balance["HBD"] = @ + x.balance["HBD"],
              !.acc[TREASURY].rewards = [s \in Symbol |-> @[s] + x.rewards[s]]]

\* The difference of two totals over all blocks, so that nothing is lost to rounding.
dhf_funding_without_truncation(hive, price, block_num) ==
  ToHbd(hive * (block_num + 1), price) - ToHbd(hive * block_num, price)

NewHive(d) ==
  ((ToHive(hbd_supply_without_treasury(d), get_hbd_price(d)) + d.gpo.current_supply) * inflation_rate)
    \div (HIVE_100_PERCENT * HIVE_BLOCKS_PER_YEAR)

\* A partial schedule pays the nominal share; a full one weighs the witness.
WitnessReward(nominal, schedule) ==
  IF schedule.num_scheduled_witnesses < HIVE_MAX_WITNESSES THEN nominal
  ELSE (nominal * HIVE_MAX_WITNESSES * schedule.weight) \div schedule.witness_pay_normalization_factor

process_funds(d, witness, schedule) ==
  LET new_hive == NewHive(d)
      content == (new_hive * content_reward_percent) \div HIVE_100_PERCENT
      vesting == (new_hive * vesting_reward_percent) \div HIVE_100_PERCENT
      dhf == (new_hive * proposal_fund_percent) \div HIVE_100_PERCENT
      pay == WitnessReward(new_hive - content - vesting - dhf, schedule)
      hbd == dhf_funding_without_truncation(dhf, get_hbd_price(d), d.gpo.head_block_num)
      issued == [issue_HIVE(d, content + vesting + pay + dhf) EXCEPT
                   !.gpo.total_vesting_fund_hive = @ + vesting, !.gpo.dhf_interval_ledger = @ + hbd]
      funded == [adjust_balance(convert_HIVE_to_exact_HBD(issued, dhf, hbd), TREASURY, "HBD", hbd) EXCEPT
                   !.reward_fund.reward_balance = @ + content]
  IN  Notify(create_vesting(funded, witness, pay),
             producer_reward_operation(witness, VEST_asset(ToVests(pay, get_vesting_share_price(funded.gpo)))))

NoPrice == [base |-> 0, quote |-> 0]

\* The parts of _apply_block about tokens.  A witness that reports no new price
\* leaves the feed alone.
BlockEffects(time, price, witness) ==
  LET d0 == [db EXCEPT !.gpo.head_block_num = @ + 1, !.gpo.time = time]
      d1 == clear_expired_orders(d0, time)
      d2 == IF price = NoPrice THEN d1 ELSE update_median_feed(d1, price)
      d3 == clear_null_account_balance(update_virtual_supply(d2), time)
      d4 == process_funds(consolidate_treasury_balance(d3, time), witness, world.schedule)
      d5 == process_savings_withdraws(process_comment_cashout(process_conversions(d4, time), time), time)
      d6 == expire_escrow_ratification(update_virtual_supply(d5), time)
  IN  process_recurrent_transfers(process_proposals(d6, time), time)

EndBlock(time, price, witness) ==
  /\ time > now /\ time <= world.last
  /\ now' = time
  /\ db' = BlockEffects(time, price, witness)
  /\ UNCHANGED <<world, quota>>

--------------------
(* Composition *)

\* What an observer that knows an account from the start begins with.
LiquidOf(x) == [HIVE |-> x.balance["HIVE"], HBD |-> x.balance["HBD"], VESTS |-> x.vesting_shares]
RewardsOf(x) == [HIVE |-> x.rewards["HIVE"], HBD |-> x.rewards["HBD"], VESTS |-> x.vest_rewards]

InitiallyTracked(acc) ==
  [balance |-> [a \in DOMAIN acc |-> LiquidOf(acc[a])], rewards |-> [a \in DOMAIN acc |-> RewardsOf(acc[a])]]

Genesis(w) ==
  NoTransfers @@ NoOrders @@ NoConversions @@ NoProposals @@ NoContent @@
  [acc |-> w.acc, tracked |-> InitiallyTracked(w.acc), gpo |-> w.gpo, reward_fund |-> w.reward_fund, asserted |-> FALSE,
   feed |-> [price_history |-> <<w.price>>, current_median_history |-> w.price,
             market_median_history |-> w.price, current_min_history |-> w.price]]

Init ==
  /\ world \in Worlds
  /\ now = 0
  /\ quota = world.transactions
  /\ db = Genesis(world)

\* A transaction of an operation; the inputs are those of the world.
Operation ==
  \/ \E b \in Members, s \in Symbol, n \in world.amounts :
       \/ \E a \in Who("transfer") : Transfer(a, b, s, n)
       \/ \E a \in Who("save") : TransferToSavings(a, b, s, n)
       \/ \E a \in Who("unsave"), id \in world.ids : TransferFromSavings(a, b, s, n, id)
  \/ \E a \in Who("power_up"), b \in Members, n \in world.amounts : TransferToVesting(a, b, n)
  \/ \E a \in Who("convert"), n \in world.amounts, id \in world.ids :
       Convert(a, n, id) \/ CollateralizedConvert(a, n, id)
  \/ \E a \in Who("order"), n, q \in world.amounts, s \in Symbol, id \in world.ids, e \in world.times, f \in BOOLEAN :
       LimitOrderCreate(a, id, s, n, q, e, f)
  \/ \E o \in db.limit_order : Does("order", o.seller) /\ LimitOrderCancel(o)
  \/ \E s \in db.savings_withdraw : Does("unsave", s.from) /\ CancelTransferFromSavings(s)
  \/ \E a \in Who("claim"), hive, hbd, vests \in {0} \union world.amounts : ClaimRewardBalance(a, hive, hbd, vests)
  \/ \E a \in Who("escrow"), b, c \in Members, id \in world.ids, hive, hbd \in {0} \union world.amounts, s \in Symbol,
        fee \in {0} \union world.amounts, e, x \in world.times :
       EscrowTransfer(a, b, c, id, Balance(hive, hbd), [Nothing EXCEPT ![s] = fee], e, x)
  \/ \E e \in db.escrow :
       \/ \E a \in Who("approve"), yes \in BOOLEAN : EscrowApprove(e, a, yes)
       \/ \E a \in Who("dispute") : EscrowDispute(e, a)
       \/ \E a \in Who("release"), b \in Members, hive, hbd \in {0} \union world.amounts :
            EscrowRelease(e, a, b, Balance(hive, hbd))
  \/ \E a \in Who("recur"), b \in Members, i \in world.ids, s \in Symbol, n \in {0} \union world.amounts, r \in Recurrence, x \in Executions :
       RecurrentTransfer(a, b, i, s, n, r, x)
  \/ \E a \in Who("propose"), b \in Members, t, u \in world.times, n \in world.amounts : CreateProposal(a, b, t, u, n)
  \/ \E p \in db.proposal, n \in world.amounts, t \in world.times : Does("propose", p.creator) /\ UpdateProposal(p, n, t)
  \/ \E ps \in SUBSET db.proposal \ {{}} :
       \/ \E a \in Who("propose") : RemoveProposal(a, ps)
       \/ \E a \in Who("vote_proposal"), yes \in BOOLEAN : UpdateProposalVotes(a, ps, yes)
  \/ \E a \in Who("comment"), p \in world.permlinks, c \in {Root} \union {Key(x) : x \in db.comment} : NewComment(a, p, c)
  \/ \E c \in db.comment :
       \/ Does("delete", c.author) /\ DeleteComment(c)
       \/ \E p \in {Root} \union {Key(x) : x \in db.comment} : Does("comment", c.author) /\ EditComment(c, p)
       \/ \E o \in world.options :
            /\ Does("options", c.author)
            /\ CommentOptions(c, o.percent_hbd, o.max_payout, o.allow_votes, o.allow_curation, o.beneficiaries)
       \/ \E a \in Who("vote") : VoteAfterPayout(a, c)
  \/ \E c \in db.comment_cashout, a \in Who("vote"), w \in world.weights : Vote(a, c, w)

Next ==
  \/ quota > 0 /\ quota' = quota - 1 /\ Operation
  \/ \E t \in world.times, p \in world.prices \union {NoPrice}, w \in world.witnesses : EndBlock(t, p, w)

Spec == Init /\ [][Next]_vars

--------------------
(* Properties *)

SumOfAccounts(f(_)) == SumOver(DOMAIN db.acc, LAMBDA a : f(db.acc[a]))

\* What the accounts hold of a token, liquid, in savings and as rewards to claim.
HeldByAccounts(s) == SumOfAccounts(LAMBDA x : x.balance[s] + x.savings[s] + x.rewards[s])

\* What orders, escrows and withdrawals hold of a token.
HeldByRequests(s) ==
  SumOver({o \in db.limit_order : o.symbol = s}, LAMBDA o : o.for_sale)
    + SumOver(db.escrow, LAMBDA e : e.balance[s] + e.fee[s])
    + SumOver({w \in db.savings_withdraw : w.symbol = s}, LAMBDA w : w.amount)

\* What validate_invariants asserts of the supplies: every token that exists is in
\* exactly one place, through every operation and every step of a block that
\* issues, burns, converts, rounds or moves some.
SupplyExact ==
  /\ db.gpo.current_supply =
       HeldByAccounts("HIVE") + HeldByRequests("HIVE") + SumOver(db.collateralized_convert_request, LAMBDA r : r.collateral)
         + db.reward_fund.reward_balance + db.gpo.total_vesting_fund_hive + db.gpo.pending_rewarded_vesting_hive
  /\ db.gpo.current_hbd_supply =
       HeldByAccounts("HBD") + HeldByRequests("HBD") + SumOver(db.convert_request, LAMBDA r : r.amount)
  /\ db.gpo.total_vesting_shares = SumOfAccounts(LAMBDA x : x.vesting_shares)
  /\ db.gpo.pending_rewarded_vesting_shares = SumOfAccounts(LAMBDA x : x.vest_rewards)
  /\ db.gpo.pending_rewarded_vesting_hive = SumOfAccounts(LAMBDA x : x.vest_rewards_as_hive)

\* What validate_invariants asserts of the virtual supply holds after every block, so
\* that a snapshot of the state loads: operations and payouts only estimate it, and what
\* a block does after it computed it last moves no tokens that count, or computes it
\* again, as for the HIVE that recurrent transfers brought to the treasury.
VirtualSupplySettled ==
  [][now' # now => db'.gpo.virtual_supply = FullVirtualSupply(db'.gpo, get_hbd_price(db'))]_vars

\* No balance, fund or supply is ever overdrawn and no assertion of a block or of
\* match fails: the treasury covers its payments, collateral covers what is burnt
\* of it, and of two matched orders one is always gone.
NeverOverdrawn ==
  /\ ~db.asserted
  /\ \A a \in DOMAIN db.acc :
       /\ \A s \in Symbol : db.acc[a].balance[s] >= 0 /\ db.acc[a].savings[s] >= 0 /\ db.acc[a].rewards[s] >= 0
       /\ db.acc[a].vesting_shares >= 0 /\ db.acc[a].vest_rewards >= 0 /\ db.acc[a].vest_rewards_as_hive >= 0
  /\ \A f \in DOMAIN db.gpo : db.gpo[f] >= 0
  /\ db.reward_fund.reward_balance >= 0

\* The counters that limit escrows, withdrawals and recurrent transfers are exact,
\* so that no account is locked out for ever; the agent of an escrow has its fee
\* exactly when both sides approved, and only an approved escrow is in dispute or
\* partly released.
RequestsExact ==
  /\ \A a \in DOMAIN db.acc :
       /\ db.acc[a].pending_escrow_transfers = Cardinality({e \in db.escrow : e.from = a})
       /\ db.acc[a].savings_withdraw_requests = Cardinality({w \in db.savings_withdraw : w.from = a})
       /\ db.acc[a].open_recurrent_transfers = Cardinality({r \in db.recurrent_transfer : r.from = a})
  /\ \A e \in db.escrow : /\ is_approved(e) => e.fee = Nothing
                          /\ e.disputed => is_approved(e)
                          /\ e.balance # Nothing

\* Whoever adds up what the history of an account shows of its operations, virtual
\* ones included, has its balances and its unclaimed rewards exactly: nothing moves
\* unreported, twice, in another amount than reported after rounding, or in a history
\* where the owner does not look.  What blocks give the treasury is reported later, at
\* its maintenance.
BalancesReported ==
  \A a \in DOMAIN db.acc :
    /\ db.tracked.rewards[a] = RewardsOf(db.acc[a])
    /\ db.tracked.balance[a] = [LiquidOf(db.acc[a]) EXCEPT !.HBD = @ - IF a = TREASURY THEN db.gpo.dhf_interval_ledger ELSE 0]

\* No two orders of the book could trade: apply_order matched whatever could be
\* when the later of them came, and a part of an order never gets a better price.
BookNotCrossed == \A o, p \in db.limit_order : ~Matches(o, p)

\* However its time is cut into maintenance periods, a proposal that runs and was
\* paid in full in each of them received what is due for the whole time; and a vote
\* is for a proposal that exists, also when the limit of removals cut the removal of
\* a proposal and its votes into several blocks.
ProposalsExact ==
  /\ \A v \in db.proposal_vote : \E p \in db.proposal : p.id = v.proposal_id
  /\ \A p \in db.proposal :
       LET Total(t) == ((t - p.start_date) * p.daily_pay) \div HIVE_ONE_DAY_SECONDS
       IN  p.since # -1 /\ p.end_date >= db.gpo.last_budget_time =>
             p.paid = Total(db.gpo.last_budget_time) - Total(p.since)

\* Votes add up, however often they are changed, taken back and removed with their
\* comment: the rshares and weights a comment is paid by are those of its votes, so
\* curators claim at most what there is, and a reply counter is exact, so a comment
\* with replies is never deleted and every reply has its parent.
VotesExact ==
  /\ \A c \in db.comment_cashout :
       LET votes == VotesFor(db, Key(c))
       IN  /\ c.net_rshares = SumOver(votes, LAMBDA v : v.rshares)
           /\ c.vote_rshares = SumOver(votes, LAMBDA v : Positive(v.rshares))
           /\ c.total_vote_weight = SumOver(votes, LAMBDA v : v.weight)
           /\ c.children = Cardinality({r \in db.comment : r.parent = Key(c)})
  /\ \A v \in db.comment_vote : CashoutOf(db, Key(v)) # {}
  /\ \A c \in db.comment : c.parent # Root => CommentsAt(db, c.parent) # {}

\* A comment waits for its payout or was paid, once, whatever is edited or voted on
\* afterwards; and comments that are paid in the same block get the same for the
\* same rshares, whichever comes first.
PaidOnceAlike ==
  /\ \A c \in db.comment : c.paid + Cardinality(CashoutOf(db, Key(c))) = 1
  /\ \A p, q \in db.payouts : p.net_rshares = q.net_rshares /\ p.max = q.max => p.reward = q.reward

\* What is owed to people is what their requests, orders, proposals, votes and
\* comments say.
ClaimsExact == RequestsExact /\ BookNotCrossed /\ ProposalsExact /\ VotesExact /\ PaidOnceAlike

\* An account's balances are never overdrawn and its history explains them.
BalancesSound == NeverOverdrawn /\ BalancesReported
====
