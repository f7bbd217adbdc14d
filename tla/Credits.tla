-------------------------------- MODULE Credits --------------------------------
(***************************************************************************)
(* Resource credits beside the operations on VESTS.  VESTS give an account *)
(* credits, which it spends on transactions, regains with time and may     *)
(* delegate; the operations of Governance that change somebody's VESTS     *)
(* have to tell the credits about it, before and after.  What transactions *)
(* use of the resources of the node is taken from pools, whose level sets  *)
(* the price.                                                              *)
(*                                                                         *)
(* rc is the state of the credits.  A world in which credits are not       *)
(* followed is one where nothing depends on them; in the others quota      *)
(* bounds the transactions.  The producer of a block checks what a node in *)
(* control checks.                                                         *)
(***************************************************************************)
EXTENDS Governance, ResourceDynamics

CONSTANTS
  HIVE_RC_REGEN_TIME, HIVE_RC_BUCKET_TIME_LENGTH, HIVE_RC_WINDOW_BUCKET_COUNT,
  rc_regen_blocks,      \* HIVE_RC_REGEN_TIME / HIVE_BLOCK_INTERVAL
  rc_adjustment, min_rc_delegation, remove_threshold,
  curve,                \* coeff_a, scale (two to the power of shift), coeff_b
  dynamics,             \* per resource: budget, decay (per 16) and pool at the start
  blocksize             \* how many transactions fit into a block

VARIABLE rc

cvars == <<db, now, world, rc>>

Resource == {"history_bytes", "new_accounts", "market_bytes", "state_bytes", "execution_time"}
Nothing == [r \in Resource |-> 0]
Plus(u, v) == [r \in Resource |-> u[r] + v[r]]
Minus(u, v) == [r \in Resource |-> u[r] - v[r]]

--------------------
(* Credits of an account *)

get_effective_vesting_shares(x) ==
  x.vesting_shares - x.delegated_vesting_shares + x.received_vesting_shares - get_next_vesting_withdrawal(x)

\* What a may delegate, and what it can have.
DelegableRc(d, c, a) == get_effective_vesting_shares(d.acc[a]) - c.acc[a].delegated_rc
get_maximum_rc(d, c, a) == DelegableRc(d, c, a) + rc_adjustment + c.acc[a].received_rc

\* manabar::regenerate_mana
Regenerated(x, max, time) ==
  IF x.mana >= max THEN [x EXCEPT !.mana = max, !.updated = time]
  ELSE [x EXCEPT !.mana = Min({max, @ + (max * (time - x.updated)) \div HIVE_RC_REGEN_TIME}), !.updated = time]

\* alarm: what the code reports as a bug in itself, or asserts.
regenerate_rc_mana(d, c, a, time) ==
  LET max == get_maximum_rc(d, c, a)
  IN  [c EXCEPT !.acc[a] = Regenerated(@, max, time), !.alarm = @ \/ max < 0 \/ max # c.acc[a].last_max_rc]

update_account_after_rc_delegation(d, c, a, time, delta, regenerate) ==
  LET max == get_maximum_rc(d, c, a)
      x == IF regenerate THEN Regenerated(c.acc[a], max, time) ELSE c.acc[a]
  IN  [c EXCEPT !.acc[a] = [x EXCEPT !.mana = Max({@ + delta, 0}), !.last_max_rc = max + delta, !.received_rc = @ + delta],
                !.alarm = @ \/ max < 0 \/ x.updated # time]

\* The receivers of credits from a, by id.
Receivers(c, a) == SetToSortSeq({p[2] : p \in {p \in DOMAIN c.direct : p[1] = a}}, LAMBDA x, y : id[x] < id[y])
Without(f, p) == [q \in DOMAIN f \ {p} |-> f[q]]

\* run is a state of the credits, what is still to be taken from the receivers, and
\* how many more delegations may be removed.
TakeBack(d, from, to, time, run) ==
  LET taken == Min({run.overflow, run.c.direct[from, to]})
      whole == taken = run.c.direct[from, to]
      c == [run.c EXCEPT !.direct = IF whole THEN Without(@, <<from, to>>) ELSE [@ EXCEPT ![from, to] = @ - taken]]
  IN  IF run.overflow = 0 \/ run.done \/ (whole /\ run.limit = 0) THEN [run EXCEPT !.done = TRUE]
      ELSE [run EXCEPT !.c = update_account_after_rc_delegation(d, c, to, time, -taken, TRUE),
                       !.overflow = @ - taken, !.limit = IF whole THEN @ - 1 ELSE @]

remove_delegations(d, c, overflow, from, time, limit) ==
  FoldLeft(LAMBDA run, to : TakeBack(d, from, to, time, run),
           [c |-> c, overflow |-> overflow, limit |-> limit, done |-> FALSE], Receivers(c, from))

Expired(c, a) == {i \in DOMAIN c.expired : c.expired[i].from = a}

\* Mutant: an unfinished removal is forgotten when another starts.
KeepExpiredLast(c, a, overflow) ==
  [c EXCEPT !.expired = IF overflow = 0 THEN @ ELSE Append(SelectSeq(@, LAMBDA e : e.from # a), [from |-> a, amount |-> overflow])]

\* What could not be removed at once is left to the blocks that follow.
KeepExpired(c, a, overflow) ==
  [c EXCEPT !.expired =
     IF overflow = 0 THEN @
     ELSE IF Expired(c, a) = {} THEN Append(@, [from |-> a, amount |-> overflow])
     ELSE [i \in DOMAIN @ |-> IF @[i].from = a THEN [@[i] EXCEPT !.amount = @ + overflow] ELSE @[i]]]

\* An account that has less than it delegated takes the rest back.
Shrunk(d, c, a, time) ==
  LET overflow == -DelegableRc(d, c, a)
      run == remove_delegations(d, c, overflow, a, time, remove_threshold)
  IN  IF c.acc[a].delegated_rc > 0 /\ overflow > 0
      THEN [KeepExpired(run.c, a, run.overflow) EXCEPT !.acc[a].delegated_rc = @ - overflow]
      ELSE c

update_account_after_vest_change(d, before, a, time, fill, check) ==
  LET c == IF check THEN Shrunk(d, before, a, time) ELSE before
      max == get_maximum_rc(d, c, a)
      gained == IF fill THEN Max({max - c.acc[a].last_max_rc, 0}) ELSE 0
  IN  [c EXCEPT !.acc[a].last_max_rc = max,
                !.acc[a].mana = IF max = c.acc[a].last_max_rc THEN @ ELSE Min({@ + gained, max}),
                !.alarm = @ \/ before.acc[a].updated # time]

\* The frame around one account's VESTS changing from d to e.
VestChange(c, d, e, a, time, fill, check) ==
  update_account_after_vest_change(e, regenerate_rc_mana(d, c, a, time), a, time, fill, check)

--------------------
(* What a transaction uses *)

MarketOperations == {"transfer", "transfer_to_vesting", "limit_order_create", "limit_order_create2", "recurrent_transfer"}
OutdatedOperations == {"witness_block_approve", "pow", "pow2", "reset_account", "set_reset_account"}

\* op is the name of an operation, with the state it allocates, the state that was
\* there before and is replaced, and whether it takes a subsidised account.
Op(name, allocates) == [name |-> name, allocates |-> allocates, replaces |-> 0, free |-> FALSE]

\* Differential usage: what was there before counts against what is new, for the
\* operations that replace state.
handle_operation_discount(op) ==
  IF op.name \in {"witness_update", "account_update", "account_update2", "recover_account", "delegate_rc"} THEN op.replaces ELSE 0

\* A recovery with one new key and the two signatures it needs is free.
count_resources(op) ==
  LET subsidized == op.name = "recover_account" /\ op.allocates = 1
      used == [history_bytes |-> 1,
               new_accounts |-> IF op.name = "claim_account" /\ op.free THEN 1 ELSE 0,
               market_bytes |-> IF op.name \in MarketOperations THEN 1 ELSE 0,
               state_bytes |-> op.allocates - handle_operation_discount(op) + 1,
               execution_time |-> IF op.name \in OutdatedOperations THEN 1 ELSE 2]
  IN  IF subsidized THEN Nothing ELSE [r \in Resource |-> Max({used[r], 0})]

CostOf(pool, count, regen) ==
  IF count = 0 THEN 0
  ELSE (((regen * curve.coeff_a) \div curve.scale + 1) * count) \div (curve.coeff_b + Max({pool, 0})) + 1

\* The regeneration of all accounts is shared out by how much every resource is asked for.
compute_cost(d, c, used) ==
  LET regen == d.total_vesting_shares \div rc_regen_blocks
      Share(r) == (regen * c.weights[r]) \div c.weights["new_accounts"]
  IN  SumOver({r \in Resource : Share(r) > 0}, LAMBDA r : CostOf(c.pool[r], used[r], Share(r)))

has_mana(d, c, a, cost, time) == Regenerated(c.acc[a], get_maximum_rc(d, c, a), time).mana >= cost

finalize_transaction(d, c, payer, op, time) ==
  LET used == count_resources(op)
      cost == compute_cost(d, c, used)
      x == Regenerated(c.acc[payer], get_maximum_rc(d, c, payer), time)
  IN  [c EXCEPT !.acc[payer] = [x EXCEPT !.mana = Max({@ - cost, 0})], !.cost = cost,
                !.usage = Plus(@, used), !.alarm = @ \/ get_maximum_rc(d, c, payer) < 0]

\* c is what the operation itself did to the credits; the payer is its actor.
Transaction(c, payer, op) ==
  IF ~world.credits THEN UNCHANGED rc
  ELSE /\ rc.usage["history_bytes"] < blocksize /\ rc.quota > 0
       /\ has_mana(db', c, payer, compute_cost(db', c, count_resources(op)), now)
       /\ rc' = [finalize_transaction(db', c, payer, op, now) EXCEPT !.quota = @ - 1]

--------------------
(* Operations *)

\* Mutant: the delegator gets mana back.
ChargeBoth(c, from, delta) ==
  [c EXCEPT !.acc[from].mana = Min({@ - delta, c.acc[from].last_max_rc - delta}),
            !.acc[from].delegated_rc = @ + delta, !.acc[from].last_max_rc = @ - delta]

\* The delegator does not get mana back.
Charge(c, from, delta) ==
  [c EXCEPT !.acc[from].mana = @ - Max({delta, 0}), !.acc[from].delegated_rc = @ + delta, !.acc[from].last_max_rc = @ - delta]

DelegateTo(c, from, to, max_rc) ==
  LET p == <<from, to>>
      old == IF p \in DOMAIN c.direct THEN c.direct[p] ELSE 0
      regenerated == regenerate_rc_mana(db, c, to, now)
      changed == [regenerated EXCEPT !.direct = IF max_rc = 0 THEN Without(@, p) ELSE [q \in DOMAIN @ \cup {p} |-> IF q = p THEN max_rc ELSE @[q]]]
  IN  update_account_after_rc_delegation(db, changed, to, now, max_rc - old, FALSE)

DelegateRc(from, tos, max_rc) ==
  LET Old(to) == IF <<from, to>> \in DOMAIN rc.direct THEN rc.direct[from, to] ELSE 0
      delta == SumOver(tos, LAMBDA to : max_rc - Old(to))
      given == FoldLeft(LAMBDA c, to : DelegateTo(c, from, to, max_rc), regenerate_rc_mana(db, rc, from, now),
                        SetToSortSeq(tos, LAMBDA x, y : id[x] < id[y]))
      op == [Op("delegate_rc", IF max_rc = 0 THEN 0 ELSE Cardinality(tos))
               EXCEPT !.replaces = IF max_rc = 0 THEN 0 ELSE Cardinality({to \in tos : Old(to) > 0})]
  IN  /\ world.credits /\ Does("delegate_rc", from) /\ from # pixa_ico /\ from \notin tos
      /\ max_rc # 0 => max_rc >= min_rc_delegation
      /\ Expired(rc, from) = {}
      /\ \A to \in tos : Old(to) # max_rc
      /\ Min({DelegableRc(db, given, from), given.acc[from].mana}) >= delta
      /\ UNCHANGED <<db, now, world>>
      /\ Transaction(Charge(given, from, delta), from, op)

\* Operations that are not about VESTS.  A subsidised account comes out of what the
\* consensus has left of them; the share of the witness is in Accounts.
OtherOperation(a, op) ==
  LET taken == IF op.name = "claim_account" /\ op.free THEN 1 ELSE 0
  IN  /\ world.credits /\ Does("other", a)
      /\ rc.available_account_subsidies >= taken
      /\ UNCHANGED <<db, now, world>>
      /\ Transaction([rc EXCEPT !.available_account_subsidies = @ - taken], a, op)

BothVestChange(from, to) ==
  LET ready == regenerate_rc_mana(db, regenerate_rc_mana(db, rc, from, now), to, now)
  IN  update_account_after_vest_change(db', update_account_after_vest_change(db', ready, from, now, TRUE, TRUE), to, now, TRUE, TRUE)

\* pixa_ico is not asked whether it delegated more than it has left: it may not delegate.
IcoVestChange(to, amount) ==
  LET taken == [db EXCEPT !.acc[pixa_ico].vesting_shares = @ - amount]
  IN  VestChange(VestChange(rc, db, taken, pixa_ico, now, TRUE, FALSE), taken, db', to, now, TRUE, FALSE)

CreditedOperation ==
  \/ \E a, p \in Members : SetProxy(a, p) /\ Transaction(rc, a, Op("account_witness_proxy", 0))
  \/ \E a \in Members : ClearProxy(a) /\ Transaction(rc, a, Op("account_witness_proxy", 0))
  \/ \E a \in Members, w \in Witness :
       VoteWitness(a, w) /\ Transaction(rc, a, Op("account_witness_vote", IF <<a, w>> \in db.witness_vote_index THEN 0 ELSE 1))
  \/ \E a \in Members : DeclineVotingRights(a) /\ Transaction(rc, a, Op("decline_voting_rights", IF db.effective_date[a] = Never THEN 1 ELSE 0))
  \/ \E a \in Members, amount \in Amount :
       TransferToVesting(a, amount) /\ Transaction(VestChange(rc, db, db', a, now, TRUE, FALSE), a, Op("transfer_to_vesting", 1))
  \/ \E a \in Members, amount \in Amount :
       ClaimRewardBalance(a, amount) /\ Transaction(VestChange(rc, db, db', a, now, TRUE, FALSE), a, Op("claim_reward_balance", 0))
  \/ \E a \in Members, amount \in Amount :
       TransferVests(a, amount) /\ Transaction(IcoVestChange(a, amount), pixa_ico, Op("transfer", 0))
  \/ \E a \in Members, amount \in {0} \union Amount :
       WithdrawVesting(a, amount) /\ Transaction(VestChange(rc, db, db', a, now, FALSE, TRUE), a, Op("withdraw_vesting", 0))
  \/ \E a, b \in Members, percent \in 0..HIVE_100_PERCENT, auto_vest \in BOOLEAN :
       /\ SetWithdrawVestingRoute(a, b, percent, auto_vest)
       /\ Transaction(rc, a, Op("set_withdraw_vesting_route", IF percent = 0 THEN 0 ELSE 1))
  \/ \E a, b \in Members, amount \in {0} \union Amount :
       DelegateVestingShares(a, b, amount) /\ Transaction(BothVestChange(a, b), a, Op("delegate_vesting_shares", 1))
  \/ \E a \in Members, tos \in world.tos, amount \in {0} \union Amount : DelegateRc(a, tos, amount)
  \/ \E a \in Members, op \in world.others : OtherOperation(a, op)

--------------------
(* Blocks *)

\* One step of a power down: the accounts it is routed to, then its owner.
WithdrawCredits(d, c, a, time) ==
  LET amount == Withdrawn(d, a)
      to == {b \in Members : Routed(d, a, b, amount) > 0}
      routed == [d EXCEPT !.acc = [b \in Members |-> [@[b] EXCEPT !.vesting_shares = @ + Routed(d, a, b, amount)]]]
      received == FoldSet(LAMBDA b, e : VestChange(e, d, routed, b, time, TRUE, FALSE), c, to)
  IN  VestChange(received, routed, WithdrawStep(d, a, time), a, time, TRUE, TRUE)

\* A delegator at a time, as far as the limit of the block allows.
handle_expired_delegations(d, c, time) ==
  LET step[i \in 0..Len(c.expired)] ==
        IF i = 0 THEN [c |-> c, overflow |-> 0, limit |-> remove_threshold, done |-> FALSE]
        ELSE LET s == step[i - 1]
                 e == Head(s.c.expired)
                 run == remove_delegations(d, s.c, e.amount, e.from, time, s.limit)
             IN  IF s.done THEN s
                 ELSE IF run.overflow > 0
                 THEN [run EXCEPT !.c.expired = <<[e EXCEPT !.amount = run.overflow]>> \o Tail(@), !.done = TRUE]
                 ELSE [run EXCEPT !.c.expired = Tail(@), !.done = run.limit = 0]
  IN  step[Len(c.expired)].c

resource_weights(window) ==
  LET Weight(r) == Max({1, (window[r] * HIVE_100_PERCENT) \div dynamics[r].budget})
  IN  [r \in Resource |-> IF r = "new_accounts" THEN SumOver(Resource \ {r}, Weight) ELSE Weight(r)]

account_subsidy_rd == rd_setup_dynamics_params(dynamics["new_accounts"].budget, dynamics["new_accounts"].decay)

process_subsidized_accounts(c) ==
  [c EXCEPT !.available_account_subsidies = rd_apply(account_subsidy_rd, @)]

\* Pools lose what was used and what decays, and gain the budget of a block; the pool
\* of new accounts is what the consensus says it is.
finalize_block(c, time) ==
  LET reset == Last(c.buckets).timestamp + HIVE_RC_BUCKET_TIME_LENGTH <= time
      oldest == IF reset THEN Head(c.buckets).usage ELSE Nothing
      buckets == IF reset THEN Append(Tail(c.buckets), [timestamp |-> time, usage |-> c.usage])
                 ELSE [c.buckets EXCEPT ![Len(c.buckets)].usage = Plus(@, c.usage)]
      Level(r) == c.pool[r] - c.usage[r]
      window == Plus(Minus(c.window, oldest), c.usage)
      Pool(r) == IF r = "new_accounts" THEN c.available_account_subsidies
                 ELSE Level(r) - rd_compute_pool_decay(dynamics[r], Level(r)) + dynamics[r].budget
  IN  [c EXCEPT !.pool = [r \in Resource |-> Max({Pool(r), 0})],
                !.window = window, !.weights = resource_weights(window), !.buckets = buckets, !.usage = Nothing]

CreditsOfBlock(time, producer) ==
  LET cleared == clear_expired_delegations(db, time)
      rewarded == RewardProducer(cleared, producer)
      back == {a \in Members : cleared.acc[a].delegated_vesting_shares # db.acc[a].delegated_vesting_shares}
      returned == FoldSet(LAMBDA a, c : VestChange(c, db, cleared, a, time, TRUE, FALSE), rc, back)
      produced == IF producer = NoAccount THEN returned ELSE VestChange(returned, cleared, rewarded, producer, time, TRUE, FALSE)
      steps == SelectSeq(Withdrawals(rewarded, time), LAMBDA s : s.current # NoAccount)
      withdrawn == FoldLeft(LAMBDA c, s : WithdrawCredits(s.d, c, s.current, time), produced, steps)
  IN  finalize_block(handle_expired_delegations(db', process_subsidized_accounts(withdrawn), time), time)

FreshCredits(w) ==
  LET Max0(a) == w.vesting[a] + rc_adjustment
  IN  [acc |-> [a \in w.accounts |-> [mana |-> Max0(a), updated |-> 0, last_max_rc |-> Max0(a), delegated_rc |-> 0, received_rc |-> 0]],
       direct |-> <<>>, expired |-> <<>>, usage |-> Nothing, alarm |-> FALSE, cost |-> 0, quota |-> w.transactions,
       available_account_subsidies |-> dynamics["new_accounts"].pool,
       pool |-> [r \in Resource |-> dynamics[r].pool], window |-> Nothing, weights |-> resource_weights(Nothing),
       buckets |-> [i \in 1..HIVE_RC_WINDOW_BUCKET_COUNT |-> [timestamp |-> 0, usage |-> Nothing]]]

CreditsInit == Init /\ rc = FreshCredits(world)

CreditsNext ==
  \/ CreditedOperation
  \/ \E gap \in 1..MaxGap, producer \in Producer, m, n \in 0..Cardinality(Members) :
       /\ EndBlock(now + gap, producer, m, n)
       /\ rc' = IF world.credits THEN CreditsOfBlock(now + gap, producer) ELSE rc
  \/ Stop /\ UNCHANGED rc

CreditsSpec == CreditsInit /\ [][CreditsNext]_cvars

--------------------
(* Properties *)

\* What is delegated is what the delegations say, with what could not be removed
\* yet of the delegations of accounts that lost VESTS; nobody delegates more than
\* it has, so that there is something to remove whenever something is to be removed.
\* last_max_rc follows every change of VESTS, mana is never above it or negative,
\* and neither the alerts that report a bug in the credits nor assertions go off.
\* The window counts the usage of its buckets and no pool is overdrawn.
CreditsExact ==
  world.credits =>
  /\ ~rc.alarm
  /\ \A r \in Resource :
       /\ rc.window[r] = SumOver(DOMAIN rc.buckets, LAMBDA i : rc.buckets[i].usage[r])
       /\ rc.pool[r] >= 0 /\ rc.weights[r] > 0
  /\ \A i \in 1..(Len(rc.buckets) - 1) : rc.buckets[i].timestamp <= rc.buckets[i + 1].timestamp
  /\ \A a \in Members :
       LET x == rc.acc[a]
       IN  /\ x.received_rc = SumOver({p \in DOMAIN rc.direct : p[2] = a}, LAMBDA p : rc.direct[p])
           /\ x.delegated_rc + SumOver(Expired(rc, a), LAMBDA i : rc.expired[i].amount)
                = SumOver({p \in DOMAIN rc.direct : p[1] = a}, LAMBDA p : rc.direct[p])
           /\ x.delegated_rc >= 0 /\ DelegableRc(db, rc, a) >= 0
           /\ x.last_max_rc = get_maximum_rc(db, rc, a) /\ x.mana \in 0..x.last_max_rc

\* Delegating credits back and forth makes nobody richer: an operation that changes
\* no VESTS leaves all accounts together, with what they pay for it, at most the mana
\* they had at that time.
NothingPumped ==
  [][ now' = now /\ db' = db /\ world.credits =>
        SumOver(Members, LAMBDA a : rc'.acc[a].mana) + rc'.cost
          <= SumOver(Members, LAMBDA a : Regenerated(rc.acc[a], get_maximum_rc(db, rc, a), now).mana) ]_cvars

\* Neither votes nor credits come from nowhere.
NothingForFree == OnlyRewardsVoteAtOnce /\ NothingPumped
===============================================================================
