------------------------------ MODULE Governance ------------------------------
(***************************************************************************)
(* Vested tokens and the power they give in the election of witnesses:     *)
(* power up and down, delegation, delayed votes, proxies, witness votes,   *)
(* and what every block does to them.  The totals a witness, a proxy or an *)
(* account carries are running sums; the properties compare them with what *)
(* they are sums of.                                                       *)
(*                                                                         *)
(* db is the state of the chain as far as it is about vested tokens.  An   *)
(* amount is a number of VESTS; the liquid side of a conversion, mana and  *)
(* virtual scheduling time are left out.  Hardforks up to 28 are active.   *)
(***************************************************************************)
EXTENDS Integers, Sequences, FiniteSets, SequencesExt, FiniteSetsExt

CONSTANTS
  Account, Witness, NoAccount,
  pixa_ico,     \* the account that transfers VESTS and does nothing else
  id,           \* [Account -> Nat], the order of the account objects
  Worlds,       \* what a behaviour may be about: the accounts, who does which
                \* operations, initial VESTS and rewards, the last block,
                \* and a bound on total_vesting_shares
  HIVE_MAX_PROXY_RECURSION_DEPTH, HIVE_MAX_ACCOUNT_WITNESS_VOTES,
  HIVE_VESTING_WITHDRAW_INTERVALS, HIVE_VESTING_WITHDRAW_INTERVAL,
  HIVE_MAX_WITHDRAW_ROUTES, HIVE_100_PERCENT,
  HIVE_DELAYED_VOTING_TOTAL_INTERVAL, HIVE_DELAYED_VOTING_INTERVAL,
  HIVE_GOVERNANCE_VOTE_EXPIRATION_PERIOD, HIVE_OWNER_AUTH_RECOVERY_PERIOD,
  delegation_return_period, min_delegation, min_update,
  MaxAmount,    \* bound on the VESTS of one operation
  MaxGap        \* bound on the time between two blocks

Operation == {"power_up", "power_down", "route", "claim", "transfer", "delegate",
              "vote", "proxy", "decline", "produce", "delegate_rc", "other"}

ASSUME GovernanceAssumption ==
  /\ NoAccount \notin Account
  /\ id \in [Account -> Nat] /\ \A a, b \in Account : id[a] = id[b] => a = b
  /\ Worlds \subseteq [operations : SUBSET (Operation \X Account), accounts : SUBSET Account,
                        vesting : [Account -> Nat], rewards : [Account -> Nat], last : Nat, total : Nat,
                        credits : BOOLEAN, transactions : Nat, tos : SUBSET SUBSET Account,
                        others : SUBSET [name : STRING, allocates : Nat, replaces : Nat, free : BOOLEAN]]
  /\ {HIVE_MAX_PROXY_RECURSION_DEPTH, HIVE_MAX_ACCOUNT_WITNESS_VOTES,
      HIVE_VESTING_WITHDRAW_INTERVALS, HIVE_VESTING_WITHDRAW_INTERVAL, HIVE_MAX_WITHDRAW_ROUTES,
      HIVE_100_PERCENT, HIVE_DELAYED_VOTING_TOTAL_INTERVAL, HIVE_DELAYED_VOTING_INTERVAL,
      HIVE_GOVERNANCE_VOTE_EXPIRATION_PERIOD, HIVE_OWNER_AUTH_RECOVERY_PERIOD,
      delegation_return_period, min_delegation, min_update} \subseteq Nat \ {0}
  /\ {MaxAmount, MaxGap} \subseteq Nat

VARIABLES
  db,       \* accounts, their votes and delegations, the totals
  now,      \* head_block_time()
  world     \* one of Worlds, for ever

vars == <<db, now, world>>

Members == world.accounts               \* the accounts that exist

Never == 1000000                      \* time_point_sec::maximum()
Depth == HIVE_MAX_PROXY_RECURSION_DEPTH
Levels == 1..Depth                    \* of proxied_vsf_votes, which counts from 0

SumOver(S, f(_)) == MapThenSumSet(f, S)
SumSeq(s) == LET sum[i \in 0..Len(s)] == IF i = 0 THEN 0 ELSE sum[i - 1] + s[i] IN sum[Len(s)]

FreshAccount(vests, rewards) ==
  [vesting_shares |-> vests, delegated_vesting_shares |-> 0, received_vesting_shares |-> 0,
   reward_vesting_balance |-> rewards, vesting_withdraw_rate |-> 0, to_withdraw |-> 0,
   withdrawn |-> 0, next_vesting_withdrawal |-> Never, delayed_votes |-> <<>>,
   sum_delayed_votes |-> 0, proxy |-> NoAccount, proxied_vsf_votes |-> [i \in Levels |-> 0],
   witnesses_voted_for |-> 0, can_vote |-> TRUE, governance_vote_expiration_ts |-> Never]

Init ==
  /\ world \in Worlds
  /\ now = 0
  /\ db = [acc |-> [a \in Members |-> FreshAccount(world.vesting[a], world.rewards[a])],
           total_vesting_shares |-> SumOver(Members, LAMBDA a : world.vesting[a]),
           votes |-> [w \in Witness |-> 0],
           witness_vote_index |-> {},
           delegation |-> [p \in Members \X Members |-> 0],
           returning |-> {},
           effective_date |-> [a \in Members |-> Never],
           route |-> [p \in Members \X Members |-> [percent |-> 0, auto_vest |-> FALSE]],
           asserted |-> FALSE]

--------------------
(* Governance power *)

get_direct_governance_vote_power(x) == x.vesting_shares - x.sum_delayed_votes

get_governance_vote_power(x) ==
  get_direct_governance_vote_power(x) + SumSeq(x.proxied_vsf_votes)

\* a, its proxy, the proxy of that one and so on, one further than votes travel.
ProxyChain(acc, a) ==
  LET up[i \in 0..(Depth + 1)] ==
        IF i = 0 THEN <<a>>
        ELSE LET top == Last(up[i - 1])
             IN  IF acc[top].proxy = NoAccount THEN up[i - 1] ELSE Append(up[i - 1], acc[top].proxy)
  IN  up[Depth + 1]

\* adjust_witness_vote of every witness a votes for.
adjust_witness_votes(d, a, delta) ==
  LET changed == {w \in Witness : <<a, w>> \in d.witness_vote_index}
  IN  [d EXCEPT
        !.votes = [w \in Witness |-> IF w \in changed THEN @[w] + delta ELSE @[w]],
        !.asserted = @ \/ \E w \in changed : d.votes[w] + delta > d.total_vesting_shares]

\* Mutant: the levels are not shifted on the way up.
HopUnshifted(proxied, hop, delta) == [j \in Levels |-> proxied[j] + (IF j >= hop THEN delta[j] ELSE 0)]

\* The hop-th proxy receives the levels of delta that still fit.
Hop(proxied, hop, delta) == [j \in Levels |-> proxied[j] + (IF j >= hop THEN delta[j - hop + 1] ELSE 0)]

\* delta[1] is a change of a's own power, delta[i + 1] one of what reaches a over
\* i proxies.  The account at the top of the chain passes the sum of all that
\* reaches it to the witnesses it votes for, unless the top is too far.
adjust_proxied_witness_votes(d, a, delta) ==
  LET chain == ProxyChain(d.acc, a)
      hops == Len(chain) - 1
      Reaches(x) == {h \in 1..Min({hops, Depth}) : chain[h + 1] = x}      \* at most once
      moved == [d EXCEPT !.acc = [x \in Members |->
                  IF Reaches(x) = {} THEN d.acc[x]
                  ELSE [d.acc[x] EXCEPT !.proxied_vsf_votes =
                          Hop(@, CHOOSE h \in Reaches(x) : TRUE, delta)]]]
  IN  IF hops > Depth THEN moved
      ELSE adjust_witness_votes(moved, Last(chain), SumSeq(SubSeq(delta, 1, Depth + 1 - hops)))

\* The overload for a change of a's own power.
AdjustOwn(d, a, amount) ==
  IF amount = 0 THEN d
  ELSE adjust_proxied_witness_votes(d, a, <<amount>> \o [i \in Levels |-> 0])

\* All a brings to its proxy or its witnesses, and the same taken back.
Carried(x) == <<get_direct_governance_vote_power(x)>> \o x.proxied_vsf_votes
Negated(s) == <<-Head(s)>> \o [i \in 1..(Len(s) - 1) |-> -s[i + 1]]

nullify_proxied_witness_votes(d, a) ==
  adjust_proxied_witness_votes(d, a, Negated(Carried(d.acc[a])))

clear_witness_votes(d, a) ==
  [d EXCEPT !.witness_vote_index = {v \in @ : v[1] # a}, !.acc[a].witnesses_voted_for = 0]

update_governance_vote_expiration_ts(d, a) ==
  [d EXCEPT !.acc[a].governance_vote_expiration_ts = now + HIVE_GOVERNANCE_VOTE_EXPIRATION_PERIOD]

--------------------
(* Delayed votes *)

\* delayed_voting_processor::add: one entry per interval, the newest at the back.
add_delayed_value(x, time, val) ==
  LET items == x.delayed_votes
  IN  IF val = 0 THEN x
      ELSE [x EXCEPT !.sum_delayed_votes = @ + val,
                     !.delayed_votes =
                       IF items = <<>> \/ time >= Last(items).time + HIVE_DELAYED_VOTING_INTERVAL
                       THEN Append(items, [time |-> time, val |-> val])
                       ELSE [items EXCEPT ![Len(items)].val = @ + val]]

\* delayed_voting_processor::erase: the newest entries first.
erase_delayed_value(x, count) ==
  LET items == x.delayed_votes
      Newer(k) == SumOver((k + 1)..Len(items), LAMBDA i : items[i].val)
      kept == {k \in DOMAIN items : Newer(k) + items[k].val > count}
  IN  [x EXCEPT !.sum_delayed_votes = @ - count,
                !.delayed_votes = [k \in kept |->
                  [items[k] EXCEPT !.val = IF Newer(k) >= count THEN @ ELSE @ - (count - Newer(k))]]]

\* delayed_voting::update_votes for the account that powers down: what its
\* delayed votes do not cover is taken from its power.
TakeVotes(d, a, count) ==
  LET covered == Min({count, d.acc[a].sum_delayed_votes})
  IN  AdjustOwn([d EXCEPT !.acc[a] = erase_delayed_value(@, covered)], a, covered - count)

Matured(x, time) ==
  SelectSeq(x.delayed_votes, LAMBDA v : time >= v.time + HIVE_DELAYED_VOTING_TOTAL_INTERVAL)
SumOf(items) == SumOver(DOMAIN items, LAMBDA i : items[i].val)

\* delayed_voting::run for one account: its matured entries become votes.
Mature(d, a, time) ==
  LET ripe == Matured(d.acc[a], time)
  IN  [AdjustOwn(d, a, SumOf(ripe)) EXCEPT
         !.acc[a].delayed_votes = SubSeq(@, Len(ripe) + 1, Len(@)),
         !.acc[a].sum_delayed_votes = @ - SumOf(ripe)]

process_delayed_voting(d, time) ==
  LET ripe == {a \in Members : Matured(d.acc[a], time) # <<>>}
      order == SetToSortSeq(ripe, LAMBDA a, b : id[a] < id[b])
      run[i \in 0..Len(order)] == IF i = 0 THEN d ELSE Mature(run[i - 1], order[i], time)
  IN  run[Len(order)]

--------------------
(* Operations about votes *)

Does(operation, a) == <<operation, a>> \in world.operations
Governs(a) == a # pixa_ico /\ db.acc[a].can_vote

\* The accounts above p and a itself are all different; their number is limited.
ProxyAllowed(a, p) ==
  LET chain == ProxyChain(db.acc, p)
  IN  /\ p # a /\ db.acc[a].proxy # p
      /\ Len(chain) > 1 => Len(chain) + 1 <= Depth /\ IsInjective(<<a>> \o chain)

SetProxy(a, p) ==
  /\ Does("proxy", a)
  /\ Governs(a)
  /\ ProxyAllowed(a, p)
  /\ LET cleared == clear_witness_votes(nullify_proxied_witness_votes(
                      update_governance_vote_expiration_ts(db, a), a), a)
         set == [cleared EXCEPT !.acc[a].proxy = p]
     IN  db' = adjust_proxied_witness_votes(set, a, Carried(set.acc[a]))
  /\ UNCHANGED <<now, world>>

ClearProxy(a) ==
  /\ Does("proxy", a)
  /\ Governs(a)
  /\ db.acc[a].proxy # NoAccount
  /\ db' = [nullify_proxied_witness_votes(update_governance_vote_expiration_ts(db, a), a)
             EXCEPT !.acc[a].proxy = NoAccount]
  /\ UNCHANGED <<now, world>>

\* adjust_witness_vote
AdjustOne(d, w, delta) ==
  [d EXCEPT !.votes[w] = @ + delta,
            !.asserted = @ \/ d.votes[w] + delta > d.total_vesting_shares]

VoteWitness(a, w) ==
  /\ Does("vote", a)
  /\ Governs(a)
  /\ db.acc[a].proxy = NoAccount
  /\ LET d == update_governance_vote_expiration_ts(db, a)
         power == get_governance_vote_power(db.acc[a])
     IN  IF <<a, w>> \notin db.witness_vote_index
         THEN /\ db.acc[a].witnesses_voted_for < HIVE_MAX_ACCOUNT_WITNESS_VOTES
              /\ db' = [AdjustOne(d, w, power) EXCEPT !.witness_vote_index = @ \union {<<a, w>>},
                                                      !.acc[a].witnesses_voted_for = @ + 1]
         ELSE db' = [AdjustOne(d, w, -power) EXCEPT !.witness_vote_index = @ \ {<<a, w>>},
                                                    !.acc[a].witnesses_voted_for = @ - 1]
  /\ UNCHANGED <<now, world>>

DeclineVotingRights(a) ==
  /\ Does("decline", a)
  /\ db.acc[a].can_vote
  /\ db' = [db EXCEPT !.effective_date[a] =
              IF @ = Never THEN now + HIVE_OWNER_AUTH_RECOVERY_PERIOD ELSE Never]
  /\ UNCHANGED <<now, world>>

--------------------
(* Operations about VESTS *)

CreateVests(d, a, amount) ==
  [d EXCEPT !.acc[a].vesting_shares = @ + amount, !.total_vesting_shares = @ + amount]

TransferToVesting(to, amount) ==
  /\ Does("power_up", to)
  /\ db.total_vesting_shares + amount <= world.total
  /\ db' = [CreateVests(db, to, amount) EXCEPT !.acc[to] = add_delayed_value(@, now, amount)]
  /\ UNCHANGED <<now, world>>

ClaimRewardBalance(a, amount) ==
  /\ Does("claim", a) /\ a # pixa_ico
  /\ amount <= db.acc[a].reward_vesting_balance
  /\ db' = AdjustOwn([CreateVests(db, a, amount) EXCEPT !.acc[a].reward_vesting_balance = @ - amount],
                     a, amount)
  /\ UNCHANGED <<now, world>>

\* transfer of VESTS, which only pixa_ico may do.
TransferVests(to, amount) ==
  LET from == db.acc[pixa_ico]
      taken == AdjustOwn([db EXCEPT !.acc[pixa_ico].vesting_shares = @ - amount], pixa_ico, -amount)
  IN  /\ Does("transfer", pixa_ico)
      /\ from.vesting_shares - from.delegated_vesting_shares >= amount
      /\ from.vesting_shares - amount >= from.sum_delayed_votes
      /\ db' = [taken EXCEPT !.acc[to] =
                  add_delayed_value([@ EXCEPT !.vesting_shares = @ + amount], now, amount)]
      /\ UNCHANGED <<now, world>>

get_total_vesting_withdrawal(x) == x.to_withdraw - x.withdrawn
has_active_power_down(x) == x.next_vesting_withdrawal # Never
get_next_vesting_withdrawal(x) ==
  IF has_active_power_down(x) THEN Min({x.vesting_withdraw_rate, get_total_vesting_withdrawal(x)}) ELSE 0

PowerDown(x, rate, next, amount) ==
  [x EXCEPT !.vesting_withdraw_rate = rate, !.next_vesting_withdrawal = next,
            !.to_withdraw = amount, !.withdrawn = 0]

\* The rate at which amount is gone after the intervals, rounded up.
WithdrawRate(amount) ==
  LET quotient == Max({1, amount \div HIVE_VESTING_WITHDRAW_INTERVALS})
  IN  IF quotient * HIVE_VESTING_WITHDRAW_INTERVALS < amount THEN quotient + 1 ELSE quotient

WithdrawVesting(a, amount) ==
  LET x == db.acc[a]
      rate == WithdrawRate(amount)
  IN  /\ Does("power_down", a) /\ a # pixa_ico
      /\ x.vesting_shares - x.delegated_vesting_shares >= amount
      /\ \/ amount = 0 /\ has_active_power_down(x)
            /\ db' = [db EXCEPT !.acc[a] = PowerDown(@, 0, Never, 0)]
         \/ amount > 0 /\ x.vesting_withdraw_rate # rate
            /\ db' = [db EXCEPT !.acc[a] = PowerDown(@, rate, now + HIVE_VESTING_WITHDRAW_INTERVAL, amount)]
      /\ UNCHANGED <<now, world>>

\* percent 0 removes the route.
SetWithdrawVestingRoute(a, to, percent, auto_vest) ==
  LET routes == {b \in Members : db.route[a, b].percent > 0}
      changed == [db EXCEPT !.route[a, to] =
                   [percent |-> percent, auto_vest |-> auto_vest /\ percent # 0]]
  IN  /\ Does("route", a)
      /\ to \in routes \/ (percent # 0 /\ Cardinality(routes) < HIVE_MAX_WITHDRAW_ROUTES)
      /\ SumOver(Members, LAMBDA b : changed.route[a, b].percent) <= HIVE_100_PERCENT
      /\ db' = changed
      /\ UNCHANGED <<now, world>>

\* What may be delegated when mana is full: all but what is delegated already and
\* the rest of the power down, of which the running step is counted once.
AvailableShares(x) ==
  LET step == get_next_vesting_withdrawal(x)
      rest == get_total_vesting_withdrawal(x)
  IN  x.vesting_shares - x.delegated_vesting_shares - step
      + (IF has_active_power_down(x) /\ rest > x.vesting_withdraw_rate THEN step - rest ELSE 0)

MoreDelegated(from, to, delta) ==
  [db EXCEPT !.delegation[from, to] = @ + delta,
             !.acc[from].delegated_vesting_shares = @ + delta,
             !.acc[to].received_vesting_shares = @ + delta]

\* The delegatee loses delta at once; the delegator gets it back later.
LessDelegated(from, to, delta) ==
  LET expiration == now + delegation_return_period
      same == {r \in db.returning : r.delegator = from /\ r.expiration = expiration}
      back == [delegator |-> from, expiration |-> expiration,
               vesting |-> delta + SumOver(same, LAMBDA r : r.vesting)]
  IN  [db EXCEPT !.delegation[from, to] = @ - delta,
                 !.acc[to].received_vesting_shares = @ - delta,
                 !.returning = (@ \ same) \union {back}]

DelegateVestingShares(from, to, amount) ==
  LET old == db.delegation[from, to]
      available == AvailableShares(db.acc[from])
  IN  /\ Does("delegate", from) /\ from # pixa_ico /\ to # from
      /\ \/ /\ old = 0
            /\ available >= amount /\ amount >= min_delegation
            /\ db' = MoreDelegated(from, to, amount)
         \/ /\ old > 0 /\ amount >= old
            /\ amount - old >= min_update /\ available >= amount - old
            /\ db' = MoreDelegated(from, to, amount - old)
         \/ /\ old > 0 /\ amount < old
            /\ amount > 0 => old - amount >= min_update /\ amount >= min_delegation
            /\ db' = LessDelegated(from, to, old - amount)
      /\ UNCHANGED <<now, world>>

--------------------
(* What a block does after its transactions *)

clear_expired_delegations(d, time) ==
  LET expired == {r \in d.returning : r.expiration < time}
      Back(a) == SumOver({r \in expired : r.delegator = a}, LAMBDA r : r.vesting)
  IN  [d EXCEPT !.returning = @ \ expired,
                !.acc = [a \in Members |-> [@[a] EXCEPT !.delegated_vesting_shares = @ - Back(a)]]]

\* The reward of the witness who produced the block votes at once.
RewardProducer(d, a) == IF a = NoAccount THEN d ELSE AdjustOwn(CreateVests(d, a, 1), a, 1)

\* NoAccount: a witness that is not among the accounts.
Producer == {NoAccount} \union {a \in Members : Does("produce", a)}

Withdrawn(d, a) == Min({get_next_vesting_withdrawal(d.acc[a]), d.acc[a].vesting_shares})
Routed(d, a, b, amount) ==
  IF d.route[a, b].auto_vest THEN (amount * d.route[a, b].percent) \div HIVE_100_PERCENT ELSE 0

\* One step of the power down of a.  What auto-vesting routes bring to others is
\* delayed there; what they bring back to a was never gone.
WithdrawStep(d, a, time) ==
  LET x == d.acc[a]
      amount == Withdrawn(d, a)
      Deposit(b) == Routed(d, a, b, amount)
      vested == SumOver(Members, Deposit)
      left == x.vesting_shares - amount + Deposit(a)
      ended == x.to_withdraw - (x.withdrawn + amount) <= 0 \/ left = 0
      paid == IF ended THEN PowerDown(x, 0, Never, 0)
              ELSE [x EXCEPT !.withdrawn = @ + amount,
                             !.next_vesting_withdrawal = @ + HIVE_VESTING_WITHDRAW_INTERVAL]
      Receive(b) == add_delayed_value([d.acc[b] EXCEPT !.vesting_shares = @ + Deposit(b)], time, Deposit(b))
      moved == [d EXCEPT !.acc = [b \in Members |-> IF b = a THEN [paid EXCEPT !.vesting_shares = left]
                                                    ELSE Receive(b)],
                         !.total_vesting_shares = @ - (amount - vested)]
  IN  TakeVotes(moved, a, amount - Deposit(a))

\* The order of by_next_vesting_withdrawal; NoAccount is its end.
NextWithdrawal(d, after, time) ==
  LET Key(a) == <<d.acc[a].next_vesting_withdrawal, id[a]>>
      Less(k, l) == k[1] < l[1] \/ (k[1] = l[1] /\ k[2] < l[2])
      due == {a \in Members : /\ d.acc[a].next_vesting_withdrawal <= time
                              /\ after # NoAccount => Less(Key(after), Key(a))}
  IN  IF due = {} THEN NoAccount ELSE CHOOSE a \in due : \A b \in due \ {a} : Less(Key(a), Key(b))

\* The iterator moves on before its account is changed: an account that lags
\* behind takes a second step only if its new date comes after the next account.
Withdrawals(d, time) ==
  LET due == {a \in Members : d.acc[a].next_vesting_withdrawal <= time}
      steps == SumOver(due, LAMBDA a : time - d.acc[a].next_vesting_withdrawal + 1)
      run[i \in 0..steps] ==
        IF i = 0 THEN [d |-> d, current |-> NextWithdrawal(d, NoAccount, time)]
        ELSE LET s == run[i - 1]
             IN  IF s.current = NoAccount THEN s
                 ELSE [d |-> WithdrawStep(s.d, s.current, time),
                       current |-> NextWithdrawal(s.d, s.current, time)]
  IN  [i \in 1..(steps + 1) |-> run[i - 1]]

process_vesting_withdrawals(d, time) == Last(Withdrawals(d, time)).d

\* Everything a votes with is taken back, its votes and its proxy are removed.
LeaveGovernance(d, a) ==
  [clear_witness_votes(nullify_proxied_witness_votes(d, a), a) EXCEPT !.acc[a].proxy = NoAccount]

\* The accounts of S by date, the first n of them.
FirstBy(S, date, n) ==
  SubSeq(SetToSortSeq(S, LAMBDA a, b : date[a] < date[b] \/ (date[a] = date[b] /\ id[a] < id[b])), 1, n)

\* Removing proposal votes has a limit per block, so n of the requests are done.
process_decline_voting_rights(d, time, n) ==
  LET order == FirstBy({a \in Members : d.effective_date[a] <= time}, d.effective_date, n)
      run[i \in 0..Len(order)] ==
        IF i = 0 THEN d
        ELSE [LeaveGovernance(run[i - 1], order[i]) EXCEPT !.acc[order[i]].can_vote = FALSE,
                                                           !.effective_date[order[i]] = Never]
  IN  run[Len(order)]

\* The same limit ends this loop after n accounts.
remove_expired_governance_votes(d, time, n) ==
  LET ts == [a \in Members |-> d.acc[a].governance_vote_expiration_ts]
      order == FirstBy({a \in Members : ts[a] <= time}, ts, n)
      run[i \in 0..Len(order)] ==
        IF i = 0 THEN d
        ELSE [LeaveGovernance(run[i - 1], order[i]) EXCEPT !.acc[order[i]].governance_vote_expiration_ts = Never]
  IN  run[Len(order)]

\* _apply_block after the transactions: time moves on, then the steps in order.
EndBlock(time, producer, declines, expiries) ==
  LET rewarded == RewardProducer(clear_expired_delegations(db, time), producer)
      withdrawn == process_vesting_withdrawals(rewarded, time)
      declined == process_decline_voting_rights(withdrawn, time, declines)
      matured == process_delayed_voting(declined, time)
  IN  /\ time <= world.last
      /\ producer # NoAccount => db.total_vesting_shares < world.total
      /\ declines <= Cardinality({a \in Members : db.effective_date[a] <= time})
      /\ expiries <= Cardinality({a \in Members : db.acc[a].governance_vote_expiration_ts <= time})
      /\ now' = time
      /\ db' = remove_expired_governance_votes(matured, time, expiries)
      /\ UNCHANGED world

\* After the last block of the bound nothing needs to happen.
Stop == now = world.last /\ UNCHANGED vars

Amount == 1..MaxAmount

Next ==
  \/ \E a, p \in Members : SetProxy(a, p)
  \/ \E a \in Members : ClearProxy(a)
  \/ \E a \in Members, w \in Witness : VoteWitness(a, w)
  \/ \E a \in Members : DeclineVotingRights(a)
  \/ \E a \in Members, amount \in Amount : TransferToVesting(a, amount)
  \/ \E a \in Members, amount \in Amount : ClaimRewardBalance(a, amount)
  \/ \E a \in Members, amount \in Amount : TransferVests(a, amount)
  \/ \E a \in Members, amount \in {0} \union Amount : WithdrawVesting(a, amount)
  \/ \E a, b \in Members, percent \in 0..HIVE_100_PERCENT, auto_vest \in BOOLEAN :
       SetWithdrawVestingRoute(a, b, percent, auto_vest)
  \/ \E a, b \in Members, amount \in {0} \union Amount : DelegateVestingShares(a, b, amount)
  \/ \E gap \in 1..MaxGap, producer \in Producer, m, n \in 0..Cardinality(Members) :
       EndBlock(now + gap, producer, m, n)
  \/ Stop

Spec == Init /\ [][Next]_vars

--------------------
(* Properties *)

\* Every field has its type; no running sum, balance or delay is ever negative
\* (share_type and ushare_type would wrap or go below zero silently).
TypeOK ==
  /\ now \in Nat /\ world \in Worlds
  /\ \A a \in Members : LET x == db.acc[a] IN
       /\ {x.vesting_shares, x.delegated_vesting_shares, x.received_vesting_shares,
           x.reward_vesting_balance, x.vesting_withdraw_rate, x.to_withdraw, x.withdrawn,
           x.sum_delayed_votes, x.witnesses_voted_for} \subseteq Nat
       /\ {x.next_vesting_withdrawal, x.governance_vote_expiration_ts, db.effective_date[a]} \subseteq Nat
       /\ x.proxy \in Members \union {NoAccount} /\ x.can_vote \in BOOLEAN
       /\ \A i \in Levels : x.proxied_vsf_votes[i] \in Nat
       /\ \A i \in 1..Len(x.delayed_votes) : x.delayed_votes[i] \in [time : Nat, val : Nat \ {0}]
  /\ db.votes \in [Witness -> Nat]
  /\ db.witness_vote_index \subseteq Members \X Witness
  /\ db.delegation \in [Members \X Members -> Nat]
  /\ db.returning \subseteq [delegator : Members, expiration : Nat, vesting : Nat \ {0}]
  /\ db.total_vesting_shares \in Nat

\* What validate_invariants asserts of VESTS: they are held by accounts, and each
\* is at the top of a proxy chain, lost beyond its last level, or delayed.
TotalsAddUp ==
  /\ db.total_vesting_shares = SumOver(Members, LAMBDA a : db.acc[a].vesting_shares)
  /\ db.total_vesting_shares = SumOver(Members, LAMBDA a :
       db.acc[a].sum_delayed_votes +
       (IF db.acc[a].proxy = NoAccount THEN get_governance_vote_power(db.acc[a])
        ELSE db.acc[a].proxied_vsf_votes[Depth]))

\* Proxies never form a loop, though only the accounts above a new proxy are
\* looked at.  proxied_vsf_votes[i] of an account is the own power of exactly the
\* accounts whose i-th proxy it is, and a witness has all the power of exactly the
\* accounts that vote for it, however chains grew, were cut, declined or expired;
\* the totals add up.
PowerExact ==
  LET Above(a) == LET chain == ProxyChain(db.acc, a)
                  IN  {<<a, i, chain[i + 1]>> : i \in 1..(Len(chain) - 1)}
      above == UNION {Above(a) : a \in Members}
  IN  /\ TotalsAddUp
      /\ \A S \in SUBSET Members \ {{}} : \E a \in S : db.acc[a].proxy \notin S
      /\ \A x \in Members, i \in Levels : db.acc[x].proxied_vsf_votes[i] =
           SumOver({t \in above : t[2] = i /\ t[3] = x},
                   LAMBDA t : get_direct_governance_vote_power(db.acc[t[1]]))
      /\ \A w \in Witness : db.votes[w] =
           SumOver({a \in Members : <<a, w>> \in db.witness_vote_index},
                   LAMBDA a : get_governance_vote_power(db.acc[a]))
      /\ \A a \in Members : db.acc[a].witnesses_voted_for =
           Cardinality({w \in Witness : <<a, w>> \in db.witness_vote_index})

\* VESTS that are delegated or on their way back, and VESTS still to be powered
\* down, are different VESTS the account owns, so that the alarm in
\* process_vesting_withdrawals cannot go off.  A power down is complete after the
\* intervals: its rate covers all of it and only whole steps were taken.
PowerDownCovered ==
  \A a \in Members : LET x == db.acc[a] IN
    /\ x.delegated_vesting_shares + get_total_vesting_withdrawal(x) <= x.vesting_shares
    /\ IF has_active_power_down(x)
       THEN /\ x.withdrawn < x.to_withdraw
            /\ x.vesting_withdraw_rate * HIVE_VESTING_WITHDRAW_INTERVALS >= x.to_withdraw
            /\ x.withdrawn % x.vesting_withdraw_rate = 0
       ELSE <<x.vesting_withdraw_rate, x.to_withdraw, x.withdrawn>> = <<0, 0, 0>>

\* Both sides of every delegation agree: an account has delegated what its
\* delegations and expirations say, and received what others delegate to it.
DelegationsExact ==
  \A a \in Members :
    /\ db.acc[a].received_vesting_shares = SumOver(Members, LAMBDA b : db.delegation[b, a])
    /\ db.acc[a].delegated_vesting_shares =
         SumOver(Members, LAMBDA b : db.delegation[a, b])
         + SumOver({r \in db.returning : r.delegator = a}, LAMBDA r : r.vesting)

\* The delayed votes of an account add up, are its own VESTS, are younger than
\* the delay, one interval apart, and never more than fit into the delay.
DelayedExact ==
  \A a \in Members : LET x == db.acc[a]  items == x.delayed_votes IN
    /\ x.sum_delayed_votes = SumOf(items) /\ x.sum_delayed_votes <= x.vesting_shares
    /\ Len(items) * HIVE_DELAYED_VOTING_INTERVAL <= HIVE_DELAYED_VOTING_TOTAL_INTERVAL
    /\ \A i \in 1..Len(items) : /\ items[i].time <= now
                                /\ now < items[i].time + HIVE_DELAYED_VOTING_TOTAL_INTERVAL
                                /\ i > 1 => items[i].time >= items[i - 1].time + HIVE_DELAYED_VOTING_INTERVAL

\* All of the above about the VESTS of an account.
VestsAccounted == TypeOK /\ DelayedExact /\ PowerDownCovered /\ DelegationsExact

\* The assertion in adjust_witness_vote never stops a block: at each of its
\* intermediate states a witness has at most the total of all VESTS.
NoAssertionFails == ~db.asserted

\* An account that votes or has a proxy has a date at which that expires, has not
\* declined its voting rights and is not pixa_ico, whatever was requested before
\* or while the request to decline was waiting.
VotersEntitled ==
  \A a \in Members :
    /\ db.acc[a].proxy # NoAccount \/ db.acc[a].witnesses_voted_for > 0
         => /\ db.acc[a].governance_vote_expiration_ts # Never
            /\ db.acc[a].can_vote /\ a # pixa_ico
    /\ ~db.acc[a].can_vote => db.effective_date[a] = Never

\* The VESTS are accounted for, the power of votes they give is exact, only those who
\* may vote have it, and no assertion about it fails inside a block.
\* (adjust_proxied_witness_votes and the evaluators that move VESTS)
GovernanceExact == VestsAccounted /\ PowerExact /\ NoAssertionFails /\ VotersEntitled

\* New VESTS get no vote before they matured: between two blocks only a claimed
\* reward raises the own power of an account.
OnlyRewardsVoteAtOnce ==
  [][now' = now => \A a \in Members :
       get_direct_governance_vote_power(db'.acc[a]) - get_direct_governance_vote_power(db.acc[a])
         <= db.acc[a].reward_vesting_balance - db'.acc[a].reward_vesting_balance]_vars
===============================================================================
