---- MODULE Chain ----
(***************************************************************************)
(* Witnesses, the order they produce blocks in and what they decide        *)
(* together: the operations about witnesses, and what a block does for     *)
(* them; then hardforks, and the chain of blocks as a whole.               *)
(*                                                                         *)
(* Every HIVE_MAX_WITNESSES blocks the future schedule becomes the current *)
(* one and the next is drawn: the most approved witnesses, and of the      *)
(* others the ones whose virtual time has come.  Virtual time is an        *)
(* unsigned integer that wraps, up to VIRTUAL_MAX.  Versions are numbers   *)
(* of hardforks.  Votes are changed here by AdjustWitnessVote, which       *)
(* stands for everything the module Governance says about them.            *)
(***************************************************************************)
EXTENDS Accounts, ResourceDynamics

CONSTANTS
  HIVE_MAX_WITNESSES, max_voted_witnesses, HIVE_HARDFORK_REQUIRED_WITNESSES, HIVE_100_PERCENT,
  VIRTUAL_MAX,               \* HIVE_VIRTUAL_SCHEDULE_LAP_LENGTH2
  NoKey,                     \* the signing key of a disabled witness
  HIVE_WITNESS_SUBSIDY_BUDGET_PERCENT, HIVE_WITNESS_SUBSIDY_DECAY_PERCENT, HIVE_DECAY_BACKSTOP_PERCENT,
  HIVE_FEED_INTERVAL_BLOCKS, HIVE_MAX_FEED_AGE_SECONDS, RECENT_SLOTS, elected_weight, timeshare_weight

ASSUME WitnessAssumption ==
  /\ {HIVE_MAX_WITNESSES, HIVE_HARDFORK_REQUIRED_WITNESSES, HIVE_100_PERCENT, VIRTUAL_MAX,
      HIVE_FEED_INTERVAL_BLOCKS, RECENT_SLOTS} \subseteq Nat \ {0}
  /\ max_voted_witnesses \in 0..HIVE_MAX_WITNESSES

is_disabled(w) == w.signing_key = NoKey
Enabled(d) == {w \in DOMAIN d.witness : ~is_disabled(d.witness[w])}
Wrap(n) == n % (VIRTUAL_MAX + 1)

\* A witness as it is created: last in the virtual schedule.
FreshWitness(key, props, id) ==
  [id |-> id, signing_key |-> key, props |-> props, votes |-> 0, schedule |-> "none", total_missed |-> 0,
   last_confirmed_block_num |-> 0, virtual_last_update |-> 0, virtual_position |-> 0, virtual_scheduled_time |-> VIRTUAL_MAX,
   running_version |-> 0, hardfork_vote |-> <<0, 0>>, available_witness_account_subsidies |-> 0,
   hbd_exchange_rate |-> 0, last_hbd_exchange_update |-> 0, waited |-> 0]

--------------------
(* Operations *)

has_open_active_authority(d, a) == has_hardfork(d, 30) /\ is_open(d.auth[a].active)

\* From hardfork 30 on somebody has to be left who can produce.
MayDisable(d, w) == has_hardfork(d, 30) => w \in DOMAIN d.witness /\ Enabled(d) # {w}

WitnessUpdate(a, key, fee) ==
  LET props == IF a \in DOMAIN db.witness THEN [db.witness[a].props EXCEPT !.account_creation_fee = fee]
               ELSE [world.props EXCEPT !.account_creation_fee = fee]
  IN  /\ Signed(Active(a)) /\ Exists(db, a) /\ ~has_open_active_authority(db, a)
      /\ key = NoKey => MayDisable(db, a)
      /\ db' = [db EXCEPT !.witness = (a :> (IF a \in DOMAIN db.witness
                                              THEN [db.witness[a] EXCEPT !.signing_key = key, !.props = props]
                                              ELSE FreshWitness(key, props, Cardinality(DOMAIN db.witness)))) @@ @]
      /\ UNCHANGED <<now, world>>

\* change is a function from some of the properties to values; the block signing
\* key signs.
WitnessSetProperties(a, change) ==
  /\ a \in DOMAIN db.witness /\ ~has_open_active_authority(db, a)
  /\ Signed([NoneRequired EXCEPT !.other = <<[weight_threshold |-> 1, account_auths |-> <<>>,
                                             key_auths |-> <<<<db.witness[a].signing_key, 1>>>>]>>])
  /\ "new_signing_key" \in DOMAIN change /\ change["new_signing_key"] = NoKey /\ has_hardfork(db, 30)
       => Enabled(db) # {a}
  /\ db' = [db EXCEPT
       !.witness[a].props = [p \in DOMAIN @ |-> IF p \in DOMAIN change THEN change[p] ELSE @[p]],
       !.witness[a].signing_key = IF "new_signing_key" \in DOMAIN change THEN change["new_signing_key"] ELSE @,
       !.witness[a].hbd_exchange_rate = IF "hbd_exchange_rate" \in DOMAIN change THEN change["hbd_exchange_rate"] ELSE @,
       !.witness[a].last_hbd_exchange_update = IF "hbd_exchange_rate" \in DOMAIN change THEN now ELSE @]
  /\ UNCHANGED <<now, world>>

FeedPublish(a, price) ==
  /\ Signed(Active(a)) /\ ~has_open_active_authority(db, a) /\ a \in DOMAIN db.witness
  /\ db' = [db EXCEPT !.witness[a].hbd_exchange_rate = price, !.witness[a].last_hbd_exchange_update = now]
  /\ UNCHANGED <<now, world>>

\* get_witness_schedule_object_for_irreversibility
VirtualClock(d) == d.wso.future.current_virtual_time

adjust_witness_vote(d, w, delta) ==
  LET clock == VirtualClock(d)
      wit == d.witness[w]
      position == Wrap(wit.virtual_position + wit.votes * Wrap(clock - wit.virtual_last_update))
      scheduled == Wrap(clock + Wrap(VIRTUAL_MAX - position) \div (wit.votes + delta + 1))
  IN  [d EXCEPT !.witness[w] = [wit EXCEPT !.votes = @ + delta, !.virtual_position = position, !.virtual_last_update = clock,
                                  !.virtual_scheduled_time = IF scheduled < clock THEN VIRTUAL_MAX ELSE scheduled]]

AdjustWitnessVote(w, delta) ==
  /\ db.processing # NoAccount /\ w \in DOMAIN db.witness
  /\ db.witness[w].votes + delta \in 0..db.gpo.total_vesting_shares
  /\ db' = LET voted == adjust_witness_vote(db, w, delta)
            IN  [voted EXCEPT !.witness = [v \in DOMAIN @ |-> [@[v] EXCEPT !.waited = 0]]]
  /\ UNCHANGED <<now, world>>

--------------------
(* Subsidised accounts *)

process_subsidized_accounts(d) ==
  LET w == d.gpo.current_witness
  IN  [d EXCEPT !.gpo.available_account_subsidies = rd_apply(d.wso.current.account_subsidy_rd, @),
                !.witness[w].available_witness_account_subsidies =
                  IF d.witness[w].schedule = "elected" THEN rd_apply(d.wso.current.account_subsidy_witness_rd, @) ELSE @]

--------------------
(* What the scheduled witnesses agree on *)

Median(numbers) == SortSeq(numbers, <)[Len(numbers) \div 2 + 1]
PerWitness(amount, percent) == (amount * percent) \div HIVE_100_PERCENT

update_median_witness_props(d) ==
  LET scheduled == d.wso.future.shuffled
      Of(Value(_)) == Median([i \in DOMAIN scheduled |-> Value(d.witness[scheduled[i]])])
      median == [p \in DOMAIN world.props |-> Of(LAMBDA w : w.props[p])]
      all == rd_setup_dynamics_params(median.account_subsidy_budget, median.account_subsidy_decay)
      each == rd_setup_dynamics_params(PerWitness(median.account_subsidy_budget, HIVE_WITNESS_SUBSIDY_BUDGET_PERCENT),
                                       PerWitness(median.account_subsidy_decay, HIVE_WITNESS_SUBSIDY_DECAY_PERCENT))
      median_decay == rd_compute_pool_decay(each, Of(LAMBDA w : w.available_witness_account_subsidies))
  IN  [d EXCEPT !.wso.future.median = median, !.wso.future.account_subsidy_rd = all,
                !.wso.future.account_subsidy_witness_rd =
                  [each EXCEPT !.min_decay = PerWitness(median_decay, HIVE_DECAY_BACKSTOP_PERCENT)],
                !.asserted = @ \/ ~RdAsserts(all) \/ ~RdAsserts(each)]

\* The price the ledger gets: enough witnesses have to have reported of late.
update_median_feed(d, time) ==
  LET scheduled == d.wso.current.shuffled
      fresh == SelectSeq(scheduled, LAMBDA w : time < d.witness[w].last_hbd_exchange_update + HIVE_MAX_FEED_AGE_SECONDS
                                                 /\ d.witness[w].hbd_exchange_rate # 0)
  IN  IF d.gpo.head_block_num % HIVE_FEED_INTERVAL_BLOCKS # 0 \/ Len(fresh) < Max({1, Len(scheduled) \div 3}) THEN d
      ELSE [d EXCEPT !.median_feed = Median([i \in DOMAIN fresh |-> d.witness[fresh[i]].hbd_exchange_rate])]

--------------------
(* The next schedule *)

minimum_votes(d) ==
  LET total == d.gpo.total_vesting_shares
  IN  Max({1, total \div 100 + (IF total % 100 = 0 THEN 0 ELSE 1)})
Approved(d) == {w \in Enabled(d) : d.witness[w].votes >= minimum_votes(d)}

\* The floor counts from hardfork 30 on, and only if somebody reaches it.
Eligible(d) == IF has_hardfork(d, 30) /\ Approved(d) # {} THEN Approved(d) ELSE Enabled(d)

ByScheduleTime(d) ==
  SetToSortSeq(DOMAIN d.witness,
               LAMBDA v, w : LET a == d.witness[v] b == d.witness[w] IN
                               \/ a.virtual_scheduled_time < b.virtual_scheduled_time
                               \/ a.virtual_scheduled_time = b.virtual_scheduled_time /\ a.id < b.id)

\* The witnesses in the lead are passed over until the schedule is full.
Runners(d, elected) ==
  LET Step(so_far, w) ==
        IF Len(elected) + Len(so_far.chosen) >= HIVE_MAX_WITNESSES THEN so_far
        ELSE [processed |-> so_far.processed \cup {w}, time |-> d.witness[w].virtual_scheduled_time,
              chosen |-> IF w \in Eligible(d) \ ToSet(elected) THEN Append(so_far.chosen, w) ELSE so_far.chosen]
  IN  FoldLeft(Step, [processed |-> {}, time |-> VirtualClock(d), chosen |-> <<>>], ByScheduleTime(d))

LapOf(w) == VIRTUAL_MAX \div (w.votes + 1)

reset_virtual_schedule_time(d) ==
  [d EXCEPT !.wso.future.current_virtual_time = 0,
            !.witness = [w \in DOMAIN @ |-> [@[w] EXCEPT !.virtual_position = 0, !.virtual_last_update = 0,
                                                         !.virtual_scheduled_time = LapOf(d.witness[w])]]]

\* Whoever was passed runs another lap from now; if time overflows, all start again.
Advance(d, run) ==
  IF \E w \in run.processed : run.time + LapOf(d.witness[w]) > VIRTUAL_MAX THEN reset_virtual_schedule_time(d)
  ELSE [d EXCEPT !.wso.future.current_virtual_time = run.time,
                 !.witness = [w \in DOMAIN @ |-> IF w \notin run.processed THEN @[w]
                                ELSE [@[w] EXCEPT !.virtual_position = 0, !.virtual_last_update = run.time,
                                                  !.virtual_scheduled_time = run.time + LapOf(d.witness[w])]]]

\* A swap for every place, with what the generator gives for it.
Shuffle(s, random) ==
  LET Swap(t, i) == LET j == i + (random[i] % (Len(s) - i + 1)) IN [t EXCEPT ![i] = t[j], ![j] = t[i]]
  IN  FoldLeft(Swap, s, [i \in DOMAIN s |-> i])

pixa_hardfork_quorum(n) ==
  IF n = 0 THEN HIVE_HARDFORK_REQUIRED_WITNESSES
  ELSE Min({n, Max({1, (n * HIVE_HARDFORK_REQUIRED_WITNESSES + HIVE_MAX_WITNESSES - 1) \div HIVE_MAX_WITNESSES})})

\* Mutant: whoever is scheduled counts.
AllScheduled(d) == ToSet(d.wso.future.shuffled)

\* Scheduled witnesses that produced a block of late.
Producing(d) ==
  {w \in ToSet(d.wso.future.shuffled) :
     /\ d.witness[w].last_confirmed_block_num # 0
     /\ d.gpo.head_block_num - d.witness[w].last_confirmed_block_num <= 2 * HIVE_MAX_WITNESSES}

Voters(d, vote) == {w \in Producing(d) : d.witness[w].hardfork_vote = vote}

\* The votes for versions that are in force already are nobody's.
TallyHardforkVotes(d) ==
  LET scheduled == Len(d.wso.future.shuffled)
      basis == IF Producing(d) = {} THEN scheduled ELSE Cardinality(Producing(d))
      quorum == pixa_hardfork_quorum(basis)
      agreed == {vote \in {d.witness[w].hardfork_vote : w \in ToSet(d.wso.future.shuffled)} :
                   vote[1] > d.hf.last_hardfork /\ Cardinality(Voters(d, vote)) >= quorum}
      first == CHOOSE vote \in agreed : \A other \in agreed : vote[1] < other[1] \/ (vote[1] = other[1] /\ vote[2] <= other[2])
      tallied == [d EXCEPT !.tally = [producing |-> Producing(d), votes |-> [w \in DOMAIN d.witness |-> d.witness[w].hardfork_vote]]]
  IN  IF agreed = {} THEN [tallied EXCEPT !.hf.next_hardfork = d.hf.last_hardfork]
      ELSE [tallied EXCEPT !.hf.next_hardfork = first[1], !.hf.next_hardfork_time = first[2]]

\* The latest version that enough witnesses run, or the one from before.
majority_version(d) ==
  LET quorum == IF has_hardfork(d, 29) THEN pixa_hardfork_quorum(Cardinality(Producing(d)))
                ELSE d.wso.future.hardfork_required_witnesses
      run == {d.witness[w].running_version : w \in Producing(d)}
      enough == {v \in run : Cardinality({w \in Producing(d) : d.witness[w].running_version >= v}) >= quorum}
  IN  IF enough = {} THEN d.wso.future.majority_version ELSE Max(enough)

\* waited counts the rounds a witness with votes could have been scheduled in and
\* was not, since votes were last cast.
Waiting(d, chosen) ==
  [w \in DOMAIN d.witness |-> IF w \in chosen \/ w \notin Eligible(d) \/ d.witness[w].votes = 0 THEN 0
                              ELSE d.witness[w].waited + 1]

update_witness_schedule4(d, random) ==
  LET candidates == SelectSeq(ByVoteName(d), LAMBDA w : w \in Eligible(d))
      elected == SubSeq(candidates, 1, Min({max_voted_witnesses, Len(candidates)}))
      run == Runners(d, elected)
      chosen == elected \o run.chosen
      advanced == TallyHardforkVotes(Advance(d, run))
      scheduled == [advanced EXCEPT
        !.witness = [w \in DOMAIN @ |-> [@[w] EXCEPT !.waited = Waiting(d, ToSet(chosen))[w],
                       !.schedule = IF w \in ToSet(elected) THEN "elected" ELSE IF w \in ToSet(run.chosen) THEN "timeshare" ELSE @]],
        !.wso.future.shuffled = Shuffle(chosen, random),
        !.wso.future.majority_version = majority_version(d),
        !.wso.future.witness_pay_normalization_factor = elected_weight * Len(elected) + timeshare_weight * Len(run.chosen),
        !.wso.future.hardfork_required_witnesses =
          IF has_hardfork(d, 29) THEN pixa_hardfork_quorum(Max({1, Len(chosen)})) ELSE @]
  IN  IF chosen = <<>> \/ Len(chosen) # Min({HIVE_MAX_WITNESSES, Cardinality(Eligible(d))})
      THEN [d EXCEPT !.asserted = TRUE]
      ELSE update_median_witness_props(scheduled)

update_witness_schedule(d, random) ==
  IF d.gpo.head_block_num % HIVE_MAX_WITNESSES # 0 THEN d
  ELSE update_witness_schedule4([d EXCEPT !.wso.current = d.wso.future,
                                          !.gpo.maximum_block_size = d.wso.future.median.maximum_block_size], random)

--------------------
(* Slots *)

\* Places in the schedule are counted from 0.
get_scheduled_witness(d, slot) ==
  d.wso.current.shuffled[((d.gpo.current_aslot + slot) % Len(d.wso.current.shuffled)) + 1]

update_witness_missed_blocks(d, witness, missed) ==
  LET Missed(w) == {i \in 1..missed : get_scheduled_witness(d, i) = w}
  IN  [d EXCEPT !.witness = [w \in DOMAIN @ |-> IF w = witness THEN @[w]
                               ELSE [@[w] EXCEPT !.total_missed = @ + Cardinality(Missed(w))]]]

\* The slots of late, the youngest first: the block and then the missed ones.
PushSlots(gpo, missed) ==
  LET Push(g, filled) == [g EXCEPT !.recent_slots_filled = <<filled>> \o SubSeq(@, 1, RECENT_SLOTS - 1),
                                   !.participation_count = @ + filled - g.recent_slots_filled[RECENT_SLOTS]]
  IN  FoldLeft(Push, gpo, [i \in 1..(missed + 1) |-> IF i = 1 THEN 1 ELSE 0])

update_global_dynamic_data(d, witness, slot) ==
  LET noted == update_witness_missed_blocks(d, witness, slot - 1)
  IN  [noted EXCEPT !.gpo = [PushSlots(@, slot - 1) EXCEPT !.head_block_num = @ + 1, !.current_aslot = @ + slot]]

update_signing_witness(d, witness) == [d EXCEPT !.witness[witness].last_confirmed_block_num = d.gpo.head_block_num]

--------------------
(***************************************************************************)
(* The chain state about accounts and witnesses, block by block, with the  *)
(* hardforks the witnesses agree on.                                       *)
(*                                                                         *)
(* Hardforks: what a producer writes in the header of a block about the    *)
(* version it runs and the next hardfork it wants, what the others make of *)
(* it, and the hardforks that are due at the end of a block.  Witnesses    *)
(* may run other builds of this program: a build is its version and the    *)
(* times it has for hardforks.  world.build is this node's.                *)
(***************************************************************************)

CONSTANT HIVE_NUM_HARDFORKS

\* The vote of a witness is a version and a time.
TimeIn(build, number) == build.times[number]

\* block_producer: what the header says when the witness runs this build.
adjust_hardfork_version_vote(d, w, build) ==
  LET last == d.hf.last_hardfork
      wit == d.witness[w]
      next_vote == <<last + 1, TimeIn(build, last + 1)>>
  IN  [version |-> build.version,
       vote |-> IF last < build.version /\ wit.hardfork_vote # next_vote THEN next_vote
                ELSE IF last = build.version /\ wit.hardfork_vote[1] > build.version THEN <<last, TimeIn(build, last)>>
                ELSE wit.hardfork_vote]

process_header_extensions(d, w, header) ==
  [d EXCEPT !.witness[w].running_version = header.version, !.witness[w].hardfork_vote = header.vote]

apply_hardfork(d, number) ==
  LET Quorum(schedule) == pixa_hardfork_quorum(Len(schedule.shuffled))
      changed == IF number # 29 THEN d
                 ELSE [d EXCEPT !.wso.current.hardfork_required_witnesses = Quorum(d.wso.current),
                                !.wso.future.hardfork_required_witnesses = Quorum(d.wso.future)]
  IN  [changed EXCEPT !.hf.last_hardfork = number]

\* Mutant: whatever time the witnesses agree on.
HeldBackNever(d, time) == FALSE

\* The witnesses can not have hardfork 30 before its time.
HeldBack(d, time) ==
  LET configured == TimeIn(world.build, 30)
  IN  d.hf.last_hardfork + 1 = 30 /\ (d.hf.next_hardfork_time # configured \/ time < configured)

\* A hardfork this build does not know is refused, and the block with it.
process_hardforks(d, time) ==
  LET Step(e, i) ==
        IF e.hf.last_hardfork >= e.hf.next_hardfork \/ e.hf.next_hardfork_time > time \/ HeldBack(e, time) THEN e
        ELSE IF e.hf.last_hardfork < HIVE_NUM_HARDFORKS THEN apply_hardfork(e, e.hf.last_hardfork + 1)
        ELSE [e EXCEPT !.hf.unknown = TRUE]
  IN  FoldLeft(Step, d, [i \in 1..(HIVE_NUM_HARDFORKS + 1 - d.hf.last_hardfork) |-> i])

--------------------
(***************************************************************************)
(* Blocks as the chain state sees them: a header from the witness whose    *)
(* slot it is, the operations of its transactions, and what every block    *)
(* ends with, in the order of database::_apply_block.  The operations are  *)
(* the ones about accounts and witnesses; the ones about tokens, content   *)
(* and votes are in the modules Economy and Governance.                    *)
(***************************************************************************)

--------------------
(* Start *)

Genesis(w) ==
  [acc |-> [a \in w.accounts |-> FreshAccount(w.balance, w.agent[a])],
   auth |-> [a \in w.accounts |-> FreshAuthority(w.auths[a])],
   owner_history |-> <<>>, recovery_request |-> <<>>, change_recovery |-> <<>>, replaced |-> {},
   witness |-> [v \in DOMAIN w.witnesses |-> w.witnesses[v]],
   wso |-> [current |-> w.schedule, future |-> w.schedule],
   hf |-> [last_hardfork |-> w.hardfork, next_hardfork |-> w.hardfork, next_hardfork_time |-> 0, unknown |-> FALSE],
   tally |-> [producing |-> {}, votes |-> <<>>],
   gpo |-> [head_block_num |-> w.head, current_aslot |-> w.head, current_witness |-> NoAccount, total_vesting_shares |-> w.vests,
            maximum_block_size |-> w.schedule.median.maximum_block_size, available_account_subsidies |-> 0,
            recent_slots_filled |-> [i \in 1..RECENT_SLOTS |-> 1], participation_count |-> RECENT_SLOTS],
   median_feed |-> 0, asserted |-> FALSE, processing |-> NoAccount, slot |-> 0]

Init ==
  /\ world \in Worlds
  /\ db = Genesis(world) /\ now = world.start /\ quota = world.transactions

--------------------
(* Blocks *)

\* validate_block_header and what comes before the transactions.
StartBlock(slot, build) ==
  LET w == get_scheduled_witness(db, slot)
      started == process_header_extensions([db EXCEPT !.gpo.current_witness = w], w, adjust_hardfork_version_vote(db, w, build))
  IN  /\ db.processing = NoAccount /\ now + slot <= world.last
      /\ build \in world.builds[w] /\ ~is_disabled(db.witness[w])
      /\ started.witness[w].running_version >= db.hf.last_hardfork
      /\ db' = [started EXCEPT !.processing = w, !.slot = slot]
      /\ UNCHANGED <<now, world, quota>>

\* The rest of the block.
EndOfBlock(d, time, random) ==
  LET counted == update_signing_witness(update_global_dynamic_data(d, d.processing, d.slot), d.processing)
      scheduled == update_median_feed(update_witness_schedule(counted, random), time)
      accounts == account_recovery_processing(process_subsidized_accounts(scheduled), time)
  IN  [process_hardforks(accounts, time) EXCEPT !.processing = NoAccount, !.slot = 0]

FinishBlock(random) ==
  LET done == EndOfBlock(db, now + db.slot, random)
  IN  /\ db.processing # NoAccount /\ ~db.asserted
      /\ ~done.hf.unknown
      /\ now' = now + db.slot /\ db' = done
      /\ UNCHANGED <<world, quota>>

AccountOperation ==
  \/ \E a \in Who("account_create"), name \in world.names_to_take, auths \in world.new_auths : AccountCreate(a, name, auths)
  \/ \E a \in Who("claim_account"), fee \in world.fees : ClaimAccount(a, fee)
  \/ \E a \in Who("create_claimed_account"), name \in world.names_to_take, auths \in world.new_auths :
       CreateClaimedAccount(a, name, auths)
  \/ \E a \in Who("account_update"), update \in world.updates : AccountUpdate(a, "account_update", update)
  \/ \E a \in Who("account_update2"), update \in world.updates : AccountUpdate(a, "account_update2", update)
  \/ \E a \in Who("request_account_recovery"), b \in world.lost, owner \in world.owners : RequestAccountRecovery(a, b, owner)
  \/ \E a \in Who("recover_account"), owner, recent \in world.owners : RecoverAccount(a, owner, recent)
  \/ \E a \in Who("change_recovery_account"), agent \in world.agents : ChangeRecoveryAccount(a, agent)

WitnessOperation ==
  \/ \E a \in Who("witness_update"), key \in world.keys, fee \in world.fees : WitnessUpdate(a, key, fee)
  \/ \E a \in Who("witness_set_properties"), change \in world.changes : WitnessSetProperties(a, change)
  \/ \E a \in Who("feed_publish"), price \in world.prices : FeedPublish(a, price)
  \/ \E w \in Who("vote"), delta \in world.deltas : AdjustWitnessVote(w, delta)

Next ==
  \/ quota > 0 /\ quota' = quota - 1 /\ (AccountOperation \/ WitnessOperation)
  \/ \E slot \in world.slots : \E build \in UNION {world.builds[w] : w \in DOMAIN world.builds} : StartBlock(slot, build)
  \/ \E random \in world.random : FinishBlock(random)

Spec == Init /\ [][Next]_vars

--------------------
(* Properties *)

Asked(required) == required.posting \cup required.active \cup required.owner
AuthoritiesOf(required) ==
  {<<"posting", db.auth[a].posting>> : a \in required.posting} \cup {<<"active", db.auth[a].active>> : a \in required.active}
    \cup {<<"active", db.auth[a].owner>> : a \in required.owner} \cup {<<"active", auth>> : auth \in ToSet(required.other)}

\* The walk of sign_state, with its memory and its limits, answers the question it
\* is asked: a transaction whose authorities are satisfied within the depth passes
\* if it does not meet more accounts than allowed, one that passes is satisfied by
\* its signatures at some depth, and the keys a wallet collects are enough whenever
\* any are.
AuthorityExact ==
  \A required \in world.required, sigs \in SUBSET world.all_keys :
    LET Ok(keys) == verify_authority(required, keys, db.auth, <<>>)
        Get(role) == [a \in DOMAIN db.auth |-> db.auth[a][role]]
        Holds(levels) == \A x \in AuthoritiesOf(required) : Satisfied(Get(x[1]), sigs, x[2], levels)
        met == Cardinality(Asked(required))
                 + SumOver(AuthoritiesOf(required), LAMBDA x : Breadth(Get(x[1]), x[2], HIVE_MAX_SIG_CHECK_DEPTH))
    IN  /\ Holds(HIVE_MAX_SIG_CHECK_DEPTH) /\ met <= HIVE_MAX_SIG_CHECK_ACCOUNTS => Ok(sigs)
        /\ Ok(sigs) => Holds(Cardinality(DOMAIN db.auth))
        /\ Ok(sigs) => Ok(sigs \cap collect_signing_keys(required, db.auth))

\* An owner whose authority was replaced can take the account back for the whole
\* of the recovery period with the help of a recovery account from before, however
\* the account was used since, unless it was taken back a moment ago.
RecoveryWindow ==
  \A r \in db.replaced :
    r.tracked /\ now < r.at + HIVE_OWNER_AUTH_RECOVERY_PERIOD =>
      LET a == r.account
          agent == RecoveryAgent(db, a)
          Recoverable(owner) == RequestAllowed(db, agent, a, owner)
                                  /\ RecoverAllowed(request_account_recovery(db, a, owner, now), a, owner, r.previous, now)
      IN  /\ db.acc[a].recovery_account \in r.agents
          /\ now - db.acc[a].last_account_recovery > HIVE_OWNER_UPDATE_LIMIT => \E owner \in world.owners : Recoverable(owner)

\* There is always a schedule of witnesses that exist, each of them once; no
\* assertion of the schedule or of the resource dynamics fails from hardfork 30 on;
\* nobody is due in the past of the virtual time; the pools of subsidised accounts
\* are never overdrawn and participation is what the recent slots say.
ScheduleWhole ==
  /\ has_hardfork(db, 30) => ~db.asserted
  /\ \A wso \in {db.wso.current, db.wso.future} :
       /\ Len(wso.shuffled) \in 1..HIVE_MAX_WITNESSES
       /\ IsInjective(wso.shuffled) /\ ToSet(wso.shuffled) \subseteq DOMAIN db.witness
  /\ \A w \in DOMAIN db.witness :
       /\ db.witness[w].virtual_scheduled_time >= VirtualClock(db)
       /\ db.witness[w].available_witness_account_subsidies >= 0
  /\ db.gpo.available_account_subsidies >= 0
  /\ db.gpo.participation_count = Cardinality({i \in 1..RECENT_SLOTS : db.gpo.recent_slots_filled[i] = 1})

\* While nobody votes, a witness that may produce and has votes is scheduled after a
\* bounded number of rounds, even without enough of them to be elected: a rival for the last places is before
\* it as often as its votes exceed the witness's and once or twice more, and time
\* starts again at most once meanwhile.
NoBackupStarves ==
  \A w \in DOMAIN db.witness :
    LET elected == ToSet(SubSeq(ByVoteName(db), 1, Min({max_voted_witnesses, Cardinality(DOMAIN db.witness)})))
        Before(u) == (db.witness[u].votes + 1) \div (db.witness[w].votes + 1) + 2
    IN  db.witness[w].waited <= 2 * SumOver(DOMAIN db.witness \ (elected \cup {w}), Before)

\* A hardfork is applied in order, not before the time that was agreed on, and only
\* if at the last count the share of the producing witnesses that has to want this
\* hardfork at this time did; hardfork 30 never before the time of the build.
HardforkByQuorum ==
  [][ db'.hf.last_hardfork # db.hf.last_hardfork =>
        LET hf == db'.hf
            tally == db'.tally
            wanted == {w \in tally.producing : tally.votes[w] = <<hf.next_hardfork, hf.next_hardfork_time>>}
        IN  /\ hf.last_hardfork > db.hf.last_hardfork /\ hf.last_hardfork <= hf.next_hardfork
            /\ hf.next_hardfork_time <= now'
            /\ tally.producing # {}
            /\ Cardinality(wanted) * HIVE_MAX_WITNESSES >= Cardinality(tally.producing) * HIVE_HARDFORK_REQUIRED_WITNESSES
            /\ hf.last_hardfork = 30 => now' >= world.build.times[30] ]_vars

\* When all who produce blocks run the build with a hardfork, it is applied two
\* rounds and a count after its time at the latest, however many witnesses are in
\* the schedule that never produce.
HardforkArrives ==
  (db.processing = NoAccount /\ ~db.asserted /\ now >= world.arrives) => has_hardfork(db, world.upgrade)

\* Only who may acts for an account, and its owner can take it back.
AccountsSafe == AuthorityExact /\ RecoveryWindow

\* Blocks go on being produced, by a whole schedule in which nobody with votes is
\* passed over for ever, under the rules agreed on.  (update_witness_schedule4,
\* process_hardforks)
ProductionGoesOn == ScheduleWhole /\ NoBackupStarves /\ HardforkArrives
====
