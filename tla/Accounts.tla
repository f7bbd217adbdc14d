------------------------------- MODULE Accounts -------------------------------
(***************************************************************************)
(* Who has to sign a transaction, and whether the keys that signed are     *)
(* enough.  An authority is a threshold with weights of keys and of        *)
(* accounts, in the order of the maps of the code; an account stands for   *)
(* its own authority, up to a depth.  sign_state walks this graph once and *)
(* remembers the accounts it approved, so its answers depend on the order  *)
(* of the walk unless the definitions below say otherwise.  The rules are  *)
(* those from hardfork 28 on: strict and mixed authorities, spare          *)
(* signatures allowed.                                                     *)
(***************************************************************************)
EXTENDS ChainState, TLC

CONSTANTS
  HIVE_MAX_SIG_CHECK_DEPTH, HIVE_MAX_AUTHORITY_MEMBERSHIP, HIVE_MAX_SIG_CHECK_ACCOUNTS

ASSUME AuthorityAssumption ==
  /\ HIVE_MAX_SIG_CHECK_DEPTH \in Nat
  /\ {HIVE_MAX_AUTHORITY_MEMBERSHIP, HIVE_MAX_SIG_CHECK_ACCOUNTS} \subseteq Nat \ {0}

Weight(members) == FoldLeft(LAMBDA sum, m : sum + m[2], 0, members)
NamesOf(members) == {m[1] : m \in ToSet(members)}
num_auths(auth) == Len(auth.account_auths) + Len(auth.key_auths)
is_impossible(auth) == Weight(auth.account_auths) + Weight(auth.key_auths) < auth.weight_threshold
is_open(auth) == auth.weight_threshold = 0

\* What a transaction needs; other is a sequence of authorities.
NoneRequired == [posting |-> {}, active |-> {}, owner |-> {}, witness |-> {}, other |-> <<>>]

--------------------
(* sign_state *)

\* The walk over one authority: verdict is "open" until it returns.
AddWeight(walk, weight, auth) ==
  [walk EXCEPT !.total = @ + weight,
               !.verdict = IF walk.total + weight >= auth.weight_threshold THEN "yes" ELSE @]

increase_membership(walk) ==
  IF walk.verdict # "open" THEN walk
  ELSE [walk EXCEPT !.membership = @ + 1,
                    !.verdict = IF walk.membership + 1 >= HIVE_MAX_AUTHORITY_MEMBERSHIP THEN "no" ELSE @]

KeyStep(walk, key, sigs, auth) ==
  IF walk.verdict # "open" THEN walk
  ELSE increase_membership(IF key[1] \in sigs THEN AddWeight(walk, key[2], auth) ELSE walk)

\* The accounts whose authority was found satisfied are remembered.
Approve(state, name, ok) == IF ok THEN [state EXCEPT !.approved = @ \cup {name}] ELSE state

\* get gives the authority of an account; the members beyond the depth are
\* passed over without being counted.
RECURSIVE check_authority_impl(_, _, _, _, _)
check_authority_impl(get, sigs, auth, depth, state) ==
  LET Account(walk, member) ==
        IF walk.verdict # "open" THEN walk
        ELSE IF member[1] \in walk.state.approved THEN increase_membership(AddWeight(walk, member[2], auth))
        ELSE IF depth = HIVE_MAX_SIG_CHECK_DEPTH THEN walk
        ELSE IF walk.state.count >= HIVE_MAX_SIG_CHECK_ACCOUNTS THEN [walk EXCEPT !.verdict = "no"]
        ELSE LET below == check_authority_impl(get, sigs, get[member[1]], depth + 1,
                                               [walk.state EXCEPT !.count = @ + 1])
                 asked == [walk EXCEPT !.state = Approve(below.state, member[1], below.ok)]
             IN  increase_membership(IF below.ok THEN AddWeight(asked, member[2], auth) ELSE asked)
      start == [total |-> 0, membership |-> 0, verdict |-> "open", state |-> state]
      keys == FoldLeft(LAMBDA walk, key : KeyStep(walk, key, sigs, auth), start, auth.key_auths)
      end == FoldLeft(Account, keys, auth.account_auths)
  IN  [ok |-> end.verdict = "yes" \/ (end.verdict = "open" /\ end.total >= auth.weight_threshold),
       state |-> end.state]

\* check_authority of an account: it counts itself.
check_account(get, sigs, name, state) ==
  IF name \in state.approved THEN [ok |-> TRUE, state |-> state]
  ELSE check_authority_impl(get, sigs, get[name], 0, [state EXCEPT !.count = @ + 1])

--------------------
(* verify_authority *)

Nobody == [approved |-> {}, count |-> 0]

\* Posting first and by itself; what was approved there does not count as
\* active.  Accounts in an owner authority sign with their active one.
verify_authority(required, sigs, auths, signing_key) ==
  LET posting == [a \in DOMAIN auths |-> auths[a].posting]
      active == [a \in DOMAIN auths |-> auths[a].active]
      All(check(_, _), start, s) ==
        FoldLeft(LAMBDA so_far, x : IF ~so_far.ok THEN so_far ELSE check(x, so_far.state), [ok |-> TRUE, state |-> start], s)
      Account(get, name, state) == check_account(get, sigs, name, state)
      posted == All(LAMBDA a, s : Account(posting, a, s), Nobody, SetToSeq(required.posting))
      cleared == [posted.state EXCEPT !.approved = {}]
      others == All(LAMBDA auth, s : check_authority_impl(active, sigs, auth, 0, s), cleared, required.other)
      acted == All(LAMBDA a, s : Account(active, a, s), others.state, SetToSeq(required.active))
      owned == All(LAMBDA a, s : check_authority_impl(active, sigs, auths[a].owner, 0, s),
                   acted.state, SetToSeq(required.owner))
  IN  /\ posted.ok /\ others.ok /\ acted.ok /\ owned.ok
      /\ \A w \in required.witness : w \in DOMAIN signing_key /\ signing_key[w] \in sigs

--------------------
(* signing_keys_collector: the keys a wallet signs with *)

\* The accounts that can stand behind names, level by level.
RECURSIVE AccountsBelow(_, _, _)
AccountsBelow(get, names, depth) ==
  LET next == UNION {NamesOf(get[a].account_auths) : a \in names}
  IN  IF depth = 0 \/ next = {} THEN {} ELSE next \cup AccountsBelow(get, next, depth - 1)

\* An owner authority is read once; below it accounts are active.
BelowOwners(owner, active, names) ==
  LET next == UNION {NamesOf(owner[a].account_auths) : a \in names}
  IN  IF HIVE_MAX_SIG_CHECK_DEPTH = 0 THEN {} ELSE next \cup AccountsBelow(active, next, HIVE_MAX_SIG_CHECK_DEPTH - 1)

collect_signing_keys(required, auths) ==
  LET Of(role) == [a \in DOMAIN auths |-> auths[a][role]]
      asked == required.active \cup UNION {NamesOf(auth.account_auths) : auth \in ToSet(required.other)}
      actives == asked \cup AccountsBelow(Of("active"), asked, HIVE_MAX_SIG_CHECK_DEPTH)
                   \cup BelowOwners(Of("owner"), Of("active"), required.owner)
      postings == required.posting \cup AccountsBelow(Of("posting"), required.posting, HIVE_MAX_SIG_CHECK_DEPTH)
      Keys(role, names) == UNION {NamesOf(auths[a][role].key_auths) : a \in names}
  IN  Keys("active", actives) \cup Keys("owner", required.owner) \cup Keys("posting", postings)
        \cup UNION {NamesOf(auth.key_auths) : auth \in ToSet(required.other)}

--------------------
(* What the walk is meant to find out *)

\* The keys and the accounts that can sign within so many levels reach the threshold.
RECURSIVE Satisfied(_, _, _, _)
Satisfied(get, sigs, auth, levels) ==
  Weight(SelectSeq(auth.key_auths, LAMBDA k : k[1] \in sigs))
    + Weight(SelectSeq(auth.account_auths, LAMBDA m : levels > 0 /\ Satisfied(get, sigs, get[m[1]], levels - 1)))
    >= auth.weight_threshold

\* How many accounts a walk can meet.
RECURSIVE Breadth(_, _, _)
Breadth(get, auth, levels) ==
  IF levels = 0 THEN 0
  ELSE FoldLeft(LAMBDA sum, m : sum + 1 + Breadth(get, get[m[1]], levels - 1), 0, auth.account_auths)

--------------------
(***************************************************************************)
(* Accounts, their authorities and their recovery: the operations of       *)
(* hive_evaluator_account.cpp and what a block does for them.  An account  *)
(* whose owner authority was replaced can be taken back for a while by     *)
(* someone who still satisfies the replaced authority together with the    *)
(* recovery account; a new recovery account has to wait as long.           *)
(***************************************************************************)

CONSTANTS
  HIVE_NULL_ACCOUNT, HIVE_TEMP_ACCOUNT,
  HIVE_OWNER_AUTH_RECOVERY_PERIOD, HIVE_ACCOUNT_RECOVERY_REQUEST_EXPIRATION_PERIOD,
  HIVE_OWNER_UPDATE_LIMIT, HIVE_OWNER_AUTH_HISTORY_TRACKING_START_BLOCK_NUM,
  HIVE_ACCOUNT_SUBSIDY_PRECISION

ASSUME AccountsAssumption ==
  /\ Cardinality({NoAccount, HIVE_NULL_ACCOUNT, HIVE_TEMP_ACCOUNT}) = 3
  /\ {HIVE_OWNER_AUTH_RECOVERY_PERIOD, HIVE_ACCOUNT_RECOVERY_REQUEST_EXPIRATION_PERIOD,
      HIVE_OWNER_UPDATE_LIMIT, HIVE_ACCOUNT_SUBSIDY_PRECISION} \subseteq Nat \ {0}

has_hardfork(d, number) == d.hf.last_hardfork >= number
Exists(d, a) == a \in DOMAIN d.acc

\* A transaction with this operation is in the block that is being applied,
\* signed by somebody's keys.
Signed(required) ==
  /\ db.processing # NoAccount
  /\ \E sigs \in world.signers :
       verify_authority(required, sigs, db.auth, [w \in DOMAIN db.witness |-> db.witness[w].signing_key])

Active(a) == [NoneRequired EXCEPT !.active = {a}]
Owner(a) == [NoneRequired EXCEPT !.owner = {a}]

--------------------
(* New accounts *)

verify_authority_accounts_exist(d, auth) == NamesOf(auth.account_auths) \subseteq DOMAIN d.acc
validate_auth_size(auth) == num_auths(auth) <= HIVE_MAX_AUTHORITY_MEMBERSHIP
Roles == {"owner", "active", "posting"}
AuthoritiesFit(d, auths) ==
  \A role \in Roles : verify_authority_accounts_exist(d, auths[role]) /\ validate_auth_size(auths[role])

\* creation times of owner updates are in the past by any measure.
FreshAuthority(auths) ==
  [owner |-> auths.owner, active |-> auths.active, posting |-> auths.posting,
   last_owner_update |-> 0, previous_owner_update |-> 0]
FreshAccount(balance, recovery_account) ==
  [balance |-> balance, pending_claimed_accounts |-> 0, last_account_recovery |-> 0,
   recovery_account |-> IF recovery_account = HIVE_TEMP_ACCOUNT THEN NoAccount ELSE recovery_account]

\* The creator becomes the recovery account.
create_account(d, name, auths, creator) ==
  [d EXCEPT !.acc = @ @@ name :> FreshAccount(0, creator), !.auth = @ @@ name :> FreshAuthority(auths)]

\* The fee is burnt by way of null.
PayFee(d, creator, fee) ==
  [d EXCEPT !.acc[creator].balance = @ - fee, !.acc[HIVE_NULL_ACCOUNT].balance = @ + fee]

AccountCreate(creator, name, auths) ==
  LET fee == db.wso.current.median.account_creation_fee
  IN  /\ Signed(Active(creator))
      /\ AuthoritiesFit(db, auths)
      /\ db.acc[creator].balance >= fee /\ ~Exists(db, name)
      /\ db' = create_account(PayFee(db, creator, fee), name, auths, creator)
      /\ UNCHANGED <<now, world>>

\* Within a block: the witness of the block answers for what it lets through.
HasSubsidy(d) ==
  LET w == d.witness[d.gpo.current_witness]
  IN  /\ w.schedule = "elected" /\ w.available_witness_account_subsidies >= HIVE_ACCOUNT_SUBSIDY_PRECISION
      /\ d.gpo.available_account_subsidies >= HIVE_ACCOUNT_SUBSIDY_PRECISION

TakeSubsidy(d) ==
  [d EXCEPT !.witness[d.gpo.current_witness].available_witness_account_subsidies = @ - HIVE_ACCOUNT_SUBSIDY_PRECISION,
            !.gpo.available_account_subsidies = @ - HIVE_ACCOUNT_SUBSIDY_PRECISION]

ClaimAccount(creator, fee) ==
  /\ Signed(Active(creator))
  /\ db.acc[creator].balance >= fee
  /\ IF fee = 0 THEN HasSubsidy(db) ELSE fee = db.wso.current.median.account_creation_fee
  /\ db' = [PayFee(IF fee = 0 THEN TakeSubsidy(db) ELSE db, creator, fee) EXCEPT
              !.acc[creator].pending_claimed_accounts = @ + 1]
  /\ UNCHANGED <<now, world>>

CreateClaimedAccount(creator, name, auths) ==
  /\ Signed(Active(creator))
  /\ db.acc[creator].pending_claimed_accounts > 0
  /\ AuthoritiesFit(db, auths) /\ ~Exists(db, name)
  /\ db' = [create_account(db, name, auths, creator) EXCEPT !.acc[creator].pending_claimed_accounts = @ - 1]
  /\ UNCHANGED <<now, world>>

--------------------
(* Authorities *)

\* Twice within the limit.
OwnerUpdateAllowed(d, a, time) ==
  \/ time - d.auth[a].last_owner_update > HIVE_OWNER_UPDATE_LIMIT
  \/ time - d.auth[a].previous_owner_update > HIVE_OWNER_UPDATE_LIMIT

\* replaced is a log of the owner authorities that were replaced, and of who
\* may be the recovery account for as long as they count.
LogReplaced(d, a, time) ==
  d.replaced \cup
    {[account |-> a, previous |-> d.auth[a].owner, at |-> time, tracked |-> has_hardfork(d, 30),
      agents |-> {d.acc[a].recovery_account}
                   \cup (IF a \in DOMAIN d.change_recovery THEN {d.change_recovery[a].recovery_account} ELSE {})]}

update_owner_authority(d, a, authority, time) ==
  LET entry == [account |-> a, previous |-> d.auth[a].owner, last_valid |-> time]
      tracked == has_hardfork(d, 30) \/ d.gpo.head_block_num >= HIVE_OWNER_AUTH_HISTORY_TRACKING_START_BLOCK_NUM
  IN  [d EXCEPT !.owner_history = IF tracked THEN Append(@, entry) ELSE @,
                !.auth[a].owner = authority, !.auth[a].previous_owner_update = d.auth[a].last_owner_update,
                !.auth[a].last_owner_update = time, !.replaced = LogReplaced(d, a, time)]

\* update is a function from some of the roles to authorities.
\* account_update needs the active authority, or the owner to change the owner;
\* account_update2 is content with the posting authority for everything else.
UpdateRequired(a, roles, kind) ==
  [NoneRequired EXCEPT !.owner = IF "owner" \in roles THEN {a} ELSE {},
     !.active = IF "owner" \notin roles /\ (kind = "account_update" \/ roles # {}) THEN {a} ELSE {},
     !.posting = IF kind = "account_update2" /\ roles = {} THEN {a} ELSE {}]

AccountUpdate(a, kind, update) ==
  LET roles == DOMAIN update
      owned == IF "owner" \in roles THEN update_owner_authority(db, a, update["owner"], now) ELSE db
  IN  /\ a # HIVE_TEMP_ACCOUNT /\ Signed(UpdateRequired(a, roles, kind))
      /\ \A role \in roles : verify_authority_accounts_exist(db, update[role]) /\ validate_auth_size(update[role])
      /\ "owner" \in roles => OwnerUpdateAllowed(db, a, now)
      /\ db' = [owned EXCEPT !.auth[a].active = IF "active" \in roles THEN update["active"] ELSE @,
                             !.auth[a].posting = IF "posting" \in roles THEN update["posting"] ELSE @]
      /\ UNCHANGED <<now, world>>

--------------------
(* Recovery *)

\* Witnesses by votes and then by name: by_vote_name.
Rank(a) == CHOOSE i \in DOMAIN world.names : world.names[i] = a
ByVoteName(d) ==
  SetToSortSeq(DOMAIN d.witness,
               LAMBDA v, w : d.witness[v].votes > d.witness[w].votes
                               \/ (d.witness[v].votes = d.witness[w].votes /\ Rank(v) < Rank(w)))

RecoveryAgent(d, a) == IF d.acc[a].recovery_account = NoAccount THEN ByVoteName(d)[1] ELSE d.acc[a].recovery_account

\* An open authority takes a request back; it can not start one.  A node that
\* applies the block of another does not look at the size of a changed request.
RequestAllowed(d, agent, a, new_owner) ==
  LET pending == a \in DOMAIN d.recovery_request
  IN  /\ RecoveryAgent(d, a) = agent
      /\ ~pending => ~is_open(new_owner) /\ validate_auth_size(new_owner)
      /\ ~is_open(new_owner) => ~is_impossible(new_owner) /\ verify_authority_accounts_exist(d, new_owner)

request_account_recovery(d, a, new_owner, time) ==
  IF is_open(new_owner) THEN [d EXCEPT !.recovery_request = [x \in DOMAIN @ \ {a} |-> @[x]]]
  ELSE [d EXCEPT !.recovery_request =
          a :> [new_owner |-> new_owner, expires |-> time + HIVE_ACCOUNT_RECOVERY_REQUEST_EXPIRATION_PERIOD] @@ @]

RequestAccountRecovery(agent, a, new_owner) ==
  /\ Signed(Active(agent))
  /\ RequestAllowed(db, agent, a, new_owner)
  /\ db' = request_account_recovery(db, a, new_owner, now)
  /\ UNCHANGED <<now, world>>

RecoverAllowed(d, a, new_owner, recent_owner, time) ==
  /\ new_owner # recent_owner /\ ~is_open(new_owner) /\ ~is_impossible(new_owner) /\ ~is_impossible(recent_owner)
  /\ time - d.acc[a].last_account_recovery > HIVE_OWNER_UPDATE_LIMIT
  /\ a \in DOMAIN d.recovery_request /\ d.recovery_request[a].new_owner = new_owner
  /\ \E entry \in ToSet(d.owner_history) : entry.account = a /\ entry.previous = recent_owner

recover_account(d, a, new_owner, time) ==
  [update_owner_authority(d, a, new_owner, time) EXCEPT
     !.recovery_request = [x \in DOMAIN @ \ {a} |-> @[x]], !.acc[a].last_account_recovery = time]

\* Both authorities sign: the one to come and one from the past.
RecoverAccount(a, new_owner, recent_owner) ==
  /\ Signed([NoneRequired EXCEPT !.other = <<new_owner, recent_owner>>])
  /\ RecoverAllowed(db, a, new_owner, recent_owner, now)
  /\ db' = recover_account(db, a, new_owner, now)
  /\ UNCHANGED <<now, world>>

\* Mutant: a changed request keeps its date.
ChangeDateKept(d, a, time) ==
  IF a \in DOMAIN d.change_recovery THEN d.change_recovery[a].effective_on ELSE time + HIVE_OWNER_AUTH_RECOVERY_PERIOD

ChangeDate(d, a, time) == time + HIVE_OWNER_AUTH_RECOVERY_PERIOD

\* Asking for the present account takes a pending request back.
ChangeRecoveryAccount(a, agent) ==
  LET back == a \in DOMAIN db.change_recovery /\ db.acc[a].recovery_account = agent
  IN  /\ Signed(Owner(a)) /\ Exists(db, agent)
      /\ db' = [db EXCEPT !.change_recovery =
                  IF back THEN [x \in DOMAIN @ \ {a} |-> @[x]]
                  ELSE a :> [recovery_account |-> agent, effective_on |-> ChangeDate(db, a, now)] @@ @]
      /\ UNCHANGED <<now, world>>

--------------------
(* Every block *)

HistoryEnds(entry) == entry.last_valid + HIVE_OWNER_AUTH_RECOVERY_PERIOD

\* The history is cut at its first entry that still counts.
account_recovery_processing(d, time) ==
  LET over == {i \in DOMAIN d.owner_history : \A j \in 1..i : HistoryEnds(d.owner_history[j]) < time}
      due == {a \in DOMAIN d.change_recovery : d.change_recovery[a].effective_on <= time}
  IN  [d EXCEPT !.recovery_request = [a \in {x \in DOMAIN @ : @[x].expires > time} |-> @[a]],
                !.owner_history = SubSeq(@, Cardinality(over) + 1, Len(@)),
                !.acc = [a \in DOMAIN @ |-> IF a \in due
                           THEN [@[a] EXCEPT !.recovery_account = d.change_recovery[a].recovery_account] ELSE @[a]],
                !.change_recovery = [a \in DOMAIN @ \ due |-> @[a]]]
===============================================================================
