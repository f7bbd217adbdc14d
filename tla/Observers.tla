----------------------------- MODULE Observers -----------------------------
(***************************************************************************)
(* The plugins that derive an index of their own from what the chain        *)
(* applies: account_by_key, metadata, transaction_status (with its API) and *)
(* market_history.  Their objects live in the chain's state and are undone  *)
(* with it; what they keep in plugin memory (the cache of keys, the         *)
(* tracking flag, the estimated start) is not.  A handler that throws makes *)
(* the signal skip the handlers connected after it, and the chain goes on.  *)
(***************************************************************************)
EXTENDS Integers, Sequences, FiniteSets, FiniteSetsExt, SequencesExt, TLC

CONSTANTS Key,              \* public keys
          Day,              \* HIVE_MAX_TIME_UNTIL_SIGNATURE_EXPIRATION
          Hour,             \* HIVE_MAX_TIME_UNTIL_EXPIRATION
          Minute,           \* what live sync tolerates
          ObservedWorlds    \* records, see MCService

VARIABLES oworld,       \* the world: transactions, depths, bounds
          applied,      \* state without the pending session
          current,      \* state with it
          undo,         \* the states before each reversible block
          memory,       \* what the plugins keep outside of the state
          now           \* wall clock, in block intervals

ovars == <<oworld, applied, current, undo, memory, now>>

(***************************************************************************)
(* State: `blocks' the chain, `pending' the transactions of the pending      *)
(* session, `auths' the keys of every account, `lookup' the key_lookup        *)
(* index, `metadata' the accounts with a metadata object, `statuses' and      *)
(* `tracked' the indexes of transaction_status, `trades' and `buckets' those   *)
(* of market_history.                                                          *)
(***************************************************************************)
HeadTime(s) == IF s.blocks = <<>> THEN 0 ELSE Last(s.blocks).time
HeadBlock(s) == Len(s.blocks)
Lib == HeadBlock(applied) - Len(undo)
Tx(i) == oworld.txs[i]

(***************************************************************************)
(* account_by_key                                                            *)
(***************************************************************************)
cache_auths_of(s, a) == IF a \in DOMAIN s.auths THEN s.auths[a] ELSE {}

pre_operation_visitor(s, m, op) ==
    CASE op.name = "account_create" -> [m EXCEPT !.cached_keys = {}]
      [] op.name \in {"account_update", "create_claimed_account", "recover_account"} ->
            [m EXCEPT !.cached_keys = cache_auths_of(s, op.account)]
      [] OTHER -> m

Relookup(s, m, a, gone) ==
    [state  |-> [s EXCEPT !.lookup = (@ \union {<<k, a>> : k \in s.auths[a] \ m.cached_keys})
                                     \ {<<k, a>> : k \in gone}],
     memory |-> [m EXCEPT !.cached_keys = {}]]

\* A plausible slip: the keys that stay are not taken out of the cache.
update_key_lookup_whole(s, m, a) == Relookup(s, m, a, m.cached_keys)

update_key_lookup(s, m, a) == Relookup(s, m, a, m.cached_keys \ s.auths[a])

post_operation_visitor(s, m, op) ==
    IF op.name \in {"account_create", "account_update", "create_claimed_account", "recover_account"}
       /\ op.account \in DOMAIN s.auths
    THEN update_key_lookup(s, m, op.account)
    ELSE [state |-> s, memory |-> m]

\* get_key_references of the API
get_key_references(s, k) == {a \in DOMAIN s.auths : <<k, a>> \in s.lookup}

(***************************************************************************)
(* metadata: one object per account created by an operation; the accounts     *)
(* of genesis have none, and an update of their metadata throws.              *)
(***************************************************************************)
MetadataThrows(s, op) ==
    op.name = "account_update" /\ op.json /\ op.account \notin s.metadata

metadata_visitor(s, op) ==
    IF op.name \in {"account_create", "create_claimed_account"}
    THEN [s EXCEPT !.metadata = @ \union {op.account}]
    ELSE s

(***************************************************************************)
(* market_history                                                             *)
(***************************************************************************)
\* price( non_hive, hive ) compared by cross multiplication
Dearer(x, y) == x.hbd * y.hive > y.hbd * x.hive

OpenOf(t, size) == (t \div size) * size

FillWith(b, trade, than) ==
    [b EXCEPT !.volume = [hive |-> @.hive + trade.hive, hbd |-> @.hbd + trade.hbd],
              !.close  = trade,
              !.high   = IF Dearer(trade, than) THEN trade ELSE @,
              !.low    = IF Dearer(@, trade) THEN trade ELSE @]

\* A plausible slip: the new price is compared with the low.
FillBucketFromLow(b, trade) == FillWith(b, trade, b.low)

FillBucket(b, trade) == FillWith(b, trade, b.high)

\* One tracked size: a new bucket is created whole; only the trade that
\* meets an existing bucket also removes those beyond the cutoff.
TradeInBucket(buckets, size, time, trade) ==
    LET open   == OpenOf(time, size)
        cutoff == time - size * oworld.history
        mine   == {b \in buckets : b.seconds = size /\ b.open = open}
    IN  IF mine = {}
        THEN buckets \union {[seconds |-> size, open |-> open, first |-> trade, high |-> trade,
                              low |-> trade, close |-> trade, volume |-> trade]}
        ELSE {b \in (buckets \ mine) : b.seconds # size \/ b.open >= cutoff}
             \union {FillBucket(b, trade) : b \in mine}

market_visitor(s, op) ==
    IF op.name # "fill_order" THEN s
    ELSE LET trade == [hive |-> op.hive, hbd |-> op.hbd]
             time  == HeadTime(s)
             into(buckets, size) == TradeInBucket(buckets, size, time, trade)
         IN  [s EXCEPT !.trades  = Append(@, [time |-> time, trade |-> trade]),
                       !.buckets = IF oworld.history = 0 THEN @
                                   ELSE FoldSet(LAMBDA size, bs : into(bs, size), @, oworld.sizes)]

\* get_volume of the API: the smallest buckets opened in the last day
get_volume(s) ==
    LET smallest == Min(oworld.sizes)
        recent   == {b \in s.buckets : b.seconds = smallest /\ b.open >= HeadTime(s) - Day}
    IN  MapThenSumSet(LAMBDA b : b.volume.hive, recent)

(***************************************************************************)
(* transaction_status                                                        *)
(***************************************************************************)
actual_block_depth == oworld.nominal + Hour

EstimateAt(s, clock) ==
    LET time_gap == clock - HeadTime(s) - Minute
    IN  IF time_gap <= actual_block_depth THEN HeadTime(s)
        ELSE HeadTime(s) + time_gap - actual_block_depth

estimate_starting_timestamp(s) == EstimateAt(s, now)

on_post_apply_transaction(s, m, i) ==
    IF m.tracking THEN [s EXCEPT !.statuses = @ \union {[tx |-> i, block_num |-> 0]}] ELSE s

on_pre_apply_block(s, m, time) ==
    IF m.tracking \/ m.starting > time THEN m
    ELSE LET starting == estimate_starting_timestamp(s)
         IN  [m EXCEPT !.starting = starting, !.tracking = starting <= time]

\* `s' already has the block as its head; `kept' blocks stay tracked.
Record(s, txs, kept) ==
    LET num      == HeadBlock(s)
        placed   == {IF o.tx \in txs THEN [o EXCEPT !.block_num = num] ELSE o : o \in s.statuses}
        seen     == s.tracked \union {[block_num |-> num, time |-> HeadTime(s)]}
    IN  [s EXCEPT !.statuses = {o \in placed : o.block_num > num - actual_block_depth \/ num <= actual_block_depth},
                  !.tracked  = {o \in seen : o.block_num > num - kept}]

\* A plausible slip: a block is forgotten later than its transactions.
on_post_apply_block_late(s, m, txs) == IF m.tracking THEN Record(s, txs, actual_block_depth + 1) ELSE s

on_post_apply_block(s, m, txs) == IF m.tracking THEN Record(s, txs, actual_block_depth) ELSE s

get_earliest_tracked_block_timestamp(s) ==
    IF s.tracked = {} THEN 0 ELSE Min({o.time : o \in s.tracked})

get_last_irreversible_block_timestamp(s) ==
    IF \E o \in s.tracked : o.block_num = Lib
    THEN (CHOOSE o \in s.tracked : o.block_num = Lib).time ELSE 0

\* The API's answer about transaction i, asked with its expiration.
find_transaction(i) ==
    LET found   == {o \in current.statuses : o.tx = i}
        num     == (CHOOSE o \in found : TRUE).block_num
        expires == Tx(i).expiration
        answer(what, n) == [status |-> what, block_num |-> n]
    IN  CASE ~memory.tracking -> answer("unknown", 0)
          [] memory.tracking /\ found # {} ->
                IF num = 0 THEN answer("within_mempool", 0)
                ELSE IF num <= Lib THEN answer("within_irreversible_block", num)
                ELSE answer("within_reversible_block", num)
          [] OTHER ->
                IF expires < get_earliest_tracked_block_timestamp(current) + Day
                THEN answer("too_old", 0)
                ELSE IF Lib > 0 /\ expires <= get_last_irreversible_block_timestamp(current)
                THEN answer("expired_irreversible", 0)
                ELSE IF expires < HeadTime(current) THEN answer("expired_reversible", 0)
                ELSE answer("unknown", 0)

(***************************************************************************)
(* The chain as the plugins see it.  Each step returns the new state, the    *)
(* plugins' memory and whether it succeeded: what a failure undoes is the    *)
(* state alone.                                                              *)
(***************************************************************************)
Creates(op) == op.name \in {"account_create", "create_claimed_account"}
UpdatesKeys(op) == op.name \in {"account_update", "recover_account"}

\* What the evaluators do to the state the plugins read, and when they throw.
Evaluate(s, op) ==
    IF Creates(op) \/ UpdatesKeys(op) THEN [s EXCEPT !.auths = (op.account :> op.keys) @@ @] ELSE s

Evaluates(s, op) ==
    /\ op.ok
    /\ Creates(op) => op.account \notin DOMAIN s.auths
    /\ UpdatesKeys(op) => op.account \in DOMAIN s.auths

\* notify_post_apply_operation: the handlers in the order they connected;
\* one that throws ends the notification, the operation stands.
notify_post_apply_operation(s, m, op) ==
    LET keyed == post_operation_visitor(s, m, op)
    IN  IF ~MetadataThrows(s, op)
        THEN [keyed EXCEPT !.state = market_visitor(metadata_visitor(@, op), op)]
        ELSE IF oworld.metadata_first THEN [state |-> s, memory |-> m] ELSE keyed

apply_operation(x, op) ==
    IF ~x.ok THEN x
    ELSE LET m == pre_operation_visitor(x.state, x.memory, op)
         IN  IF ~Evaluates(x.state, op) THEN [x EXCEPT !.ok = FALSE, !.memory = m]
             ELSE notify_post_apply_operation(Evaluate(x.state, op), m, op) @@ [ok |-> TRUE]

InChain(s, i) == \E n \in DOMAIN s.blocks : i \in s.blocks[n].txs

Timely(s, i) == HeadTime(s) < Tx(i).expiration /\ Tx(i).expiration <= HeadTime(s) + Day

apply_transaction(x, i) ==
    IF ~x.ok THEN x
    ELSE IF ~Timely(x.state, i) \/ InChain(x.state, i) THEN [x EXCEPT !.ok = FALSE]
    ELSE LET y == FoldLeft(apply_operation, x, Tx(i).ops)
         IN  IF ~y.ok THEN y
             ELSE [y EXCEPT !.state = on_post_apply_transaction(@, y.memory, i)]

\* A pending transaction: a failure leaves the session as it was.
push_transaction(x, i) ==
    LET y == apply_transaction(x, i)
    IN  IF y.ok THEN [y EXCEPT !.state.pending = @ \union {i}]
        ELSE [y EXCEPT !.state = x.state, !.ok = TRUE]

\* The pending session is built again on state s from the transactions left.
Pend(s, m, txs) ==
    FoldLeft(push_transaction, [state |-> s, memory |-> m, ok |-> TRUE],
            SetToSortSeq(txs, <))

\* The transactions see the previous block as the head.
apply_block(s, m, time, txs) ==
    LET x == [state |-> s, memory |-> on_pre_apply_block(s, m, time), ok |-> TRUE]
        y == FoldLeft(apply_transaction, x, SetToSortSeq(txs, <))
        t == [y.state EXCEPT !.blocks = Append(@, [time |-> time, txs |-> txs])]
    IN  IF y.ok THEN [y EXCEPT !.state = on_post_apply_block(t, y.memory, txs)] ELSE y

(***************************************************************************)
(* Actions                                                                   *)
(***************************************************************************)
NewMemory(s, clock) == [cached_keys |-> {}, tracking |-> FALSE, starting |-> EstimateAt(s, clock)]

ObserversInit ==
    /\ oworld \in ObservedWorlds
    /\ now = oworld.start
    /\ applied = [blocks |-> <<>>, pending |-> {}, auths |-> oworld.genesis, lookup |-> {}, metadata |-> {},
               statuses |-> {}, tracked |-> {}, trades |-> <<>>, buckets |-> {}]
    /\ current = applied
    /\ undo = <<>>
    /\ memory = NewMemory(applied, now)

SetPending(s, m, txs) ==
    LET p == Pend(s, m, txs) IN current' = p.state /\ memory' = p.memory

PushTransaction(i) ==
    /\ i \notin current.pending
    /\ LET y == push_transaction([state |-> current, memory |-> memory, ok |-> TRUE], i)
       IN  current' = y.state /\ memory' = y.memory
    /\ UNCHANGED <<oworld, applied, undo, now>>

PushBlock(time, txs) ==
    /\ HeadBlock(applied) < oworld.blocks /\ Len(undo) < oworld.reversible
    /\ HeadTime(applied) < time /\ time <= now
    /\ LET y == apply_block(applied, memory, time, txs)
       IN  /\ applied' = IF y.ok THEN y.state ELSE applied
           /\ undo' = IF y.ok THEN Append(undo, applied) ELSE undo
           /\ SetPending(applied', y.memory, current.pending \ txs)
    /\ UNCHANGED <<oworld, now>>

PopBlock ==
    /\ undo # <<>>
    /\ applied' = Last(undo)
    /\ undo' = Front(undo)
    /\ SetPending(applied', memory, current.pending \union Last(applied.blocks).txs)
    /\ UNCHANGED <<oworld, now>>

CommitBlock ==
    /\ undo # <<>>
    /\ undo' = Tail(undo)
    /\ UNCHANGED <<oworld, applied, current, memory, now>>

\* A restart opens the state at the last irreversible block; the plugins
\* start again with empty memory, some time later.
Restart(down) ==
    /\ now + down <= oworld.until
    /\ applied' = IF undo = <<>> THEN applied ELSE undo[1]
    /\ current' = applied'
    /\ undo' = <<>>
    /\ now' = now + down
    /\ memory' = NewMemory(applied', now')
    /\ UNCHANGED oworld

Tick ==
    /\ now < oworld.until /\ HeadTime(applied) = now
    /\ now' = now + 1
    /\ UNCHANGED <<oworld, applied, current, undo, memory>>

ObserversNext ==
    \/ \E i \in DOMAIN oworld.txs : PushTransaction(i)
    \/ \E time \in {HeadTime(applied) + 1, now} : \E txs \in SUBSET DOMAIN oworld.txs :
          Cardinality(txs) <= oworld.per_block /\ PushBlock(time, txs)
    \/ PopBlock
    \/ CommitBlock
    \/ \E down \in oworld.downtimes : Restart(down)
    \/ Tick

(***************************************************************************)
(* Properties                                                                *)
(***************************************************************************)

\* The key index names, for every account an operation created, exactly the
\* keys of its three authorities: through failed operations, undone blocks,
\* restarts, and handlers that throw before account_by_key's own.
KeyLookupExact ==
    \A a \in DOMAIN current.auths \ DOMAIN oworld.genesis :
       \A k \in Key : a \in get_key_references(current, k) <=> k \in current.auths[a]

\* While tracking, find_transaction tells what the chain holds: a block it
\* names contains the transaction and is on the right side of the last
\* irreversible block, every pending transaction and every transaction of a
\* tracked block is found, and one it calls irreversibly expired is in no
\* block of the chain.
StatusTruthful ==
    \A i \in DOMAIN oworld.txs :
       LET answer == find_transaction(i)
       IN  /\ answer.status = "within_mempool" => i \in current.pending
           /\ answer.status \in {"within_reversible_block", "within_irreversible_block"} =>
                 /\ i \in applied.blocks[answer.block_num].txs
                 /\ (answer.block_num <= Lib) = (answer.status = "within_irreversible_block")
           /\ answer.status = "expired_irreversible" => ~InChain(applied, i)
           /\ (memory.tracking /\ i \in current.pending) => answer.status = "within_mempool"
           /\ (memory.tracking /\ \E o \in applied.tracked : i \in applied.blocks[o.block_num].txs) =>
                 answer.block_num # 0

\* Every bucket sums up exactly the trades of its span, in volume, first,
\* last, highest and lowest price, and none is missing whose span the
\* configured history still covers; so does the volume of the last day.
BucketsExact ==
    oworld.history > 0 => \A size \in oworld.sizes :
       LET of(open) == SelectSeq(current.trades, LAMBDA t : OpenOf(t.time, size) = open)
           mine     == {b \in current.buckets : b.seconds = size}
           spans    == {OpenOf(t.time, size) : t \in ToSet(current.trades)}
       IN  /\ \A b \in mine :
                 LET ts == of(b.open)
                 IN  /\ ts # <<>> /\ b.first = ts[1].trade /\ b.close = Last(ts).trade
                     /\ b.volume = [hive |-> FoldSeq(LAMBDA t, n : n + t.trade.hive, 0, ts),
                                    hbd  |-> FoldSeq(LAMBDA t, n : n + t.trade.hbd, 0, ts)]
                     /\ {b.high, b.low} \subseteq {t.trade : t \in ToSet(ts)}
                     /\ \A t \in ToSet(ts) : ~Dearer(t.trade, b.high) /\ ~Dearer(b.low, t.trade)
           /\ \A open \in spans :
                 open >= Last(current.trades).time - size * oworld.history => \E b \in mine : b.open = open
           /\ Cardinality({b.open : b \in mine}) = Cardinality(mine)
           /\ size = Min(oworld.sizes) /\ size * oworld.history >= Day =>
                 get_volume(current) = FoldSeq(LAMBDA t, n : n + t.trade.hive, 0,
                    SelectSeq(current.trades, LAMBDA t : OpenOf(t.time, size) >= HeadTime(current) - Day))

\* What the four plugins answer is what the chain holds.
ObserversExact == KeyLookupExact /\ StatusTruthful /\ BucketsExact
=============================================================================
