---- MODULE MCService ----
(***************************************************************************)
(* Small instances of what a node does with what it is handed: operations, *)
(* from validate() to the accounts they impact; blocks and transactions    *)
(* shared by its threads; the plugins that watch the chain; the lists of   *)
(* database_api, over tables of six objects whose names, ids and dates run *)
(* in different orders, with ties; JSON-RPC calls through the web server;  *)
(* and the plugins that load a test network.  A behaviour is about one of  *)
(* the six, the others keep to a parked world.                             *)
(***************************************************************************)
EXTENDS Protocol, DatabaseApi, Observers, FullBlock, ApiServer, LoadDrivers
names == {"alice", "bob", "ico", "x", ""}
people == {"alice", "bob", "ico"}
parties == {"alice", "bob", "ico", "x"}
held == {HIVE_asset(1), HIVE_asset(0), HBD_asset(1), HBD_asset(-1)}
amounts == {-1, 0, 1, 2}
percents == {-101, -100, 0, 60, 100, 101}
--------------------

ids == <<4, 1, 2, 3, 9, 10, 5, 8, 7, 6>>        \* of the accounts 1..10

(* Fields of object i; `v' is 1 once it has been modified.                    *)
n(i) == <<3, 1, 4, 2, 1, 3>>[i]
m(i) == <<2, 2, 1, 1, 3, 4>>[i]
t(i) == <<5, 5, 6, 5, 7, 6>>[i]
u(i, v) == <<7, 5, 6, 5, 7, 6>>[i] - 2 * v
wide(i) == <<30, 10, 20, 40, 60, 50>>[i]
price(i) == [base |-> <<1, 2, 1, 1, 2, 1>>[i], ratio |-> <<3, 2, 3, 5, 4, 1>>[i]]

Rows(list, i, v) ==
    CASE list = "accounts" ->
            [id |-> i, name |-> (i % 4) + 1, proxy |-> <<0, 3, 1, 3>>[((i + v) % 4) + 1],
             next_vesting_withdrawal |-> u(i, v)]
      [] list = "owner_histories" -> [id |-> i, account |-> m(i), last_valid_time |-> t(i)]
      [] list = "vesting_delegations" -> [id |-> i, delegator |-> m(i), delegatee |-> n(i)]
      [] list = "vesting_delegation_expirations" -> [id |-> i, delegator |-> m(i), expiration |-> t(i)]
      [] list = "account_recovery_requests" ->
            [id |-> i, account_to_recover |-> (7 * i) % 11, expires |-> u(i, v)]
      [] list = "change_recovery_account_requests" ->
            [id |-> i, account_to_recover |-> (7 * i) % 11, effective_on |-> u(i, v)]
      [] list = "witnesses" ->
            [id |-> i, owner |-> (7 * i) % 11, votes |-> t(i) - v, virtual_scheduled_time |-> u(i, v)]
      [] list = "witness_votes" -> [id |-> i, account |-> n(i), witness |-> m(i)]
      [] list = "escrows" ->
            [id |-> i, from |-> m(i), escrow_id |-> i % 4, to_approved |-> i < 4,
             agent_approved |-> v = 1, ratification_deadline |-> t(i)]
      [] list = "withdraw_vesting_routes" -> [id |-> i, from_account |-> n(i), to_account |-> m(i)]
      [] list = "savings_withdrawals" ->
            [id |-> i, from |-> n(i), request_id |-> i % 4, to |-> m(i), complete |-> t(i)]
      [] list \in {"hbd_conversion_requests", "collateralized_conversion_requests"} ->
            [id |-> i, owner |-> m(i), requestid |-> i % 4, conversion_date |-> t(i)]
      [] list = "decline_voting_rights_requests" ->
            [id |-> i, account |-> (7 * i) % 11, effective_date |-> t(i)]
      [] list = "limit_orders" ->
            [id |-> i, sell_price |-> price(i), seller |-> n(i), orderid |-> i % 4]
      [] list = "proposals" ->
            [id |-> i, creator |-> n(i), start_date |-> t(i), end_date |-> wide(i) + 5 * v,
             total_votes |-> u(i, v), removed |-> v = 1 /\ i = 2]
      [] list = "proposal_votes" ->
            [id |-> i, voter |-> n(i), proposal_id |-> m(i), start_date |-> m(i),
             end_date |-> 10 * m(i), removed |-> v = 1 /\ m(i) = 1]

World(list, order) ==
    [list |-> list, order |-> order, direction |-> "ascending", by |-> "start", limit |-> 3,
     status |-> "all", first |-> 1 .. 5, created |-> {6}, modified |-> {2, 4}, removed |-> {1, 3}]

Lists ==
    {World("accounts", x) : x \in {"by_name", "by_proxy", "by_next_vesting_withdrawal"}}
    \cup {World("owner_histories", "by_account"), World("vesting_delegations", "by_delegation")}
    \cup {World("vesting_delegation_expirations", x) : x \in {"by_expiration", "by_account_expiration"}}
    \cup {World("account_recovery_requests", x) : x \in {"by_account", "by_expiration"}}
    \cup {World("change_recovery_account_requests", x) : x \in {"by_account", "by_effective_date"}}
    \cup {World("witnesses", x) : x \in {"by_name", "by_vote_name", "by_schedule_time"}}
    \cup {World("witness_votes", x) : x \in {"by_account_witness", "by_witness_account"}}
    \cup {World("escrows", x) : x \in {"by_from_id", "by_ratification_deadline"}}
    \cup {World("withdraw_vesting_routes", x) : x \in {"by_withdraw_route", "by_destination"}}
    \cup {World("savings_withdrawals", x) : x \in {"by_from_id", "by_complete_from_id", "by_to_complete"}}
    \cup {World("hbd_conversion_requests", x) : x \in {"by_conversion_date", "by_account"}}
    \cup {World("collateralized_conversion_requests", x) : x \in {"by_conversion_date", "by_account"}}
    \cup {World("decline_voting_rights_requests", x) : x \in {"by_account", "by_effective_date"}}
    \cup {World("limit_orders", x) : x \in {"by_price", "by_account"}}

(* Accounts and witnesses are never removed.  Two owner authorities replaced  *)
(* in one block have the same starting key: a page must have room for more.   *)
TableWorlds ==
    {[w EXCEPT !.limit = IF w.list = "owner_histories" THEN 3 ELSE k,
               !.removed = IF w.list \in {"accounts", "witnesses"} THEN {} ELSE @,
               !.first = IF w.list = "accounts" THEN 1 .. 3 ELSE @,
               !.created = IF w.list = "accounts" THEN {4} ELSE @]
        : w \in Lists, k \in {2, 3} }

(* Proposals with equal first keys must fit in a page: only that key can be    *)
(* passed.  Their end dates are further apart than the delay the index adds.  *)
ProposalWorlds ==
    {[World("proposals", x) EXCEPT !.direction = y, !.status = z, !.limit = 4]
        : x \in {"by_creator", "by_start_date", "by_end_date", "by_total_votes"},
          y \in {"ascending", "descending"}, z \in {"all", "active", "votable"}}
    \cup {[World("proposal_votes", x) EXCEPT !.direction = y, !.status = z]
        : x \in {"by_voter_proposal", "by_proposal_voter"},
          y \in {"ascending", "descending"}, z \in {"all", "inactive", "expired"}}
    \cup {[World("proposals", x) EXCEPT !.by = "last_id", !.limit = 2, !.removed = {}]
        : x \in {"by_creator", "by_start_date", "by_end_date", "by_total_votes"}}

PagedWorlds == TableWorlds \cup ProposalWorlds

(* Pages of proposals read backwards by last_id; nothing changes meanwhile.   *)
BackwardWorlds ==
    {[World("proposals", x) EXCEPT !.direction = "descending", !.by = "last_id",
                                   !.created = {}, !.modified = {}, !.removed = {}]
        : x \in {"by_creator", "by_start_date", "by_end_date", "by_total_votes"}}

--------------------

TxOf(expiration, ops) == [expiration |-> expiration, ops |-> ops]
Account(name, account, keys, ok) == [name |-> name, account |-> account, keys |-> keys, ok |-> ok, json |-> FALSE]
WithJson(op) == [op EXCEPT !.json = TRUE]
Fill(hive, hbd) == [name |-> "fill_order", hive |-> hive, hbd |-> hbd, ok |-> TRUE]
Plain(ok) == [name |-> "custom", ok |-> ok]

Observing(txs) ==
    [txs |-> txs, nominal |-> 2, blocks |-> 3, reversible |-> 2, per_block |-> 2, start |-> 3, until |-> 3,
     genesis |-> [initminer |-> {"k1"}], metadata_first |-> TRUE, history |-> 1, sizes |-> {2, 4},
     downtimes |-> {0}]

\* Keys move between two authorities, an update fails after the cache was
\* filled, and the account of genesis makes the metadata plugin throw.
KeyTxs == <<TxOf(3, <<Account("account_create", "alice", {"k1", "k2"}, TRUE)>>),
            TxOf(3, <<Account("account_update", "alice", {"k2", "k3"}, TRUE)>>),
            TxOf(3, <<Account("account_update", "alice", {"k3"}, FALSE)>>),
            TxOf(3, <<WithJson(Account("account_update", "initminer", {"k2"}, TRUE)),
                      Account("create_claimed_account", "bob", {"k1"}, TRUE),
                      Account("recover_account", "alice", {"k1"}, TRUE)>>)>>

KeyWorlds == {[Observing(KeyTxs) EXCEPT !.metadata_first = first, !.per_block = 2, !.blocks = 2] : first \in BOOLEAN}

\* Three transactions with different expirations; the node starts behind the
\* live chain or at it, and restarts after less time than it tracks.
StatusTxs == <<TxOf(3, <<Plain(TRUE)>>), TxOf(5, <<Plain(TRUE)>>), TxOf(6, <<Plain(FALSE)>>)>>

StatusWorlds ==
    {[Observing(StatusTxs) EXCEPT !.nominal = nominal, !.blocks = 7, !.reversible = 2, !.per_block = 1,
        !.start = from, !.until = 7, !.downtimes = IF from = 1 THEN {2} ELSE {}] :
        nominal \in {1, 4}, from \in {1, 7}}

\* The node is down for longer than it tracks.
GapWorlds ==
    {[Observing(StatusTxs) EXCEPT !.nominal = 3, !.blocks = 9, !.reversible = 1, !.per_block = 1,
        !.start = 1, !.until = 9, !.downtimes = {6}]}

MarketTxs == <<TxOf(4, <<Fill(1, 2), Fill(1, 1), Fill(2, 3)>>), TxOf(6, <<Fill(3, 3)>>), TxOf(7, <<Fill(1, 4)>>)>>

MarketWorlds ==
    {[Observing(MarketTxs) EXCEPT !.blocks = 6, !.reversible = 1, !.per_block = 1, !.start = 7, !.until = 7,
        !.downtimes = {}, !.history = history] : history \in {1, 2, 0}}

Observed == KeyWorlds \union StatusWorlds \union MarketWorlds
--------------------

Gets(fs) == [i \in DOMAIN fs |-> <<"get", fs[i]>>]
DropIt == <<<<"drop">>>>

\* what the writer asks of a block it applies and stores
WriterAsks == Gets(<<"merkle_root", "signing_key", "unpacked">>)
          \o <<<<"tx", 1, "validation">>>> \o Gets(<<"compressed">>) \o DropIt
\* what the network thread asks: the id, then what it sends to its peers
NetAsks(f) == as_block_message \o Gets(<<"id", f>>) \o DropIt
\* a transaction that arrives by itself
Alone(e) == as_trx_message(e) \o <<<<"mine", "validation">>, <<"drop">>>>
Again(e) == Alone(e) \o <<<<"create", e>>, <<"mine", "signature_keys">>, <<"drop">>>>
Asked(e) == as_trx_message(e) \o <<<<"mine", "digest">>, <<"mine", "message_hash">>,
              <<"mine", "authorities">>, <<"mine", "legacy_pack">>, <<"drop">>>>
Stop == <<<<"interrupt">>, <<"shutdown">>>>

Arrives == [form |-> "raw", bad |-> "nothing", invalid |-> {}, live |-> TRUE, txs |-> <<"e1">>,
         id_given |-> FALSE, validate |-> FALSE, checkpoint |-> FALSE, workers |-> {"w1"}, oversigned |-> {},
         keeps |-> {"net", "writer"}, agenda |-> [net |-> NetAsks("alternate"), writer |-> WriterAsks]]
\* a block of the log sent to a peer, or replayed
Serve(form, source, f) ==
  [Arrives EXCEPT !.form = form, !.live = FALSE, !.keeps = {"net"}, !.id_given = TRUE, !.workers = {"w1", "w2"},
     !.agenda = [net |-> <<<<"queue_block", source>>>> \o Gets(<<"id", f>>) \o DropIt]]

SharedWorlds ==
  {[Arrives EXCEPT !.form = fo] : fo \in {"raw", "dict", "plain"}}
  \cup {[Arrives EXCEPT !.workers = {}, !.live = FALSE]}
  \cup {[Arrives EXCEPT !.bad = b, !.form = "dict"] : b \in {"header", "transactions", "signature"}}
  \cup {[Arrives EXCEPT !.bad = "header", !.agenda = [net |-> NetAsks("compressed")]],
        [Arrives EXCEPT !.checkpoint = TRUE, !.live = FALSE, !.agenda = [net |-> NetAsks("message_hash")]]}
  \cup {[Arrives EXCEPT !.form = "produced", !.txs = <<>>, !.workers = {"w1", "w2"},
          !.agenda = [net |-> <<<<"queue_block", "locally_produced_block">>>> \o Gets(<<"message_hash", "alternate">>) \o DropIt,
                      writer |-> Gets(<<"signing_key", "compressed">>) \o DropIt]]}
  \cup {Serve("raw", "destined_for_p2p_compressed", "compressed"),
        Serve("dict", "destined_for_p2p_uncompressed", "uncompressed"),
        Serve("dict", "destined_for_p2p_alternate_compressed", "alternate"),
        Serve("dict", "block_log_for_decompressing", "uncompressed")}
  \cup {[Serve("dict", "block_log_for_replay", "unpacked") EXCEPT !.validate = v, !.txs = <<"e1", "e2">>] : v \in BOOLEAN}
  \* the same transaction by itself, twice, and in the block
  \cup {[Arrives EXCEPT !.invalid = {"e1"}, !.validate = TRUE, !.form = "produced", !.keeps = {},
          !.agenda = [api |-> Again("e1"), main |-> Stop]],
        [Arrives EXCEPT !.form = "produced", !.keeps = {}, !.agenda = [net |-> Alone("e1"), api |-> Asked("e1")]],
        [Arrives EXCEPT !.form = "produced", !.keeps = {}, !.oversigned = {"e1"}, !.agenda = [net |-> Alone("e1"), api |-> Alone("e1")]],
        [Arrives EXCEPT !.invalid = {"e1"}, !.validate = TRUE, !.keeps = {"writer"},
          !.agenda = [writer |-> as_block_message \o <<<<"get", "unpacked">>, <<"tx", 1, "validation">>, <<"drop">>>>,
                      api |-> <<<<"create", "e1">>, <<"drop">>, <<"create", "e1">>, <<"mine", "signature_keys">>, <<"drop">>>>]]}
--------------------
Request == [object |-> TRUE, id |-> "7", version |-> TRUE, method |-> "direct", params |-> "ok", target |-> "get_block"]
Single(r) == [form |-> "one", items |-> <<r>>]
Shapes ==
    {[Request EXCEPT !.object = FALSE], [Request EXCEPT !.version = FALSE]}
    \cup {[Request EXCEPT !.id = x] : x \in {"bad", "none"}}
    \cup {[Request EXCEPT !.method = x] : x \in {"missing", "no dot"}}
    \cup {[Request EXCEPT !.target = x] : x \in {"unknown", "broadcast"}}
    \cup {[Request EXCEPT !.method = "call", !.params = x] : x \in {"none", "no array", "too few", "not strings", "ok"}}
EarlyCall == [Request EXCEPT !.target = "get_status", !.id = "8"]
Batch == [form |-> "batch", items |-> <<EarlyCall, Request>>]
Serving(endpoints, same, at_once, stops, taken, messages) ==
    [endpoints |-> endpoints, same |-> same, at_once |-> at_once, stops |-> stops, taken |-> taken, messages |-> messages]

Servers ==
    {Serving({"ws"}, FALSE, TRUE, FALSE, {}, {Single(r)}) : r \in Shapes}
    \cup {Serving({"ws"}, FALSE, TRUE, TRUE, {}, {Single([Request EXCEPT !.target = "broadcast"])})}
    \cup {Serving({"ws"}, FALSE, TRUE, FALSE, {}, {[form |-> f, items |-> <<>>]}) : f \in {"text", "binary", "batch"}}
    \cup {Serving({"http"}, FALSE, a, TRUE, {}, {Single(EarlyCall), Single(Request)}) : a \in BOOLEAN}
    \cup {Serving({"http"}, FALSE, TRUE, TRUE, {}, {Batch})}
    \cup {Serving(e, s, TRUE, TRUE, busy, {Single(EarlyCall)}) :
            e \in {{"unix"}, {"ws", "http", "unix"}, {"http", "unix"}}, s \in BOOLEAN, busy \in {{}, {"http"}}}
--------------------
\* Two threads of transactions, or one, and the queen; sizes of transactions
\* and limits are such that a block fills up within three of them.
Driven ==
    [threads |-> 2, accounts |-> 3, start_at |-> 0, concurrency |-> 6, first_concurrency |-> 5, per_block |-> 0,
     queen |-> TRUE, target_size |-> 0, target_count |-> 0, keys |-> {0, 1}, sizes |-> {2, 3}, debug |-> FALSE,
     interrupt |-> FALSE, failures |-> FALSE, pacemaker |-> FALSE,
     now |-> 0, min_offset |-> 0, max_offset |-> 2, last |-> 3]
OneThread == [Driven EXCEPT !.threads = 1]
Driving == {
    [Driven EXCEPT !.concurrency = 1, !.sizes = {3}],
    [OneThread EXCEPT !.failures = TRUE, !.debug = TRUE, !.sizes = {3}],
    [OneThread EXCEPT !.target_count = 2, !.debug = TRUE, !.keys = {1}, !.sizes = {2}],
    [OneThread EXCEPT !.target_size = 4, !.interrupt = TRUE],
    [OneThread EXCEPT !.keys = {}],
    [OneThread EXCEPT !.queen = FALSE, !.debug = TRUE, !.per_block = 2, !.sizes = {3}],
    [Driven EXCEPT !.queen = FALSE, !.debug = TRUE, !.sizes = {3}, !.per_block = 2],
    [OneThread EXCEPT !.concurrency = 0, !.start_at = 2, !.debug = TRUE],
    [OneThread EXCEPT !.concurrency = 0],
    [OneThread EXCEPT !.start_at = 1, !.debug = TRUE, !.accounts = 0],
    [Driven EXCEPT !.accounts = 0],
    [Driven EXCEPT !.pacemaker = TRUE],
    [Driven EXCEPT !.pacemaker = TRUE, !.now = 4],
    [Driven EXCEPT !.pacemaker = TRUE, !.now = 2, !.min_offset = -1, !.max_offset = 1]}
--------------------
NoOperation == [op |-> "none"]
NoList == [World("accounts", "by_name") EXCEPT !.list = "escrows", !.first = {}]
NoObserver == Observing(<<>>)
NoBlockHere == [Arrives EXCEPT !.agenda = <<>>]

NoServer == Serving({}, FALSE, FALSE, FALSE, {}, {})
NoDriver == [Driven EXCEPT !.threads = 0, !.keys = {}]

(* The part that moves, the others are parked.                             *)
VARIABLE moving

Choice(part, all, parked) == IF moving = part THEN all \ {parked} ELSE {parked}
ServiceInit ==
    /\ moving \in {"operations", "lists", "observers", "blocks", "calls", "drivers"}
    /\ lworld \in Choice("lists", ListWorlds, NoList)
    /\ oworld \in Choice("observers", ObservedWorlds, NoObserver)
    /\ bworld \in Choice("blocks", BlockWorlds, NoBlockHere)
    /\ aworld \in Choice("calls", ServerWorlds, NoServer)
    /\ dworld \in Choice("drivers", DriverWorlds, NoDriver)
    /\ ListInit /\ ObserversInit /\ BlockInit /\ ApiInit /\ DriverInit
    /\ ProtocolInit(Choice("operations", AnyOperation, NoOperation))

ServiceNext ==
    \/ moving = "operations" /\ ProtocolNext /\ UNCHANGED <<moving, lvars, ovars, bvars, apiVars, driverVars>>
    \/ moving = "lists" /\ ListNext /\ UNCHANGED <<moving, pvars, ovars, bvars, apiVars, driverVars>>
    \/ moving = "observers" /\ ObserversNext /\ UNCHANGED <<moving, pvars, lvars, bvars, apiVars, driverVars>>
    \/ moving = "blocks" /\ BlockNext /\ UNCHANGED <<moving, pvars, lvars, ovars, apiVars, driverVars>>
    \/ moving = "calls" /\ ApiNext /\ UNCHANGED <<moving, pvars, lvars, ovars, bvars, driverVars>>
    \/ moving = "drivers" /\ DriverNext /\ UNCHANGED <<moving, pvars, lvars, ovars, bvars, apiVars>>

AllLists == PagedWorlds \union {NoList}
BackwardLists == BackwardWorlds \union {NoList}
OneObserver == {NoObserver}
AllObserved == Observed \union {NoObserver}
OneBlock == {NoBlockHere}
AllShared == SharedWorlds \union {NoBlockHere}
AllServers == Servers \union {NoServer}
OneServer == {NoServer}
AllDriven == Driving \union {NoDriver}
OneDriver == {NoDriver}
====
