# Pixagram node: TLA+ specifications, model checking and proofs

Pixagram is a fork of the Hive blockchain node (`hived`). A node keeps the state of
the chain in a memory-mapped object database with nested undo sessions, receives
blocks and transactions from the network, switches forks, decides which blocks are
irreversible, writes them to a block log, produces blocks itself when a witness
is configured, and answers questions about all this through its APIs. This directory
holds TLA+ models of that machinery, TLC configurations that check them on small
instances, and proofs checked by TLAPS.

`PROJECT.json` is the index: which definition stands for which lines of the source,
which run checks which property, which theorem is proved, and where each hazard is.

## 1. The parts of the system

| Part | Source (under `src/libraries`) | What makes it hard | Modules |
|---|---|---|---|
| chainbase index | `chainbase/.../chainbase.hpp` | nested undo sessions, merging of change sets | `GenericIndex`, `IndexAllocation`, `GenericIndexProofs` |
| shared memory file | `chainbase/src/chainbase.cpp`, `chain/database.cpp`, `chain/database_init.cpp` | a kill between any two tables, other plugins at the next start, growing the file | `SharedMemory` |
| fork database | `chain/fork_database.cpp` | blocks out of order, trimmed parents | `ForkDatabase` |
| block writer | `chain/sync_block_writer.cpp`, `chain/irreversible_block_data.cpp`, `chain/database.cpp` | bad blocks in the middle of a switch, kills, several branches at one height | `BlockWriter`, `FinalChain`, `WriterInvariant`, `WriterForks`, `BlockWriterProofs` |
| write queue, production | `plugins/chain/chain_plugin.cpp`, `chain/*_flow_control.cpp`, `plugins/witness` | five kinds of threads, late requests, order of shutdown, stale copies | `WriteQueue`, `WriteQueueInvariant`, `WriteQueueProofs` |
| pending transactions | `chain/include/hive/chain/db_with.hpp`, `chain/database.cpp` | time limits, duplicates, two notions of expiration | `Mempool` |
| shared blocks and workers | `chain/full_block.cpp`, `chain/full_transaction.cpp`, `chain/blockchain_worker_thread_pool.cpp` | fields decoded lazily by several threads, objects shared through a cache | `FullBlock` |
| block log and artifacts | `chain/block_log*.cpp`, `chain/split_block_log.cpp`, `chain/single_block_storage.cpp` | kill between two files, rotation and pruning under readers | `BlockLog`, `BlockStorage` |
| archives | `plugins/account_history_rocksdb`, `chain/external_storage` | two stores and a state that open at different blocks | `Archives` |
| state snapshots | `plugins/state_snapshot` | workers that fail one by one | `Archives` |
| peer-to-peer | `net/node.cpp`, `net/peer_connection.cpp` | unreliable peers, timeouts, two connections of one pair | `PeerProtocol`, `Network` |
| vesting and votes | `chain/database_vesting.cpp`, `chain/util/delayed_voting.cpp`, `chain/hive_evaluator*.cpp` | sums kept incrementally through chains of proxies | `Governance` |
| resource credits | `chain/rc`, `chain/util/rd.cpp` | delegations larger than what is left | `Credits`, `ResourceDynamics` |
| tokens, market, proposals | `chain/hive_evaluator_transfer.cpp`, `chain/database_market.cpp`, `chain/database_conversion.cpp`, `chain/dhf_evaluator.cpp` | a missed leg of a transfer shows only in `validate_invariants` | `Ledger`, `ChainState` |
| content and rewards | `chain/hive_evaluator_social.cpp`, `chain/database_comment.cpp` | order of payouts, votes changed and taken back | `Economy` |
| accounts and authorities | `chain/hive_evaluator_account.cpp`, `chain/database_recovery.cpp`, `protocol/.../sign_state.hpp` | time windows, a walk that remembers what it approved | `Accounts` |
| witnesses and hardforks | `chain/witness_schedule.cpp`, `chain/database_witness.cpp`, `chain/database_hardfork.cpp` | wrapping virtual time, votes in block headers | `Chain` |
| operations | `protocol/*_operations.cpp`, `protocol/forward_impacted.cpp` | four visitors that have to agree | `Protocol`, `Operations` |
| database API | `plugins/apis/database_api` | paging over a table that changes | `DatabaseApi` |
| observer plugins | `plugins/account_by_key`, `metadata`, `transaction_status`, `market_history` | memory beside the undone state, handlers that throw | `Observers` |
| JSON-RPC and web server | `plugins/json_rpc`, `plugins/webserver` | methods replaced while they are called, order of shutdown | `ApiServer` |
| test network helpers | `plugins/colony`, `queen`, `pacemaker`, `debug_node` | counts of what is pending, requests that overtake | `LoadDrivers` |
| block log tools | `src/programs/util` | threads that meet at a barrier, a pipeline with three kinds of threads | `LogTools`, `BlockCompressor`, `BlockCompressorProofs` |
| other APIs, wallet, converter | `plugins/apis`, `wallet`, `src/programs` | not modelled: formatting, and sequential clients | |

How they meet: the network and the API put requests into the **write queue**; its one
thread calls the **block writer**, which puts a block into the **fork database**, applies
it to the state inside an undo session of every **index**, lets the fork decide what is
irreversible, writes that to the **block log** and commits the undo sessions up to it.
Around every block the **pending transactions** are taken off the state and put back.
The **production loop** asks through the same queue for a block built from them. The
archives and the observer plugins are told of every block applied and every block that
became irreversible.

## 2. Modules

A component is a module of its own; a module that composes components extends them.
Operations on part of the state are operators from the old value to the new one, and
the actions of the composing module apply them in the order of the code.

**GenericIndex, IndexAllocation.** A table is a function from ids to contents; the one
thing the table looks at inside an object is its unique secondary key, `Key(v)`. The three
hooks (`on_create`, `on_modify`, `on_remove`) fill the newest undo state as the code does,
`Reverted` is what the loops of `undo()` leave, `UndoThrows` the three places at which such a
loop throws, and `Merged` the case analysis of `squash()`. `undo_all()` is a flag under which
only `Undo` happens. `snapshots` is a history variable with the table at the start of each
session. `IndexAllocation` adds the running total of bytes the objects own, corrected by each
operation and by each of the three loops of `undo()` as in the code; `ModifyThrows` is the call
of `modify()` that an exception ends before the correction, and `uncounted` is a history
variable with the bytes such calls left out.

**SharedMemory.** The file is mapped, so whatever the process wrote is there after a kill.
Every loop over the tables (`start_undo_session`, `undo`, `squash`, `commit`, the additions of a
start) is one table per step. `Lives` are the starts of one data directory in order, each
with its own plugins, build and options. A second process that tries to open the directory
and readers under the read lock run beside.

**ForkDatabase, BlockWriter, FinalChain.** Blocks are constants: parent, number, signer. The
fork database is a record; a block whose parent was erased stays in the index but is no longer
*linked*, the state of its weak pointer. The writer's control is in `pc` and its local variables
in `op`, with a step for each durable effect, so that a kill falls between any two of them. The
choice of the last irreversible block is the code's walk from each head. Two things the code
leaves to a hash order are nondeterministic: the order of the heads, and which of two blocks of
a witness at one height counts as its last. Reading through a null pointer ends the process.
`FinalChain` is what a node promises: a chain whose settled prefix only grows. `BlockWriter`
implements it with the block up to which undo sessions are committed as `final`.

**WriteQueue.** Each caller is in one of the stages of `accept_block`, `accept_transaction` or
`push_generate_block_request`; the worker goes through `visit`, the point where the promise is
released, and the rest of the request. `finish.status`, `running` and the two interruption flags
are separate variables, read where the code reads them. The order in which appbase stops the
plugins is external and modelled from the plugins' shutdown functions.

**Mempool.** The state is the set of transactions executed so far; a transaction says what it
needs and what it excludes, which stands for Tapos, balances, authorities and credits.
`Restore` is the destructor of `pending_transactions_restorer`, with the moment the time limit is
hit chosen freely; `BuildBlock` is `apply_pending_transactions`. `runtime_expiration` belongs to a
transaction object shared by the mempool and by blocks, and disappears with it.

**FullBlock.** A field of a block or transaction is computed at the first call that needs it,
under a mutex, and read through an atomic flag without it. A thread is a stack of calls over
an agenda. The cache holds weak pointers; destructors only queue the digests that the next
insertion forgets. The queues of the worker pool, its priorities and its shutdown are part of it.

**BlockLog, BlockStorage.** A part is its blocks, its artifacts and their flags; `BlockStorage`
opens the parts read-only, generates what is missing from artifacts or from the legacy file, replays,
reopens for writing, appends, rotates and prunes while API threads read. The files of a pruned part stay until a later rotation or the close finds no
other holder of it. `Kill` may follow any step.

**Archives.** `StorageProvider` part: what is on disk, what the write buffer adds, the irreversible
block it was written at. On top of it account history (volatile operations in the state, moved out
when irreversible, read back in pages) and the comment archive, under a node that applies, pops,
confirms, is killed, replayed and opened again.

The state snapshot is in the same module: workers write the objects of a range of ids, the manifest follows; any worker,
any index and the process itself may fail. Loading reads what the manifest names.

**PeerProtocol, Network.** Every node runs `node.cpp` on one thread of cooperative tasks, so
a step is what one task does between two points where it may yield. `PeerProtocol` has the state of
the connections, the handshake, the synchronisation, advertising and fetching; `Network` the nodes
and links. What a node asks of its chain is a call that is answered later.
`MinutePasses` is the clock: it makes the items of the fetch queue and the inventories too old, and empties the window of the breaker.

**Governance, Credits, ResourceDynamics.** `db` holds the accounts (fields named as in
`account_object`), votes, delegations, routes and requests. Transactions of a block run at the time of the
block before it; `EndBlock` moves time on and takes the steps of a block in their order. `asserted`
becomes true if an assertion inside a block would throw at any intermediate state. `Credits` adds the mana,
its delegation, the removal of delegations that lost their cover, a few per block, and the prices; its pool for new accounts follows the subsidies that the chain keeps.
`ResourceDynamics` is `rd.cpp`, with its theorems.

**ChainState, Operations, Ledger, Economy.** `Ledger` has balances, prices, interest, supply and
the reports of changed balances, and the operations on transfers, savings, escrow, recurrent transfers (by sender,
receiver and pair id), orders, conversions and proposals; `Economy` comments, votes and payouts, and the block that takes all its steps in
order. Arithmetic truncates where the code's does. The interest rate of this chain is fixed at 0; the
run uses another, so that paying interest is checked too.

**Accounts, Chain.** `Accounts` is the walk of `sign_state` over authorities that name each other, account
creation, owner changes and recovery. `Chain` adds the witnesses' operations, the schedule by votes and
virtual time, slots, missed blocks, and hardforks voted in headers.

**Protocol, DatabaseApi, Observers, ApiServer, LoadDrivers.** `Protocol`: `validate()`, required
authorities, impacted accounts and balances of every operation. `DatabaseApi`: every list over its ordered
index with the starting key the call builds, and every find. `Observers`: handlers in the order they are
connected, with the state they keep in and beside the undone tables. `ApiServer`: endpoints, pool threads, the
tables of methods, and the main thread that fills, replaces and clears them. `LoadDrivers`: the colony's
threads, the queen's counting, blocks made on request, and the pacemaker's loop, over the writer's two queues.

**LogTools, BlockCompressor.** One action per command of `block_log_util`, over two logs; `compare`'s two
threads meet at their barrier. `BlockCompressor` is the reader, the compressing threads and the writer of
`compress_block_log`, with one mutex and one condition variable.

## 3. Runs

A run joins the questions about parts that can be checked side by side. Its state is chosen once,
as one *world* out of `Worlds` (or one of several components, in `storage` and `service`): which blocks exist and which are
bad, which requests come, who does which operations. The world never changes, so the state spaces
of the questions add up instead of multiplying. The properties of a run are conjunctions of named
invariants, or action and temporal properties; each conjunct has its own definition and comment.

| Run | What it checks | Result |
|---|---|---|
| `writer_final` | `InStep`: the block log is one chain that the state never leaves, and between operations log, state, undo stack and irreversible number agree. `IrreversibleStays`: the node implements `FinalChain`, with a kill between any two durable effects | passes |
| `writer_forks` | `ForkDbWhole`: the fork database keeps the chain of the state linked, migration succeeds, the undo stack keeps its limit, observers are told. `RestoredInFull`: a switch taken back ends where it began. `OperationsEnd` | passes |
| `write_queue` | `NobodyWaitsForever`; `AnswersOrderly`: a promise is set once, no generated block is asked for twice, held blocks keep their limit, a good verdict is final; `EveryoneGoesOn`: calls and the shutdown end | passes |
| `mempool` | `NoReplay`, `PendingExact` (size, sessions, produced blocks apply, the mempool does not judge blocks), `NothingLost` | passes |
| `governance` | `GovernanceExact`: sums of VESTS, proxies, witnesses and delayed votes, no assertion inside a block; `CreditsExact`: mana and its delegation; `NothingForFree` | passes |
| `economy` | `SupplyExact`, `BalancesSound`, `ClaimsExact` (orders, requests, proposals, votes, payouts), `VirtualSupplySettled`: the virtual supply is up to date after every block, also after one that converts the treasury's HIVE behind the block's last update | passes |
| `network` | `PeersTreatedFairly` (one connection per node, no false accusation), `NothingForgotten`, `Settles` | passes |
| `chain` | `AccountsSafe` (authority, recovery window), `ProductionGoesOn` (schedule, backups, hardfork), `HardforkByQuorum` | passes |
| `storage` | `UndoRestoresSnapshot`, `RevisionsConsecutive`, `IndexSound`, `StorageWhole`, `Durable`, `ArchivesExact`, `LoadedExact`, `MemoryExact`, `ToolsExact`, `CompressionExact` | passes |
| `service` | `OperationsAccountable`, `ListsExact`, `ObserversExact`, `SharingSound`, `CallsServed`, `DriversExact` | passes |
| `snapshot_gap` | `FinishedLoads`: a snapshot reported as finished can be loaded | violation |
| `proposals_backwards` | `PagesComplete` for proposals in descending order | violation |

**Bounds, and why they are enough.**

* `writer_*`: a chain of four blocks, a longer fork of three from its second block, and a fork with two
  branches from the first; one or three witnesses. The longest path through `switch_forks` (pop, apply
  some, fail, pop, restore) needs two blocks on each side. Worlds: good blocks and a kill; two branches on a
  bad block; a block that fails after the irreversible number moved; a young chain in which
  blocks become irreversible by depth; and in `writer_forks` a bad block in the middle of the longer fork.
* `write_queue`: two blocks of the network, one of them early, a transaction of the API and one of the colony, two
  production rounds, one block that may be held. Every hazard is between one caller and the
  thread or between two callers.
* `mempool`: two of five transactions at a time, four blocks, one fork switch that pops at most two, three
  transactions of room in a block and in the mempool. Duplicates, postponement, overflow of each
  limit and dependencies need no more.
* `governance`: five accounts make a chain of proxies one longer than the recursion depth of three (four in the code); two
  withdrawal intervals and two delayed entries are the least at which steps, rounding and
  merging differ. Credits have worlds in which VESTS come and go under a loan, in which more receivers lose it than one
  step may remove, and in which every operation costs.
* `economy`: two or three accounts and a few units of each token; one world per kind of operation, with up to four
  transactions among the steps of a few blocks, and amounts chosen so that shares truncate. In one,
  recurrent transfers bring HIVE to the treasury, which the maintenance of proposals converts later in the block.
* `network`: three nodes, four possible connections, five blocks and a fork of two, one transaction. Worlds:
  both connect at once, attempts fail, room for one connection, a stranger's chain, one is
  behind, one is on a minority fork, connections break and time out, a block is refused, a block is
  made during synchronisation, items spread, a peer sends too much, a backlog; a minute passes while items
  wait to be fetched, or between two blocks that are refused.
* `chain`: three scheduled witnesses of which two are voted for, a quorum of two, a virtual time that wraps at
  256. Worlds: a stolen key and its recovery, witnesses that come and go, nobody votes, upgrades one by
  one, a build of another time, two producers, authorities that name each other.
* `storage`: three ids, two keys and three nested sessions (`squash()` joins two, undoing the result is a third);
  parts of four blocks and fourteen blocks; a tree with two branches, two accounts and a comment; snapshots of
  dense, sparse and empty indices; two logs for the tools; four blocks, two
  compressing threads and queues of one; the lives of a data directory with and without a plugin, wiped, of another build and
  of another size.
* `service`: operations over the names and amounts that validation tells apart; tables of six objects with
  equal keys; two threads of the pool and two connections; two workers, four clients and three transaction
  objects; colony and queen limits that three transactions fill.

**Fairness.** `writer_forks`: weak fairness of the writer thread's own steps, which nothing blocks once an
operation has begun. `write_queue`: weak fairness of each thread, and of the clock reaching
the release time of an early block; nothing makes a request arrive, a slot belong to this
node, or a signal be sent. `network`: as long as a task, a message, a timer or an answer of the chain is due, one of
them happens; nobody has to break a connection or make a block. The other runs check safety only; `EveryoneGoesOn`,
`OperationsEnd` and `Settles` are the temporal properties.

`CHECK_DEADLOCK` is off in `write_queue` (a closed node is the normal end) and in `network`, `chain`,
`storage` and `service`, whose environment has a bounded number of things to do. That somebody waits for ever is
stated there as a property of its own: `NobodyStuck`, `NothingStrands`, `CompareGoesOn`, `CallsServed`.

## 4. What is proved

The theorems hold for every value of the constants that satisfies the named assumptions. The
assumptions are about types and, for blocks, that a block's number is its parent's plus one.

**Undo sessions** (`GenericIndexProofs`, assumption `IndexAssumption`). For any objects, number of ids, depth of nesting
and revisions:

* `TypeCorrect`, `UndoRestores` (`UndoRestoresSnapshot`: every open session leads back to the table and the
  next id at which it was started) and `Revisions` (`RevisionsConsecutive`);
* `UndoSucceeds`: when no modifier changes a unique key (`KeysImmutable`), `undo()` never throws (`UndoNeverThrows`). The
  other three do not need that hypothesis.

`UndoRestoresSnapshot` is not inductive: that the newest session leads back to its start says nothing about what
the next `remove` has to record. `IndexInv` has one relation per session, `Layer(st, after, before)`,
which adds that ids given out during the session are at least its `old_next_id`, that changed and removed
objects are older than the session, that no object is in both maps, that a removed object is
absent afterwards, and that an id not given out has no object. For `UndoSucceeds` the layer also says
that no two objects of the table before share a key and that contents are put back only under the key the
object still has. `CreateLayer`, `ModifyLayer` and `RemoveLayer` show that an operation keeps the newest layer,
`MergeLayers` that `squash()` makes one layer of two, and a lemma per action lifts this to the stack.

**The chain of a node** (`WriterInvariant`, `WriterForks`, `BlockWriterProofs`; assumptions
`ForkTreeAssumption`, `WriterAssumption`). For every tree of blocks, every choice of bad blocks, schedules, confirms and kills, as
long as the fork database has a head (`HeadKnown`):

* `LogFollowsState`: `InStep`;
* `SettledStays`: `IrreversibleStays`, the refinement of `FinalChain` by the mapping of its variables to
  `state_head` and `committed`.

The invariant `IInv` says that the settled block is on the chain of the state; that the fork database is a tree
with a head that contains the chain of the state above what may be trimmed (`Kept`); where the head
of the fork database is relative to the state at each step (`HeadInv`); that the blocks still to be applied hang on
the state or will after the pops (`TodoInv`); that the old branch of a switch can be applied
again (`OldInv`); and that the log ends in the settled block but for the blocks of the migration in progress, each
of which is on the chain of the state and will be found (`LogInv`). `LibInv` adds the
irreversible number. There is one lemma per action of the writer. `HeadKnown` is a hypothesis and not a lemma, since the head
can only be lost through a block whose parent was trimmed, after the limit of the undo history;
that this does not happen is a matter of sizes, and `writer_forks` checks it as part of `ForkDbWhole`.

**The write queue** (`WriteQueueInvariant`, `WriteQueueProofs`; assumption `QueueAssumption`). For any requests, any number of
callers and every order in which they, the thread, the production loop and the shutdown
take their steps:

* `NobodyLeftWaiting`: `NobodyWaitsForever`;
* `AnswersStayOrderly`: `AnswersOrderly`.

The invariant: a request is in one place, once, and only after it was posted (`OnePlace`); what is pending has no answer, and
who waits has an answer or is pending (`Answered`); the counter of held blocks counts the callers asleep
(`Held`); and the production loop and the thread agree on the block that is asked for, all heads it ever saw having left the
thread's hands (`Production`).

**Compression of a block log** (`BlockCompressorProofs`; assumptions `JobsAssumption`, `QueuesAssumption`, `CompressorsAssumption`). `CompressionIsExact`: for any number of compressing
threads and any sizes of the queues, `CompressionExact`: the output has the blocks asked for in
order, the queues keep their limits, and until the program ends some thread can go on. `PipelineInv` says that output,
held block, `completed_queue`, `pending_queue` and the block being read are one run of consecutive numbers. `WakeInv` says that a
thread sleeps only while its reason is there or a notification is on its way, which one condition variable for three
kinds of threads does not make obvious.

**Pools of resource credits** (`ResourceDynamics`, assumption `RdAssumption`). `SetupNeverFails`: neither assertion of
`rd_setup_dynamics_params` fails, whatever budget and decay are voted. `PoolsBounded`: `rd_apply` keeps a pool
between zero and its maximum.

**Only model-checked.** Liveness (`OperationsEnd`, `EveryoneGoesOn`, `Settles`), which needs fairness. The sums (of
balances, votes, mana, allocated bytes), which are folds: what a fold computes for every input needs
induction over data. The walks of `Archives`, `Accounts`, `PeerProtocol` and what extends them, which are recursive
operators. `HeadKnown` and the rest of `ForkDbWhole`, and `RestoredInFull`. The remaining components have no proofs yet:
`Mempool`, `SharedMemory`, `BlockStorage`, `FullBlock`, `ApiServer`, `LoadDrivers`, `DatabaseApi`, `Observers`.

## 5. Disagreements and limits met in the code

Checked by a run that TLC refutes:

* `snapshot_gap`: for some sizes of an index a worker of the snapshot has an empty range and never creates its
  file; the manifest names it, the dump reports success and loading throws (`state_snapshot_plugin.cpp:583`).
* `proposals_backwards`: a descending list of proposals continued with `last_id` starts next to an
  unrelated proposal unless the order is that of the ids (`database_api_impl.hpp:130`).

Stated as exact exceptions inside passing properties, or as worlds that are left out:

* Index: `modify()` leaves through an exception before it corrects `_item_additional_allocation` (`chainbase.hpp:403`, the
  total is read at 888), and undoing the change does not heal it: `AllocationExact` states the drift exactly. With modifiers that change unique keys, `undo()` can meet a key that a later write would free.
* Writer: the comment in `switch_forks` says the old fork is restored when the good part of the new
  one is not longer; the condition at `sync_block_writer.cpp:236` compares a head that has already moved. The
  irreversible number read before a fast confirm is used for the notification after the switch it
  caused, so blocks are announced twice (`chain_plugin.cpp:1023`, comment at 1012). `_push_next` catches only
  `fc::assert_exception` while `_push_block` throws `unlinkable_block_exception`: with a window of
  one, two cached forks above a missing block make a push fail although its block was inserted, and a fast
  confirm that follows closes the node; `MigrationSucceeds` allows exactly this. A block that fails after `update_last_irreversible_block`
  leaves the irreversible number ahead (`FailsLate` in `IdleInStep`). A failed switch removes the blocks of the branch it tried
  (`sync_block_writer.cpp:222`): another branch on the block that failed stays in the fork database without its root
  (the exception in `BranchesReachLib`), and a switch to it fails at `fetch_branch_from`.
* Mempool: `runtime_expiration` belongs to the node's own transaction object, so a node that postponed a transaction or
  left a fork can refuse a block others accept (`database.cpp:2619`); `MempoolDoesNotJudge` excludes these two cases.
  `clear_expired_transactions` speaks of two forking windows, the code removes an entry as soon as it expired.
* Block log: `process_blocks` ends one block early when its range ends on the first block of a part
  (`block_log_wrapper.cpp:262`). A kill between creating a part and the first append makes the next opening fail. A torn tail
  is not repaired by a node, since auto-fixing is not asked for (`chain_plugin.cpp:962` and 1526). The vector of parts
  is extended while readers use it. A split of a legacy file that was killed is not resumed. The comment "Try garbage collection"
  (`block_log_wrapper.cpp:841`) is never true of the part just pruned, which a local pointer still holds.
* Shared memory: a table whose plugin is absent for a life misses blocks and is accepted later with a
  warning. A kill inside `commit()`'s loop leaves later tables behind, and `revision()` looks only at the
  first. A kill between `set_last_irreversible_block_num` and the first commit makes the next start refuse. A second process marks the
  storage as not created before it fails at the lock. `resize()` leaves `last_irreversible_object` pointing into the old mapping.
* Archives: account history stops before the chain plugin stops writing. Loading a snapshot
  whose name is missing returns silently after the wipe. `_is_error` is never cleared. `_prune` is dead code.
* Network: a backlog of received sync blocks is looked at again only after a block was handed to the
  chain (`node.cpp:4096`, 4114). `disconnect_from_peer` works on a peer that is closed already (`peer_connection.cpp:402`). An item that
  waited a minute in the queue is dropped although a peer still offers it (`node.cpp:1425`), so a last block is fetched only once the
  next one comes: `Settles` names the dropped items. A comment at `node.cpp:4265` speaks of 2 minutes, the constant is 1. Nothing sets
  `transaction_fetching_inhibited_until`, so the check of it never holds a transaction back.
* Economy: HIVE that a recurrent transfer brings to the treasury stays HIVE until the next maintenance, while a transfer is converted at
  once (`hive_evaluator_transfer.cpp:274`).
* Credits: VESTS delegated to an account that loses credits of the same delegator in the same operation bring no mana, since
  `last_max_rc` already counts them (`rc_utility.cpp:402`, comment at 479).
* Chain: a witness with no votes can starve (`witness_schedule.cpp:258`). Before hardfork 30, disabling the last witness makes the
  schedule's assertion fail.
* API: `last_id` of a removed proposal dereferences `end()`; several lists cannot start in the middle of equal keys; the key of the
  order by end date is a day later than the date shown; the loops of `find_*` accept one id more than
  the limit. `verify_signatures` swaps the getters of owner and active (`database_api_crypto.cpp:123`).
* Observers: after a downtime longer than the tracked depth the tracked blocks have a hole, and a transaction in it is called irreversibly
  expired (`transaction_status_plugin.cpp:167`).
* Web server: the unix endpoint runs on `http_ios` and `stop_webserver` stops `unix_ios`, so without an
  http endpoint the shutdown does not end. Calls still queued are dropped. A method pointer found before the tables
  are finalized or cleared dangles. `StopsUnlessUnixAlone` and `DanglesOnlyInFlight` state these limits.
* Colony and queen: the wait of `push_transaction` never ends when a fifth of the limit is zero and ignores the interruption; a
  quota can be exceeded by one; a debug block made while a request of the queen is queued makes that request fail although it was
  counted.
* Block log tools, each an exact exception in `ToolsExact`: `find_end` wraps below zero; a split without a number of files counts one
  part too many when the range is a multiple of a part; a merge loses a last block that is the first of a part; `compare` waits
  at its barrier for ever when one log is in parts and the other is not; `get-block-artifacts` gives the block before the head for -1.
  `compress_block_log` counts by method outside its mutex, and returns 0 after an error.

## 6. What is left out of the modelled parts

* Index: `remove_no_undo`, `move_to_external_storage`, `clear`, `bad_alloc` inside a session.
* Writer: checkpoints, `irreversible_block_writer` and the replay without undo sessions (only its result,
  `ForceReplay`); executing a block is an outcome.
* Queue: statistics, tuning of the lock time, a thread that dies of an unexpected exception.
* Mempool: blocks of the network have at most one transaction; a header's size is part of
  `MaxBlockSize`; one custom operation per transaction.
* Governance and credits: voting mana, accounts created with a delegation, clearing of the null and treasury
  accounts, reports, the surcharge for floods, generation of the curves.
* Economy: the beneficiary "dao", restrictions of `pixa.ico`, the post a proposal needs, reputation. Reward curves are a monotonic function. This chain
  fixes `hbd_interest_rate` at 0; the run uses another rate.
* Chain: what a hardfork changes in the state. The median of the feeds is in `Chain`; what follows from it, in `Ledger`, takes it as an input.
* Operations: `pow`, `pow2`, `custom_binary`, `account_create_with_delegation`, reset accounts, serialization.
* Network: sockets and encryption, aliases of the old protocol, connections to self, the check for a firewall, keepalive,
  bandwidth, reconnecting while tasks of the old connection remain.
* Storage: file formats, compression, the prefetch queue of `for_each_block`; RocksDB is a library. Growing shared memory that
  fails, and the match between state and block log at a start (that is in `BlockWriter`).
* Shared blocks: memory order is sequential consistency; load measurements of the pool; `block_log_for_artifact_generation`, a kind of
  work nothing queues.
* Service: formatting, TLS, the request logger, the plugins reputation, data export and logging.
* Other APIs, the wallet and the remaining tools are not modelled: formatting, and sequential clients without shared state.
