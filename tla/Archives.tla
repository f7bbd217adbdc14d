---- MODULE Archives ----
(***************************************************************************)
(* The archives beside the state: account history and the comment archive, *)
(* each over a RocksDB storage provider, and the node that feeds them.     *)
(*                                                                         *)
(* A provider is what is on disk, what the write buffer adds to it, and    *)
(* the number of the last irreversible block it was written at, by which   *)
(* it is matched with the state database when the node opens.              *)
(*                                                                         *)
(*   disk    the columns the database itself holds; every reader sees them *)
(*   mem     disk with the pending write batch applied                     *)
(*   cached  the provider's copy of the last irreversible block            *)
(* The columns of a store are the fields of the records disk and mem; lib  *)
(* is the column CURRENT_LIB, NoLib when the key was never put.            *)
(***************************************************************************)
EXTENDS Integers, Sequences, FiniteSets, SequencesExt, FiniteSetsExt, TLC

NoLib == -1

\* A store that has just been created with the given empty columns.
NewStore(columns) ==
    [open |-> FALSE, cached |-> 0, disk |-> columns, mem |-> columns]

\* A store that is behind is taken for the right one.
LibMatchesBehind(store, expected) == store.disk.lib <= expected
\* load_lib: a stored number must be the expected one, a missing one is 0.
LibMatches(store, expected) ==
    store.disk.lib = expected \/ (store.disk.lib = NoLib /\ expected = 0)

\* openDb, when LibMatches; the missing number is put in the write buffer.
OpenDb(store, expected) ==
    [store EXCEPT !.open = TRUE, !.cached = expected,
                  !.mem = [store.disk EXCEPT !.lib = expected]]

\* update_lib
UpdateLib(store, n) == [store EXCEPT !.cached = n, !.mem.lib = n]

\* flushWriteBuffer submits the whole batch at once.
FlushWriteBuffer(store) == [store EXCEPT !.disk = store.mem]

\* shutdownDb flushes an open store before it closes it.
ShutdownDb(store) ==
    [(IF store.open THEN FlushWriteBuffer(store) ELSE store)
        EXCEPT !.open = FALSE, !.cached = 0]

\* wipeDb
WipeDb(store, columns) ==
    [ShutdownDb(store) EXCEPT !.disk = columns, !.mem = columns]

\* A killed process loses the batch it had not submitted.
KillStore(store) == [store EXCEPT !.open = FALSE, !.cached = 0, !.mem = store.disk]

\* rocksdb_snapshot: a backup of the flushed store, and the store restored
\* from one, to be opened again.
SaveBackup(store) == FlushWriteBuffer(store)
LoadBackup(store, backup) ==
    [ShutdownDb(store) EXCEPT !.disk = backup, !.mem = backup]

--------------------
(***************************************************************************)
(* Where a comment lives once it is paid out: the three implementations of *)
(* comments_handler (archive = "rocksdb", "memory" or "none") and the part *)
(* of the state database they work on.                                     *)
(*                                                                         *)
(* The database, db, is a record:                                          *)
(*   chain  the ids of the blocks applied, oldest first                    *)
(*   lib    the last irreversible block number, which undo never touches   *)
(*   objs   the objects under undo: <<"comment", c>>, and <<"volatile", c, *)
(*          n>> for a comment paid out in block n and not yet archived     *)
(*   undo   one session per reversible block, plus that of the pending     *)
(*          transactions: the objects it made, those it removed, and chain *)
(*          as it was before                                               *)
(*   arch   the archive the memory variant keeps inside the same memory    *)
(*   ops    the volatile operations of the account history                 *)
(***************************************************************************)

Comment(c) == <<"comment", c>>
Volatile(c, n) == <<"volatile", c, n>>

CreateObject(db, o) ==
    [db EXCEPT !.objs = @ \union {o},
               !.undo = IF @ = <<>> THEN @ ELSE [@ EXCEPT ![Len(@)].made = @ \union {o}]]

\* The objects of a set removed one after another.
RemoveAll(db, os) ==
    [db EXCEPT !.objs = @ \ os,
               !.undo = IF @ = <<>> THEN @
                        ELSE [@ EXCEPT ![Len(@)] = [@ EXCEPT !.made = @ \ os,
                                  !.gone = @ \union (os \ db.undo[Len(db.undo)].made)]]]

VolatileOf(db, c) == {o \in db.objs : o[1] = "volatile" /\ o[2] = c}
RipeAny(db, n) == {o \in db.objs : o[1] = "volatile" /\ o[3] <= n + 1}
Ripe(db, n) == {o \in db.objs : o[1] = "volatile" /\ o[3] <= n}
AllVolatile(db) == {o \in db.objs : o[1] = "volatile"}

(***************************************************************************)
(* The handler, cm, is a store whose column comments is the archive, with  *)
(*   limit    volatile_objects_limit, under which nothing is moved         *)
(*   inblock  comments_in_blocks of the memory variant: pairs of a block   *)
(*            number and a comment, kept outside the state database        *)
(***************************************************************************)
NoComments == [lib |-> NoLib, comments |-> {}]

\* What on_cashout asserts before it records the payout.
CashoutAsserts(archive, db, c) ==
    /\ Comment(c) \in db.objs
    /\ archive = "rocksdb" => VolatileOf(db, c) = {}

OnCashoutDb(archive, db, c, n) ==
    IF archive = "rocksdb" THEN CreateObject(db, Volatile(c, n))
    ELSE db

OnCashoutHandler(archive, cm, c, n) ==
    IF archive = "memory" THEN [cm EXCEPT !.inblock = @ \union {<<n, c>>}] ELSE cm

\* on_irreversible_block of the rocksdb variant, over handler and database.
MoveToStore(cm, db, n) ==
    LET known == UpdateLib(cm, n)
        moved == Ripe(db, n)
    IN  IF Cardinality(AllVolatile(db)) < cm.limit
        THEN [cm |-> known, db |-> db]
        ELSE [cm |-> FlushWriteBuffer([known EXCEPT
                        !.mem.comments = @ \union {o[2] : o \in moved}]),
              db |-> RemoveAll(db, moved \union {Comment(o[2]) : o \in moved})]

\* on_irreversible_block of the memory variant.
MoveToMemory(cm, db, n) ==
    LET known == {p \in cm.inblock : p[1] <= n}
        moved == {c \in {p[2] : p \in known} : Comment(c) \in db.objs}
    IN  [cm |-> [cm EXCEPT !.inblock = @ \ known],
         db |-> [db EXCEPT !.arch = [lib |-> n, comments |-> @.comments \union moved],
                           !.objs = @ \ {Comment(c) : c \in moved}]]

CommentsIrreversible(archive, cm, db, n) ==
    CASE archive = "rocksdb" -> MoveToStore(cm, db, n)
      [] archive = "memory"  -> MoveToMemory(cm, db, n)
      [] OTHER               -> [cm |-> cm, db |-> db]

\* get_comment: the state first, then the archive.
FindComment(archive, cm, db, c) ==
    \/ Comment(c) \in db.objs
    \/ archive = "rocksdb" /\ c \in cm.disk.comments
    \/ archive = "memory" /\ c \in db.arch.comments

\* open
HandlerMatches(archive, cm, db) ==
    CASE archive = "rocksdb" -> LibMatches(cm, db.lib)
      [] archive = "memory"  -> db.arch.lib = db.lib
      [] OTHER               -> TRUE
OpenHandler(archive, cm, db) ==
    IF archive = "rocksdb" THEN OpenDb(cm, db.lib) ELSE cm

\* on_end_of_syncing
EndOfSyncing(cm) == [cm EXCEPT !.limit = 0]

--------------------
(***************************************************************************)
(* The account history plugin over RocksDB: operations of reversible       *)
(* blocks are volatile objects of the state database, those of             *)
(* irreversible blocks are moved to a store, and the queries put the two   *)
(* together.                                                               *)
(*                                                                         *)
(* An operation is a record [block, blk, nr, vop, to]: the number and id   *)
(* of its block, its place there, whether it is virtual and the accounts   *)
(* it impacts, in the order of their names.  The plugin, ah, is a store    *)
(* with the columns                                                        *)
(*   ops    OPERATION_BY_ID; an id is <<block, n>>, so that the column     *)
(*          OPERATION_BY_BLOCK, keyed by block and id, is read off it      *)
(*   info   AH_INFO_BY_NAME: the account's own id and its newest entry     *)
(*   ahop   AH_OPERATION_BY_ID: <<account id, entry>> to operation id      *)
(*   seq    AH_SEQ_ID, the next free account id                            *)
(* and with conn (its signals are connected), reindexing, opseq            *)
(* (operationSeqId), collected and limit (how many operations make a       *)
(* batch).                                                                 *)
(***************************************************************************)

Nothing == [x \in {} |-> 0]
NoHistory == [lib |-> NoLib, ops |-> Nothing, info |-> Nothing, ahop |-> Nothing, seq |-> 0]

\* buildAccountHistoryRecord
BuildAccountHistoryRecord(data, a, id) ==
    IF a \in DOMAIN data.info
    THEN LET next == data.info[a].newest + 1
         IN  [data EXCEPT !.info[a].newest = next,
                          !.ahop = @ @@ (<<data.info[a].id, next>> :> id)]
    ELSE [data EXCEPT !.info = @ @@ (a :> [id |-> data.seq, newest |-> 0]),
                      !.ahop = (<<data.seq, 0>> :> id) @@ @,
                      !.seq = @ + 1]

\* flushWriteBuffer of the plugin's provider.
FlushHistory(ah) == [FlushWriteBuffer(ah) EXCEPT !.collected = 0]

\* importOperation
ImportOperation(ah, op) ==
    LET id    == <<op.block, ah.opseq>>
        data  == [ah.mem EXCEPT !.ops = @ @@ (id :> op)]
        whole == FoldLeft(LAMBDA d, a : BuildAccountHistoryRecord(d, a, id), data, op.to)
        taken == [ah EXCEPT !.mem = whole, !.opseq = @ + 1, !.collected = @ + 1]
    IN  IF taken.collected >= ah.limit THEN FlushHistory(taken) ELSE taken

\* on_pre_apply_operation for a block applied live: a volatile object.
VolatileOps(ops, found) == ops \o found

\* on_irreversible_block, the operation moved next: the first volatile one
\* of a block after the provider's, up to block n; and, when there is none,
\* the end of the handler.
ToMove(ah, ops, n) == SelectSeq(ops, LAMBDA o : o.block > ah.cached /\ o.block <= n)
MoveAsserts(ah, ops) == \A i \in DOMAIN ops : ops[i].block > ah.cached
HistoryIrreversible(ah, n) == UpdateLib(ah, n)

\* on_post_apply_block and on_fail_apply_block
PostApplyBlock(ah) == [ah EXCEPT !.opseq = 0]

\* on_pre_reindex opens the store again, for batches of the given size.
PreReindex(ah, lib, batch) ==
    [OpenDb(ShutdownDb(ah), lib) EXCEPT !.limit = batch, !.reindexing = TRUE]

\* on_post_reindex: the new last irreversible block goes to the next batch.
PostReindex(ah, lib) ==
    UpdateLib([FlushHistory(ah) EXCEPT !.limit = 1, !.reindexing = FALSE], lib)

(***************************************************************************)
(* Queries.  They read the store without a lock; only the volatile         *)
(* operations are collected under the read lock.                           *)
(***************************************************************************)

\* collectReversibleOps for blocks begin .. end - 1
CollectReversible(ops, lib, begin, end) ==
    IF end < lib THEN <<>>
    ELSE SelectSeq(ops, LAMBDA o : o.block >= begin /\ o.block < end)

\* find_account_history_data: the entries the account's info counts, those of
\* them the store holds, and the reversible operations that follow.
EntriesOf(data, a) == IF a \in DOMAIN data.info THEN data.info[a].newest + 1 ELSE 0
StoredHistoryUnbounded(data, a, bound) ==
    [i \in 1 .. EntriesOf(data, a) |-> data.ops[data.ahop[<<data.info[a].id, i - 1>>]]]
StoredHistory(data, a, bound) ==
    [i \in 1 .. bound |-> data.ops[data.ahop[<<data.info[a].id, i - 1>>]]]
ReversibleHistory(ops, lib, begin, end, a) ==
    SelectSeq(CollectReversible(ops, lib, IF begin = 0 THEN 1 ELSE begin, end),
              LAMBDA o : a \in ToSet(o.to))

\* find_operations_by_block
ByBlock(data, n) ==
    LET ids == {id \in DOMAIN data.ops : id[1] = n}
    IN  [i \in 1 .. Cardinality(ids) |->
            data.ops[CHOOSE id \in ids : Cardinality({j \in ids : j[2] < id[2]}) = i - 1]]
OperationsByBlock(data, ops, lib, n) ==
    LET fresh == CollectReversible(ops, lib, n, n + 1)
    IN  IF n > lib THEN fresh ELSE fresh \o ByBlock(data, n)

(***************************************************************************)
(* enumVirtualOperationsFromBlockRange, of blocks begin .. end - 1.  An    *)
(* entry is [blk, id, op]: ids of irreversible operations are ordered with *)
(* their block in front, those of reversible ones only within their block. *)
(***************************************************************************)
MAX_BLOCK_OPS == 8
StoreId(id) == id[1] * MAX_BLOCK_OPS + id[2]
StoredVirtual(data, begin, end) ==
    LET per(n) == SelectSeq([i \in 1 .. Len(ByBlock(data, n)) |->
                      LET op == ByBlock(data, n)[i]
                      IN  [blk |-> n, op |-> op,
                           id |-> StoreId(CHOOSE k \in DOMAIN data.ops : data.ops[k] = op)]],
                      LAMBDA e : e.op.vop)
    IN  FlattenSeq([i \in 1 .. end - begin |-> per(begin + i - 1)])
ReversibleVirtual(ops) ==
    SelectSeq([i \in DOMAIN ops |-> [blk |-> ops[i].block, id |-> ops[i].nr, op |-> ops[i]]],
              LAMBDA e : e.op.vop)

\* Where a client resumes when past and fresh hold more than limit entries.
ResumeAt(past, fresh, limit) ==
    LET next == (past \o fresh)[limit + 1]
        same == limit > Len(past) /\ (past \o fresh)[limit].blk = next.blk
    IN  <<next.blk, IF limit < Len(past) \/ same THEN next.id ELSE 0>>

\* One page: at most limit operations, and where to resume.
Page(data, ops, lib, begin, end, from, limit, reversible) ==
    LET upper == IF reversible /\ end > lib THEN lib + 1 ELSE end
        young == reversible /\ (begin > lib \/ end > lib)
        past  == IF begin > lib /\ reversible THEN <<>>
                 ELSE SelectSeq(StoredVirtual(data, begin, upper), LAMBDA e : e.id >= from)
        fresh == IF ~young THEN <<>>
                 ELSE SelectSeq(ReversibleVirtual(CollectReversible(ops, lib, begin, end)),
                                LAMBDA e : e.id >= from)
        later == {k[1] : k \in {i \in DOMAIN data.ops : data.ops[i].vop /\ i[1] >= end}}
    IN  [got |-> SubSeq(past \o fresh, 1, Min({limit, Len(past \o fresh)})),
         next |-> IF Len(past \o fresh) > limit THEN ResumeAt(past, fresh, limit)
                  ELSE IF young \/ later = {} THEN <<0, 0>> ELSE <<Min(later), 0>>]

\* All the pages a client fetches while it resumes inside begin .. end - 1.
RECURSIVE Pages(_, _, _, _, _, _, _, _)
Pages(data, ops, lib, begin, end, from, limit, reversible) ==
    LET page == Page(data, ops, lib, begin, end, from, limit, reversible)
    IN  page.got \o
        (IF page.next[1] = 0 \/ page.next[1] >= end THEN <<>>
         ELSE Pages(data, ops, lib, page.next[1], end, page.next[2], limit, reversible))

--------------------
(***************************************************************************)
(* The state database with the two stores it feeds, the comment archive    *)
(* and the account history, over the life of a node: blocks applied and    *)
(* popped, blocks becoming irreversible step by step, fast confirmations,  *)
(* kills, clean shutdowns plugin by plugin, restarts, replays that may be  *)
(* interrupted, snapshots dumped and loaded, and an API thread that reads  *)
(* an account's history while all this goes on.                            *)
(*                                                                         *)
(* The block log and shared memory survive a kill; the write batches of    *)
(* the stores, the memory archive's list and the API thread do not.        *)
(***************************************************************************)

CONSTANTS Worlds   \* the block trees, settings and bounds to explore

VARIABLES
    world,   \* [blocks, accounts, archive, limit, batch, reader, quota]
    pc,      \* what the node is doing, "down" when it is not running
    db,      \* the state database (shared memory)
    cm,      \* the comment archive
    ah,      \* the account history
    log,     \* the block log
    snap,    \* the snapshot on disk: a set with at most one record
    todo,    \* migrate_irreversible_state: block notified next, flush after
    reader,  \* the API thread in find_account_history_data
    failure,  \* an assertion a block met: "" for none
    quota    \* how often each kind of event may still happen

nodeVars == <<world, pc, db, cm, ah, log, snap, todo, reader, failure, quota>>

Block(b) == world.blocks[b]
HeadNum == Len(db.chain)
Idle == [at |-> "idle"]
NewDb == [chain |-> <<>>, lib |-> 0, objs |-> {}, undo |-> <<>>,
          arch |-> [lib |-> 0, comments |-> {}], ops |-> <<>>]
NewCm(w) == NewStore(NoComments) @@ [limit |-> w.limit, inblock |-> {}]
NewAh == NewStore(NoHistory) @@
         [conn |-> FALSE, reindexing |-> FALSE, opseq |-> 0, collected |-> 0, limit |-> 1]

Spend(kind) == quota[kind] > 0 /\ quota' = [quota EXCEPT ![kind] = @ - 1]

NodeInit ==
    /\ world \in Worlds
    /\ pc = "down"
    /\ db = NewDb
    /\ cm = NewCm(world)
    /\ ah = NewAh
    /\ log = <<>>
    /\ snap = {}
    /\ todo = [next |-> 0, flush |-> FALSE]
    /\ reader = Idle
    /\ failure = ""
    /\ quota = world.quota

--------------------
(* Sessions of the state database.                                         *)

PendingSession == db.undo # <<>> /\ Last(db.undo).chain = db.chain
StartSession(d) == [d EXCEPT !.undo = Append(@, [made |-> {}, gone |-> {}, chain |-> d.chain])]
UndoSession(d) ==
    LET s == d.undo[Len(d.undo)]
    IN  [d EXCEPT !.objs = (@ \ s.made) \union s.gone,
                  !.chain = s.chain,
                  !.undo = Front(@),
                  !.ops = SelectSeq(@, LAMBDA o : o.block <= Len(s.chain))]
RECURSIVE RewindState(_)
RewindState(d) == IF d.undo = <<>> THEN d ELSE RewindState(UndoSession(d))
ClearPending(d) == IF PendingSession THEN UndoSession(d) ELSE d

\* The operations block b notifies at height n, in order.
OpsOf(b, n) ==
    [i \in DOMAIN Block(b).ops |->
        [block |-> n, blk |-> b, nr |-> i, vop |-> Block(b).ops[i].vop, to |-> Block(b).ops[i].to]]

\* What applying block b does to the objects of the database.
ApplyObjects(d, b, n) ==
    LET made == FoldLeft(CreateObject, d, SetToSeq({Comment(c) : c \in Block(b).creates}))
    IN  FoldLeft(LAMBDA x, c : OnCashoutDb(world.archive, x, c, n), made, SetToSeq(Block(b).cash))
ApplyHandler(b, n) ==
    FoldLeft(LAMBDA x, c : OnCashoutHandler(world.archive, x, c, n), cm, SetToSeq(Block(b).cash))
BlockAsserts(d, b) == \A c \in Block(b).cash : CashoutAsserts(world.archive, d, c)

--------------------
(* Live operation.                                                         *)

Follows(b, chain) == Block(b).prev = IF chain = <<>> THEN "" ELSE Last(chain)

\* push_transaction opens the session of the pending transactions.
PushTransaction ==
    /\ pc = "up" /\ ~PendingSession
    /\ Spend("pending")
    /\ db' = StartSession(db)
    /\ UNCHANGED <<world, pc, cm, ah, log, snap, todo, reader, failure>>

\* apply_block_extended: the last irreversible block the confirmations give
\* is set in the state before any of it reaches the stores.
ApplyBlock(b, lib) ==
    LET base == ClearPending(db)
        n    == Len(base.chain) + 1
        open == StartSession(base)
    IN  /\ pc \in {"up", "switch"}
        /\ Follows(b, base.chain)
        /\ lib \in db.lib .. n
        /\ Spend("blocks")
        /\ IF BlockAsserts(open, b)
           THEN /\ db' = [ApplyObjects(open, b, n) EXCEPT !.chain = Append(@, b), !.lib = lib,
                             !.ops = IF ah.conn THEN VolatileOps(@, OpsOf(b, n)) ELSE @]
                /\ cm' = ApplyHandler(b, n)
                /\ ah' = IF ah.conn THEN PostApplyBlock(ah) ELSE ah
                /\ pc' = "store"
                /\ todo' = [next |-> db.lib + 1, flush |-> TRUE]
                /\ UNCHANGED failure
           ELSE /\ failure' = "cashout"
                /\ db' = base
                /\ ah' = IF ah.conn THEN PostApplyBlock(ah) ELSE ah
                /\ pc' = "up"
                /\ UNCHANGED <<cm, todo>>
        /\ UNCHANGED <<world, log, snap, reader>>

\* pop_block, on the way to another branch.
PopBlock ==
    /\ pc \in {"up", "switch"}
    /\ Len(ClearPending(db).chain) > db.lib
    /\ Spend("pops")
    /\ db' = UndoSession(ClearPending(db))
    /\ pc' = "switch"
    /\ UNCHANGED <<world, cm, ah, log, snap, todo, reader, failure>>

\* process_fast_confirm: the pending transactions stay where they are.
FastConfirm(lib) ==
    /\ pc = "up"
    /\ lib \in db.lib + 1 .. HeadNum
    /\ Spend("confirms")
    /\ db' = [db EXCEPT !.lib = lib]
    /\ pc' = "store"
    /\ todo' = [next |-> db.lib + 1, flush |-> FALSE]
    /\ UNCHANGED <<world, cm, ah, log, snap, reader, failure>>

--------------------
(* migrate_irreversible_state, whose steps a kill may separate.            *)

StoreBlocks ==
    /\ pc = "store"
    /\ log' = log \o SubSeq(db.chain, Len(log) + 1, db.lib)
    /\ pc' = "commit"
    /\ UNCHANGED <<world, db, cm, ah, snap, todo, reader, failure, quota>>

CommitBlocks ==
    /\ pc = "commit"
    /\ db' = [db EXCEPT !.undo = SelectSeq(@, LAMBDA s : Len(s.chain) >= db.lib)]
    /\ pc' = IF todo.next <= db.lib THEN "comments" ELSE "flush"
    /\ UNCHANGED <<world, cm, ah, log, snap, todo, reader, failure, quota>>

MigrateComments ==
    /\ pc = "comments"
    /\ LET out == CommentsIrreversible(world.archive, cm, db, db.lib)
       IN  cm' = out.cm /\ db' = out.db
    /\ pc' = "notify"
    /\ UNCHANGED <<world, ah, log, snap, todo, reader, failure, quota>>

NotifyIrreversible ==
    /\ pc = "notify"
    /\ failure' = IF ah.conn /\ ~MoveAsserts(ah, db.ops) THEN "volatile" ELSE failure
    /\ IF ah.conn /\ ToMove(ah, db.ops, todo.next) # <<>>
       THEN LET op == Head(ToMove(ah, db.ops, todo.next))
            IN  /\ ah' = ImportOperation(ah, op)
                /\ db' = [db EXCEPT !.ops = SelectSeq(@, LAMBDA o : o # op)]
                /\ UNCHANGED <<pc, todo>>
       ELSE /\ ah' = IF ah.conn THEN HistoryIrreversible(ah, todo.next) ELSE ah
            /\ todo' = [todo EXCEPT !.next = @ + 1]
            /\ pc' = IF todo.next = db.lib THEN "flush" ELSE pc
            /\ UNCHANGED db
    /\ UNCHANGED <<world, cm, log, snap, reader, quota>>

\* apply_block flushes the stores when the schedule says so; then the
\* pending transactions that still apply are pushed again.
Flush(now, pending) ==
    /\ pc = "flush"
    /\ now => todo.flush
    /\ pending => todo.flush /\ quota.pending > 0
    /\ cm' = IF now THEN FlushWriteBuffer(cm) ELSE cm
    /\ ah' = IF now /\ ah.conn THEN FlushHistory(ah) ELSE ah
    /\ db' = IF pending THEN StartSession(db) ELSE db
    /\ quota' = IF pending THEN [quota EXCEPT !.pending = @ - 1] ELSE quota
    /\ pc' = "up"
    /\ UNCHANGED <<world, log, snap, todo, reader, failure>>

\* on_end_of_syncing
EndSync ==
    /\ pc = "up" /\ cm.limit > 0
    /\ cm' = EndOfSyncing(cm)
    /\ UNCHANGED <<world, pc, db, ah, log, snap, todo, reader, failure, quota>>

--------------------
(* Stopping.                                                               *)

\* Shared memory and the block log stay as they are.
Kill ==
    /\ pc # "down"
    /\ Spend("kills")
    /\ pc' = "down"
    /\ cm' = [KillStore(cm) EXCEPT !.inblock = {}]
    /\ ah' = [KillStore(ah) EXCEPT !.conn = FALSE]
    /\ reader' = Idle
    /\ UNCHANGED <<world, db, log, snap, todo, failure>>

\* shutdown_under_write_lock of the account history comes first ...
ShutdownHistory ==
    /\ pc \in {"up", "stopping"} /\ ah.conn
    /\ pc = "up" => Spend("stops")
    /\ pc = "stopping" => UNCHANGED quota
    /\ ah' = [ShutdownDb(ah) EXCEPT !.conn = FALSE]
    /\ reader' = Idle
    /\ UNCHANGED <<world, pc, db, cm, log, snap, todo, failure>>

\* ... and the chain plugin, which may have applied more blocks, last.
CloseChain ==
    /\ pc \in {"up", "stopping"} /\ ~ah.conn
    /\ db' = ClearPending(db)
    /\ cm' = [ShutdownDb(cm) EXCEPT !.inblock = {}]
    /\ pc' = "down"
    /\ UNCHANGED <<world, ah, log, snap, todo, reader, failure, quota>>

--------------------
(* Starting.                                                               *)

\* load_state_initial_data, after everything reversible was undone.
StateAsserts(d) ==
    /\ Len(d.chain) >= d.lib
    /\ d.chain # <<>> => /\ Len(d.chain) <= Len(log)
                         /\ Last(d.chain) = log[Len(d.chain)]

StartedHandler == [OpenHandler(world.archive, cm, db) EXCEPT !.limit = world.limit]
StartedHistory(a, lib) == [OpenDb(a, lib) EXCEPT !.conn = TRUE, !.opseq = 0,
                                                 !.collected = 0, !.limit = 1,
                                                 !.reindexing = FALSE]

\* A start without options, and one with --replay-blockchain; not enabled
\* when the node refuses to open its data.
Start(replay) ==
    LET d == RewindState(db)
    IN  /\ pc = "down"
        /\ Spend("starts")
        /\ HandlerMatches(world.archive, cm, db)
        /\ StateAsserts(d)
        /\ LibMatches(ah, d.lib)
        /\ IF replay THEN log # <<>> ELSE Len(d.chain) = Len(log)
        /\ db' = d
        /\ cm' = StartedHandler
        /\ ah' = LET a == StartedHistory(ah, d.lib)
                 IN  IF replay THEN PreReindex(a, d.lib, world.batch) ELSE a
        /\ pc' = IF replay THEN "replay" ELSE "started"
        /\ UNCHANGED <<world, log, snap, todo, reader, failure>>

\* --force-replay wipes the state and both stores first.
ForceReplay ==
    /\ pc = "down" /\ log # <<>>
    /\ Spend("starts")
    /\ db' = NewDb
    /\ LET wiped == [WipeDb(cm, NoComments) EXCEPT !.limit = world.limit]
       IN  cm' = IF world.archive = "rocksdb" THEN OpenDb(wiped, 0) ELSE wiped
    /\ ah' = PreReindex(StartedHistory(WipeDb(ah, NoHistory), 0), 0, world.batch)
    /\ pc' = "replay"
    /\ UNCHANGED <<world, log, snap, todo, reader, failure>>

\* --load-snapshot: the wiped state and stores are filled from the snapshot,
\* and the blocks the log has beyond it are replayed.
LoadSnapshot ==
    /\ pc = "down"
    /\ Spend("starts")
    /\ \E s \in snap :
          /\ Len(s.db.chain) <= Len(log)
          /\ db' = s.db
          /\ LibMatches([disk |-> s.ah], s.db.lib)
          /\ cm' = IF world.archive = "rocksdb"
                   THEN OpenDb(LoadBackup(NewCm(world), s.cm), s.db.lib) ELSE NewCm(world)
          /\ ah' = PreReindex(StartedHistory(LoadBackup(NewAh, s.ah), s.db.lib),
                              s.db.lib, world.batch)
    /\ pc' = "replay"
    /\ UNCHANGED <<world, log, snap, todo, reader, failure>>

\* reindex_internal, one block: no session is open, and every block is
\* irreversible as soon as it is applied.
ReplayBlock(flush) ==
    LET n   == HeadNum + 1
        b   == log[n]
        d   == [ApplyObjects(db, b, n) EXCEPT !.chain = Append(@, b), !.lib = n]
        out == CommentsIrreversible(world.archive, ApplyHandler(b, n), d, n)
        a   == PostApplyBlock(FoldLeft(ImportOperation, ah, OpsOf(b, n)))
    IN  /\ pc = "replay" /\ HeadNum < Len(log)
        /\ db' = out.db
        /\ cm' = IF flush THEN FlushWriteBuffer(out.cm) ELSE out.cm
        /\ ah' = IF flush THEN FlushHistory(a) ELSE a
        /\ failure' = IF BlockAsserts(db, b) THEN failure ELSE "cashout"
        /\ UNCHANGED <<world, pc, log, snap, todo, reader, quota>>

\* The replay is over, or interrupted by the user after some block.
EndReplay ==
    /\ pc = "replay" /\ HeadNum > 0
    /\ ah' = PostReindex(ah, db.lib)
    /\ pc' = IF HeadNum = Len(log) THEN "started" ELSE "stopping"
    /\ UNCHANGED <<world, db, cm, log, snap, todo, reader, failure, quota>>

\* --dump-snapshot, before any new block is taken.
DumpAsserts ==
    /\ ah.cached = db.lib
    /\ world.archive = "rocksdb" => cm.cached = db.lib
DumpSnapshot ==
    /\ pc = "started" /\ snap = {} /\ world.archive # "memory"
    /\ Spend("dumps")
    /\ IF DumpAsserts
       THEN /\ ah' = SaveBackup(ah) /\ cm' = SaveBackup(cm)
            /\ snap' = {[db |-> db, cm |-> SaveBackup(cm).disk, ah |-> SaveBackup(ah).disk]}
            /\ UNCHANGED failure
       ELSE failure' = "dump" /\ UNCHANGED <<ah, cm, snap>>
    /\ UNCHANGED <<world, pc, db, log, todo, reader>>

Work ==
    /\ pc = "started"
    /\ pc' = "up"
    /\ UNCHANGED <<world, db, cm, ah, log, snap, todo, reader, failure, quota>>

--------------------
(* An API thread in find_account_history_data.                             *)

\* The info of the account bounds the iterator over its entries ...
ReadInfo(a) ==
    /\ world.reader /\ reader.at \in {"idle", "done"}
    /\ pc \in {"up", "store", "commit", "comments", "notify", "flush"} /\ ah.open
    /\ reader' = [at |-> "range", of |-> a, bound |-> EntriesOf(ah.disk, a)]
    /\ UNCHANGED <<world, pc, db, cm, ah, log, snap, todo, failure, quota>>

\* ... then comes the range of reversible blocks ...
ReadRange ==
    /\ reader.at = "range" /\ ah.open
    /\ reader' = [reader EXCEPT !.at = "collect"] @@ [begin |-> ah.cached, end |-> HeadNum + 1]
    /\ UNCHANGED <<world, pc, db, cm, ah, log, snap, todo, failure, quota>>

\* ... then, under the read lock, their volatile operations ...
ReadVolatile ==
    /\ reader.at = "collect" /\ pc = "up" /\ ah.open
    /\ reader' = [at |-> "entries", of |-> reader.of, bound |-> reader.bound,
                  fresh |-> ReversibleHistory(db.ops, ah.cached, reader.begin,
                                              reader.end, reader.of)]
    /\ UNCHANGED <<world, pc, db, cm, ah, log, snap, todo, failure, quota>>

\* ... and last the entries of the store.
ReadEntries ==
    /\ reader.at = "entries" /\ ah.open
    /\ reader' = [at |-> "done", of |-> reader.of,
                  got |-> StoredHistory(ah.disk, reader.of, reader.bound) \o reader.fresh]
    /\ UNCHANGED <<world, pc, db, cm, ah, log, snap, todo, failure, quota>>

NodeNext ==
    \/ PushTransaction \/ PopBlock
    \/ \E b \in DOMAIN world.blocks, lib \in 0 .. world.height : ApplyBlock(b, lib)
    \/ \E lib \in 0 .. world.height : FastConfirm(lib)
    \/ StoreBlocks \/ CommitBlocks \/ MigrateComments \/ NotifyIrreversible
    \/ \E now, pending \in BOOLEAN : Flush(now, pending)
    \/ EndSync \/ Kill \/ ShutdownHistory \/ CloseChain
    \/ \E replay \in BOOLEAN : Start(replay)
    \/ ForceReplay \/ LoadSnapshot
    \/ \E flush \in BOOLEAN : ReplayBlock(flush)
    \/ EndReplay \/ DumpSnapshot \/ Work
    \/ \E a \in world.accounts : ReadInfo(a)
    \/ ReadRange \/ ReadVolatile \/ ReadEntries

NodeSpec == NodeInit /\ [][NodeNext]_nodeVars

--------------------
Expected(i) == OpsOf(db.chain[i], i)
ExpectedTo(first, last) ==
    FlattenSeq([i \in 1 .. last - first + 1 |-> Expected(first + i - 1)])
Quiet == pc = "up" /\ ah.conn

\* Whatever was killed, replayed, restored or popped before, an idle node's
\* account history is that of its chain: the store holds exactly the
\* operations of the irreversible blocks, every account's entries are
\* numbered without gaps in chain order, the volatile objects are exactly
\* those of the reversible blocks, and a query for a block returns each of
\* its operations once.  Neither the assertion on volatile operations nor
\* that of a snapshot dump ever fails.  (on_irreversible_block and on_pre_reindex of
\* account_history_rocksdb_plugin.cpp, load_lib of the storage provider.)
HistoryExact ==
    /\ failure \notin {"volatile", "dump"}
    /\ Quiet =>
        /\ ah.cached = db.lib
        /\ DOMAIN ah.disk.ops = {id \in DOMAIN ah.disk.ops : id[1] \in 1 .. db.lib}
        /\ db.ops = ExpectedTo(db.lib + 1, HeadNum)
        /\ \A a \in world.accounts :
              StoredHistory(ah.disk, a, EntriesOf(ah.disk, a)) =
                  SelectSeq(ExpectedTo(1, db.lib), LAMBDA o : a \in ToSet(o.to))
        /\ \A i \in 1 .. HeadNum :
              OperationsByBlock(ah.disk, db.ops, ah.cached, i) = Expected(i)

\* Every comment the chain made is found, in the state or in the archive;
\* only comments paid out in irreversible blocks are in the archive; and no
\* payout fails because its comment is gone.  (rocksdb_comment_archive.cpp,
\* placeholder_comment_archive.cpp)
CommentsExact ==
    (pc = "up" /\ world.archive # "memory") =>
        /\ failure # "cashout"
        /\ \A i \in 1 .. HeadNum : \A c \in Block(db.chain[i]).creates :
              FindComment(world.archive, cm, db, c)
        /\ \A c \in cm.disk.comments :
              \E i \in 1 .. db.lib : c \in Block(db.chain[i]).cash

\* A history read while blocks become irreversible or are replaced has no
\* operation twice, only the account's own, and in the order of the blocks.
\* (find_account_history_data reads store, range and volatile operations at
\* three different times.)
ReadNeverRepeats ==
    reader.at = "done" =>
        \A i, j \in DOMAIN reader.got :
            /\ reader.of \in ToSet(reader.got[i].to)
            /\ i < j => /\ reader.got[i] # reader.got[j]
                        /\ reader.got[i].block <= reader.got[j].block

Virtual(first, last) == SelectSeq(ExpectedTo(first, last), LAMBDA o : o.vop)
PagedOps(begin, end, limit, reversible) ==
    LET all == Pages(ah.disk, db.ops, ah.cached, begin, end, 0, limit, reversible)
    IN  [i \in DOMAIN all |-> all[i].op]

\* Fetched page by page, with any limit, the virtual operations of
\* irreversible blocks come each exactly once, in order.
\* (enumVirtualOperationsFromBlockRange)
PagesExact ==
    Quiet => \A limit \in 1 .. 2, begin \in 1 .. db.lib :
                 PagedOps(begin, db.lib + 1, limit, FALSE) = Virtual(begin, db.lib)

\* Both archives are exact, and so is what the account history api answers from them.
\* (account_history_rocksdb_plugin, rocksdb_comment_archive)
ArchivesExact == HistoryExact /\ CommentsExact /\ ReadNeverRepeats /\ PagesExact

--------------------
(***************************************************************************)
(* The state snapshot plugin: the objects of every index are written to    *)
(* files by workers, each for a range of ids and all in parallel, and a    *)
(* manifest that names the files is stored last; a snapshot is loaded from *)
(* what the manifest names.  Any worker, any index and the process itself  *)
(* may fail at any time.                                                   *)
(*                                                                         *)
(* sdisk is the snapshot directory:                                        *)
(*   files     <<index, worker>> to the set of ids in that file            *)
(*   manifest  index to [items, next, files], one entry put after another  *)
(*   sealed    the columns that follow the index entries, in their order   *)
(***************************************************************************)

CONSTANTS SnapWorlds   \* the indices to dump and the faults to explore

VARIABLES
    sworld,   \* [ids, next, per, faults]
    spc,      \* idle, dumping, manifest, finished, failed, loaded or refused
    work,     \* <<index, worker>> to todo, done or failed
    sindex,   \* index to todo, done or thrown
    serror,   \* _is_error, and an exception kept
    sdisk,    \* the snapshot on disk
    sloaded,  \* the indices as loaded: index to [ids, next]
    sfaults   \* faults that may still happen

svars == <<sworld, spc, work, sindex, serror, sdisk, sloaded, sfaults>>

Empty == [x \in {} |-> 0]
Indices == DOMAIN sworld.ids
Trailer == <<"external", "lib", "version", "definitions", "config", "plugins">>

\* index_dump_writer::prepare: the ranges of ids of the workers.
WorkerCount(ids) == IF ids = {} THEN 0 ELSE Cardinality(ids) \div sworld.per + 1
RightOf(ids, k) ==
    IF Cardinality(ids) <= sworld.per /\ k = 1 THEN Max(ids)
    ELSE IF k = WorkerCount(ids) /\ k > 1 THEN Max(ids) + 1
    ELSE Min({Min(ids) + sworld.per, Max(ids)}) + (k - 1) * sworld.per
LeftOf(ids, k) == IF k = 1 THEN Min(ids) ELSE RightOf(ids, k - 1) + 1

\* dumper_data: the objects of a worker's range.
RangeOf(i, k) == {id \in sworld.ids[i] : id >= LeftOf(sworld.ids[i], k) /\ id <= RightOf(sworld.ids[i], k)}
Workers == {<<i, k>> : i \in Indices, k \in 1 .. 9}
WorkersOf(i) == {w \in Workers : w[1] = i /\ w[2] <= WorkerCount(sworld.ids[i])}

SnapInit ==
    /\ sworld \in SnapWorlds
    /\ spc = "idle"
    /\ work = Empty /\ sindex = Empty
    /\ serror = FALSE
    /\ sdisk = [files |-> Empty, manifest |-> Empty, sealed |-> <<>>]
    /\ sloaded = Empty
    /\ sfaults = sworld.faults

\* A fault of the file system or of an allocation.
Fault == sfaults > 0 /\ sfaults' = sfaults - 1

\* prepare_snapshot: a directory that is not empty is rejected.
StartDump ==
    /\ spc = "idle" /\ sdisk.files = Empty /\ sdisk.manifest = Empty
    /\ spc' = "dumping"
    /\ work' = [w \in UNION {WorkersOf(i) : i \in Indices} |-> "todo"]
    /\ sindex' = [i \in Indices |-> "todo"]
    /\ UNCHANGED <<sworld, serror, sdisk, sloaded, sfaults>>

\* perform_dump: no file is created for a range without objects, and a
\* worker that finds another one's error gives up.
Dump(w) ==
    /\ spc = "dumping" /\ work[w] = "todo" /\ sindex[w[1]] = "todo"
    /\ LET found == RangeOf(w[1], w[2])
       IN  IF found # {} /\ serror
           THEN work' = [work EXCEPT ![w] = "failed"] /\ UNCHANGED sdisk
           ELSE /\ work' = [work EXCEPT ![w] = "done"]
                /\ sdisk' = IF found = {} THEN sdisk
                            ELSE [sdisk EXCEPT !.files = (w :> found) @@ @]
    /\ UNCHANGED <<sworld, spc, sindex, serror, sloaded, sfaults>>

\* An exception inside perform_dump is logged and leaves a partial file.
DumpFails(w) ==
    /\ spc = "dumping" /\ work[w] = "todo" /\ sindex[w[1]] = "todo" /\ Fault
    /\ work' = [work EXCEPT ![w] = "failed"]
    /\ \E part \in {{}} \union {{id} : id \in RangeOf(w[1], w[2])} :
          sdisk' = [sdisk EXCEPT !.files = (w :> part) @@ @]
    /\ UNCHANGED <<sworld, spc, sindex, serror, sloaded>>

\* safe_spawn_snapshot_dump: an index ends when its workers have, or throws.
IndexDone(i) ==
    /\ spc = "dumping" /\ sindex[i] = "todo"
    /\ \A w \in WorkersOf(i) : work[w] # "todo"
    /\ sindex' = [sindex EXCEPT ![i] = "done"]
    /\ UNCHANGED <<sworld, spc, work, serror, sdisk, sloaded, sfaults>>
IndexThrows(i) ==
    /\ spc = "dumping" /\ sindex[i] = "todo" /\ Fault
    /\ sindex' = [sindex EXCEPT ![i] = "thrown"]
    /\ serror' = TRUE
    /\ UNCHANGED <<sworld, spc, work, sdisk, sloaded>>

\* All joined: the kept exception is thrown again, or the manifest is next.
Joined ==
    /\ spc = "dumping" /\ \A i \in Indices : sindex[i] # "todo"
    /\ spc' = IF serror THEN "failed" ELSE "manifest"
    /\ UNCHANGED <<sworld, work, sindex, serror, sdisk, sloaded, sfaults>>

\* store_index_manifest of an index and of its workers.
EntryAsserts(i) ==
    /\ \A w \in WorkersOf(i) : work[w] = "done"
    /\ Cardinality(sworld.ids[i]) =
          Cardinality(UNION {sdisk.files[w] : w \in WorkersOf(i) \intersect DOMAIN sdisk.files})
EntryNextOfLast(i) == [items |-> Cardinality(sworld.ids[i]), next |-> Max(sworld.ids[i] \union {-1}) + 1,
                       files |-> WorkersOf(i)]
Entry(i) == [items |-> Cardinality(sworld.ids[i]), next |-> sworld.next[i],
             files |-> WorkersOf(i)]

\* store_snapshot_manifest puts one entry after another.
StoreEntry(i) ==
    /\ spc = "manifest" /\ i \notin DOMAIN sdisk.manifest
    /\ IF EntryAsserts(i)
       THEN sdisk' = [sdisk EXCEPT !.manifest = (i :> Entry(i)) @@ @] /\ UNCHANGED spc
       ELSE spc' = "failed" /\ UNCHANGED sdisk
    /\ UNCHANGED <<sworld, work, sindex, serror, sloaded, sfaults>>
StoreTrailer ==
    /\ spc = "manifest" /\ DOMAIN sdisk.manifest = Indices
    /\ sdisk' = [sdisk EXCEPT !.sealed = SubSeq(Trailer, 1, Len(@) + 1)]
    /\ spc' = IF Len(sdisk.sealed) + 1 = Len(Trailer) THEN "finished" ELSE spc
    /\ UNCHANGED <<sworld, work, sindex, serror, sloaded, sfaults>>

\* A killed node keeps what is on disk.
KillDump ==
    /\ spc \in {"dumping", "manifest"} /\ Fault
    /\ spc' = "failed"
    /\ serror' = FALSE
    /\ UNCHANGED <<sworld, work, sindex, sdisk, sloaded>>

\* load_snapshot_manifest refuses a manifest without one of its columns.
ManifestAsserts == sdisk.sealed = Trailer

\* perform_load and load_index: every file the manifest names is opened, and
\* the objects must be as many as were dumped.
FilesAssert(i) == sdisk.manifest[i].items = 0 \/ sdisk.manifest[i].files \subseteq DOMAIN sdisk.files
Found(i) == UNION {sdisk.files[w] : w \in sdisk.manifest[i].files \intersect DOMAIN sdisk.files}
LoadAsserts(i) ==
    i \in DOMAIN sdisk.manifest =>
        FilesAssert(i) /\ Cardinality(Found(i)) = sdisk.manifest[i].items

\* load_snapshot_impl, in a process started for it.
Load ==
    /\ spc \in {"finished", "failed"}
    /\ IF ManifestAsserts /\ \A i \in Indices : LoadAsserts(i)
       THEN /\ spc' = "loaded"
            /\ sloaded' = [i \in Indices |->
                  IF i \in DOMAIN sdisk.manifest
                  THEN [ids |-> Found(i), next |-> sdisk.manifest[i].next]
                  ELSE [ids |-> {}, next |-> 0]]
       ELSE spc' = "refused" /\ UNCHANGED sloaded
    /\ UNCHANGED <<sworld, work, sindex, serror, sdisk, sfaults>>

SnapNext ==
    \/ StartDump \/ Joined \/ StoreTrailer \/ KillDump \/ Load
    \/ \E w \in DOMAIN work : Dump(w) \/ DumpFails(w)
    \/ \E i \in Indices : IndexDone(i) \/ IndexThrows(i) \/ StoreEntry(i)

SnapSpec == SnapInit /\ [][SnapNext]_svars

--------------------
\* Whatever failed while it was written, a snapshot that loads gives back
\* every object of every index and the next id of each: a worker's failure,
\* which is only logged, never ends in a partial snapshot taken for a whole
\* one.  (perform_dump, store_index_manifest, load_index)
LoadedExact ==
    spc = "loaded" =>
        sloaded = [i \in Indices |-> [ids |-> sworld.ids[i], next |-> sworld.next[i]]]

\* A snapshot whose manifest was stored to the end, which the node reports
\* as finished, can be loaded, as doc/building.md tells to do.
FinishedLoads == sdisk.sealed = Trailer => spc # "refused"
====
