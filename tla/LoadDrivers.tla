---- MODULE LoadDrivers ----
(***************************************************************************)
(* The plugins that drive a test network: colony_plugin.cpp, whose threads *)
(* build transactions and queue them to the writer; queen_plugin.cpp,      *)
(* which asks for a block as soon as the pending transactions fill one;    *)
(* the blocks debug_node_plugin.cpp makes on request; and                  *)
(* pacemaker_plugin.cpp, which emits the blocks of a log at their times.   *)
(*                                                                         *)
(* The writer is the loop of chain_plugin.cpp: it takes block requests     *)
(* (the priority queue) before transactions.  A transaction is its builder *)
(* and its size; a slot number stands for a slot's time.                   *)
(***************************************************************************)
EXTENDS Integers, Sequences, FiniteSets
LOCAL INSTANCE FiniteSetsExt

CONSTANTS
  DriverWorlds,              \* options of the plugins, and what else happens
  maximum_block_size,        \* of the chain
  SizeReserve,               \* the 256 of trx_size_limit
  HeaderSize,                \* of a block without transactions
  HIVE_MAX_SCHEDULE,         \* HIVE_MAX_WITNESSES: the schedule's length
  ToleranceMin, ToleranceMax, ToleranceRate,  \* COLONY_OVERFLOW_TOLERANCE_*
  BlockSpacing,              \* ticks between two timestamps of the pacemaker's log
  MaxHeadBlock, MaxBuilt, MaxTicks  \* bounds: blocks, transactions per thread and block, time

VARIABLES
  dworld,      \* the options
  colony,      \* colony_plugin_impl
  builder,     \* transaction_builder of each thread
  queen,       \* queen_plugin_impl and the production data it uses
  waiting,     \* the write queue: transactions
  requested,   \* the priority write queue: the slots blocks are asked for
  pending,     \* database::_pending_tx
  chain,       \* head block: number, slot, maker, transactions, first one left out
  stopping,    \* is_interrupt_request
  pace         \* pacemaker_plugin_impl and the clock

driverVars == <<dworld, colony, builder, queen, waiting, requested, pending, chain, stopping, pace>>

Unlimited == 1000            \* uint32_t(-1)
Builder == 1 .. dworld.threads
Using == 1 .. Min({dworld.threads, dworld.accounts})
SizeOf(txs) == LET size[i \in 0 .. Len(txs)] == IF i = 0 THEN 0 ELSE size[i - 1] + txs[i].size
               IN size[Len(txs)]
Mine(txs, b) == Cardinality({i \in DOMAIN txs : txs[i].by = b})

--------------------
\* The witness plugin's production data for a slot; update_produce_block_data.
CanSign(slot) == (slot % HIVE_MAX_SCHEDULE) \in dworld.keys

TargetSize == IF dworld.target_size = 0 THEN maximum_block_size - SizeReserve
              ELSE Min({dworld.target_size, maximum_block_size - SizeReserve})
TargetCount == IF dworld.target_count = 0 THEN Unlimited ELSE dworld.target_count

\* prepare_for_new_block: the counters anew, and the nearest slot this node can
\* sign for; without one the node is stopped.
prepare_for_new_block(head_slot) ==
  LET slots == {s \in head_slot + 1 .. head_slot + HIVE_MAX_SCHEDULE : CanSign(s)}
  IN [size |-> TargetSize, count |-> TargetCount, asked |-> <<>>,
      slot |-> IF slots = {} THEN head_slot + HIVE_MAX_SCHEDULE + 1 ELSE Min(slots),
      killed |-> dworld.queen /\ slots = {}]

\* Mutant: the block is asked for one transaction late.
CountedLate(q, tx) ==
  IF q.size > tx.size /\ q.count > 0
  THEN [q EXCEPT !.size = @ - tx.size, !.count = @ - 1]
  ELSE [q EXCEPT !.asked = Append(@, q.slot)]

\* on_post_apply_transaction: count it against the block, or ask for the block.
Counted(q, tx) ==
  IF q.size > tx.size /\ q.count > 1
  THEN [q EXCEPT !.size = @ - tx.size, !.count = @ - 1]
  ELSE [q EXCEPT !.asked = Append(@, q.slot)]

\* The queen once it saw these transactions one after another.
Seen(q, txs) ==
  LET after[i \in 0 .. Len(txs)] == IF i = 0 THEN q ELSE Counted(after[i - 1], txs[i])
  IN IF dworld.queen THEN after[Len(txs)] ELSE q

--------------------
\* colony_plugin_impl::start: the accounts that can sign are shared among the
\* threads; without one the node is stopped.
start == [colony EXCEPT !.started = TRUE, !.threads = Cardinality(Using)]
init == [b \in Builder |-> IF b \in Using THEN [builder[b] EXCEPT !.at = "loop"] ELSE builder[b]]

\* end_of_sync: started when its block is reached; the signals are connected
\* unless the node is being stopped.
end_of_sync ==
  /\ ~colony.synced
  /\ LET starts == dworld.start_at <= chain.head
         fails == stopping \/ (starts /\ Using = {})
     IN /\ colony' = [(IF starts THEN start ELSE colony) EXCEPT !.synced = TRUE, !.attached = ~fails]
        /\ builder' = IF starts THEN init ELSE builder
        /\ stopping' = fails
  /\ UNCHANGED <<dworld, queen, waiting, requested, pending, chain, pace>>

\* post_apply_block with n transactions: starts, or sets what the threads use
\* for the next block and marks every thread.  The later reapplication of `left`
\* transactions is counted by post_apply_transaction.
Margin(n) == Max({ToleranceMin, Min({ToleranceMax, (n * ToleranceRate) \div 100})})
Share(n) == (2 * n + colony.threads - 1) \div colony.threads
ColonyAfter(n, left, head) ==
  IF ~colony.attached THEN colony
  ELSE IF ~colony.started /\ dworld.start_at <= head THEN [start EXCEPT !.overflowing = @ + left]
  ELSE [colony EXCEPT
          !.dynamic = Min({n + Margin(n), dworld.per_block}),
          !.overflowing = left,
          !.concurrency = IF dworld.concurrency = 0 /\ colony.threads > 0 THEN Share(n) ELSE @,
          !.divided = dworld.concurrency = 0 /\ colony.threads = 0]
BuildersAfter(head) ==
  IF ~colony.attached THEN builder
  ELSE IF ~colony.started THEN IF dworld.start_at <= head THEN init ELSE builder
  ELSE [b \in Builder |-> [builder[b] EXCEPT !.needs_update = TRUE, !.made = 0]]
StopsAfter(head) == colony.attached /\ ~colony.started /\ dworld.start_at <= head /\ Using = {}

--------------------
\* build_transaction.  The loop is left when the node is being stopped; the flag
\* is taken before the lock.
BuilderMoves(b, r) ==
  /\ builder' = [builder EXCEPT ![b] = r]
  /\ UNCHANGED <<dworld, colony, queen, requested, pending, chain, stopping, pace>>

Loop(b) ==
  /\ builder[b].at = "loop"
  /\ UNCHANGED waiting
  /\ \/ stopping /\ BuilderMoves(b, [builder[b] EXCEPT !.at = "left"])
     \/ /\ ~stopping /\ builder[b].needs_update
        /\ BuilderMoves(b, [builder[b] EXCEPT !.at = "update", !.needs_update = FALSE])
     \/ /\ ~stopping /\ ~builder[b].needs_update /\ builder[b].to_produce > 0
        /\ BuilderMoves(b, [builder[b] EXCEPT !.at = "build"])

\* The common data, read under the colony's mutex or, for limited production,
\* under the read lock of the database.
Quota == LET total == IF colony.overflowing = 0 THEN dworld.per_block
                      ELSE Max({0, colony.dynamic - colony.overflowing})
         IN (total + colony.threads - 1) \div colony.threads
Update(b) ==
  /\ builder[b].at = "update"
  /\ UNCHANGED waiting
  /\ \E extra \in IF dworld.per_block = 0 THEN 0 .. Max({colony.concurrency \div 10, 1}) - 1 ELSE {0} :
       LET quota == IF dworld.per_block = 0 THEN Unlimited ELSE Quota
       IN BuilderMoves(b, [builder[b] EXCEPT
            !.at = IF quota = 0 THEN "loop" ELSE "build", !.to_produce = quota,
            !.max = colony.concurrency + extra, !.restart = (colony.concurrency + extra) \div 5])

\* A transaction is built; its push waits when too many of the thread wait.
Build(b) ==
  /\ builder[b].at = "build" /\ builder[b].made < MaxBuilt
  /\ UNCHANGED waiting
  /\ BuilderMoves(b, [builder[b] EXCEPT
       !.to_produce = IF @ = Unlimited THEN @ ELSE @ - 1, !.made = @ + 1,
       !.at = IF builder[b].concurrent >= builder[b].max THEN "locked" ELSE "push"])

\* The wait looks only at the number of transactions.
WaitEnds(b) ==
  /\ builder[b].at = "locked" /\ builder[b].concurrent < builder[b].restart
  /\ UNCHANGED waiting
  /\ BuilderMoves(b, [builder[b] EXCEPT !.at = "push"])

\* The rest of push_transaction.
queue_built_transaction(b, size) ==
  /\ builder[b].at = "push"
  /\ BuilderMoves(b, [builder[b] EXCEPT !.at = "loop", !.concurrent = IF stopping THEN @ ELSE @ + 1])
  /\ waiting' = IF stopping THEN waiting ELSE Append(waiting, [by |-> b, size |-> size])

--------------------
\* The writer takes a transaction when no block is asked for.  It becomes
\* pending, or fails, or is refused because the node is being stopped; in each
\* case on_worker_done counts it out.
WriteTransaction(valid) ==
  /\ waiting # <<>> /\ requested = <<>>
  /\ LET tx == Head(waiting)
         q == IF valid /\ ~stopping THEN Seen(queen, <<tx>>) ELSE queen
     IN /\ builder' = [builder EXCEPT ![tx.by].concurrent = @ - 1]
        /\ pending' = IF valid /\ ~stopping THEN Append(pending, tx) ELSE pending
        /\ queen' = [q EXCEPT !.asked = <<>>]
        /\ requested' = q.asked
  /\ waiting' = Tail(waiting)
  /\ UNCHANGED <<dworld, colony, chain, stopping, pace>>

\* fill_block_with_transactions: the pending ones in order, up to the first that
\* does not fit.
fill_block_with_transactions ==
  1 .. Max({i \in 0 .. Len(pending) :
              i = 0 \/ HeaderSize + SizeOf(SubSeq(pending, 1, i)) < maximum_block_size})

\* apply_pending_transactions: those that do not fit are passed over.
apply_pending_transactions ==
  LET used[i \in 0 .. Len(pending)] ==
        IF i = 0 THEN [txs |-> {}, size |-> HeaderSize]
        ELSE IF used[i - 1].size + pending[i].size >= maximum_block_size THEN used[i - 1]
        ELSE [txs |-> used[i - 1].txs \union {i}, size |-> used[i - 1].size + pending[i].size]
  IN used[Len(pending)].txs

Chosen(indices) == LET at == [k \in 1 .. Cardinality(indices) |->
                                CHOOSE i \in indices : Cardinality({j \in indices : j <= i}) = k]
                   IN [k \in DOMAIN at |-> pending[at[k]]]

\* A block is pushed: the colony hears of it, the queen starts anew, and what
\* is not in it is applied again, which both of them count.
push_block(slot, by, indices, from) ==
  LET n == Cardinality(indices)
      rest == Chosen(DOMAIN pending \ indices)
      q == Seen(prepare_for_new_block(slot), rest)
      head == chain.head + 1
  IN /\ chain' = [head |-> head, slot |-> slot, by |-> by, txs |-> Chosen(indices), left |-> rest]
     /\ pending' = rest
     /\ colony' = ColonyAfter(n, Len(rest), head)
     /\ builder' = BuildersAfter(head)
     /\ stopping' = (stopping \/ StopsAfter(head) \/ q.killed)
     /\ queen' = [q EXCEPT !.asked = <<>>]
     /\ requested' = from \o q.asked

\* The writer takes a request; the slot must still be ahead of the head.
WriteBlock ==
  /\ requested # <<>> /\ chain.head < MaxHeadBlock
  /\ IF stopping \/ Head(requested) <= chain.slot
     THEN requested' = Tail(requested) /\ UNCHANGED <<chain, pending, queen, colony, builder, stopping>>
     ELSE push_block(Head(requested), "queen", fill_block_with_transactions, Tail(requested))
  /\ UNCHANGED <<dworld, waiting, pace>>

\* debug_generate_blocks: from an API thread, under the write lock, in the next
\* slot, whoever is scheduled.  Without the queen it stands for any block too.
debug_generate_blocks ==
  /\ dworld.debug /\ chain.head < MaxHeadBlock /\ ~stopping
  /\ CanSign(chain.slot + 1)
  /\ push_block(chain.slot + 1, "debug", apply_pending_transactions, requested)
  /\ UNCHANGED <<dworld, waiting, pace>>

\* The user stops the node.
AskToStop ==
  /\ dworld.interrupt /\ ~stopping
  /\ stopping' = TRUE
  /\ UNCHANGED <<dworld, colony, builder, queen, waiting, requested, pending, chain, pace>>

--------------------
\* The pacemaker.  Time is in ticks from the first timestamp of its log.
block_time(k) == BlockSpacing * (k - 1)
failure_time == block_time(pace.next) + dworld.max_offset
emission_time(k) == block_time(k) + dworld.min_offset

\* plugin_startup: late, it starts in catch-up.
plugin_startup ==
  /\ pace.at = "off"
  /\ pace' = [pace EXCEPT !.at = "sleep",
       !.catch_up = IF pace.now >= failure_time
                    THEN pace.now - block_time(pace.next) + dworld.max_offset ELSE 0]

\* The clock, which also runs while a block is being accepted.
ClockTicks ==
  /\ pace.now < MaxTicks /\ pace.at # "done"
  /\ pace' = [pace EXCEPT !.now = @ + 1]

\* maybe_emit_block up to accept_block, called by the timer or again at once.
maybe_emit_block ==
  /\ pace.at \in {"sleep", "again"}
  /\ LET late == pace.now - block_time(pace.next)
         limit == IF pace.catch_up # 0 THEN pace.catch_up ELSE dworld.max_offset
         catch == IF pace.catch_up # 0 /\ late > dworld.max_offset THEN late ELSE 0
     IN pace' = IF late >= limit THEN [pace EXCEPT !.at = "done"]
                ELSE IF late < dworld.min_offset THEN [pace EXCEPT !.at = "sleep", !.catch_up = catch]
                ELSE [pace EXCEPT !.at = "accepting", !.catch_up = catch,
                        !.emitted = Append(@, [block |-> pace.next, late |-> late,
                                               limit |-> limit, catching |-> catch # 0])]

\* accept_block ended: an invalid block ends the loop, otherwise the next block
\* of the log is due now, later, or does not exist.
Accepted(valid) ==
  /\ pace.at = "accepting"
  /\ pace' = IF ~valid THEN [pace EXCEPT !.at = "done"]
             ELSE IF pace.next = dworld.last THEN [pace EXCEPT !.at = "done", !.next = @ + 1]
             ELSE [pace EXCEPT !.next = @ + 1,
                     !.at = IF emission_time(pace.next + 1) <= pace.now THEN "again" ELSE "sleep"]

PaceMoves ==
  /\ dworld.pacemaker
  /\ plugin_startup \/ ClockTicks \/ maybe_emit_block \/ (\E valid \in BOOLEAN : Accepted(valid))
  /\ UNCHANGED <<dworld, colony, builder, queen, waiting, requested, pending, chain, stopping>>

--------------------
DriverInit ==
  /\ dworld \in DriverWorlds
  /\ colony = [synced |-> FALSE, started |-> FALSE, attached |-> FALSE, threads |-> 0, overflowing |-> 0,
               dynamic |-> Unlimited, divided |-> FALSE,
               concurrency |-> IF dworld.concurrency = 0 THEN dworld.first_concurrency ELSE dworld.concurrency]
  /\ builder = [b \in Builder |-> [at |-> "off", needs_update |-> TRUE, to_produce |-> 0, concurrent |-> 0,
                                   max |-> 0, restart |-> 0, made |-> 0]]
  /\ queen = prepare_for_new_block(0)
  /\ waiting = <<>> /\ requested = <<>> /\ pending = <<>>
  /\ chain = [head |-> 0, slot |-> 0, by |-> "none", txs |-> <<>>, left |-> <<>>]
  /\ stopping = queen.killed
  /\ pace = [at |-> "off", now |-> dworld.now, next |-> 1, catch_up |-> 0, emitted |-> <<>>]

DriverNext ==
  \/ PaceMoves
  \/ /\ ~dworld.pacemaker /\ ~colony.divided
     /\ \/ end_of_sync \/ WriteBlock \/ debug_generate_blocks \/ AskToStop
        \/ \E valid \in {TRUE} \union {~dworld.failures} : WriteTransaction(valid)
        \/ \E b \in Builder : \/ Loop(b) \/ Update(b) \/ Build(b) \/ WaitEnds(b)
                              \/ \E size \in dworld.sizes : queue_built_transaction(b, size)

DriverSpec == DriverInit /\ [][DriverNext]_driverVars

--------------------
\* A thread's counter is the number of its transactions in the write queue, and
\* a transaction is only queued below the limit the thread read.
ConcurrencyExact ==
  \A b \in Builder :
    /\ builder[b].concurrent = Mine(waiting, b)
    /\ builder[b].at = "push" => builder[b].concurrent < builder[b].max

\* While it asks for no block, what remains of the queen's block and the
\* transactions pending make up its target, whoever made blocks in between, and
\* something does remain: those pending are not waiting for one transaction more.
QueenCountsPending ==
  dworld.queen /\ ~stopping /\ requested = <<>> =>
    /\ queen.size > 0 /\ queen.count > 0
    /\ queen.size + SizeOf(pending) = TargetSize
    /\ queen.count + Len(pending) = TargetCount

\* A block of the queen reaches its target, or leaves only what does not fit;
\* it never is empty.
QueenBlocksFull ==
  chain.by = "queen" =>
    /\ chain.txs # <<>>
    /\ \/ SizeOf(chain.txs) >= TargetSize
       \/ Len(chain.txs) >= TargetCount
       \/ chain.left # <<>> /\ HeaderSize + SizeOf(chain.txs) + chain.left[1].size >= maximum_block_size

\* With limited production no thread builds more in a block's time than its
\* share, and one more while it has not yet seen the mark.
QuotaRespected ==
  dworld.per_block > 0 /\ colony.started => \A b \in Using : builder[b].made <= Quota + 1

\* Production only rests when it is limited or somebody else has to make a
\* block, or when a thread that reached a limit below five waits for less than
\* none of its transactions; and the node only divides by the number of its
\* threads, 0, when the limit is automatic and the start comes with a block.
Rests(b) == \/ builder[b].at \in {"off", "left"}
            \/ builder[b].at = "locked" /\ builder[b].concurrent >= builder[b].restart
            \/ builder[b].at = "loop" /\ ~builder[b].needs_update /\ builder[b].to_produce = 0 /\ ~stopping
RestsOnlyWhen ==
  /\ (waiting = <<>> /\ requested = <<>> /\ colony.started /\ ~stopping /\ \A b \in Using : Rests(b)) =>
       dworld.per_block > 0 \/ \E b \in Using : builder[b].at = "locked" /\ builder[b].max < 5
  /\ colony.divided => dworld.concurrency = 0 /\ dworld.start_at > 0

\* The pacemaker emits each block once, in order and not before its time; live
\* within the largest offset, and catching up closer than the block before.
PaceKept ==
  \A i \in DOMAIN pace.emitted :
    LET e == pace.emitted[i] IN
      /\ e.block = i /\ e.late >= dworld.min_offset
      /\ ~e.catching => e.late <= dworld.max_offset
      /\ e.catching /\ i > 1 => e.late < pace.emitted[i - 1].late
      /\ i > 1 /\ ~pace.emitted[i - 1].catching => ~e.catching

DriversExact == /\ ConcurrencyExact /\ QueenCountsPending /\ QueenBlocksFull
                /\ QuotaRespected /\ RestsOnlyWhen /\ PaceKept
====
