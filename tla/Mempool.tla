-------------------------------- MODULE Mempool --------------------------------
(***************************************************************************)
(* The pending transactions of a node: accepted one by one on top of the   *)
(* head block, thrown away and applied again around every block and fork   *)
(* switch, and turned into a block by the producer.                        *)
(*                                                                         *)
(* A transaction is a constant with an expiration, a size, the account     *)
(* whose custom operation it carries if any, the transactions it needs and *)
(* those it cannot follow: enough to decide whether it executes on a       *)
(* state, a state being the set of transactions executed so far.           *)
(***************************************************************************)
EXTENDS Integers, Sequences, FiniteSets, SequencesExt, FiniteSetsExt, Functions

CONSTANTS
  Tx, Account, NoAccount,
  expiration,      \* [Tx -> Nat], the expiration the signer chose
  get_transaction_size,
  custom_by,       \* [Tx -> Account \cup {NoAccount}]
  Needs, Excludes, \* [Tx -> SUBSET Tx]
  Privileged,      \* transactions of elected witnesses
  Worlds,          \* sets of transactions that exist together
  HIVE_MAX_TIME_UNTIL_EXPIRATION, HIVE_MAX_TIME_UNTIL_SIGNATURE_EXPIRATION,
  HIVE_CUSTOM_OP_BLOCK_LIMIT, HIVE_BLOCK_GENERATION_POSTPONED_TX_LIMIT,
  MaxBlockSize, MaxTxSize, MaxMempoolSize,
  MaxBlocks, MaxTime, MaxGap, MaxPopped, MaxForks     \* bounds on the chain and on the blocks of a step

ASSUME MempoolAssumption ==
  /\ expiration \in [Tx -> Nat] /\ get_transaction_size \in [Tx -> Nat \ {0}]
  /\ custom_by \in [Tx -> Account \cup {NoAccount}]
  /\ Needs \in [Tx -> SUBSET Tx] /\ Excludes \in [Tx -> SUBSET Tx]
  /\ Privileged \subseteq Tx /\ Worlds \subseteq SUBSET Tx
  /\ {HIVE_MAX_TIME_UNTIL_EXPIRATION, HIVE_MAX_TIME_UNTIL_SIGNATURE_EXPIRATION,
      HIVE_CUSTOM_OP_BLOCK_LIMIT, HIVE_BLOCK_GENERATION_POSTPONED_TX_LIMIT, MaxBlockSize,
      MaxTxSize, MaxMempoolSize, MaxBlocks, MaxTime,
      MaxGap, MaxPopped, MaxForks} \subseteq Nat

VARIABLES
  chain,    \* the blocks of the state, oldest first: their transactions and times
  mem,      \* the database's pending_tx, pending_tx_size, pending_tx_index,
            \* popped_tx, custom_op_count, and the transactions applied in
            \* pending_tx_session
  runtime_expiration,   \* of the transaction object; 0 when unset or not in memory
  orphans,  \* transactions of abandoned blocks, still held by the fork database
  refused,  \* kinds of blocks that failed to apply (history)
  strained, \* a transaction was postponed or a fork abandoned (history)
  forks,    \* the number of fork switches so far, bounded
  world

vars == <<chain, mem, runtime_expiration, orphans, refused, strained, forks, world>>

TxOf(c) == UNION {ToSet(c[i].txs) : i \in DOMAIN c}
Time(c) == Last(c).time

NoCustom == [a \in Account |-> 0]
ClearPending(m) ==
  [m EXCEPT !.pending_tx = <<>>, !.pending_tx_size = 0, !.pending_tx_index = {},
            !.session = <<>>, !.custom_op_count = NoCustom]

EmptyMem == [pending_tx |-> <<>>, pending_tx_size |-> 0, pending_tx_index |-> {},
             popped_tx |-> <<>>, session |-> <<>>, custom_op_count |-> NoCustom]

Init ==
  /\ chain = <<[txs |-> <<>>, time |-> 1]>>
  /\ mem = EmptyMem
  /\ runtime_expiration = [t \in Tx |-> 0]
  /\ orphans = {} /\ refused = {} /\ strained = FALSE /\ forks = 0
  /\ world \in Worlds

--------------------
(* Executing a transaction *)

\* How long a transaction stays in the deduplication index when it is applied
\* while the head is at time at.
DedupeUntilRuntime(t, at) == Min({expiration[t], at + HIVE_MAX_TIME_UNTIL_EXPIRATION})
DedupeUntil(t, at) == expiration[t]

\* The transaction index of the state, cleared of expired entries after every
\* block (clear_expired_transactions).
Known(c) ==
  {t \in TxOf(c) : \E i \in 2..Len(c) :
      t \in ToSet(c[i].txs) /\ DedupeUntil(t, c[i - 1].time) >= Time(c)}

\* set_runtime_expiration, at the first validation of the object.
Runtime(rt, t, now) ==
  IF rt[t] # 0 THEN rt[t] ELSE Min({expiration[t], now + HIVE_MAX_TIME_UNTIL_EXPIRATION})

\* The time checks of validate_transaction.
Unexpired(rt, t, now) ==
  /\ rt[t] = 0 => expiration[t] <= now + HIVE_MAX_TIME_UNTIL_SIGNATURE_EXPIRATION
  /\ now < Runtime(rt, t, now)

\* _apply_transaction on the state after done, without the duplicate check.
Applies(rt, t, now, done) ==
  Unexpired(rt, t, now) /\ Needs[t] \subseteq done /\ Excludes[t] \cap done = {}

SizeOf(txs) == FoldSeq(LAMBDA t, n : n + get_transaction_size[t], 0, txs)

\* The transactions of _apply_block, on top of c.
BlockApplies(c, rt, txs) ==
  /\ SizeOf(txs) <= MaxBlockSize
  /\ \A i \in DOMAIN txs :
       LET before == {txs[j] : j \in 1..(i - 1)}
       IN  /\ txs[i] \notin Known(c) \cup before
           /\ Applies(rt, txs[i], Time(c), TxOf(c) \cup before)

\* Forgets the limit on custom operations.
PushPendingUnlimited(m, c, rt, t, validating_one_tx) ==
  LET a == custom_by[t]
      front == t \in Privileged /\ validating_one_tx
  IN  IF ~Applies(rt, t, Time(c), TxOf(c) \cup ToSet(m.session)) THEN m
      ELSE [pending_tx |-> IF front THEN m.pending_tx ELSE Append(m.pending_tx, t),
            pending_tx_size |-> m.pending_tx_size + IF front THEN 0 ELSE get_transaction_size[t],
            pending_tx_index |-> m.pending_tx_index \cup {t},
            popped_tx |-> IF front THEN <<t>> \o m.popped_tx ELSE m.popped_tx,
            session |-> Append(m.session, t),
            custom_op_count |-> [b \in Account |-> m.custom_op_count[b] + IF b = a THEN 1 ELSE 0]]

\* _push_transaction after its duplicate check: the custom operation limit,
\* the execution in the second session of the pair, and the bookkeeping of a
\* success.  A failure leaves nothing behind.
PushPending(m, c, rt, t, validating_one_tx) ==
  LET a == custom_by[t]
      fits == a # NoAccount => m.custom_op_count[a] + 1 <= HIVE_CUSTOM_OP_BLOCK_LIMIT
      front == t \in Privileged /\ validating_one_tx
  IN  IF ~(fits /\ Applies(rt, t, Time(c), TxOf(c) \cup ToSet(m.session))) THEN m
      ELSE [pending_tx |-> IF front THEN m.pending_tx ELSE Append(m.pending_tx, t),
            pending_tx_size |-> m.pending_tx_size + IF front THEN 0 ELSE get_transaction_size[t],
            pending_tx_index |-> m.pending_tx_index \cup {t},
            popped_tx |-> IF front THEN <<t>> \o m.popped_tx ELSE m.popped_tx,
            session |-> Append(m.session, t),
            custom_op_count |-> [b \in Account |-> m.custom_op_count[b] + IF b = a THEN 1 ELSE 0]]

--------------------
(* pending_transactions_restorer *)

Expired(rt, t, now) == rt[t] <= now

HandleAppliedTwice(m, c, rt, t) ==
  IF Expired(rt, t, Time(c)) \/ t \in Known(c) THEN m ELSE PushPending(m, c, rt, t, FALSE)

HandleApplied(m, c, rt, t) ==
  IF Expired(rt, t, Time(c)) \/ t \in Known(c) \cup m.pending_tx_index THEN m
  ELSE PushPending(m, c, rt, t, FALSE)

HandlePostponedUncounted(m, t) == [m EXCEPT !.pending_tx = Append(@, t)]
HandlePostponed(m, t) ==
  [m EXCEPT !.pending_tx = Append(@, t), !.pending_tx_size = @ + get_transaction_size[t]]

\* The destructor: popped transactions first, then the ones that were pending.
\* The first cut of them are applied before the time limit is hit (none when the
\* node is not in sync); the others are postponed until the mempool is full.
Restore(m, c, rt, cut) ==
  LET queue == m.popped_tx \o m.pending_tx
      Handle(s, i) ==
        IF s.stop THEN s
        ELSE IF i <= cut THEN [s EXCEPT !.m = HandleApplied(s.m, c, rt, queue[i])]
        ELSE IF s.m.pending_tx_size >= MaxMempoolSize THEN [s EXCEPT !.stop = TRUE]
        ELSE [s EXCEPT !.m = HandlePostponed(s.m, queue[i])]
      done == FoldLeft(Handle, [m |-> ClearPending(m), stop |-> FALSE], [i \in DOMAIN queue |-> i])
  IN  [done.m EXCEPT !.popped_tx = <<>>]

\* full_transaction_cache holds weak references: an object, and the runtime
\* expiration it carries, lives while the mempool or a block in memory needs it.
InMemoryForever(m, c, orphaned) == Tx
InMemory(m, c, orphaned) ==
  ToSet(m.pending_tx) \cup ToSet(m.popped_tx) \cup TxOf(c) \cup orphaned

\* What without_pending_transactions leaves when its callback moved the state to
\* c, with rt the expirations the blocks of c have set, and popped the
\* transactions of the blocks that were popped.
Settle(c, rt, popped, forked) ==
  LET before == [mem EXCEPT !.popped_tx = popped \o @]
      n == Len(before.popped_tx \o before.pending_tx)
  IN  \E cut \in 0..n :
        /\ chain' = c
        /\ mem' = Restore(before, c, rt, cut)
        /\ strained' = (strained \/ cut < n \/ forked)
        /\ runtime_expiration' = [t \in Tx |->
             IF t \in InMemory(mem', c, orphans') THEN rt[t] ELSE 0]

Stamped(rt, txs, now) == [t \in Tx |-> IF t \in ToSet(txs) THEN Runtime(rt, t, now) ELSE rt[t]]

\* push_block of a block that extends the head.
PushBlock(kind, txs, time) ==
  LET applied == BlockApplies(chain, runtime_expiration, txs)
      fresh == [t \in Tx |-> 0]
      good == kind = "produced" \/ BlockApplies(chain, fresh, txs)
  IN  /\ Len(chain) < MaxBlocks
      /\ refused' = IF good /\ ~applied THEN refused \cup {kind} ELSE refused
      /\ UNCHANGED orphans
      /\ IF applied
         THEN Settle(Append(chain, [txs |-> txs, time |-> time]),
                     Stamped(runtime_expiration, txs, Time(chain)), <<>>, FALSE)
         ELSE Settle(chain, runtime_expiration, <<>>, FALSE)

--------------------
(* Actions *)

\* push_transaction of a transaction that is no fast confirm.  A refused one
\* leaves nothing behind.
PushTransaction(t) ==
  /\ mem' = IF get_transaction_size[t] <= MaxTxSize /\ t \notin Known(chain) \cup mem.pending_tx_index
            THEN PushPending(mem, chain, runtime_expiration, t, TRUE)
            ELSE mem
  /\ runtime_expiration' = IF mem' = mem THEN runtime_expiration
                           ELSE Stamped(runtime_expiration, <<t>>, Time(chain))
  /\ UNCHANGED <<chain, orphans, refused, strained, forks, world>>

\* A block of the network arrives on top of the head.
PushNetworkBlock(txs, time) ==
  /\ time <= MaxTime
  /\ PushBlock("network", txs, time)
  /\ UNCHANGED <<forks, world>>

\* What pop_block saves of the last k blocks of c.
PoppedLast(c, k) == Last(c).txs
Popped(c, k) == FlattenSeq([i \in 1..k |-> c[Len(c) - k + i].txs])

\* switch_forks: k blocks are popped and a branch of k + 1 is applied.  When its
\* block good + 1 fails, the head of the fork database falls back to block good; if
\* that is lower than the old head and the common block is still reversible the
\* state goes back, otherwise it stays on the good blocks.
SwitchForks(k, branch, time) ==
  /\ forks < MaxForks /\ forks' = forks + 1
  /\ k < Len(chain) /\ Len(chain) < MaxBlocks /\ time + k <= MaxTime
  /\ LET base == SubSeq(chain, 1, Len(chain) - k)
         After(j) == base \o [i \in 1..j |-> [txs |-> branch[i], time |-> time + i - 1]]
         rt[j \in 0..(k + 1)] ==
           IF j = 0 THEN runtime_expiration
           ELSE Stamped(rt[j - 1], branch[j], Time(After(j - 1)))
         good == Max({j \in 0..(k + 1) : \A i \in 1..j :
                        BlockApplies(After(i - 1), rt[i - 1], branch[i])})
         popped == Popped(chain, k)
     IN  /\ time > Time(base)
         /\ orphans' = orphans \cup TxOf(SubSeq(chain, Len(chain) - k + 1, Len(chain)))
                               \cup UNION {ToSet(branch[i]) : i \in 1..good}
         /\ \/ Settle(After(good), rt[good], popped, TRUE)
            \/ good < k /\ Settle(chain, rt[good], Popped(After(good), good) \o popped, TRUE)
  /\ UNCHANGED <<refused, world>>

\* Looks for duplicates in the chain only.
BuildBlockDuplicates(when) ==
  LET Consider(s, t) ==
        IF s.unused > HIVE_BLOCK_GENERATION_POSTPONED_TX_LIMIT \/ runtime_expiration[t] < when THEN s
        ELSE IF SizeOf(s.txs) + get_transaction_size[t] >= MaxBlockSize
             THEN [s EXCEPT !.unused = @ + 1]
        ELSE IF t \in Known(chain) THEN s
        ELSE IF Applies(runtime_expiration, t, Time(chain), TxOf(chain) \cup ToSet(s.txs))
             THEN [s EXCEPT !.txs = Append(@, t)]
        ELSE s
  IN  FoldLeft(Consider, [txs |-> <<>>, unused |-> 0], mem.pending_tx).txs

\* apply_pending_transactions: the transactions of the block to be produced.
BuildBlock(when) ==
  LET Consider(s, t) ==
        IF s.unused > HIVE_BLOCK_GENERATION_POSTPONED_TX_LIMIT \/ runtime_expiration[t] < when THEN s
        ELSE IF SizeOf(s.txs) + get_transaction_size[t] >= MaxBlockSize
             THEN [s EXCEPT !.unused = @ + 1]
        ELSE IF t \in Known(chain) \cup ToSet(s.txs) THEN s
        ELSE IF Applies(runtime_expiration, t, Time(chain), TxOf(chain) \cup ToSet(s.txs))
             THEN [s EXCEPT !.txs = Append(@, t)]
        ELSE s
  IN  FoldLeft(Consider, [txs |-> <<>>, unused |-> 0], mem.pending_tx).txs

GenerateBlock(when) ==
  /\ when <= MaxTime
  /\ PushBlock("produced", BuildBlock(when), when)
  /\ UNCHANGED <<forks, world>>

\* Network blocks of at most one transaction, at most MaxGap after the block before.
SmallBlock == {<<>>} \cup {<<t>> : t \in world}
Soon(time) == time + 1 .. time + MaxGap

Next ==
  \/ \E t \in world : PushTransaction(t)
  \/ \E when \in Soon(Time(chain)) : GenerateBlock(when)
  \/ \E txs \in SmallBlock, time \in Soon(Time(chain)) : PushNetworkBlock(txs, time)
  \/ \E k \in 1..MaxPopped : \E branch \in [1..(k + 1) -> SmallBlock] :
       \E time \in Soon(chain[Max({1, Len(chain) - k})].time) : SwitchForks(k, branch, time)

Spec == Init /\ [][Next]_vars

--------------------
TypeOK ==
  /\ \A i \in DOMAIN chain : chain[i].txs \in Seq(Tx) /\ chain[i].time \in 1..MaxTime
  /\ \A s \in {mem.pending_tx, mem.popped_tx, mem.session} : s \in Seq(Tx)
  /\ mem.pending_tx_index \subseteq Tx /\ mem.pending_tx_size \in Nat
  /\ mem.custom_op_count \in [Account -> 0..HIVE_CUSTOM_OP_BLOCK_LIMIT]
  /\ runtime_expiration \in [Tx -> Nat] /\ orphans \subseteq Tx
  /\ refused \subseteq {"produced", "network"} /\ strained \in BOOLEAN /\ forks \in 0..MaxForks

\* No transaction is ever executed twice on one chain, although the
\* deduplication index forgets expired ones (_apply_transaction,
\* clear_expired_transactions).
NoReplay ==
  \A i, j \in DOMAIN chain : \A k \in DOMAIN chain[i].txs, l \in DOMAIN chain[j].txs :
    chain[i].txs[k] = chain[j].txs[l] => i = j /\ k = l

\* The pending state is what the index says: the session holds each indexed
\* transaction once and none that the chain still remembers, and the custom
\* operation counters count exactly the session (_push_transaction,
\* clear_pending).
SessionIsIndexed ==
  /\ ToSet(mem.session) = mem.pending_tx_index /\ IsInjective(mem.session)
  /\ mem.pending_tx_index \cap Known(chain) = {}
  /\ \A a \in Account :
       mem.custom_op_count[a] = Cardinality({t \in mem.pending_tx_index : custom_by[t] = a})

\* The mempool's size is that of the transactions in it, through every replay,
\* postponement and fork (_pending_tx_size).
SizeExact == mem.pending_tx_size = SizeOf(mem.pending_tx)

\* A block the node produced itself always applies, whatever is postponed,
\* duplicated or expired in its mempool (apply_pending_transactions).
ProducedBlockApplies == "produced" \notin refused

\* What a node has in its mempool does not change its verdict on a block: a
\* block that a node without these transactions accepts is accepted, as long
\* as nothing was postponed and no fork abandoned (runtime_expiration of the
\* cached transaction, the expiration check of the restorer).
MempoolDoesNotJudge == "network" \in refused => strained

\* The pending bookkeeping is exact and never turns a block away.
PendingExact == TypeOK /\ SessionIsIndexed /\ SizeExact /\ ProducedBlockApplies /\ MempoolDoesNotJudge

Held(m) == ToSet(m.pending_tx) \cup ToSet(m.popped_tx)
Free == {t \in Tx : Needs[t] = {} /\ Excludes[t] = {} /\ custom_by[t] = NoAccount}

\* An accepted transaction that depends on nothing is not lost, by blocks, forks,
\* failed forks, production or the time limit, until it expires or gets into the
\* chain; unless the mempool is full (pending_transactions_restorer, pop_block).
NothingLost ==
  [][\A t \in Free : t \in Held(mem) \cup TxOf(chain) =>
       \/ t \in Held(mem') \cup TxOf(chain')
       \/ runtime_expiration[t] <= Time(chain')
       \/ mem'.pending_tx_size >= MaxMempoolSize]_vars
===============================================================================
