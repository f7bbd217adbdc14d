------------------------------ MODULE BlockWriter ------------------------------
(***************************************************************************)
(* The writer of one node: push_block, fork switches, fast confirmation,   *)
(* the choice of the last irreversible block and its migration to the      *)
(* block log, and the recovery of an opened node.  The writer thread runs  *)
(* one operation at a time; pc says where it is, so that a crash can fall  *)
(* between any two of its durable effects.                                 *)
(*                                                                         *)
(* Durable: state_head and committed (shared memory: the undo stack holds  *)
(* exactly the blocks after committed), lib and block_log.  Lost with the  *)
(* process: fork_db, approved, the operation in progress.                  *)
(* Block execution is abstracted to its outcome.  Checkpoints are unset.   *)
(***************************************************************************)
EXTENDS ForkDatabase

CONSTANTS
  Root,             \* head of the block log and of the state at first start
  Worlds,           \* what a behaviour may be about: records of the blocks that
                    \* arrive, those whose header or transactions fail, those
                    \* that fail after the irreversible block was updated, the
                    \* network's HIVE_START_MINER_VOTING_BLOCK, and a bound on
                    \* process kills
  Schedule,         \* [Block -> SUBSET Witness], schedule for irreversibility after the block
  Confirm,          \* fast-confirm transactions <<witness, block>> that exist
  HIVE_100_PERCENT, HIVE_IRREVERSIBLE_THRESHOLD,
  HIVE_MAX_WITNESSES, HIVE_MAX_UNDO_HISTORY,
  MaxForkDbSize     \* initial fork_database::_max_size

ASSUME WriterAssumption ==
  /\ Root \in Block /\ previous_id[Root] = NoBlock
  /\ Worlds \subseteq [blocks : SUBSET Block, invalid : SUBSET (Block \ {Root}),
                        late : SUBSET (Block \ {Root}), start_voting : Nat, kills : Nat]
  /\ Schedule \in [Block -> SUBSET Witness]
  /\ Confirm \subseteq Witness \X Block
  /\ {HIVE_100_PERCENT, HIVE_IRREVERSIBLE_THRESHOLD, HIVE_MAX_WITNESSES,
      HIVE_MAX_UNDO_HISTORY, MaxForkDbSize} \subseteq Nat
  /\ HIVE_IRREVERSIBLE_THRESHOLD <= HIVE_100_PERCENT
  /\ HIVE_100_PERCENT > 0 /\ MaxForkDbSize > 0

VARIABLES
  fork_db,      \* sync_block_writer::_fork_db
  state_head,   \* head_block_id() of the state
  committed,    \* the block below which the undo stack does not reach
  lib,          \* last_irreversible_object->_irreversible_block_num
  block_log,    \* the block storage, Root first
  approved,     \* _last_fast_approved_block_by_witness
  notified,     \* the last number passed to notify_irreversible_block
  pc, op,       \* the writer thread: where it is, and its local variables
  interrupted,  \* generate_interrupt_request() was called
  crashes,
  world         \* one of Worlds, for ever

vars == <<fork_db, state_head, committed, lib, block_log, approved, notified,
          pc, op, interrupted, crashes, world>>
durable == <<state_head, committed, lib, block_log, notified>>

Invalid == world.invalid
FailsLate == world.late
HIVE_START_MINER_VOTING_BLOCK == world.start_voting

num(b) == get_block_num[b]
head_block_num == num(state_head)
Min2(a, b) == IF a < b THEN a ELSE b

\* b is on the chain that ends in h.
OnBranch(b, h) == b \in Branch[h]

NoVotes == [w \in Witness |-> NoBlock]

\* The locals of the running operation.
\*   kind      which loop applies blocks: push_block's, switch_forks' over the
\*             new branch, its restoration of the old one, or none (only the
\*             migration of a fast confirm is running)
\*   pushed    the block push_block was called with
\*   stack     the calls of _push_next that have not returned, the innermost first
\*   todo      blocks still to be applied, the current one first
\*   old       old_branch;  common, original: common and original head numbers
\*   target    the block pop_block_extended stops at
\*   confirm   whether process_fast_confirm_transaction called the switch, with
\*             the irreversible number before it and the candidate found
\*   old_lib   old_last_irreversible of the running migration
Op == [kind : {"none", "push", "switch", "restore"},
       pushed : Block \cup {NoBlock}, stack : Seq(Block), todo : Seq(Block), old : Seq(Block),
       common : Nat, original : Nat, target : Block \cup {NoBlock},
       confirm : BOOLEAN, confirm_lib : Nat, candidate : Nat, old_lib : Nat]

NoOp == [kind |-> "none", pushed |-> NoBlock, stack |-> <<>>, todo |-> <<>>, old |-> <<>>,
         common |-> 0, original |-> 0, target |-> NoBlock,
         confirm |-> FALSE, confirm_lib |-> 0, candidate |-> 0, old_lib |-> 0]

Pc == {"idle", "link", "pop", "apply", "failed", "store", "append", "commit", "notify",
       "done", "down", "refused"}

Init ==
  /\ fork_db = start_block(Root, MaxForkDbSize)
  /\ state_head = Root /\ committed = Root /\ lib = num(Root) /\ block_log = <<Root>>
  /\ approved = NoVotes /\ notified = num(Root)
  /\ pc = "idle" /\ op = NoOp /\ interrupted = FALSE /\ crashes = 0
  /\ world \in Worlds

--------------------
(* find_new_last_irreversible_block *)

Required(sched) ==
  Cardinality(sched)
    - ((HIVE_100_PERCENT - HIVE_IRREVERSIBLE_THRESHOLD) * Cardinality(sched)) \div HIVE_100_PERCENT

\* The vote of a witness is the higher of its fast confirm and its last block;
\* on a tie the generated block.
BestVote(confirmed, generated) ==
  IF confirmed = NoBlock THEN generated
  ELSE IF generated = NoBlock \/ num(confirmed) > num(generated) THEN confirmed
  ELSE generated

\* One vote per scheduled witness, when each may have generated several last blocks.
Votes(f, sched, votes) ==
  UNION {{[w \in sched |-> BestVote(votes[w], g[w])] :
            g \in {h \in [sched -> UNION {last[w] : w \in sched}] : \A w \in sched : h[w] \in last[w]}} :
           last \in {[w \in sched |-> LastGenerated(f, w)]}}

\* The witnesses whose vote is met on the walk back from h before c is left.
Approving(f, v, h, c) ==
  Cardinality({w \in DOMAIN v : v[w] \in Reach(f, h) /\ num(v[w]) >= num(c)})

\* The walk back from one head, with best the candidate of the heads before it.
WalkHead(f, v, required, old_lib, best, h) ==
  LET enough == {c \in Reach(f, h) :
                   /\ num(c) > old_lib
                   /\ best.block = NoBlock \/ num(c) > num(best.block) \/ c = best.block
                   /\ Approving(f, v, h, c) >= required}
  IN  IF (best.block = NoBlock \/ num(h) > num(best.head)) /\ enough # {}
      THEN [block |-> CHOOSE c \in enough : \A d \in enough : num(d) <= num(c), head |-> h]
      ELSE best

\* What the walk over all heads may end with: they are visited in hash order, that
\* is in any.
WalkHeads(f, v, required, old_lib) ==
  LET after[heads \in SUBSET fetch_heads(f)] ==
        IF heads = {} THEN {[block |-> NoBlock, head |-> NoBlock]}
        ELSE UNION {{WalkHead(f, v, required, old_lib, best, h) : best \in after[heads \ {h}]} : h \in heads}
  IN  after[fetch_heads(f)]

\* The possible candidates, all of them above the last irreversible block.
find_new_last_irreversible_block(f, sched, votes, old_lib) ==
  {found \in UNION {WalkHeads(f, v, Required(sched), old_lib) : v \in Votes(f, sched, votes)} :
     found.block # NoBlock => num(found.block) > old_lib}

found_on_another_fork(f, found) ==
  found.block # fetch_block_on_main_branch_by_number(f, num(found.block))

\* Fast confirms at or below the irreversible block are dropped.
KeepRelevant(votes, n) ==
  [w \in Witness |-> IF votes[w] # NoBlock /\ num(votes[w]) <= n THEN NoBlock ELSE votes[w]]

\* update_last_irreversible_block without a switch_forks callback, for a state and
\* a fork database at head: the pairs <<lib, approved>> it may leave.
UpdateLib(head, sched) ==
  IF num(head) < HIVE_START_MINER_VOTING_BLOCK
  THEN {<<IF num(head) > HIVE_MAX_WITNESSES + lib THEN num(head) - HIVE_MAX_WITNESSES ELSE lib,
          approved>>}
  ELSE IF lib = num(head) THEN {<<lib, approved>>}
  ELSE {IF found.block = NoBlock \/ found_on_another_fork(set_head(fork_db, head), found)
        THEN <<lib, approved>>
        ELSE LET n == Min2(num(found.block), num(head)) IN <<n, KeepRelevant(approved, n)>> :
          found \in find_new_last_irreversible_block(fork_db, sched, approved, lib)}

--------------------
(* Leaving an operation *)

\* An exception leaves push_block; the callback of a fast confirm swallows it
\* and the confirm goes on to its migration with the number it started from.
Throw ==
  IF op.confirm
  THEN /\ pc' = "store"
       /\ op' = [NoOp EXCEPT !.old_lib = op.confirm_lib]
  ELSE pc' = "idle" /\ op' = NoOp

\* switch_forks to a new head, from push_block or from a fast confirm.  The
\* last block of an empty new branch is read from nowhere: the process dies.
switch_forks(new_head, locals) ==
  IF ~BranchesMeet(fork_db, new_head, state_head)
  THEN /\ pc' = IF locals.confirm THEN "store" ELSE "idle"
       /\ op' = IF locals.confirm THEN [NoOp EXCEPT !.old_lib = lib] ELSE NoOp
  ELSE LET new == fetch_branch_from(new_head, state_head)
           old == fetch_branch_from(state_head, new_head)
       IN  IF new = <<>> THEN pc' = "down" /\ op' = NoOp ELSE
           /\ op' = [locals EXCEPT !.kind = "switch", !.todo = new, !.old = old,
                       !.common = num(Head(new)) - 1, !.original = head_block_num,
                       !.target = previous_id[Head(new)]]
           /\ pc' = IF old = <<>> THEN "apply" ELSE "pop"

--------------------
(* push_block *)

\* new_head and the blocks below it that the state has not got, oldest first;
\* the block just pushed is linked whatever _index holds under its id.
BlocksToPush(f, b) ==
  LET g == [f EXCEPT !.linked = IF b = f.head THEN @ \cup {b} ELSE @]
  IN  [i \in 1..(num(f.head) - head_block_num) |-> WalkTo(g, f.head, head_block_num + i)]

\* A block that does not link is cached and the exception goes to the caller.
PushUnlinkable(b) ==
  /\ pc = "idle" /\ ~interrupted
  /\ Unlinkable(fork_db, b)
  /\ fork_db' = CacheUnlinked(fork_db, b)
  /\ UNCHANGED <<durable, approved, pc, op, interrupted, crashes, world>>

\* A block that links is inserted, and then the cached blocks above it.
PushBlock(b) ==
  /\ pc = "idle" /\ ~interrupted
  /\ ~Unlinkable(fork_db, b)
  /\ fork_db' = Insert(fork_db, b)
  /\ pc' = "link" /\ op' = [NoOp EXCEPT !.pushed = b, !.stack = <<b>>]
  /\ UNCHANGED <<durable, approved, interrupted, crashes, world>>

\* The calls of _push_next that have something left to push.
Unfinished == {i \in DOMAIN op.stack : Waiting(fork_db, op.stack[i]) # {}}

\* One cached block is pushed, by the innermost of those calls; the hashed cache
\* gives the children of a block in no particular order.  One that does not link
\* any more takes the exception through all of the calls: the block of the caller
\* is cached as well as inserted.
PushNext ==
  /\ pc = "link"
  /\ \E i \in Unfinished :
       /\ \A j \in Unfinished : i <= j
       /\ \E u \in Waiting(fork_db, op.stack[i]) :
            LET f == TakeOut(fork_db, u)
            IN  IF Unlinkable(f, u)
                THEN fork_db' = CacheUnlinked(f, op.pushed) /\ pc' = "idle" /\ op' = NoOp
                ELSE /\ fork_db' = Insert(f, u) /\ UNCHANGED pc
                     /\ op' = [op EXCEPT !.stack = <<u>> \o SubSeq(@, i, Len(@))]
  /\ UNCHANGED <<durable, approved, interrupted, crashes, world>>

\* Then nothing happens unless the fork database's head is higher than the
\* state; if it is, the state is extended, or the fork is switched.  A null
\* pointer on the way down is dereferenced, which ends the process.
PushLinked ==
  /\ pc = "link" /\ Unfinished = {}
  /\ LET blocks == BlocksToPush(fork_db, op.pushed)
     IN  IF num(fork_db.head) <= head_block_num
         THEN pc' = "idle" /\ op' = NoOp
         ELSE IF NoBlock \in {blocks[i] : i \in DOMAIN blocks}
         THEN pc' = "down" /\ op' = NoOp
         ELSE IF previous_id[Head(blocks)] = state_head
         THEN pc' = "apply" /\ op' = [NoOp EXCEPT !.kind = "push", !.todo = blocks]
         ELSE switch_forks(fork_db.head, NoOp)
  /\ UNCHANGED <<fork_db, durable, approved, interrupted, crashes, world>>

--------------------
(* Popping and applying blocks *)

\* Mutant: the undo stack is not the limit of a pop.
PopBlockUnbounded ==
  /\ pc = "pop" /\ state_head # op.target
  /\ IF fork_db.head \in fork_db.linked
     THEN /\ fork_db' = pop_block(fork_db)
          /\ state_head' = previous_id[state_head]
          /\ UNCHANGED <<pc, op>>
     ELSE Throw /\ UNCHANGED <<fork_db, state_head>>
  /\ UNCHANGED <<committed, lib, block_log, approved, notified, interrupted, crashes, world>>

\* Mutant: fork_database::pop_block stays where it is when there is no previous
\* block instead of asserting.
PopBlockNoAssert ==
  /\ pc = "pop" /\ state_head # op.target
  /\ fork_db' = IF fork_db.head \in fork_db.linked THEN pop_block(fork_db) ELSE fork_db
  /\ state_head' = IF state_head = committed THEN state_head ELSE previous_id[state_head]
  /\ UNCHANGED <<committed, lib, block_log, approved, notified, pc, op, interrupted, crashes, world>>

\* One iteration of pop_block_extended.  The fork database moves its own head,
\* which may be on the other branch; undo() does nothing on an empty stack.
PopBlock ==
  /\ pc = "pop" /\ state_head # op.target
  /\ LET known == state_head \in fork_db.index \cup {block_log[i] : i \in DOMAIN block_log}
     IN  IF known /\ fork_db.head \in fork_db.linked
         THEN /\ fork_db' = pop_block(fork_db)
              /\ state_head' = IF state_head = committed THEN state_head ELSE previous_id[state_head]
              /\ UNCHANGED <<pc, op>>
         ELSE Throw /\ UNCHANGED <<fork_db, state_head>>
  /\ UNCHANGED <<committed, lib, block_log, approved, notified, interrupted, crashes, world>>

\* Mutant: the restoration of the old branch stops one block early.
PopDoneShort ==
  /\ pc = "pop" /\ state_head = op.target
  /\ IF op.kind = "restore" /\ Len(op.old) < 2 THEN Throw
     ELSE /\ pc' = "apply"
          /\ op' = IF op.kind = "restore" THEN [op EXCEPT !.todo = SubSeq(op.old, 1, Len(op.old) - 1)] ELSE op
  /\ UNCHANGED <<fork_db, durable, approved, interrupted, crashes, world>>

\* pop_block_extended returns: on to the new branch, or to the restored one.
PopDone ==
  /\ pc = "pop" /\ state_head = op.target
  /\ IF op.kind = "restore" /\ op.old = <<>> THEN Throw
     ELSE /\ pc' = "apply"
          /\ op' = IF op.kind = "restore" THEN [op EXCEPT !.todo = op.old] ELSE op
  /\ UNCHANGED <<fork_db, durable, approved, interrupted, crashes, world>>

\* apply_block_extended up to migrate_irreversible_state.  The irreversible
\* number is outside the undo session: a block that fails late leaves it.
ApplyBlock ==
  /\ pc = "apply"
  /\ LET b == Head(op.todo)
     IN  /\ fork_db' = set_head(fork_db, b)
         /\ IF \/ b \in Invalid \/ previous_id[b] # state_head
               \/ num(b) - lib >= HIVE_MAX_UNDO_HISTORY
            THEN pc' = "failed" /\ UNCHANGED <<state_head, lib, approved, op>>
            ELSE /\ \E u \in UpdateLib(b, Schedule[state_head]) : lib' = u[1] /\ approved' = u[2]
                 /\ IF b \in FailsLate
                    THEN pc' = "failed" /\ UNCHANGED <<state_head, op>>
                    ELSE /\ state_head' = b
                         /\ pc' = "store" /\ op' = [op EXCEPT !.old_lib = lib]
  /\ UNCHANGED <<committed, block_log, notified, interrupted, crashes, world>>

\* The handlers of a failed apply: push_block drops the failed block and the
\* rest of its list; switch_forks drops the rest of the new branch, and goes
\* back to the old branch when that is longer and still reversible.
FailedApply ==
  /\ pc = "failed"
  /\ LET f == remove(fork_db, op.todo)
     IN  IF op.kind = "push" THEN fork_db' = f /\ Throw
         ELSE IF op.kind = "restore" THEN Throw /\ UNCHANGED fork_db
         ELSE /\ fork_db' = f
              /\ IF irreversible_at_least(f, op.common) THEN Throw
                 ELSE IF f.head = NoBlock THEN pc' = "down" /\ op' = NoOp
                 ELSE IF num(f.head) >= op.original THEN Throw
                 ELSE pc' = "pop" /\ op' = [op EXCEPT !.kind = "restore", !.todo = <<>>]
  /\ UNCHANGED <<durable, approved, interrupted, crashes, world>>

--------------------
(* migrate_irreversible_state: store_block, commit, notifications *)

LogHead == block_log[Len(block_log)]

\* The blocks store_block writes, by number.
BlocksToWrite == [i \in 1..(lib - num(LogHead)) |->
                    fetch_block_on_main_branch_by_number(fork_db, num(LogHead) + i)]

StoreAsserts ==
  /\ fork_db.head # NoBlock => num(fork_db.head) = head_block_num
  /\ num(LogHead) < lib => NoBlock \notin {BlocksToWrite[i] : i \in DOMAIN BlocksToWrite}

\* store_block finds every block before it writes the first one.  A failed
\* assertion asks the application to stop and fails the block being applied.
StoreBlock ==
  /\ pc = "store"
  /\ IF StoreAsserts
     THEN pc' = "append" /\ UNCHANGED <<state_head, op, interrupted>>
     ELSE /\ interrupted' = TRUE
          /\ IF op.kind = "none"
             THEN pc' = "idle" /\ op' = NoOp /\ UNCHANGED state_head
             ELSE /\ pc' = "failed" /\ UNCHANGED op
                  /\ state_head' = IF state_head = committed THEN state_head
                                   ELSE previous_id[state_head]
  /\ UNCHANGED <<fork_db, committed, lib, block_log, approved, notified, crashes, world>>

AppendBlock ==
  /\ pc = "append" /\ num(LogHead) < lib
  /\ block_log' = Append(block_log, BlocksToWrite[1])
  /\ UNCHANGED <<fork_db, state_head, committed, lib, approved, notified, pc, op, interrupted, crashes, world>>

\* Mutant: the size is one short.
TrimForkDbShort ==
  /\ pc = "append" /\ num(LogHead) >= lib
  /\ fork_db' = set_max_size(fork_db, head_block_num - lib)
  /\ pc' = "commit"
  /\ UNCHANGED <<durable, approved, op, interrupted, crashes, world>>

\* The fork database keeps the irreversible block and what is above it.
TrimForkDb ==
  /\ pc = "append" /\ num(LogHead) >= lib
  /\ fork_db' = set_max_size(fork_db, head_block_num - lib + 1)
  /\ pc' = "commit"
  /\ UNCHANGED <<durable, approved, op, interrupted, crashes, world>>

\* chainbase drops the undo states of revisions up to lib.
Commit ==
  /\ pc = "commit"
  /\ committed' = IF lib <= num(committed) THEN committed
                  ELSE CHOOSE b \in Block : num(b) = lib /\ OnBranch(b, state_head)
  /\ pc' = IF op.old_lib < lib THEN "notify" ELSE "done"
  /\ op' = [op EXCEPT !.old_lib = IF @ < lib THEN @ + 1 ELSE @]
  /\ UNCHANGED <<fork_db, state_head, lib, block_log, approved, notified, interrupted, crashes, world>>

\* One notification per block number.
NotifyIrreversibleBlock ==
  /\ pc = "notify"
  /\ notified' = op.old_lib
  /\ IF op.old_lib < lib THEN op' = [op EXCEPT !.old_lib = @ + 1] /\ UNCHANGED pc
     ELSE pc' = "done" /\ UNCHANGED op
  /\ UNCHANGED <<fork_db, state_head, committed, lib, block_log, approved, interrupted, crashes, world>>

\* The block is applied: on to the next one, or out of the operation.  The
\* callback of a fast confirm returns nothing after a successful switch, so the
\* candidate is then made irreversible again, if that does not move back.
BlockDone ==
  /\ pc = "done"
  /\ LET rest == IF op.kind = "none" THEN <<>> ELSE Tail(op.todo)
         n == Min2(op.candidate, head_block_num)
     IN  IF rest # <<>> THEN /\ pc' = "apply" /\ op' = [op EXCEPT !.todo = rest]
                             /\ UNCHANGED <<lib, approved>>
         ELSE IF op.kind = "restore" THEN Throw /\ UNCHANGED <<lib, approved>>
         ELSE IF op.kind = "switch" /\ op.confirm /\ n >= lib
         THEN /\ lib' = n /\ approved' = KeepRelevant(approved, n)
              /\ pc' = "store" /\ op' = [NoOp EXCEPT !.old_lib = op.confirm_lib]
         ELSE pc' = "idle" /\ op' = NoOp /\ UNCHANGED <<lib, approved>>
  /\ UNCHANGED <<fork_db, state_head, committed, block_log, notified, interrupted, crashes, world>>

--------------------
(* process_fast_confirm_transaction *)

\* A confirm by a scheduled witness for a block above its previous one is
\* recorded and may move the irreversible block, here or on another fork that
\* is at least as long; the migration follows in every case.
FastConfirm(w, b) ==
  /\ pc = "idle" /\ ~interrupted
  /\ w \in Schedule[state_head]
  /\ approved[w] # NoBlock => num(b) > num(approved[w])
  /\ LET votes == [approved EXCEPT ![w] = b]
         migrate == pc' = "store" /\ op' = [NoOp EXCEPT !.old_lib = lib]
     IN  IF head_block_num < HIVE_START_MINER_VOTING_BLOCK \/ lib = head_block_num
         THEN /\ migrate /\ approved' = votes
              /\ lib' = IF /\ head_block_num < HIVE_START_MINER_VOTING_BLOCK
                           /\ head_block_num > HIVE_MAX_WITNESSES + lib
                        THEN head_block_num - HIVE_MAX_WITNESSES ELSE lib
         ELSE \E found \in find_new_last_irreversible_block(fork_db, Schedule[state_head], votes, lib) :
           IF found.block \notin fork_db.index THEN migrate /\ approved' = votes /\ UNCHANGED lib
           ELSE IF ~found_on_another_fork(fork_db, found)
           THEN LET n == Min2(num(found.block), head_block_num)
                IN  migrate /\ lib' = n /\ approved' = KeepRelevant(votes, n)
           ELSE /\ approved' = votes /\ UNCHANGED lib
                /\ IF num(found.head) < head_block_num THEN migrate
                   ELSE switch_forks(found.head,
                          [NoOp EXCEPT !.confirm = TRUE, !.confirm_lib = lib,
                                       !.candidate = num(found.block)])
  /\ UNCHANGED <<fork_db, state_head, committed, block_log, notified, interrupted, crashes, world>>

--------------------
(* Stopping and opening a node *)

Stop ==
  /\ pc' = "down" /\ op' = NoOp /\ interrupted' = FALSE
  /\ fork_db' = start_block(Root, MaxForkDbSize) /\ approved' = NoVotes
  /\ UNCHANGED <<durable, world>>

\* The node stops on the request of a failed migration.
Shutdown == pc = "idle" /\ interrupted /\ Stop /\ UNCHANGED crashes

\* The process is killed anywhere; shared memory and block log keep their content.
Crash ==
  /\ pc \notin {"down", "refused"} /\ crashes < world.kills
  /\ Stop /\ crashes' = crashes + 1

\* database::open rewinds all undo state and asserts that the result is not
\* below the irreversible block and is the block log's head.
Open ==
  /\ pc = "down"
  /\ state_head' = committed /\ approved' = NoVotes
  /\ IF num(committed) >= lib /\ LogHead = committed
     THEN pc' = "idle" /\ fork_db' = start_block(LogHead, MaxForkDbSize)
     ELSE pc' = "refused" /\ UNCHANGED fork_db
  /\ UNCHANGED <<committed, lib, block_log, notified, op, interrupted, crashes, world>>

\* A refused node is replayed from its block log, which keeps the irreversible
\* block at the head.
ForceReplay ==
  /\ pc = "refused"
  /\ state_head' = LogHead /\ committed' = LogHead /\ lib' = num(LogHead)
  /\ pc' = "idle" /\ fork_db' = start_block(LogHead, MaxForkDbSize)
  /\ UNCHANGED <<block_log, approved, notified, op, interrupted, crashes, world>>

Writer == PushNext \/ PushLinked \/ PopBlock \/ PopDone \/ ApplyBlock \/ FailedApply \/ StoreBlock \/ AppendBlock
            \/ TrimForkDb \/ Commit \/ NotifyIrreversibleBlock \/ BlockDone
            \/ Shutdown \/ Open \/ ForceReplay

Next ==
  \/ \E b \in world.blocks : PushUnlinkable(b) \/ PushBlock(b)
  \/ \E c \in Confirm : c[2] \in world.blocks /\ FastConfirm(c[1], c[2])
  \/ Writer
  \/ Crash

Spec == Init /\ [][Next]_vars

\* The writer thread runs while there is work for it.
FairSpec == Spec /\ WF_vars(Writer)

--------------------
(* Properties *)

TypeOK ==
  /\ fork_db \in ForkDb
  /\ {state_head, committed} \subseteq Block /\ {lib, notified} \subseteq Nat
  /\ block_log \in Seq(Block) /\ block_log # <<>>
  /\ approved \in [Witness -> Block \cup {NoBlock}]
  /\ pc \in Pc /\ interrupted \in BOOLEAN /\ crashes \in 0..world.kills /\ world \in Worlds
  /\ op \in Op

\* What the block log holds is one chain that starts at Root, contains the last
\* block committed to the state, and is a prefix of the state's chain between
\* operations: store_block picks blocks by number from the fork database, the state
\* is undone and committed by chainbase, and the two must agree on the blocks.
LogIsStateChain ==
  /\ block_log[1] = Root
  /\ \A i \in 1..(Len(block_log) - 1) : previous_id[block_log[i + 1]] = block_log[i]
  /\ OnBranch(committed, LogHead)
  /\ pc = "idle" => OnBranch(LogHead, state_head)

\* Between operations the irreversible number, the undo stack, the block log and
\* the state agree: nothing at or below lib can be undone, everything above can,
\* and all of it is logged.
IdleInStep ==
  pc = "idle" /\ ~interrupted /\ FailsLate = {} =>
                 /\ lib = num(committed)
                 /\ committed = LogHead
                 /\ lib <= head_block_num

\* Between operations the fork database holds the chain of the state from the
\* irreversible block up, with its links intact, so that the next block can be
\* linked, popped or stored.
ForkDbHoldsChain ==
  pc = "idle" => \A n \in lib..head_block_num :
    LET b == CHOOSE c \in Block : num(c) = n /\ OnBranch(c, state_head)
    IN  b \in fork_db.index /\ (n > lib => b \in fork_db.linked)

\* Every block of the fork database above the irreversible number can be
\* followed down to it, but for what a failed switch leaves behind: it removes the
\* branch it tried, not the other branches on the block that failed.  No hole is
\* in a branch that switch_forks or push_block could follow to the end.
BranchesReachLib ==
  pc = "idle" => \A b \in fork_db.index : num(b) > lib =>
    b \in fork_db.linked \/ (Branch[b] \ {b}) \cap (Invalid \cup FailsLate) # {}

\* migrate_irreversible_state, whose failure closes the node, fails only while the
\* fork database is ahead of the state: after a push that the exception of a
\* cached block cut short.
MigrationSucceeds == interrupted => num(fork_db.head) > head_block_num

\* The fork database always has a head: without one it would take any block.
HeadKnown == fork_db.head # NoBlock

\* The undo stack never grows to HIVE_MAX_UNDO_HISTORY blocks.
UndoBounded == pc = "idle" => head_block_num - num(committed) < HIVE_MAX_UNDO_HISTORY

\* The observers are told of every irreversible block by the end of the
\* operation that made it irreversible.
NotifiedWhenIdle == pc = "idle" /\ crashes = 0 => notified = lib

\* Log, undo stack, irreversible number and state go together.
InStep == TypeOK /\ LogIsStateChain /\ IdleInStep

\* The fork database has what the next operation needs, and nothing fails or is
\* left out in the operations that rest on it.
ForkDbWhole ==
  /\ ForkDbHoldsChain /\ BranchesReachLib /\ HeadKnown
  /\ MigrationSucceeds /\ UndoBounded /\ NotifiedWhenIdle

\* A fork switch that is taken back ends on the head it started from.
RestoredInFull ==
  [][op.kind = "restore" /\ op'.kind # "restore" => num(state_head') = op.original]_vars

\* The irreversible prefix of the state only grows, and no step of the node,
\* crashes and restarts included, leaves it.
Settled == INSTANCE FinalChain WITH Start <- Root, OnChain <- OnBranch,
                                    head <- state_head, final <- committed
IrreversibleStays == Settled!Spec

\* Whatever the blocks and confirms, the writer finishes what it began.
OperationsEnd == pc # "idle" ~> pc = "idle"
===============================================================================
