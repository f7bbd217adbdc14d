---- MODULE BlockWriterProofs ----
(* What a node promises about its chain, for every tree of blocks.            *)
EXTENDS WriterForks

--------------------
(* The rest of the migration: the fork database is trimmed, undo sessions are committed *)

\* The fork database forgets nothing that the state or the operation needs.
LEMMA TrimForkDbKeeps ==
  ASSUME IInv, TrimForkDb
  PROVE  IInv'
<1> DEFINE size == head_block_num - lib + 1
           gone == {b \in Block : get_block_num[b] <= Oldest(size, fork_db)}
<1>1. /\ pc = "append" /\ num(LogHead) >= lib /\ pc' = "commit"
      /\ fork_db' = set_max_size(fork_db, size) /\ op' = op
      /\ state_head' = state_head /\ committed' = committed /\ lib' = lib
      /\ block_log' = block_log /\ notified' = notified /\ approved' = approved
      /\ interrupted' = interrupted /\ crashes' = crashes /\ world' = world
  BY Zenon DEF TrimForkDb, durable
<1>2. /\ fork_db \in ForkDb /\ Tree(fork_db) /\ fork_db.head \in fork_db.index
      /\ fork_db.head \in Block /\ fork_db.head # NoBlock
      /\ op \in Op /\ op.todo \in Seq(Block) /\ state_head \in Block /\ committed \in Block /\ lib \in Nat
      /\ LogHead \in Block /\ LogHead \in Branch[state_head]
      /\ num(fork_db.head) = num(state_head)
  BY ZenonT(40), <1>1, LogHeadType, ForkTreeAssumption DEF IInv, TypeOK, Rooted, LogInv, HeadInv, ForkDb, Op
<1>3. lib <= num(state_head) /\ size \in Nat /\ num(state_head) \in Nat
  <2>1. num(LogHead) <= num(state_head)
    BY SMTT(30), <1>2, BranchBelow
  <2>2. num(LogHead) \in Nat /\ num(state_head) \in Nat
    BY SMTT(30), <1>2, NumType
  <2>3. lib <= num(state_head)
    BY <1>1, <1>2, <2>1, <2>2
  <2> QED BY SMTT(30), <1>2, <2>2, <2>3 DEF head_block_num
<1>4. gone = {b \in Block : num(b) <= lib - 1}
  <2>1. Oldest(size, fork_db) = IF lib = 0 THEN 0 ELSE lib - 1
    BY <1>2, <1>3 DEF Oldest, head_block_num, num
  <2>2. \A b \in Block : num(b) \in Nat \ {0} /\ num(b) = get_block_num[b]
    BY SMTT(30), NumType DEF num
  <2>3. \A b \in Block : get_block_num[b] <= Oldest(size, fork_db) <=> num(b) <= lib - 1
    BY <1>2, <2>1, <2>2
  <2> QED BY SMTT(30), <2>3
<1>5. /\ fork_db'.index = fork_db.index \ gone
      /\ fork_db'.linked = {b \in fork_db.linked \ gone : previous_id[b] \notin gone}
      /\ fork_db'.head = fork_db.head
      /\ fork_db' \in ForkDb
  <2>1. fork_db' = [Erase(fork_db, gone) EXCEPT !.unlinked = @ \ gone, !.max_size = size]
    BY Zenon, <1>1, <1>2 DEF set_max_size
  <2> HIDE DEF gone, size
  <2> QED BY Zenon, <1>2, <1>3, <2>1 DEF Erase, ForkDb
<1> HIDE DEF gone, size
<1>6. Rooted'
  BY SMTT(30), <1>2, <1>3, <1>4, <1>5, NumType DEF Rooted, Tree
<1>7. TypeOK'
  BY Zenon, <1>1, <1>5 DEF IInv, TypeOK, Pc
<1>8. Anchored'
  BY SMTT(30), <1>1 DEF IInv, Anchored
<1>9. Kept'
  <2>1. ASSUME NEW c \in Branch[state_head], num(c) > num(committed), num(c) >= lib
        PROVE  c \in fork_db'.index
    <3>1. c \in fork_db.index
      BY Zenon, <1>1, <2>1 DEF IInv, Kept, Floor
    <3>2. c \in Block /\ num(c) \in Nat
      BY Zenon, <1>2, <3>1, NumType DEF ForkDb
    <3>3. c \notin gone
      BY SMTT(30), <1>2, <1>4, <2>1, <3>2
    <3> QED BY Zenon, <1>5, <3>1, <3>3
  <2>2. \A c \in Branch[state_head] : num(c) \in Nat
    BY Zenon, <1>2, BranchIsLeast, NumType
  <2>3. num(committed) \in Nat /\ state_head' = state_head /\ committed' = committed /\ lib' = lib
    BY Zenon, <1>1, <1>2, NumType
  <2>4. ASSUME NEW c \in Branch[state_head], num(c) > Floor'
        PROVE  num(c) > num(committed) /\ num(c) >= lib
    BY SMTT(30), <1>1, <1>2, <2>2, <2>3, <2>4 DEF Floor
  <2> QED BY Zenon, <2>1, <2>3, <2>4 DEF Kept
<1>10. HeadInv'
  BY Zenon, <1>1, <1>5 DEF IInv, HeadInv, Beside, Storing
<1>11. TodoInv'
  <2>1. op.kind # "none" => \A i \in DOMAIN Tail(op.todo) : Tail(op.todo)[i] \in fork_db'.index
    <3>1. ASSUME op.kind # "none", NEW i \in DOMAIN Tail(op.todo)
          PROVE  Tail(op.todo)[i] \in fork_db'.index
      <4>1. /\ Tail(op.todo)[i] \in fork_db.index /\ op.todo # <<>>
            /\ num(Tail(op.todo)[i]) = num(state_head) + i
        BY Zenon, <1>1, <3>1 DEF IInv, TodoInv, InIndex, ChainOn, Storing
      <4>2. i \in Nat
        BY SMTT(30), <1>2, <3>1, <4>1
      <4>3. Tail(op.todo)[i] \in Block /\ num(Tail(op.todo)[i]) > lib - 1
        <5>1. Tail(op.todo)[i] \in Block
          BY Zenon, <1>2, <4>1 DEF ForkDb
        <5> QED BY SMTT(30), <1>2, <1>3, <4>1, <4>2, <5>1
      <4>4. Tail(op.todo)[i] \notin gone
        BY SMTT(30), <1>2, <1>4, <4>3, NumType
      <4> QED BY Zenon, <1>5, <4>1, <4>4
    <3> QED BY SMTT(30), <3>1
  <2> QED BY <1>1, <2>1 DEF IInv, TodoInv, InIndex, Storing
<1>12. OldInv'
  <2>1. ASSUME op.kind = "switch"
        PROVE  \/ \A i \in DOMAIN op.old : op.old[i] \in fork_db'.index
               \/ \A b \in fork_db'.index : num(b) > op.common
    <3>1. /\ op.target \in Block /\ op.common = num(op.target) /\ ChainOn(op.old, op.target)
          /\ InIndex(op.old) \/ \A c \in fork_db.index : num(c) > op.common
          /\ op.old \in Seq(Block)
      BY Zenon, <1>2, <2>1 DEF IInv, OldInv, Op
    <3>2. CASE \A c \in fork_db.index : num(c) > op.common
      BY Zenon, <1>5, <3>2
    <3>3. CASE InIndex(op.old) /\ \E i \in DOMAIN op.old : op.old[i] \in gone
      <4>1. PICK i \in DOMAIN op.old : op.old[i] \in gone
        BY Zenon, <3>3
      <4>2. num(op.old[i]) = op.common + i /\ i \in Nat /\ op.common \in Nat /\ num(op.old[i]) <= lib - 1
        BY SMTT(30), <1>4, <3>1, <4>1, NumType DEF ChainOn
      <4>3. \A b \in fork_db'.index : b \in Block /\ num(b) \in Nat /\ ~(num(b) <= lib - 1)
        BY Zenon, <1>2, <1>4, <1>5, NumType DEF ForkDb
      <4> QED BY <1>2, <4>2, <4>3
    <3>4. CASE InIndex(op.old) /\ ~ \E i \in DOMAIN op.old : op.old[i] \in gone
      BY Zenon, <1>5, <3>4 DEF InIndex
    <3> QED BY SMTT(30), <3>1, <3>2, <3>3, <3>4
  <2> QED BY SMTT(30), <1>1, <2>1 DEF IInv, OldInv, InIndex
<1>13. LogInv'
  BY <1>1 DEF IInv, LogInv, LogHead
<1> QED BY Zenon, <1>6, <1>7, <1>8, <1>9, <1>10, <1>11, <1>12, <1>13 DEF IInv

\* The block that is settled is the one the log ends in.
LEMMA CommitSettles ==
  ASSUME IInv, Commit
  PROVE  committed' = LogHead /\ committed' \in Block
<1>1. /\ pc = "commit" /\ num(LogHead) >= lib /\ LogHead \in Branch[state_head]
      /\ committed \in Branch[LogHead] /\ (LogHead = committed \/ num(LogHead) <= lib)
      /\ LogHead \in Block /\ state_head \in Block /\ committed \in Block /\ lib \in Nat
  BY Zenon, LogHeadType DEF Commit, IInv, LogInv, TypeOK
<1>2. num(committed) <= num(LogHead) /\ num(committed) \in Nat /\ num(LogHead) \in Nat
  BY Zenon, <1>1, BranchBelow, NumType
<1>3. CASE lib <= num(committed)
  <2>1. committed' = committed
    BY Zenon, <1>3 DEF Commit
  <2>2. LogHead = committed
    <3>1. num(LogHead) <= lib => num(committed) = num(LogHead)
      BY SMTT(30), <1>1, <1>2, <1>3
    <3> QED BY Zenon, <1>1, <3>1, BranchBelow
  <2> QED BY <1>1, <2>1, <2>2
<1>4. CASE ~(lib <= num(committed))
  <2>1. num(LogHead) = lib
    BY <1>1, <1>2, <1>4
  <2>2. committed' = CHOOSE b \in Block : num(b) = lib /\ OnBranch(b, state_head)
    BY <1>4 DEF Commit
  <2>3. committed' \in Block /\ num(committed') = lib /\ committed' \in Branch[state_head]
    BY Zenon, <1>1, <2>1, <2>2 DEF OnBranch
  <2> QED BY Zenon, <1>1, <2>1, <2>3, BranchUnique
<1> QED BY Zenon, <1>3, <1>4

\* database::commit drops the undo sessions up to the irreversible number.
LEMMA CommitKeeps ==
  ASSUME IInv, Commit
  PROVE  IInv'
<1>1. /\ pc = "commit" /\ pc' \in {"notify", "done"}
      /\ op' = [op EXCEPT !.old_lib = IF @ < lib THEN @ + 1 ELSE @]
      /\ fork_db' = fork_db /\ state_head' = state_head /\ lib' = lib
      /\ block_log' = block_log /\ notified' = notified /\ approved' = approved
      /\ interrupted' = interrupted /\ crashes' = crashes /\ world' = world
      /\ lib <= num(committed) => committed' = committed
  BY Zenon DEF Commit
<1>2. /\ committed' = LogHead /\ committed' \in Block /\ LogHead \in Branch[state_head]
      /\ op \in Op /\ lib \in Nat /\ state_head \in Block /\ committed \in Block /\ num(LogHead) >= lib
  BY Zenon, <1>1, CommitSettles DEF IInv, LogInv, TypeOK
<1>3. /\ op' \in Op /\ op'.kind = op.kind /\ op'.todo = op.todo /\ op'.old = op.old
      /\ op'.target = op.target /\ op'.common = op.common
  <2>1. (IF op.old_lib < lib THEN op.old_lib + 1 ELSE op.old_lib) \in Nat
    BY <1>2 DEF Op
  <2> QED BY Zenon, <1>1, <1>2, <2>1, OpOldLib
<1>4. TypeOK'
  BY Zenon, <1>1, <1>2, <1>3 DEF IInv, TypeOK, Pc
<1>5. Anchored' /\ Rooted'
  BY <1>1, <1>2 DEF IInv, Anchored, Rooted
<1>6. Kept'
  <2>1. \A c \in Branch[state_head] : num(c) > (IF lib > num(committed) THEN lib ELSE num(committed))
                                         => c \in fork_db.index
    BY <1>1 DEF IInv, Kept, Floor
  <2>2. \A c \in Branch[state_head] : num(c) > num(committed') => c \in fork_db.index
    <3>1. num(committed') >= lib /\ \A c \in Branch[state_head] : c \in Block
      BY Zenon, <1>2, BranchIsLeast
    <3> QED BY SMTT(30), <1>1, <1>2, <2>1, <3>1, NumType
  <2> QED BY Zenon, <1>1, <2>2 DEF Kept, Floor
<1>7. HeadInv'
  <2>1. state_head = committed => committed' = committed
    <3>1. num(LogHead) <= num(state_head)
      BY Zenon, <1>2, BranchBelow
    <3> QED BY SMTT(30), <1>1, <1>2, <3>1, NumType
  <2> QED BY Zenon, <1>1, <1>3, <2>1 DEF IInv, HeadInv, Beside, Storing
<1>8. TodoInv' /\ OldInv'
  BY <1>1, <1>3 DEF IInv, TodoInv, OldInv, InIndex, Storing
<1>9. LogInv'
  <2>1. LogHead' = LogHead
    BY Zenon, <1>1 DEF LogHead
  <2>2. committed' \in Branch[LogHead']
    BY Zenon, <1>2, <2>1, BranchIsLeast
  <2> QED BY Zenon, <1>1, <1>2, <2>1, <2>2 DEF IInv, LogInv
<1> QED BY Zenon, <1>4, <1>5, <1>6, <1>7, <1>8, <1>9 DEF IInv

\* Telling the observers changes neither chain nor log.
LEMMA NotifyKeeps ==
  ASSUME IInv, NotifyIrreversibleBlock
  PROVE  IInv'
<1>1. /\ pc = "notify" /\ pc' \in {"notify", "done"} /\ notified' = op.old_lib
      /\ op' = op \/ op' = [op EXCEPT !.old_lib = @ + 1]
      /\ fork_db' = fork_db /\ state_head' = state_head /\ committed' = committed /\ lib' = lib
      /\ block_log' = block_log /\ approved' = approved
      /\ interrupted' = interrupted /\ crashes' = crashes /\ world' = world
  BY DEF NotifyIrreversibleBlock
<1>2. /\ op' \in Op /\ op'.kind = op.kind /\ op'.todo = op.todo /\ op'.old = op.old
      /\ op'.target = op.target /\ op'.common = op.common /\ notified' \in Nat
  <2>1. op \in Op /\ op.old_lib \in Nat /\ op.old_lib + 1 \in Nat
    BY DEF IInv, TypeOK, Op
  <2>2. CASE op' = op
    BY <1>1, <2>1, <2>2
  <2>3. CASE op' = [op EXCEPT !.old_lib = op.old_lib + 1]
    BY <1>1, <2>1, <2>3, OpOldLib
  <2> QED BY Zenon, <1>1, <2>2, <2>3
<1>3. TypeOK'
  BY Zenon, <1>1, <1>2 DEF IInv, TypeOK, Pc
<1>4. Anchored' /\ Rooted' /\ Kept' /\ LogInv'
  BY Zenon, <1>1, KeptStays, LogStays DEF IInv, Anchored, Rooted
<1>5. HeadInv' /\ TodoInv' /\ OldInv'
  BY <1>1, <1>2 DEF IInv, HeadInv, Beside, TodoInv, OldInv, InIndex, Storing
<1> QED BY Zenon, <1>3, <1>4, <1>5 DEF IInv

\* The end of one block of an operation: the next block, or out of it.
LEMMA BlockDoneKeeps ==
  ASSUME IInv, BlockDone
  PROVE  IInv'
<1> DEFINE rest == IF op.kind = "none" THEN <<>> ELSE Tail(op.todo)
           n == Min2(op.candidate, head_block_num)
<1>1. /\ pc = "done" /\ fork_db' = fork_db /\ state_head' = state_head /\ committed' = committed
      /\ block_log' = block_log /\ notified' = notified
      /\ interrupted' = interrupted /\ crashes' = crashes /\ world' = world
  BY Zenon DEF BlockDone
<1>2. /\ op \in Op /\ lib \in Nat /\ approved \in [Witness -> Block \cup {NoBlock}]
      /\ state_head \in Block /\ n \in Nat
  BY Zenon, NumType DEF IInv, TypeOK, Op, Min2, head_block_num
<1>3. Anchored' /\ Rooted' /\ Beside'
  BY <1>1 DEF IInv, Anchored, Rooted, HeadInv, Beside, Storing
<1>4. CASE rest # <<>>
  <2>1. pc' = "apply" /\ op' = [op EXCEPT !.todo = rest] /\ lib' = lib /\ approved' = approved
    BY <1>4 DEF BlockDone
  <2>2. op.kind # "none" /\ rest = Tail(op.todo)
    BY Zenon, <1>4
  <2>3. /\ op.todo \in Seq(Block) /\ op.todo # <<>> /\ ChainOn(Tail(op.todo), state_head)
        /\ InIndex(Tail(op.todo))
    BY Zenon, <1>1, <1>2, <2>2 DEF IInv, TodoInv, Storing, Op
  <2>4. /\ op' \in Op /\ op'.kind = op.kind /\ op'.todo = Tail(op.todo) /\ op'.old = op.old
        /\ op'.target = op.target /\ op'.common = op.common
    <3>1. Tail(op.todo) \in Seq(Block)
      BY <2>3
    <3>2. op' = [op EXCEPT !.todo = Tail(op.todo)]
      BY Zenon, <2>1, <2>2
    <3> HIDE DEF rest
    <3> QED BY ZenonT(40), <1>2, <3>1, <3>2, OpTodo
  <2>5. TypeOK'
    BY Zenon, <1>1, <2>1, <2>4 DEF IInv, TypeOK, Pc
  <2>6. Kept' /\ LogInv'
    BY Zenon, <1>1, <2>1, KeptStays, LogStays DEF IInv
  <2>7. HeadInv' /\ TodoInv'
    BY Zenon, <1>1, <1>4, <2>1, <2>2, <2>3, <2>4 DEF HeadInv, TodoInv, InIndex, Storing
  <2>8. \A j \in DOMAIN Tail(op.todo) : j + 1 \in DOMAIN op.todo /\ Tail(op.todo)[j] = op.todo[j + 1]
    BY <2>3
  <2>9. OldInv'
    BY <1>1, <2>1, <2>4, <2>8 DEF IInv, OldInv, InIndex
  <2> QED BY Zenon, <1>3, <2>5, <2>6, <2>7, <2>9 DEF IInv
<1>5. CASE rest = <<>>
  <2>1. /\ pc' \in {"idle", "store"} /\ op' \in Op /\ op'.kind = "none"
        /\ lib' \in Nat /\ approved' \in [Witness -> Block \cup {NoBlock}]
    <3>1. CASE op.kind = "restore"
      BY Zenon, <1>2, <1>5, <3>1, ThrowLeaves DEF BlockDone
    <3>2. CASE op.kind # "restore" /\ op.kind = "switch" /\ op.confirm /\ n >= lib
      <4>1. /\ lib' = n /\ approved' = KeepRelevant(approved, n)
            /\ pc' = "store" /\ op' = [NoOp EXCEPT !.old_lib = op.confirm_lib]
        BY <1>5, <3>2 DEF BlockDone
      <4> QED BY Zenon, <1>2, <4>1, NoOpType, KeepRelevantType DEF Op, NoOp
    <3>3. CASE op.kind # "restore" /\ ~(op.kind = "switch" /\ op.confirm /\ n >= lib)
      <4>1. pc' = "idle" /\ op' = NoOp /\ lib' = lib /\ approved' = approved
        BY <1>5, <3>3 DEF BlockDone
      <4> QED BY <1>2, <4>1, NoOpType
    <3> QED BY Zenon, <3>1, <3>2, <3>3
  <2>2. TypeOK'
    BY SMTT(30), <1>1, <2>1 DEF IInv, TypeOK, Pc
  <2>3. Kept' /\ LogInv'
    BY SMTT(30), <1>1, <2>1, KeptStays, LogStays DEF IInv
  <2>4. HeadInv' /\ TodoInv' /\ OldInv'
    BY Zenon, <1>3, <2>1, OpLeft
  <2> QED BY Zenon, <1>3, <2>2, <2>3, <2>4 DEF IInv
<1> QED BY <1>4, <1>5

--------------------
(* Fast confirmation *)

\* A fast confirm may switch forks or migrate at once.
LEMMA FastConfirmKeeps ==
  ASSUME IInv, NEW w \in Witness, NEW b \in Block, FastConfirm(w, b)
  PROVE  IInv'
<1> DEFINE votes == [approved EXCEPT ![w] = b]
           migrate == pc' = "store" /\ op' = [NoOp EXCEPT !.old_lib = lib]
           early == head_block_num < HIVE_START_MINER_VOTING_BLOCK \/ lib = head_block_num
<1>1. /\ pc = "idle" /\ fork_db' = fork_db /\ state_head' = state_head /\ committed' = committed
      /\ block_log' = block_log /\ notified' = notified
      /\ interrupted' = interrupted /\ crashes' = crashes /\ world' = world
  BY ZenonT(40) DEF FastConfirm
<1>2. /\ TypeOK /\ Rooted /\ Beside /\ fork_db \in ForkDb /\ lib \in Nat /\ state_head \in Block
      /\ head_block_num \in Nat /\ HIVE_MAX_WITNESSES \in Nat
      /\ votes \in [Witness -> Block \cup {NoBlock}]
  BY Zenon, <1>1, WriterTypes, NumType DEF IInv, HeadInv, TypeOK, head_block_num
<1> HIDE DEF votes
<1>3. Beside' /\ Anchored' /\ Rooted'
  BY <1>1, <1>2 DEF IInv, Beside, Anchored, Rooted
<1>4. migrate => /\ op' \in Op /\ pc' \in {"idle", "store", "pop", "apply", "down"}
                 /\ HeadInv' /\ TodoInv' /\ OldInv'
  <2>1. ASSUME migrate PROVE op' \in Op /\ op'.kind = "none" /\ pc' = "store"
    BY Zenon, <1>2, <2>1, NoOpType DEF Op, NoOp
  <2> QED BY Zenon, <1>3, <2>1, OpLeft
<1>5. /\ op' \in Op /\ pc' \in {"idle", "store", "pop", "apply", "down"}
      /\ HeadInv' /\ TodoInv' /\ OldInv'
      /\ lib' \in Nat /\ approved' \in [Witness -> Block \cup {NoBlock}]
  <2>1. CASE early
    <3>1. /\ migrate /\ approved' = votes
          /\ lib' = IF /\ head_block_num < HIVE_START_MINER_VOTING_BLOCK
                       /\ head_block_num > HIVE_MAX_WITNESSES + lib
                    THEN head_block_num - HIVE_MAX_WITNESSES ELSE lib
      BY Zenon, <2>1 DEF FastConfirm, votes
    <3>2. lib' \in Nat
      BY <1>2, <3>1
    <3> QED BY <1>2, <1>4, <3>1, <3>2
  <2>2. CASE ~early
    <3>1. PICK found \in find_new_last_irreversible_block(fork_db, Schedule[state_head], votes, lib) :
            IF found.block \notin fork_db.index THEN migrate /\ approved' = votes /\ lib' = lib
            ELSE IF ~found_on_another_fork(fork_db, found)
            THEN LET n == Min2(num(found.block), head_block_num)
                 IN  migrate /\ lib' = n /\ approved' = KeepRelevant(votes, n)
            ELSE /\ approved' = votes /\ lib' = lib
                 /\ IF num(found.head) < head_block_num THEN migrate
                    ELSE switch_forks(found.head,
                           [NoOp EXCEPT !.confirm = TRUE, !.confirm_lib = lib,
                                        !.candidate = num(found.block)])
      BY ZenonT(40), <2>2 DEF FastConfirm, votes
    <3> HIDE DEF migrate
    <3>2. CASE migrate /\ approved' = votes /\ lib' = lib
      BY Zenon, <1>2, <1>4, <3>2
    <3>3. CASE /\ found.block \in fork_db.index
               /\ LET n == Min2(num(found.block), head_block_num)
                  IN  migrate /\ lib' = n /\ approved' = KeepRelevant(votes, n)
      <4>1. found.block \in Block
        BY Zenon, <1>2, <3>3 DEF ForkDb
      <4>2. Min2(num(found.block), head_block_num) \in Nat
        BY Zenon, <1>2, <4>1, NumType DEF Min2
      <4> QED BY Zenon, <1>2, <1>4, <3>3, <4>2, KeepRelevantType
    <3>4. CASE /\ found.block \in fork_db.index /\ approved' = votes /\ lib' = lib
               /\ switch_forks(found.head,
                    [NoOp EXCEPT !.confirm = TRUE, !.confirm_lib = lib, !.candidate = num(found.block)])
      <4> DEFINE locals == [NoOp EXCEPT !.confirm = TRUE, !.confirm_lib = lib, !.candidate = num(found.block)]
      <4>1. found.block \in Block /\ num(found.block) \in Nat
        BY Zenon, <1>2, <3>4, NumType DEF ForkDb
      <4>2. locals \in Op /\ locals.kind = "none"
        BY ZenonT(40), <1>2, <4>1, NoOpType DEF Op, NoOp
      <4>3. switch_forks(found.head, locals)
        BY Zenon, <3>4
      <4> HIDE DEF locals
      <4> QED BY Zenon, <1>1, <1>2, <3>4, <4>2, <4>3, SwitchForksKeeps
    <3> QED BY Zenon, <3>1, <3>2, <3>3, <3>4
  <2> QED BY SMTT(30), <2>1, <2>2
<1>6. TypeOK'
  BY Zenon, <1>1, <1>5 DEF IInv, TypeOK, Pc
<1>7. Kept' /\ LogInv'
  BY Zenon, <1>1, <1>5, KeptStays, LogStays DEF IInv
<1> QED BY Zenon, <1>3, <1>5, <1>6, <1>7 DEF IInv

--------------------
(* The theorems *)

\* A node starts in the invariant.
LEMMA InitHolds ==
  ASSUME Init
  PROVE  IInv
<1>1. /\ fork_db = start_block(Root, MaxForkDbSize) /\ Root \in Block
      /\ state_head = Root /\ committed = Root /\ lib = num(Root) /\ block_log = <<Root>>
      /\ approved = NoVotes /\ notified = num(Root)
      /\ pc = "idle" /\ op = NoOp /\ interrupted = FALSE /\ crashes = 0 /\ world \in Worlds
  BY Zenon, WriterTypes DEF Init
<1>2. fork_db \in ForkDb /\ Tree(fork_db) /\ fork_db.head = Root /\ fork_db.index = {Root}
  BY Zenon, <1>1, Started
<1>3. TypeOK
  <2>1. num(Root) \in Nat /\ world.kills \in Nat
    BY Zenon, <1>1, NumType, WriterTypes
  <2>4. block_log \in Seq(Block)
    BY <1>1
  <2>2. approved \in [Witness -> Block \cup {NoBlock}]
    BY <1>1 DEF NoVotes
  <2>3. 0 \in 0..world.kills
    BY <2>1
  <2> QED BY ZenonT(40), <1>1, <1>2, <2>1, <2>2, <2>3, <2>4, NoOpType DEF TypeOK, Pc
<1>4. LogHead = Root
  BY Zenon, <1>1 DEF LogHead
<1>5. Root \in Branch[Root] /\ \A c \in Branch[Root] : c \in Block /\ num(c) <= num(Root)
  BY Zenon, <1>1, BranchIsLeast, BranchBelow
<1>6. Anchored /\ Rooted /\ Beside
  BY Zenon, <1>1, <1>2, <1>5 DEF Anchored, Rooted, Beside
<1>7. Kept
  <2>1. \A c \in Branch[Root] : ~(num(c) > num(Root))
    BY SMTT(30), <1>1, <1>5, NumType
  <2> QED BY Zenon, <1>1, <2>1 DEF Kept, Floor
<1>8. HeadInv /\ TodoInv /\ OldInv
  BY Zenon, <1>1, <1>6, NoOpType DEF HeadInv, TodoInv, OldInv, Storing
<1>9. LogInv
  BY <1>1, <1>4, <1>5, SMTT(30) DEF LogInv
<1> QED BY Zenon, <1>3, <1>6, <1>7, <1>8, <1>9 DEF IInv

\* The invariant is inductive as long as the fork database keeps a head.
LEMMA NextKeeps ==
  ASSUME IInv, HeadKnown', [Next]_vars
  PROVE  IInv'
<1>1. ASSUME NEW b \in world.blocks, PushUnlinkable(b) PROVE IInv'
  BY Zenon, <1>1, PushUnlinkableKeeps
<1>2. ASSUME NEW b \in world.blocks, PushBlock(b) PROVE IInv'
  BY <1>2, PushBlockKeeps
<1>3. ASSUME NEW c \in Confirm, FastConfirm(c[1], c[2]) PROVE IInv'
  <2>1. c[1] \in Witness /\ c[2] \in Block
    BY WriterAssumption
  <2> QED BY Zenon, <1>3, <2>1, FastConfirmKeeps
<1>4. CASE Crash
  <2>1. Stop /\ crashes' \in 0..world.kills
    BY SMTT(30), <1>4, WriterTypes DEF Crash, IInv, TypeOK
  <2> QED BY Zenon, <2>1, StopKeeps
<1>5. CASE Shutdown
  <2>1. Stop /\ crashes' \in 0..world.kills
    BY Zenon, <1>5 DEF Shutdown, IInv, TypeOK
  <2> QED BY <2>1, StopKeeps
<1>6. CASE Writer /\ ~Shutdown
  BY ZenonT(40), <1>6, PushNextKeeps, PushLinkedKeeps, PopBlockKeeps, PopDoneKeeps, ApplyBlockKeeps,
     FailedApplyKeeps, StoreBlockKeeps, AppendBlockKeeps, TrimForkDbKeeps, CommitKeeps,
     NotifyKeeps, BlockDoneKeeps, OpenKeeps, ForceReplayKeeps DEF Writer
<1>7. CASE UNCHANGED vars
  BY Zenon, <1>7, StutterKeeps
<1> QED BY Zenon, <1>1, <1>2, <1>3, <1>4, <1>5, <1>6, <1>7 DEF Next, Writer

\* The chain of the log is the chain of the state.
LEMMA InvGives ==
  ASSUME IInv
  PROVE  TypeOK /\ LogIsStateChain
<1>1. /\ TypeOK /\ committed \in Branch[LogHead] /\ block_log[1] = Root
      /\ \A i \in 1..(Len(block_log) - 1) : previous_id[block_log[i + 1]] = block_log[i]
      /\ pc = "idle" => LogHead = committed /\ committed \in Branch[state_head]
  BY SMTT(30) DEF IInv, LogInv, Anchored
<1> QED BY Zenon, <1>1 DEF LogIsStateChain, OnBranch

\* Every step of the node moves its head above what is settled, or settles more.
LEMMA StepSettles ==
  ASSUME IInv, IInv', [Next]_vars
  PROVE  Settled!Next \/ UNCHANGED <<state_head, committed>>
<1>1. committed' \in Branch[state_head']
  BY DEF IInv, Anchored
<1>2. CASE committed' = committed
  BY Zenon, <1>1, <1>2 DEF Settled!Next, Settled!Move, OnBranch
<1>3. CASE committed' # committed
  <2>1. Commit \/ ForceReplay
    BY ZenonT(40), <1>3 DEF Next, Writer, vars, durable, PushUnlinkable, PushBlock, FastConfirm, PushNext,
       PushLinked, PopBlock, PopDone, ApplyBlock, FailedApply, StoreBlock, AppendBlock, TrimForkDb,
       NotifyIrreversibleBlock, BlockDone, Shutdown, Stop, Crash, Open
  <2>2. committed \in Branch[LogHead] /\ committed' = LogHead
    BY Zenon, <2>1, CommitSettles DEF IInv, LogInv, ForceReplay
  <2> QED BY Zenon, <1>1, <1>3, <2>2 DEF Settled!Next, Settled!Settle, OnBranch
<1> QED BY Zenon, <1>2, <1>3

--------------------
(* The irreversible number *)

\* The number is never below the settled block, and it is that block's outside of
\* a migration unless an exception left it ahead.
LibInv ==
  /\ num(committed) <= lib
  /\ FailsLate = {} /\ ~interrupted /\ pc \notin {"store", "append", "commit", "down", "refused"} =>
       lib = num(committed)

\* find_new_last_irreversible_block returns nothing at or below the number it
\* is given.
LEMMA FoundAbove ==
  ASSUME NEW f, NEW sched, NEW votes, NEW n,
         NEW found \in find_new_last_irreversible_block(f, sched, votes, n), found.block # NoBlock
  PROVE  num(found.block) > n
BY Zenon DEF find_new_last_irreversible_block

\* update_last_irreversible_block does not go below a number that both the old
\* one and the head are above.
LEMMA UpdateLibAbove ==
  ASSUME TypeOK, NEW b \in Block, NEW sched, NEW u \in UpdateLib(b, sched),
         NEW n \in Nat, n <= lib, n <= num(b)
  PROVE  n <= u[1]
<1>1. lib \in Nat /\ HIVE_MAX_WITNESSES \in Nat /\ num(b) \in Nat
  BY Zenon, WriterTypes, NumType DEF TypeOK
<1>2. CASE num(b) < HIVE_START_MINER_VOTING_BLOCK
  <2>1. u = <<IF num(b) > HIVE_MAX_WITNESSES + lib THEN num(b) - HIVE_MAX_WITNESSES ELSE lib, approved>>
    BY <1>2 DEF UpdateLib
  <2> QED BY SMTT(30), <1>1, <2>1
<1>3. CASE ~(num(b) < HIVE_START_MINER_VOTING_BLOCK) /\ lib = num(b)
  <2>1. u = <<lib, approved>>
    BY Zenon, <1>3 DEF UpdateLib
  <2> QED BY Zenon, <2>1
<1>4. CASE ~(num(b) < HIVE_START_MINER_VOTING_BLOCK) /\ lib # num(b)
  <2>1. PICK found \in find_new_last_irreversible_block(fork_db, sched, approved, lib) :
          u = IF found.block = NoBlock \/ found_on_another_fork(set_head(fork_db, b), found)
              THEN <<lib, approved>>
              ELSE <<Min2(num(found.block), num(b)), KeepRelevant(approved, Min2(num(found.block), num(b)))>>
    BY Zenon, <1>4 DEF UpdateLib
  <2>2. CASE found.block = NoBlock \/ found_on_another_fork(set_head(fork_db, b), found)
    BY Zenon, <2>1, <2>2
  <2>3. CASE ~(found.block = NoBlock \/ found_on_another_fork(set_head(fork_db, b), found))
    <3>1. set_head(fork_db, b) \in ForkDb
      BY Zenon DEF TypeOK, set_head, ForkDb
    <3>2. found.block \in Block
      BY Zenon, <2>3, <3>1, FetchType DEF found_on_another_fork
    <3>3. num(found.block) > lib /\ num(found.block) \in Nat
      BY Zenon, <2>3, <3>2, FoundAbove, NumType
    <3>4. n <= Min2(num(found.block), num(b))
      BY SMTT(30), <1>1, <3>3 DEF Min2
    <3> QED BY Zenon, <2>1, <2>3, <3>4
  <2> QED BY Zenon, <2>2, <2>3
<1> QED BY Zenon, <1>2, <1>3, <1>4

\* The settled block is not above the state.
LEMMA SettledBelow ==
  ASSUME IInv
  PROVE  /\ num(committed) \in Nat /\ head_block_num \in Nat /\ lib \in Nat
         /\ num(committed) <= head_block_num
<1>1. committed \in Block /\ state_head \in Block /\ lib \in Nat /\ committed \in Branch[state_head]
  BY DEF IInv, TypeOK, Anchored
<1> QED BY Zenon, <1>1, BranchBelow, NumType DEF head_block_num

\* ApplyBlock does not take the irreversible number below the settled block.
LEMMA ApplyBlockLib ==
  ASSUME IInv, LibInv, ApplyBlock
  PROVE  LibInv'
<1> DEFINE b == Head(op.todo)
<1>1. /\ pc = "apply" /\ committed' = committed /\ interrupted' = interrupted /\ world' = world
      /\ FailsLate' = FailsLate
  BY Zenon DEF ApplyBlock, FailsLate
<1>2. b \in Block /\ num(b) = head_block_num + 1 /\ TypeOK
  <2>1. op.todo \in Seq(Block) /\ op.todo # <<>> /\ ChainOn(op.todo, state_head) /\ state_head \in Block
    BY Zenon, <1>1 DEF IInv, TodoInv, TypeOK, Op
  <2>2. b = op.todo[1] /\ b \in Block /\ 1 \in DOMAIN op.todo
    BY SMTT(30), <2>1
  <2>3. previous_id[b] = state_head
    BY Zenon, <2>1, <2>2 DEF ChainOn
  <2>4. num(b) = num(state_head) + 1
    BY Zenon, <2>1, <2>2, <2>3, ParentBelow, ForkTreeAssumption
  <2> QED BY Zenon, <2>2, <2>4 DEF IInv, head_block_num
<1> HIDE DEF b
<1>3. CASE pc' = "failed" /\ lib' = lib
  BY Zenon, <1>1, <1>3 DEF LibInv
<1>4. CASE \E u \in UpdateLib(b, Schedule[state_head]) : lib' = u[1]
  <2>1. num(committed) <= num(b) /\ num(committed) \in Nat /\ num(committed) <= lib
    BY SMTT(30), <1>2, SettledBelow DEF LibInv
  <2>2. num(committed) <= lib'
    BY Zenon, <1>2, <1>4, <2>1, UpdateLibAbove
  <2>3. pc' = "store" \/ b \in FailsLate \/ (pc' = "failed" /\ lib' = lib)
    BY DEF ApplyBlock, b
  <2> QED BY Zenon, <1>1, <1>3, <2>2, <2>3 DEF LibInv
<1> QED BY Zenon, <1>3, <1>4 DEF ApplyBlock, b

\* A fast confirm does not either.
LEMMA FastConfirmLib ==
  ASSUME IInv, LibInv, NEW w \in Witness, NEW b \in Block, FastConfirm(w, b)
  PROVE  LibInv'
<1> DEFINE votes == [approved EXCEPT ![w] = b]
           early == head_block_num < HIVE_START_MINER_VOTING_BLOCK \/ lib = head_block_num
<1>1. /\ pc = "idle" /\ committed' = committed /\ interrupted' = interrupted /\ FailsLate' = FailsLate
      /\ fork_db \in ForkDb /\ HIVE_MAX_WITNESSES \in Nat
  BY ZenonT(40), WriterTypes DEF FastConfirm, FailsLate, IInv, TypeOK
<1>2. /\ num(committed) \in Nat /\ head_block_num \in Nat /\ lib \in Nat
      /\ num(committed) <= head_block_num /\ num(committed) <= lib
  BY Zenon, SettledBelow DEF LibInv
<1> HIDE DEF votes
<1>3. CASE early
  <2>1. /\ pc' = "store"
        /\ lib' = IF /\ head_block_num < HIVE_START_MINER_VOTING_BLOCK
                     /\ head_block_num > HIVE_MAX_WITNESSES + lib
                  THEN head_block_num - HIVE_MAX_WITNESSES ELSE lib
    BY ZenonT(40), <1>3 DEF FastConfirm
  <2>2. num(committed) <= lib'
    BY SMTT(30), <1>1, <1>2, <2>1
  <2> QED BY Zenon, <1>1, <2>1, <2>2 DEF LibInv
<1>4. CASE ~early
  <2>1. PICK found \in find_new_last_irreversible_block(fork_db, Schedule[state_head], votes, lib) :
          \/ lib' = lib
          \/ /\ found.block \in fork_db.index /\ pc' = "store"
             /\ lib' = Min2(num(found.block), head_block_num)
    BY ZenonT(40), <1>4 DEF FastConfirm, votes
  <2>2. CASE lib' = lib
    BY Zenon, <1>1, <2>2 DEF LibInv
  <2>3. CASE found.block \in fork_db.index /\ pc' = "store" /\ lib' = Min2(num(found.block), head_block_num)
    <3>1. found.block \in Block /\ found.block # NoBlock
      BY Zenon, <1>1, <2>3, ForkTreeAssumption DEF ForkDb
    <3>2. num(found.block) > lib /\ num(found.block) \in Nat
      BY Zenon, <3>1, FoundAbove, NumType
    <3>3. num(committed) <= lib'
      <4>1. lib' = num(found.block) \/ lib' = head_block_num
        BY Zenon, <2>3 DEF Min2
      <4>2. num(committed) <= num(found.block)
        BY SMTT(30), <1>2, <3>2
      <4> QED BY Zenon, <1>2, <4>1, <4>2
    <3> QED BY Zenon, <1>1, <2>3, <3>3 DEF LibInv
  <2> QED BY Zenon, <2>1, <2>2, <2>3
<1> QED BY <1>3, <1>4

\* No step takes the irreversible number below the settled block or leaves it
\* ahead unnoticed.
LEMMA NextKeepsLib ==
  ASSUME IInv, IInv', LibInv, [Next]_vars
  PROVE  LibInv'
<1>1. ASSUME NEW c \in Confirm, FastConfirm(c[1], c[2]) PROVE LibInv'
  <2>1. c[1] \in Witness /\ c[2] \in Block
    BY WriterAssumption
  <2> QED BY Zenon, <1>1, <2>1, FastConfirmLib
<1>2. CASE ApplyBlock
  BY Zenon, <1>2, ApplyBlockLib
<1>3. CASE Commit
  <2>1. /\ lib' = lib /\ committed' = LogHead /\ num(LogHead) >= lib /\ LogHead \in Block
        /\ committed \in Block
        /\ committed' = committed \/ (committed' \in Block /\ num(committed') = lib)
    <3>1. committed' = LogHead /\ committed' \in Block /\ pc = "commit" /\ lib' = lib
      BY Zenon, <1>3, CommitSettles DEF Commit
    <3>2. num(LogHead) >= lib /\ (LogHead = committed \/ num(LogHead) <= lib) /\ lib \in Nat
      BY Zenon, <3>1 DEF IInv, LogInv, TypeOK
    <3> QED BY <3>1, <3>2, NumType DEF IInv, TypeOK
  <2>2. num(committed') = lib
    BY SMTT(30), <2>1, SettledBelow, NumType DEF LibInv
  <2> QED BY Zenon, <2>1, <2>2, SettledBelow DEF LibInv
<1>4. CASE BlockDone
  <2>1. /\ pc = "done" /\ committed' = committed /\ interrupted' = interrupted /\ FailsLate' = FailsLate
        /\ lib' = lib \/ (pc' = "store" /\ lib' >= lib)
    BY Zenon, <1>4 DEF BlockDone, FailsLate, Throw
  <2>2. lib' \in Nat /\ lib \in Nat /\ num(committed) \in Nat
    BY Zenon, SettledBelow DEF IInv, TypeOK
  <2> QED BY <2>1, <2>2 DEF LibInv
<1>5. CASE StoreBlock
  <2>1. /\ lib' = lib /\ committed' = committed
        /\ pc' = "append" \/ interrupted'
    BY Zenon, <1>5 DEF StoreBlock
  <2> QED BY Zenon, <2>1 DEF LibInv
<1>6. CASE Open
  <2>1. /\ lib' = lib /\ committed' = committed
        /\ pc' = "refused" \/ num(committed) >= lib
    BY Zenon, <1>6 DEF Open
  <2> QED BY SMTT(30), <2>1, SettledBelow DEF LibInv
<1>7. CASE ForceReplay
  <2>1. lib' = num(committed') /\ num(committed') \in Nat
    BY Zenon, <1>7, SettledBelow DEF ForceReplay, IInv, TypeOK
  <2> QED BY SMTT(30), <2>1 DEF LibInv
<1>8. CASE AppendBlock \/ TrimForkDb
  <2>1. lib' = lib /\ committed' = committed /\ pc' \in {"append", "commit"}
    BY Zenon, <1>8 DEF AppendBlock, TrimForkDb, durable
  <2> QED BY Zenon, <2>1 DEF LibInv
<1>9. CASE Crash \/ Shutdown
  <2>1. lib' = lib /\ committed' = committed /\ pc' = "down"
    BY Zenon, <1>9 DEF Crash, Shutdown, Stop, durable
  <2> QED BY Zenon, <2>1 DEF LibInv
<1>10. ASSUME \/ \E b \in world.blocks : PushUnlinkable(b) \/ PushBlock(b)
              \/ PushNext \/ PushLinked \/ PopBlock \/ PopDone \/ FailedApply
              \/ NotifyIrreversibleBlock \/ UNCHANGED vars
       PROVE  LibInv'
  <2>1. /\ lib' = lib /\ committed' = committed /\ interrupted' = interrupted /\ FailsLate' = FailsLate
        /\ pc \notin {"store", "append", "commit", "down", "refused"} \/ pc' = pc
    BY Zenon, <1>10 DEF PushUnlinkable, PushBlock, PushNext, PushLinked, PopBlock, PopDone, FailedApply,
       NotifyIrreversibleBlock, vars, durable, FailsLate
  <2> QED BY Zenon, <2>1 DEF LibInv
<1> QED BY Zenon, <1>1, <1>2, <1>3, <1>4, <1>5, <1>6, <1>7, <1>8, <1>9, <1>10 DEF Next, Writer

\* As long as the fork database keeps a head, the block log is one chain from the
\* root that the state never leaves, whatever blocks, confirms, failures and crashes
\* come in whatever order; and between operations irreversible number, undo stack,
\* log and state agree, unless a migration failed or a block fails late.
THEOREM LogFollowsState ==
  Spec /\ []HeadKnown => []InStep
<1>1. Init => IInv /\ LibInv
  <2>1. Init => LibInv
    BY WriterTypes, NumType DEF Init, LibInv
  <2> QED BY Zenon, <2>1, InitHolds
<1>2. IInv /\ LibInv /\ HeadKnown' /\ [Next]_vars => IInv' /\ LibInv'
  BY Zenon, NextKeeps, NextKeepsLib
<1>3. IInv /\ LibInv => InStep
  <2>1. ASSUME IInv, LibInv, pc = "idle", ~interrupted, FailsLate = {}
        PROVE  lib = num(committed) /\ committed = LogHead /\ lib <= head_block_num
    <3>1. lib = num(committed) /\ committed = LogHead
      BY <2>1 DEF LibInv, IInv, LogInv
    <3> QED BY Zenon, <2>1, <3>1, SettledBelow
  <2> QED BY Zenon, <2>1, InvGives DEF InStep, IdleInStep
<1> QED BY <1>1, <1>2, <1>3, PTL DEF Spec

\* As long as the fork database keeps a head, the node implements FinalChain: what
\* is committed stays on the chain of the state through forks, failures, crashes,
\* restarts and replays, and only ever grows.
THEOREM SettledStays ==
  Spec /\ []HeadKnown => IrreversibleStays
<1>1. Init => IInv
  BY Zenon, InitHolds
<1>2. IInv /\ HeadKnown' /\ [Next]_vars => IInv'
  BY Zenon, NextKeeps
<1>3. Init => Settled!Init
  BY DEF Init, Settled!Init
<1>4. IInv /\ IInv' /\ [Next]_vars => [Settled!Next]_<<state_head, committed>>
  BY StepSettles
<1> QED BY <1>1, <1>2, <1>3, <1>4, PTL DEF Spec, IrreversibleStays, Settled!Spec
====
