---- MODULE WriterForks ----
(* The steps that change the fork: pushing, switching, popping and applying   *)
(* blocks keep the invariant.                                                  *)
EXTENDS WriterInvariant

--------------------
(* Pushing a block *)

\* _push_block adds one block whose parent is there, and the head does not get
\* lower.
LEMMA Inserted ==
  ASSUME NEW f \in ForkDb, Tree(f), f.head \in f.index, NEW b \in Block, ~Unlinkable(f, b)
  PROVE  /\ Insert(f, b) \in ForkDb /\ Tree(Insert(f, b))
         /\ Insert(f, b).index = f.index \cup {b}
         /\ Insert(f, b).head \in Insert(f, b).index
         /\ Insert(f, b).head = f.head \/ num(Insert(f, b).head) > num(f.head)
         /\ previous_id[b] \in f.index
<1>1. f.head # NoBlock /\ f.head \in Block
  BY ForkTreeAssumption DEF ForkDb
<1>2. previous_id[b] \in f.index
  BY <1>1 DEF Unlinkable
<1> QED BY Zenon, <1>1, <1>2 DEF Insert, ForkDb, Tree, num

\* An insertion leaves the head of the fork database at the state or above it.
LEMMA BesideInsert ==
  ASSUME Beside, fork_db.head \in Block, state_head \in Block, fork_db'.head \in Block,
         state_head' = state_head, committed' = committed,
         fork_db'.head = fork_db.head \/ num(fork_db'.head) > num(fork_db.head)
  PROVE  Beside'
BY NumType DEF Beside

\* A block that does not link goes to the cache of unlinked blocks.
LEMMA PushUnlinkableKeeps ==
  ASSUME IInv, NEW b \in world.blocks, PushUnlinkable(b)
  PROVE  IInv'
<1>1. b \in Block
  BY WriterTypes DEF IInv, TypeOK
<1>2. TypeOK'
  BY Zenon, <1>1 DEF IInv, TypeOK, PushUnlinkable, durable, CacheUnlinked, ForkDb
<1>3. fork_db'.index = fork_db.index /\ fork_db'.linked = fork_db.linked /\ fork_db'.head = fork_db.head
  BY DEF IInv, TypeOK, PushUnlinkable, CacheUnlinked, ForkDb
<1>4. Rooted' /\ Beside'
  BY <1>3 DEF IInv, Rooted, Tree, HeadInv, Beside, PushUnlinkable, durable
<1>5. Anchored' /\ Kept' /\ LogInv'
  BY Zenon, <1>3, KeptStays, LogStays DEF IInv, Anchored, PushUnlinkable, durable
<1>6. HeadInv' /\ TodoInv' /\ OldInv'
  BY Zenon, <1>4, OpLeft DEF IInv, TodoInv, PushUnlinkable
<1> QED BY <1>2, <1>4, <1>5, <1>6 DEF IInv

\* A block with a parent is inserted.
LEMMA PushBlockKeeps ==
  ASSUME IInv, NEW b \in world.blocks, PushBlock(b)
  PROVE  IInv'
<1>1. b \in Block /\ fork_db \in ForkDb /\ fork_db.head \in Block /\ state_head \in Block
  BY WriterTypes DEF IInv, TypeOK, Rooted, ForkDb
<1>2. /\ fork_db' \in ForkDb /\ Tree(fork_db') /\ fork_db'.index = fork_db.index \cup {b}
      /\ fork_db'.head \in fork_db'.index
      /\ fork_db'.head = fork_db.head \/ num(fork_db'.head) > num(fork_db.head)
      /\ previous_id[b] \in fork_db.index
  BY Zenon, <1>1, Inserted DEF IInv, Rooted, PushBlock
<1>3. op' \in Op /\ op'.kind = "none" /\ op'.pushed = b /\ pc' = "link"
  BY Zenon, <1>1, NoOpType, OpPushed DEF PushBlock
<1>4. TypeOK'
  BY Zenon, <1>2, <1>3 DEF IInv, TypeOK, PushBlock, durable, Pc
<1>5. Beside'
  <2>1. Beside /\ fork_db'.head \in Block /\ state_head' = state_head /\ committed' = committed
    BY <1>2 DEF IInv, HeadInv, PushBlock, durable, ForkDb
  <2> QED BY Zenon, <1>1, <1>2, <2>1, BesideInsert
<1>6. Anchored' /\ Kept' /\ LogInv'
  BY Zenon, <1>2, <1>3, KeptStays, LogStays DEF IInv, Anchored, PushBlock, durable
<1>7. HeadInv' /\ TodoInv' /\ OldInv'
  BY <1>2, <1>3, <1>5 DEF HeadInv, TodoInv, OldInv, Storing
<1> QED BY Zenon, <1>2, <1>4, <1>5, <1>6, <1>7 DEF IInv, Rooted

\* _push_next inserts cached blocks one after the other.
LEMMA PushNextKeeps ==
  ASSUME IInv, PushNext
  PROVE  IInv'
<1>0. PICK i \in Unfinished : \E u \in Waiting(fork_db, op.stack[i]) :
        LET f == TakeOut(fork_db, u)
        IN  IF Unlinkable(f, u)
            THEN fork_db' = CacheUnlinked(f, op.pushed) /\ pc' = "idle" /\ op' = NoOp
            ELSE /\ fork_db' = Insert(f, u) /\ pc' = pc
                 /\ op' = [op EXCEPT !.stack = <<u>> \o SubSeq(@, i, Len(@))]
  BY Zenon DEF PushNext
<1>1. PICK u \in Waiting(fork_db, op.stack[i]) :
        LET f == TakeOut(fork_db, u)
        IN  IF Unlinkable(f, u)
            THEN fork_db' = CacheUnlinked(f, op.pushed) /\ pc' = "idle" /\ op' = NoOp
            ELSE /\ fork_db' = Insert(f, u) /\ pc' = pc
                 /\ op' = [op EXCEPT !.stack = <<u>> \o SubSeq(@, i, Len(@))]
  BY Zenon, <1>0
<1> DEFINE f == TakeOut(fork_db, u)
<1>2. /\ pc = "link" /\ state_head' = state_head /\ committed' = committed
      /\ lib' = lib /\ block_log' = block_log /\ notified' = notified /\ approved' = approved
      /\ interrupted' = interrupted /\ crashes' = crashes /\ world' = world
  BY Zenon DEF PushNext, durable
<1>3. /\ fork_db \in ForkDb /\ op \in Op /\ state_head \in Block /\ fork_db.head \in Block
      /\ op.kind = "none" /\ op.pushed \in fork_db.index /\ previous_id[op.pushed] \in fork_db.index
      /\ Beside
  BY <1>2 DEF IInv, TypeOK, Rooted, TodoInv, HeadInv, ForkDb
<1>4. u \in Block
  BY <1>3 DEF Waiting, ForkDb
<1>5. /\ f \in ForkDb /\ Tree(f) /\ f.head = fork_db.head
      /\ f.index = fork_db.index /\ f.linked = fork_db.linked
  BY Zenon, <1>3 DEF IInv, Rooted, TakeOut, ForkDb, Tree
<1> HIDE DEF f
<1>6. Anchored'
  BY <1>2 DEF IInv, Anchored
<1>7. CASE Unlinkable(f, u)
  <2>1. fork_db' = CacheUnlinked(f, op.pushed) /\ pc' = "idle" /\ op' = NoOp
    BY Zenon, <1>1, <1>7 DEF f
  <2>2. fork_db' \in ForkDb /\ Tree(fork_db') /\ fork_db'.head = fork_db.head /\ fork_db'.index = fork_db.index
    BY Zenon, <1>3, <1>5, <2>1 DEF CacheUnlinked, ForkDb, Tree
  <2>3. TypeOK'
    BY Zenon, <1>2, <2>1, <2>2, NoOpType DEF IInv, TypeOK, Pc
  <2>4. Rooted' /\ Beside'
    BY Zenon, <1>2, <1>3, <2>2 DEF IInv, Rooted, Beside
  <2>5. Kept' /\ LogInv'
    BY Zenon, <1>2, <2>1, <2>2, KeptStays, LogStays DEF IInv
  <2>6. HeadInv' /\ TodoInv' /\ OldInv'
    BY Zenon, <2>1, <2>4, OpLeft, NoOpType
  <2> QED BY Zenon, <1>6, <2>3, <2>4, <2>5, <2>6 DEF IInv
<1>8. CASE ~Unlinkable(f, u)
  <2>1. /\ fork_db' = Insert(f, u) /\ pc' = pc
        /\ op' = [op EXCEPT !.stack = <<u>> \o SubSeq(@, i, Len(@))]
    BY Zenon, <1>1, <1>8 DEF f
  <2>2. /\ fork_db' \in ForkDb /\ Tree(fork_db') /\ fork_db'.index = fork_db.index \cup {u}
        /\ fork_db'.head \in fork_db'.index
        /\ fork_db'.head = fork_db.head \/ num(fork_db'.head) > num(fork_db.head)
    BY <1>4, <1>5, <1>8, <2>1, Inserted DEF IInv, Rooted
  <2>3. op' \in Op /\ op'.kind = "none" /\ op'.pushed = op.pushed
    <3>1. op.stack \in Seq(Block) /\ i \in 1..Len(op.stack)
      BY SMTT(30), <1>3 DEF Op, Unfinished
    <3>2. <<u>> \o SubSeq(op.stack, i, Len(op.stack)) \in Seq(Block)
      BY <1>4, <3>1
    <3> QED BY ZenonT(40), <1>3, <2>1, <3>2 DEF Op
  <2>4. TypeOK'
    BY SMTT(30), <1>2, <2>1, <2>2, <2>3 DEF IInv, TypeOK
  <2>5. Beside' /\ Rooted'
    <3>1. fork_db'.head \in Block
      BY Zenon, <2>2 DEF ForkDb
    <3> QED BY Zenon, <1>2, <1>3, <2>2, <3>1, BesideInsert DEF Rooted
  <2>6. Kept' /\ LogInv'
    BY Zenon, <1>2, <2>1, <2>2, KeptStays, LogStays DEF IInv
  <2>7. HeadInv' /\ TodoInv' /\ OldInv'
    BY Zenon, <1>2, <1>3, <2>1, <2>2, <2>3, <2>5 DEF HeadInv, TodoInv, OldInv, Storing
  <2> QED BY Zenon, <1>6, <2>4, <2>5, <2>6, <2>7 DEF IInv
<1> QED BY Zenon, <1>7, <1>8

--------------------
(* Switching to another fork *)

\* When a switch starts, the new branch hangs on the block the pops go down to,
\* and so does the old one.
SwitchShape(f, b, new, old, p) ==
  /\ new \in Seq(Block) /\ old \in Seq(Block) /\ p \in Block
  /\ num(Head(new)) - 1 = num(p)
  /\ ChainOn(new, p) /\ ChainOn(old, p)
  /\ \A i \in DOMAIN new : new[i] \in f.index
  /\ \A j \in DOMAIN old : old[j] \in f.index
  /\ \A i \in DOMAIN new, j \in DOMAIN old : old[j] # new[i]
  /\ old = <<>> => p = b

\* fetch_branch_from gives switch_forks two branches over one common block.
LEMMA SwitchStarts ==
  ASSUME NEW f \in ForkDb, Tree(f), NEW a \in Block, NEW b \in Block, BranchesMeet(f, a, b),
         fetch_branch_from(a, b) # <<>>
  PROVE  SwitchShape(f, b, fetch_branch_from(a, b), fetch_branch_from(b, a),
                     previous_id[Head(fetch_branch_from(a, b))])
<1> DEFINE new == fetch_branch_from(a, b)
           old == fetch_branch_from(b, a)
           p == previous_id[new[1]]
           q == previous_id[old[1]]
<1>1. Off(a, b) # {}
  BY Zenon DEF fetch_branch_from
<1>2. /\ new \in Seq(Block) /\ new # <<>> /\ p \in Branch[a] /\ p \in Branch[b] /\ p \in Block
      /\ \A c \in Branch[a] : c \in Branch[b] => num(c) <= num(p)
      /\ ChainOn(new, p)
      /\ \A i \in DOMAIN new : new[i] \in f.index /\ new[i] \in Off(a, b)
  BY Zenon, <1>1, FetchBranch
<1>3. BranchesMeet(f, b, a)
  BY DEF BranchesMeet
<1> HIDE DEF new, old
<1>4. Head(new) = new[1] /\ 1 \in DOMAIN new /\ new[1] \in Block
  BY SMTT(30), <1>2
<1>5. num(Head(new)) - 1 = num(p)
  BY SMTT(30), <1>2, <1>4, ParentBelow, NumType, ForkTreeAssumption
<1>6. CASE Off(b, a) = {}
  <2>1. old = <<>>
    BY <1>6 DEF fetch_branch_from, old
  <2>2. b \in Branch[a] /\ b \in Branch[b]
    BY <1>6, BranchIsLeast DEF Off
  <2>3. num(b) <= num(p) /\ num(p) <= num(b)
    BY SMTT(30), <1>2, <2>2, BranchBelow
  <2>4. p = b
    BY SMTT(30), <1>2, <2>3, BranchBelow, NumType
  <2>5. SwitchShape(f, b, new, old, p)
    BY SMTT(30), <1>2, <1>5, <2>1, <2>4 DEF ChainOn, SwitchShape
  <2> QED BY <1>4, <2>5 DEF new, old
<1>7. CASE Off(b, a) # {}
  <2>1. /\ old \in Seq(Block) /\ old # <<>> /\ q \in Branch[a] /\ q \in Branch[b]
        /\ \A c \in Branch[b] : c \in Branch[a] => num(c) <= num(q)
        /\ ChainOn(old, q)
        /\ \A i \in DOMAIN old : old[i] \in f.index /\ old[i] \in Off(b, a)
    BY Zenon, <1>3, <1>7, FetchBranch DEF old
  <2>2. q \in Block /\ num(p) = num(q)
    BY SMTT(30), <1>2, <2>1, BranchIsLeast, NumType
  <2>3. p = q
    BY Zenon, <1>2, <2>1, <2>2, BranchUnique
  <2>4. \A i \in DOMAIN new, j \in DOMAIN old : old[j] # new[i]
    BY Zenon, <1>2, <2>1 DEF Off
  <2>5. SwitchShape(f, b, new, old, p)
    BY Zenon, <1>2, <1>5, <2>1, <2>3, <2>4 DEF SwitchShape
  <2> QED BY <1>4, <2>5 DEF new, old
<1> QED BY Zenon, <1>6, <1>7

\* switch_forks leaves the operation, ends the process, or starts a switch.
LEMMA SwitchForksKeeps ==
  ASSUME TypeOK, Rooted, Beside, NEW h, NEW locals \in Op, locals.kind = "none",
         switch_forks(h, locals),
         fork_db' = fork_db, state_head' = state_head, committed' = committed
  PROVE  /\ op' \in Op /\ pc' \in {"idle", "store", "pop", "apply", "down"}
         /\ HeadInv' /\ TodoInv' /\ OldInv'
<1>1. fork_db \in ForkDb /\ Tree(fork_db) /\ state_head \in Block /\ lib \in Nat
  BY DEF TypeOK, Rooted
<1>2. Beside'
  BY DEF Beside
<1>3. CASE ~BranchesMeet(fork_db, h, state_head)
  <2>1. pc' \in {"idle", "store"} /\ op' \in Op /\ op'.kind = "none"
    BY ZenonT(40), <1>1, <1>3, NoOpType DEF switch_forks, Op, NoOp
  <2> QED BY Zenon, <1>2, <2>1, OpLeft
<1>4. CASE BranchesMeet(fork_db, h, state_head) /\ fetch_branch_from(h, state_head) = <<>>
  <2>1. pc' = "down" /\ op' \in Op /\ op'.kind = "none"
    BY <1>4, NoOpType DEF switch_forks
  <2> QED BY <2>1, OpGone
<1>5. CASE BranchesMeet(fork_db, h, state_head) /\ fetch_branch_from(h, state_head) # <<>>
  <2> DEFINE new == fetch_branch_from(h, state_head)
             old == fetch_branch_from(state_head, h)
             p == previous_id[Head(new)]
  <2>0. h \in Block
    BY SMTT(30), <1>1, <1>5 DEF BranchesMeet, ForkDb
  <2>1. SwitchShape(fork_db, state_head, new, old, p) /\ new # <<>>
    BY <1>1, <1>5, <2>0, SwitchStarts, Zenon
  <2>2. /\ op' = [locals EXCEPT !.kind = "switch", !.todo = new, !.old = old,
                    !.common = num(Head(new)) - 1, !.original = head_block_num, !.target = p]
        /\ pc' = IF old = <<>> THEN "apply" ELSE "pop"
    BY <1>5 DEF switch_forks
  <2> HIDE DEF new, old, p
  <2>3. /\ op' \in Op /\ op'.kind = "switch" /\ op'.todo = new /\ op'.old = old
        /\ op'.common = num(p) /\ op'.target = p
    BY Zenon, <1>1, <2>1, <2>2, NumType DEF Op, head_block_num, SwitchShape
  <2>4. HeadInv'
    BY <1>2, <2>2 DEF HeadInv, Storing
  <2>5. TodoInv'
    BY SMTT(30), <2>1, <2>2, <2>3 DEF TodoInv, InIndex, Storing, SwitchShape
  <2>6. OldInv'
    BY <2>1, <2>3 DEF OldInv, InIndex, SwitchShape
  <2> QED BY <2>2, <2>3, <2>4, <2>5, <2>6
<1> QED BY Zenon, <1>3, <1>4, <1>5

\* push_block applies the block, starts a fork switch, or is done.
LEMMA PushLinkedKeeps ==
  ASSUME IInv, PushLinked
  PROVE  IInv'
<1> DEFINE blocks == BlocksToPush(fork_db, op.pushed)
<1>1. /\ pc = "link" /\ fork_db' = fork_db /\ state_head' = state_head /\ committed' = committed
      /\ lib' = lib /\ block_log' = block_log /\ notified' = notified /\ approved' = approved
      /\ interrupted' = interrupted /\ crashes' = crashes /\ world' = world
  BY SMTT(30) DEF PushLinked, durable
<1>2. /\ TypeOK /\ Rooted /\ Beside /\ state_head \in Block /\ fork_db \in ForkDb
      /\ op.pushed \in fork_db.index /\ previous_id[op.pushed] \in fork_db.index
  BY Zenon, <1>1 DEF IInv, HeadInv, TypeOK
<1>3. Beside'
  BY Zenon, <1>1, <1>2 DEF Beside
<1>4. /\ op' \in Op /\ pc' \in {"idle", "store", "pop", "apply", "down"}
      /\ HeadInv' /\ TodoInv' /\ OldInv'
  <2>1. CASE num(fork_db.head) <= head_block_num
    BY Zenon, <1>3, <2>1, OpLeft, NoOpType DEF PushLinked
  <2>2. CASE num(fork_db.head) > head_block_num /\ NoBlock \in {blocks[i] : i \in DOMAIN blocks}
    <3>1. pc' = "down" /\ op' = NoOp
      BY <1>2, <2>2, NumType DEF PushLinked, Rooted, ForkDb, head_block_num
    <3> QED BY Zenon, <3>1, OpGone, NoOpType
  <2>3. CASE /\ num(fork_db.head) > head_block_num
             /\ NoBlock \notin {blocks[i] : i \in DOMAIN blocks}
             /\ previous_id[Head(blocks)] = state_head
    <3>1. pc' = "apply" /\ op' = [NoOp EXCEPT !.kind = "push", !.todo = blocks]
      BY SMTT(30), <1>2, <2>3, NumType DEF PushLinked, Rooted, ForkDb, head_block_num
    <3>2. /\ blocks \in Seq(Block) /\ blocks # <<>>
          /\ \A i \in DOMAIN blocks : num(blocks[i]) = head_block_num + i /\ blocks[i] \in fork_db.index
          /\ \A i \in DOMAIN blocks : i # 1 => previous_id[blocks[i]] = blocks[i - 1]
      BY Zenon, <1>2, <2>3, BlocksToPushResult DEF Rooted
    <3> HIDE DEF blocks
    <3>3. op' \in Op /\ op'.kind = "push" /\ op'.todo = blocks
      BY Zenon, <3>1, <3>2, NoOpType DEF Op, NoOp
    <3>4. ChainOn(blocks, state_head)
      BY SMTT(30), <2>3, <3>2 DEF ChainOn, head_block_num
    <3> QED BY Zenon, <1>1, <3>1, <3>2, <3>3, <3>4 DEF HeadInv, TodoInv, OldInv, InIndex, Storing
  <2>4. CASE /\ num(fork_db.head) > head_block_num
             /\ NoBlock \notin {blocks[i] : i \in DOMAIN blocks}
             /\ previous_id[Head(blocks)] # state_head
    <3>1. switch_forks(fork_db.head, NoOp)
      BY <1>2, <2>4, NumType DEF PushLinked, Rooted, ForkDb, head_block_num
    <3> HIDE DEF blocks
    <3> QED BY SMTT(30), <1>1, <1>2, <3>1, NoOpType, SwitchForksKeeps
  <2> QED BY <1>2, <2>1, <2>2, <2>3, <2>4, NumType DEF Rooted, ForkDb, head_block_num
<1>5. TypeOK'
  BY <1>1, <1>4 DEF IInv, TypeOK, Pc
<1>6. Anchored' /\ Rooted' /\ LogInv' /\ Kept'
  BY Zenon, <1>1, <1>4, LogStays, KeptStays DEF IInv, Anchored, Rooted
<1> QED BY <1>4, <1>5, <1>6 DEF IInv

--------------------
(* Popping and applying blocks *)

\* One block is popped on the way to the common block.
LEMMA PopBlockKeeps ==
  ASSUME IInv, PopBlock
  PROVE  IInv'
<1>1. /\ pc = "pop" /\ committed' = committed
      /\ lib' = lib /\ block_log' = block_log /\ notified' = notified /\ approved' = approved
      /\ interrupted' = interrupted /\ crashes' = crashes /\ world' = world
  BY Zenon DEF PopBlock
<1>2. /\ TypeOK /\ Rooted /\ Beside /\ Anchored /\ state_head \in Block /\ committed \in Block
      /\ fork_db \in ForkDb /\ fork_db.head \in Block /\ op \in Op
  BY <1>1 DEF IInv, HeadInv, TypeOK, Rooted, ForkDb
<1>3. CASE Throw /\ fork_db' = fork_db /\ state_head' = state_head
  <2>1. pc' \in {"idle", "store"} /\ op' \in Op /\ op'.kind = "none"
    BY Zenon, <1>2, <1>3, ThrowLeaves
  <2>2. Beside' /\ Anchored' /\ Rooted'
    BY Zenon, <1>1, <1>2, <1>3 DEF Beside, Anchored, Rooted
  <2>3. HeadInv' /\ TodoInv' /\ OldInv'
    BY Zenon, <2>1, <2>2, OpLeft
  <2>4. LogInv' /\ Kept'
    BY Zenon, <1>1, <1>3, <2>1, LogStays, KeptStays DEF IInv
  <2>5. TypeOK'
    BY Zenon, <1>1, <1>3, <2>1 DEF IInv, TypeOK, Pc
  <2> QED BY Zenon, <2>2, <2>3, <2>4, <2>5 DEF IInv
<1>4. CASE /\ fork_db.head \in fork_db.linked /\ fork_db' = pop_block(fork_db)
           /\ state_head' = IF state_head = committed THEN state_head ELSE previous_id[state_head]
           /\ pc' = pc /\ op' = op
  <2>1. /\ fork_db'.head = previous_id[fork_db.head] /\ fork_db'.index = fork_db.index
        /\ fork_db'.linked = fork_db.linked
        /\ previous_id[fork_db.head] \in fork_db.index /\ fork_db' \in ForkDb
    BY Zenon, <1>2, <1>4 DEF pop_block, ForkDb, Rooted, Tree
  <2>2. fork_db'.head \in Block /\ num(fork_db.head) = num(fork_db'.head) + 1
    BY Zenon, <1>2, <2>1, ParentBelow, ForkTreeAssumption DEF ForkDb
  <2>3. /\ state_head' \in Block /\ Anchored' /\ Branch[state_head'] \subseteq Branch[state_head]
        /\ state_head # committed => /\ state_head' = previous_id[state_head]
                                     /\ num(state_head) = num(state_head') + 1
    BY Zenon, <1>1, <1>2, <1>4, UndoOne DEF Anchored
  <2>4. Beside'
    BY SMTT(30), <1>1, <1>2, <1>4, <2>1, <2>2, <2>3, NumType DEF Beside
  <2>5. TypeOK'
    BY Zenon, <1>1, <1>4, <2>1, <2>3 DEF IInv, TypeOK
  <2>6. Rooted' /\ LogInv' /\ Kept'
    BY Zenon, <1>1, <1>2, <1>4, <2>1, <2>3, LogStays, KeptStays DEF IInv, Rooted, Tree
  <2>7. HeadInv' /\ TodoInv' /\ OldInv'
    BY Zenon, <1>1, <1>4, <2>1, <2>4 DEF IInv, HeadInv, TodoInv, OldInv, InIndex, Storing
  <2> QED BY Zenon, <2>3, <2>5, <2>6, <2>7 DEF IInv
<1> QED BY Zenon, <1>3, <1>4 DEF PopBlock

\* The state is at the common block and the new branch comes next, or the old
\* one again.
LEMMA PopDoneKeeps ==
  ASSUME IInv, PopDone
  PROVE  IInv'
<1>1. /\ pc = "pop" /\ state_head = op.target /\ fork_db' = fork_db
      /\ state_head' = state_head /\ committed' = committed
      /\ lib' = lib /\ block_log' = block_log /\ notified' = notified /\ approved' = approved
      /\ interrupted' = interrupted /\ crashes' = crashes /\ world' = world
  BY Zenon DEF PopDone, durable
<1>2. Beside' /\ Anchored' /\ Rooted' /\ op \in Op
  BY <1>1 DEF IInv, HeadInv, TypeOK, Beside, Anchored, Rooted
<1>3. CASE op.kind = "restore" /\ op.old = <<>>
  <2>1. pc' \in {"idle", "store"} /\ op' \in Op /\ op'.kind = "none"
    BY Zenon, <1>2, <1>3, ThrowLeaves DEF PopDone
  <2>2. HeadInv' /\ TodoInv' /\ OldInv'
    BY Zenon, <1>2, <2>1, OpLeft
  <2>3. LogInv' /\ Kept'
    BY Zenon, <1>1, <2>1, LogStays, KeptStays DEF IInv
  <2>4. TypeOK'
    BY Zenon, <1>1, <2>1 DEF IInv, TypeOK, Pc
  <2> QED BY <1>2, <2>2, <2>3, <2>4 DEF IInv
<1>4. CASE ~(op.kind = "restore" /\ op.old = <<>>)
  <2>1. pc' = "apply" /\ op' = IF op.kind = "restore" THEN [op EXCEPT !.todo = op.old] ELSE op
    BY <1>4 DEF PopDone
  <2>2. /\ op' \in Op /\ op'.kind = op.kind /\ op'.old = op.old /\ op'.target = op.target
        /\ op'.common = op.common /\ op'.todo = IF op.kind = "restore" THEN op.old ELSE op.todo
    BY ZenonT(40), <1>2, <2>1 DEF Op
  <2>3. TypeOK'
    BY Zenon, <1>1, <2>1, <2>2 DEF IInv, TypeOK, Pc
  <2>4. LogInv' /\ Kept'
    BY Zenon, <1>1, <2>1, LogStays, KeptStays DEF IInv
  <2>5. HeadInv'
    BY <2>1 DEF HeadInv, Storing
  <2>6. TodoInv' /\ OldInv'
    <3>1. op.kind \in {"switch", "restore"}
      BY Zenon, <1>1 DEF IInv, TodoInv
    <3>2. CASE op.kind = "switch"
      BY Zenon, <1>1, <2>1, <2>2, <3>2 DEF IInv, TodoInv, OldInv, InIndex, Storing
    <3>3. CASE op.kind = "restore"
      BY Zenon, <1>1, <1>4, <2>1, <2>2, <3>3 DEF IInv, TodoInv, OldInv, InIndex, Storing
    <3> QED BY Zenon, <3>1, <3>2, <3>3
  <2> QED BY Zenon, <1>2, <2>3, <2>4, <2>5, <2>6 DEF IInv
<1> QED BY <1>3, <1>4

\* Whatever number the search for the irreversible block asks for, what it gets
\* from the main branch is a block or nothing.
LEMMA FetchType ==
  ASSUME NEW f \in ForkDb, NEW n
  PROVE  fetch_block_on_main_branch_by_number(f, n) \in Block \cup {NoBlock}
<1> DEFINE b == fetch_block_on_main_branch_by_number(f, n)
           S == fetch_block_by_number(f, n)
<1>1. S \subseteq Block
  BY Zenon DEF fetch_block_by_number, ForkDb
<1>2. CASE f.head = NoBlock \/ n > get_block_num[f.head] \/ S = {}
  BY Zenon, <1>2 DEF fetch_block_on_main_branch_by_number
<1>3. CASE ~(f.head = NoBlock \/ n > get_block_num[f.head] \/ S = {}) /\ \E c \in S : S = {c}
  BY Zenon, <1>1, <1>3 DEF fetch_block_on_main_branch_by_number
<1>4. CASE ~(f.head = NoBlock \/ n > get_block_num[f.head] \/ S = {}) /\ ~ \E c \in S : S = {c}
  <2>1. b = WalkTo(f, f.head, n)
    BY Zenon, <1>4 DEF fetch_block_on_main_branch_by_number
  <2>2. f.head \in Block
    BY Zenon, <1>4 DEF ForkDb
  <2> QED BY <2>1, <2>2, WalkToResult
<1> QED BY Zenon, <1>2, <1>3, <1>4

\* The number and the confirms that update_last_irreversible_block leaves.
LEMMA UpdateLibType ==
  ASSUME TypeOK, NEW b \in Block, NEW sched, NEW u \in UpdateLib(b, sched)
  PROVE  u[1] \in Nat /\ u[2] \in [Witness -> Block \cup {NoBlock}]
<1>1. /\ lib \in Nat /\ approved \in [Witness -> Block \cup {NoBlock}] /\ HIVE_MAX_WITNESSES \in Nat
      /\ num(b) \in Nat
  BY Zenon, WriterTypes, NumType DEF TypeOK
<1>2. CASE num(b) < HIVE_START_MINER_VOTING_BLOCK
  <2>1. u = <<IF num(b) > HIVE_MAX_WITNESSES + lib THEN num(b) - HIVE_MAX_WITNESSES ELSE lib, approved>>
    BY Zenon, <1>2 DEF UpdateLib
  <2> QED BY SMTT(30), <1>1, <2>1
<1>3. CASE ~(num(b) < HIVE_START_MINER_VOTING_BLOCK) /\ lib = num(b)
  <2>1. u = <<lib, approved>>
    BY Zenon, <1>3 DEF UpdateLib
  <2> QED BY Zenon, <1>1, <2>1
<1>4. CASE ~(num(b) < HIVE_START_MINER_VOTING_BLOCK) /\ lib # num(b)
  <2>1. PICK found \in find_new_last_irreversible_block(fork_db, sched, approved, lib) :
          u = IF found.block = NoBlock \/ found_on_another_fork(set_head(fork_db, b), found)
              THEN <<lib, approved>>
              ELSE <<Min2(num(found.block), num(b)), KeepRelevant(approved, Min2(num(found.block), num(b)))>>
    BY Zenon, <1>4 DEF UpdateLib
  <2>2. CASE found.block = NoBlock \/ found_on_another_fork(set_head(fork_db, b), found)
    BY Zenon, <1>1, <2>1, <2>2
  <2>3. CASE ~(found.block = NoBlock \/ found_on_another_fork(set_head(fork_db, b), found))
    <3>1. set_head(fork_db, b) \in ForkDb
      BY Zenon DEF TypeOK, set_head, ForkDb
    <3>2. found.block \in Block
      BY <2>3, <3>1, FetchType DEF found_on_another_fork
    <3>3. Min2(num(found.block), num(b)) \in Nat
      BY Zenon, <1>1, <3>2, NumType DEF Min2
    <3> QED BY Zenon, <1>1, <2>1, <2>3, <3>3, KeepRelevantType
  <2> QED BY Zenon, <2>2, <2>3
<1> QED BY Zenon, <1>2, <1>3, <1>4

\* A block is applied in an undo session of its own.
LEMMA ApplyBlockKeeps ==
  ASSUME IInv, ApplyBlock
  PROVE  IInv'
<1> DEFINE b == Head(op.todo)
<1>1. /\ pc = "apply" /\ committed' = committed /\ block_log' = block_log /\ notified' = notified
      /\ interrupted' = interrupted /\ crashes' = crashes /\ world' = world
      /\ fork_db' = set_head(fork_db, b)
  BY Zenon DEF ApplyBlock
<1>2. /\ TypeOK /\ fork_db \in ForkDb /\ op \in Op /\ op.todo \in Seq(Block) /\ op.todo # <<>>
      /\ state_head \in Block /\ committed \in Block /\ lib \in Nat
      /\ op.kind # "none" /\ ChainOn(op.todo, state_head) /\ InIndex(op.todo)
  BY Zenon, <1>1 DEF IInv, TypeOK, TodoInv, Op
<1>3. b \in Block /\ b = op.todo[1] /\ 1 \in DOMAIN op.todo /\ previous_id[b] = state_head /\ b \in fork_db.index
  BY <1>2 DEF ChainOn, InIndex
<1> HIDE DEF b
<1>4. /\ fork_db' \in ForkDb /\ fork_db'.head = b /\ fork_db'.index = fork_db.index
      /\ fork_db'.linked = fork_db.linked
  BY Zenon, <1>1, <1>2, <1>3 DEF set_head, ForkDb
<1>5. Rooted'
  BY Zenon, <1>3, <1>4 DEF IInv, Rooted, Tree
<1>6. CASE /\ pc' = "failed" /\ state_head' = state_head /\ op' = op
           /\ lib' \in Nat /\ approved' \in [Witness -> Block \cup {NoBlock}]
  <2>1. TypeOK'
    BY Zenon, <1>1, <1>4, <1>6 DEF IInv, TypeOK, Pc
  <2>2. Anchored' /\ LogInv' /\ Kept'
    BY Zenon, <1>1, <1>4, <1>6, LogStays, KeptStays DEF IInv, Anchored
  <2>3. HeadInv' /\ TodoInv' /\ OldInv'
    BY Zenon, <1>1, <1>3, <1>4, <1>6 DEF IInv, HeadInv, TodoInv, OldInv, InIndex, Storing
  <2> QED BY Zenon, <1>5, <2>1, <2>2, <2>3 DEF IInv
<1>7. CASE /\ pc' = "store" /\ state_head' = b /\ op' = [op EXCEPT !.old_lib = lib]
           /\ lib' \in Nat /\ approved' \in [Witness -> Block \cup {NoBlock}]
  <2>1. /\ op' \in Op /\ op'.kind = op.kind /\ op'.todo = op.todo /\ op'.old = op.old
        /\ op'.target = op.target /\ op'.common = op.common
    BY Zenon, <1>2, <1>7 DEF Op
  <2>2. TypeOK'
    BY <1>1, <1>3, <1>4, <1>7, <2>1 DEF IInv, TypeOK, Pc
  <2>3. /\ num(b) = num(state_head) + 1 /\ Branch[state_head] \subseteq Branch[b]
        /\ \A c \in Branch[b] : c = b \/ c \in Branch[state_head]
    BY SMTT(30), <1>2, <1>3, ApplyOne
  <2>4. Anchored' /\ state_head' # committed'
    <3>1. committed \in Branch[state_head] /\ num(committed) <= num(state_head)
      BY Zenon, <1>2, BranchBelow DEF IInv, Anchored
    <3> QED BY <1>1, <1>2, <1>3, <1>7, <2>3, <3>1, NumType DEF Anchored
  <2>5. Kept' /\ LogInv'
    <3>1. Kept'
      BY Zenon, <1>1, <1>3, <1>4, <1>7, <2>3 DEF IInv, Kept, Floor
    <3> QED BY Zenon, <1>1, <1>7, <3>1, LogStays DEF IInv
  <2>6. HeadInv'
    BY Zenon, <1>2, <1>4, <1>7, <2>1 DEF HeadInv, Storing
  <2>7. ChainOn(Tail(op.todo), b) /\ \A i \in DOMAIN Tail(op.todo) : Tail(op.todo)[i] \in fork_db.index
    BY Zenon, <1>2, <1>3, <2>3, ChainTail DEF InIndex
  <2>8. TodoInv'
    BY Zenon, <1>2, <1>3, <1>4, <1>7, <2>1, <2>4, <2>7 DEF TodoInv, InIndex, Storing
  <2>9. OldInv'
    BY <1>4, <1>7, <2>1 DEF IInv, OldInv, InIndex
  <2> QED BY Zenon, <1>5, <2>2, <2>4, <2>5, <2>6, <2>8, <2>9 DEF IInv
<1>8. CASE /\ pc' = "failed" /\ UNCHANGED <<state_head, lib, approved, op>>
  BY Zenon, <1>6, <1>8 DEF IInv, TypeOK
<1>9. CASE /\ \E u \in UpdateLib(b, Schedule[state_head]) : lib' = u[1] /\ approved' = u[2]
           /\ IF b \in FailsLate THEN pc' = "failed" /\ UNCHANGED <<state_head, op>>
              ELSE state_head' = b /\ pc' = "store" /\ op' = [op EXCEPT !.old_lib = lib]
  <2>1. lib' \in Nat /\ approved' \in [Witness -> Block \cup {NoBlock}]
    BY SMTT(30), <1>2, <1>3, <1>9, UpdateLibType
  <2> QED BY Zenon, <1>6, <1>7, <1>9, <2>1
<1> QED BY Zenon, <1>8, <1>9 DEF ApplyBlock, b

\* The list of blocks above a block is removed: the head goes back to that block.
LEMMA Removed ==
  ASSUME NEW f \in ForkDb, Tree(f), NEW s \in Seq(Block), s # <<>>, NEW p \in Block,
         ChainOn(s, p), f.head = s[1], remove(f, s).head # NoBlock
  PROVE  /\ remove(f, s) \in ForkDb /\ Tree(remove(f, s))
         /\ remove(f, s).head = p /\ p \in remove(f, s).index
         /\ \A c \in f.index : c \in remove(f, s).index \/ num(c) > num(p)
         /\ \A c \in f.index : (\A i \in DOMAIN s : c # s[i]) => c \in remove(f, s).index
         /\ remove(f, s).index \subseteq f.index
<1> DEFINE gone == {s[i] : i \in DOMAIN s}
           g == set_head(f, PrevLock(f, s[1]))
<1>1. Head(s) = s[1] /\ 1 \in DOMAIN s /\ s[1] \in Block /\ previous_id[s[1]] = p
  BY DEF ChainOn
<1>2. remove(f, s) = Erase(g, gone)
  BY <1>1 DEF remove
<1>3. /\ remove(f, s).head = PrevLock(f, s[1])
      /\ remove(f, s).index = f.index \ gone
      /\ remove(f, s).linked = {b \in f.linked \ gone : previous_id[b] \notin gone}
      /\ remove(f, s).unlinked = f.unlinked /\ remove(f, s).max_size = f.max_size
      /\ remove(f, s) = [index |-> f.index \ gone,
                         linked |-> {b \in f.linked \ gone : previous_id[b] \notin gone},
                         unlinked |-> f.unlinked, head |-> PrevLock(f, s[1]), max_size |-> f.max_size]
  BY Zenon, <1>2 DEF Erase, set_head, ForkDb
<1>4. s[1] \in f.linked /\ remove(f, s).head = p
  BY SMTT(30), <1>1, <1>3 DEF PrevLock
<1>5. \A c \in gone : num(c) > num(p)
  <2>1. ASSUME NEW i \in DOMAIN s PROVE num(s[i]) > num(p)
    BY NumType DEF ChainOn
  <2> QED BY <2>1
<1>6. p \in f.index /\ p \notin gone
  BY SMTT(30), <1>1, <1>4, <1>5, NumType DEF Tree
<1> HIDE DEF gone
<1>7. remove(f, s) \in ForkDb
  BY Zenon, <1>3, <1>4 DEF ForkDb
<1>8. Tree(remove(f, s))
  BY <1>3 DEF Tree
<1> QED BY <1>3, <1>4, <1>5, <1>6, <1>7, <1>8 DEF gone

\* A failed block and those after it are removed from the fork database.
LEMMA FailedApplyKeeps ==
  ASSUME IInv, HeadKnown', FailedApply
  PROVE  IInv'
<1> DEFINE f == remove(fork_db, op.todo)
<1>1. /\ pc = "failed" /\ state_head' = state_head /\ committed' = committed
      /\ lib' = lib /\ block_log' = block_log /\ notified' = notified /\ approved' = approved
      /\ interrupted' = interrupted /\ crashes' = crashes /\ world' = world
  BY Zenon DEF FailedApply, durable
<1>2. /\ fork_db \in ForkDb /\ Tree(fork_db) /\ op \in Op /\ op.todo \in Seq(Block) /\ op.todo # <<>>
      /\ state_head \in Block /\ committed \in Block
      /\ op.kind # "none" /\ ChainOn(op.todo, state_head) /\ fork_db.head = op.todo[1]
      /\ op.kind \in {"none", "push", "switch", "restore"}
  BY Zenon, <1>1 DEF IInv, TypeOK, TodoInv, HeadInv, Rooted, Op
<1>3. Anchored'
  BY Zenon, <1>1 DEF IInv, Anchored
<1>4. CASE op.kind = "restore"
  <2>1. Throw /\ fork_db' = fork_db
    BY Zenon, <1>4 DEF FailedApply
  <2>2. pc' \in {"idle", "store"} /\ op' \in Op /\ op'.kind = "none"
    BY Zenon, <1>2, <2>1, ThrowLeaves
  <2>3. num(fork_db.head) > num(state_head)
    <3>1. num(op.todo[1]) = num(state_head) + 1
      BY <1>2 DEF ChainOn
    <3> QED BY SMTT(30), <1>2, <3>1, NumType
  <2>4. Beside' /\ Rooted'
    BY Zenon, <1>1, <2>1, <2>3 DEF IInv, Beside, Rooted
  <2>5. HeadInv' /\ TodoInv' /\ OldInv'
    BY Zenon, <2>2, <2>4, OpLeft
  <2>6. LogInv' /\ Kept'
    BY Zenon, <1>1, <2>1, <2>2, LogStays, KeptStays DEF IInv
  <2>7. TypeOK'
    BY Zenon, <1>1, <2>1, <2>2 DEF IInv, TypeOK, Pc
  <2> QED BY Zenon, <1>3, <2>4, <2>5, <2>6, <2>7 DEF IInv
<1>5. CASE op.kind # "restore"
  <2>1. fork_db' = f /\ f.head # NoBlock
    BY Zenon, <1>2, <1>5 DEF FailedApply, HeadKnown
  <2>2. /\ f \in ForkDb /\ Tree(f) /\ f.head = state_head /\ state_head \in f.index
        /\ \A c \in fork_db.index : c \in f.index \/ num(c) > num(state_head)
        /\ \A c \in fork_db.index : (\A i \in DOMAIN op.todo : c # op.todo[i]) => c \in f.index
        /\ f.index \subseteq fork_db.index
    BY Zenon, <1>2, <2>1, Removed
  <2>3. Rooted' /\ Beside'
    BY Zenon, <1>1, <2>1, <2>2 DEF Rooted, Beside
  <2>4. pc' # "commit" => Kept'
    <3>1. \A c \in Branch[state_head] : c \in Block /\ num(c) <= num(state_head)
      BY Zenon, <1>2, BranchIsLeast, BranchBelow
    <3>2. \A c \in Branch[state_head] : num(c) > num(committed) => c \in fork_db.index
      BY Zenon, <1>1, <1>2 DEF IInv, Kept, Floor
    <3>3. \A c \in Branch[state_head] : num(c) > num(committed) => c \in f.index
      BY <1>2, <2>2, <3>1, <3>2, NumType
    <3> QED BY Zenon, <1>1, <2>1, <3>3 DEF Kept, Floor
  <2>5. CASE Throw
    <3>1. pc' \in {"idle", "store"} /\ op' \in Op /\ op'.kind = "none"
      BY Zenon, <1>2, <2>5, ThrowLeaves
    <3>2. HeadInv' /\ TodoInv' /\ OldInv'
      BY Zenon, <2>3, <3>1, OpLeft
    <3>3. LogInv' /\ Kept'
      BY Zenon, <1>1, <2>4, <3>1, LogStays DEF IInv
    <3>4. TypeOK'
      BY Zenon, <1>1, <2>1, <2>2, <3>1 DEF IInv, TypeOK, Pc
    <3> QED BY Zenon, <1>3, <2>3, <3>2, <3>3, <3>4 DEF IInv
  <2>6. CASE /\ op.kind = "switch" /\ ~irreversible_at_least(f, op.common)
             /\ pc' = "pop" /\ op' = [op EXCEPT !.kind = "restore", !.todo = <<>>]
    <3>1. /\ op' \in Op /\ op'.kind = "restore" /\ op'.old = op.old
          /\ op'.target = op.target /\ op'.common = op.common
      BY Zenon, <1>2, <2>6, OpRestore
    <3>2. TypeOK'
      BY Zenon, <1>1, <2>1, <2>2, <2>6, <3>1 DEF IInv, TypeOK, Pc
    <3>3. LogInv' /\ Kept'
      BY Zenon, <1>1, <2>4, <2>6, LogStays DEF IInv
    <3>4. HeadInv' /\ TodoInv'
      BY Zenon, <2>3, <2>6, <3>1 DEF HeadInv, TodoInv, Storing
    <3>5. PICK b \in f.index : ~(op.common <= num(b))
      BY Zenon, <2>6 DEF irreversible_at_least, num
    <3>6. /\ op.target \in Block /\ op.common = num(op.target) /\ ChainOn(op.old, op.target)
          /\ InIndex(op.old) \/ \A c \in fork_db.index : num(c) > op.common
          /\ \A i \in DOMAIN op.old, j \in DOMAIN op.todo : op.old[i] # op.todo[j]
      BY <2>6 DEF IInv, OldInv
    <3>7. InIndex(op.old)
      <4>1. b \in fork_db.index /\ num(b) \in Nat /\ op.common \in Nat
        BY Zenon, <2>2, <3>5, <3>6, NumType DEF ForkDb
      <4>2. ~(num(b) > op.common)
        BY SMTT(30), <3>5, <4>1
      <4> QED BY <3>6, <4>1, <4>2, Zenon
    <3>8. \A i \in DOMAIN op.old : op.old[i] \in f.index
      BY Zenon, <2>2, <3>6, <3>7 DEF InIndex
    <3>9. OldInv'
      BY Zenon, <2>1, <3>1, <3>6, <3>8 DEF OldInv, InIndex
    <3> QED BY Zenon, <1>3, <2>3, <3>2, <3>3, <3>4, <3>9 DEF IInv
  <2> QED BY Zenon, <1>2, <1>5, <2>1, <2>5, <2>6 DEF FailedApply
<1> QED BY <1>4, <1>5
====
