---- MODULE WriterInvariant ----
(* The invariant of the writer of a node, for every tree of blocks, and what  *)
(* the proofs that its steps keep it share; opening, stopping and writing the *)
(* block log keep it.                                                         *)
EXTENDS BlockWriter, TLAPS

--------------------
(* The chain that ends in a block *)

\* What the definition of Branch gives: the chain of h holds h and the parents of
\* its blocks, and is contained in every closed set with h in it.
LEMMA BranchIsLeast ==
  ASSUME NEW h \in Block
  PROVE  /\ Branch[h] \subseteq Block
         /\ h \in Branch[h]
         /\ \A c \in Branch[h] : previous_id[c] # NoBlock => previous_id[c] \in Branch[h]
         /\ \A S \in SUBSET Block : Closed(S) /\ h \in S => Branch[h] \subseteq S
<1> USE ForkTreeAssumption
<1>1. Branch[h] = Block \ {a \in Block : \E S \in SUBSET Block : Closed(S) /\ h \in S /\ a \notin S}
  BY DEF Branch
<1>2. Branch[h] \subseteq Block /\ h \in Branch[h]
  BY <1>1
<1>3. \A S \in SUBSET Block : Closed(S) /\ h \in S => Branch[h] \subseteq S
  BY <1>1
<1>4. ASSUME NEW c \in Branch[h], previous_id[c] # NoBlock PROVE previous_id[c] \in Branch[h]
  <2>1. c \in Block /\ previous_id[c] \in Block
    BY <1>2, <1>4
  <2>2. \A S \in SUBSET Block : Closed(S) /\ h \in S => previous_id[c] \in S
    BY <1>3, <1>4 DEF Closed
  <2> QED BY <1>1, <2>1, <2>2
<1> QED BY <1>2, <1>3, <1>4

\* The parent is one lower.
LEMMA ParentBelow ==
  ASSUME NEW b \in Block, previous_id[b] # NoBlock
  PROVE  previous_id[b] \in Block /\ num(b) = num(previous_id[b]) + 1
BY ForkTreeAssumption DEF num

\* Block numbers start at one.
LEMMA NumType == \A b \in Block : num(b) \in Nat \ {0}
BY ForkTreeAssumption DEF num

\* Below its last block, a chain is the chain of the parent.
LEMMA BranchStep ==
  ASSUME NEW h \in Block, NEW a \in Branch[h], a # h
  PROVE  /\ previous_id[h] \in Block
         /\ a \in Branch[previous_id[h]]
<1> USE ForkTreeAssumption
<1>1. CASE previous_id[h] = NoBlock
  <2>1. Closed({h}) /\ {h} \in SUBSET Block
    BY <1>1 DEF Closed
  <2> QED BY <2>1, BranchIsLeast
<1>2. CASE previous_id[h] # NoBlock
  <2> DEFINE p == previous_id[h]
             S == Branch[p] \cup {h}
  <2>1. p \in Block
    BY <1>2
  <2>2. S \in SUBSET Block /\ h \in S /\ Closed(S)
    BY <2>1, BranchIsLeast DEF Closed
  <2>3. Branch[h] \subseteq S
    BY <2>2, BranchIsLeast
  <2> QED BY <2>1, <2>3
<1> QED BY <1>1, <1>2

\* The chain of a block of a chain is part of it.
LEMMA BranchInBranch ==
  ASSUME NEW h \in Block, NEW b \in Branch[h]
  PROVE  b \in Block /\ Branch[b] \subseteq Branch[h]
<1>1. Branch[h] \in SUBSET Block /\ Closed(Branch[h]) /\ b \in Block
  BY BranchIsLeast DEF Closed
<1> QED BY <1>1, BranchIsLeast

\* No block of a chain is above its last one, and only that one has its number.
LEMMA BranchBelow ==
  ASSUME NEW h \in Block, NEW a \in Branch[h]
  PROVE  num(a) <= num(h) /\ (num(a) = num(h) => a = h)
<1> DEFINE S == {c \in Block : num(c) <= num(h) /\ (num(c) = num(h) => c = h)}
<1>1. h \in S
  BY NumType
<1>2. Closed(S)
  BY NumType, ParentBelow DEF Closed
<1> QED BY <1>1, <1>2, BranchIsLeast

\* Of two blocks of a chain the lower one is on the chain of the other.
LEMMA BranchLinear ==
  ASSUME NEW h \in Block, NEW a \in Branch[h], NEW b \in Branch[h], num(a) <= num(b)
  PROVE  a \in Branch[b]
<1> DEFINE S == {c \in Branch[h] : a \in Branch[c] \/ num(c) < num(a)}
<1>0. a \in Block /\ b \in Block
  BY BranchIsLeast
<1>1. S \in SUBSET Block /\ h \in S
  BY BranchIsLeast
<1>2. ASSUME NEW c \in S, previous_id[c] # NoBlock PROVE previous_id[c] \in S
  <2>1. c \in Block /\ previous_id[c] \in Block /\ previous_id[c] \in Branch[h]
    BY <1>1, <1>2, BranchIsLeast, ParentBelow
  <2>2. CASE a \in Branch[c] /\ a # c
    BY <2>1, <2>2, BranchStep
  <2>3. CASE a = c
    BY <2>1, <2>3, <1>2, ParentBelow, NumType
  <2>4. CASE num(c) < num(a)
    BY <2>1, <2>4, <1>0, <1>2, ParentBelow, NumType
  <2> QED BY <1>2, <2>2, <2>3, <2>4
<1>3. Closed(S)
  BY <1>2 DEF Closed
<1>4. b \in S
  BY <1>1, <1>3, BranchIsLeast
<1> QED BY <1>0, <1>4, NumType

\* A chain has one block of each number.
LEMMA BranchUnique ==
  ASSUME NEW h \in Block, NEW a \in Branch[h], NEW b \in Branch[h], num(a) = num(b)
  PROVE  a = b
<1>1. a \in Block /\ b \in Block
  BY BranchIsLeast
<1>2. a \in Branch[b]
  BY <1>1, BranchLinear, NumType
<1> QED BY <1>1, <1>2, BranchBelow

\* A chain has a block of every number between two of its blocks.
LEMMA BranchDense ==
  ASSUME NEW h \in Block, NEW a \in Branch[h], NEW n \in Nat, num(a) <= n, n <= num(h)
  PROVE  \E c \in Branch[h] : num(c) = n
<1> DEFINE S == {c \in Branch[h] : num(c) <= n => \E e \in Branch[h] : num(e) = n}
<1>1. S \in SUBSET Block /\ h \in S
  BY BranchIsLeast, NumType
<1>2. ASSUME NEW c \in S, previous_id[c] # NoBlock PROVE previous_id[c] \in S
  <2>1. c \in Block /\ previous_id[c] \in Branch[h] /\ previous_id[c] \in Block
    BY <1>1, <1>2, BranchIsLeast, ParentBelow
  <2>2. num(c) = num(previous_id[c]) + 1
    BY <2>1, <1>2, ParentBelow
  <2> QED BY <1>2, <2>1, <2>2, NumType
<1>3. Closed(S)
  BY <1>2 DEF Closed
<1> QED BY Zenon, <1>1, <1>3, BranchIsLeast, NumType

--------------------
(* What the operations of the fork database return *)

\* A block with a link has its parent in the index.
Tree(f) ==
  /\ f.linked \subseteq f.index
  /\ \A b \in f.linked : previous_id[b] \in f.index

\* The blocks of s hang on p one after the other.
ChainOn(s, p) ==
  \A i \in DOMAIN s : /\ num(s[i]) = num(p) + i
                      /\ previous_id[s[i]] = IF i = 1 THEN p ELSE s[i - 1]

\* Ancestor finds a block of the chain by its number.
LEMMA AncestorOf ==
  ASSUME NEW b \in Block, NEW a \in Branch[b]
  PROVE  num(a) \in DOMAIN Ancestor[b] /\ Ancestor[b][num(a)] = a
<1>1. num(a) \in {get_block_num[c] : c \in Branch[b]}
  BY DEF num
<1>2. Ancestor[b][num(a)] = CHOOSE c \in Branch[b] : get_block_num[c] = num(a)
  BY <1>1 DEF Ancestor
<1>3. Ancestor[b][num(a)] \in Branch[b] /\ num(Ancestor[b][num(a)]) = num(a)
  BY <1>2 DEF num
<1> QED BY <1>1, <1>3, BranchUnique DEF Ancestor

\* What Ancestor finds is on the chain and has the number asked for.
LEMMA AncestorType ==
  ASSUME NEW b \in Block, NEW n \in DOMAIN Ancestor[b]
  PROVE  Ancestor[b][n] \in Branch[b] /\ num(Ancestor[b][n]) = n
<1>1. PICK a \in Branch[b] : n = num(a)
  BY Zenon DEF Ancestor, num
<1> QED BY <1>1, AncestorOf

\* A walk along the links ends on the chain it started from.
LEMMA WalkToResult ==
  ASSUME NEW f \in ForkDb, NEW b \in Block, NEW n, WalkTo(f, b, n) # NoBlock
  PROVE  /\ WalkTo(f, b, n) \in Branch[b] /\ WalkTo(f, b, n) \in Block
         /\ num(WalkTo(f, b, n)) = n
         /\ \A c \in Branch[b] : num(c) > n => c \in f.linked
BY AncestorType, BranchIsLeast DEF WalkTo, Reach, num

\* fetch_block_on_main_branch_by_number returns nothing or the block of the
\* head's chain, provided that the index has that block.
LEMMA FetchMain ==
  ASSUME NEW f \in ForkDb, NEW n \in Nat,
         fetch_block_on_main_branch_by_number(f, n) # NoBlock
  PROVE  LET b == fetch_block_on_main_branch_by_number(f, n)
         IN  /\ f.head \in Block /\ n <= num(f.head)
             /\ b \in Block /\ num(b) = n
             /\ \A c \in Branch[f.head] : num(c) = n /\ c \in f.index => c = b
<1> DEFINE b == fetch_block_on_main_branch_by_number(f, n)
           S == fetch_block_by_number(f, n)
<1>1. f.head \in Block /\ n <= num(f.head) /\ S # {}
  BY NumType DEF fetch_block_on_main_branch_by_number, ForkDb, num
<1>2. \A c \in S : c \in Block /\ num(c) = n
  BY DEF fetch_block_by_number, ForkDb, num
<1>3. CASE \E c \in S : S = {c}
  <2>1. b \in S /\ S = {b}
    BY <1>1, <1>3 DEF fetch_block_on_main_branch_by_number, num
  <2> QED BY <1>1, <1>2, <2>1 DEF fetch_block_by_number, num
<1>4. CASE ~ \E c \in S : S = {c}
  <2>1. b = WalkTo(f, f.head, n)
    BY Zenon, <1>1, <1>4 DEF fetch_block_on_main_branch_by_number, num
  <2> QED BY <1>1, <2>1, WalkToResult, BranchUnique
<1> QED BY <1>3, <1>4

\* What fetch_branch_from returns: the part of the chain of a that is not on the
\* chain of b, in order and all of it in the index; it hangs on the highest block
\* the two chains share.
LEMMA FetchBranch ==
  ASSUME NEW f \in ForkDb, Tree(f), NEW a \in Block, NEW b \in Block,
         BranchesMeet(f, a, b), Off(a, b) # {}
  PROVE  LET s == fetch_branch_from(a, b)
             p == previous_id[s[1]]
         IN  /\ s \in Seq(Block) /\ s # <<>>
             /\ p \in Branch[a] /\ p \in Branch[b] /\ p \in Block
             /\ \A c \in Branch[a] : c \in Branch[b] => num(c) <= num(p)
             /\ ChainOn(s, p)
             /\ \A i \in DOMAIN s : s[i] \in f.index /\ s[i] \in Off(a, b)
             /\ s[Len(s)] = a
<1> DEFINE low == CHOOSE c \in Off(a, b) : previous_id[c] \notin Off(a, b)
           p == previous_id[low]
           first == num(low)
           len == num(a) - first + 1
           s == fetch_branch_from(a, b)
<1>1. /\ Off(a, b) \subseteq Branch[a] /\ Branch[a] \subseteq Block /\ Branch[b] \subseteq Block
      /\ a \in Branch[a] /\ a \in f.index
  BY BranchIsLeast DEF Off, BranchesMeet
<1>2. \A c \in Off(a, b) : previous_id[c] \in Block
  <2>1. ASSUME NEW c \in Off(a, b) PROVE previous_id[c] \in Block
    <3>1. c \in f.linked \/ previous_id[c] \in Branch[a] \cap Branch[b]
      BY DEF BranchesMeet
    <3> QED BY <1>1, <3>1 DEF Tree, ForkDb
  <2> QED BY <2>1
<1>3. \E c \in Off(a, b) : previous_id[c] \notin Off(a, b)
  <2>1. SUFFICES ASSUME \A c \in Off(a, b) : previous_id[c] \in Off(a, b) PROVE FALSE
    OBVIOUS
  <2>2. Closed(Off(a, b)) /\ Off(a, b) \in SUBSET Block
    BY <1>1, <2>1 DEF Closed
  <2>3. a \in Off(a, b)
    <3>1. a \in Branch[b] => Branch[a] \subseteq Branch[b]
      BY BranchInBranch
    <3> QED BY <1>1, <3>1 DEF Off
  <2>4. Branch[a] \subseteq Off(a, b)
    BY <2>2, <2>3, BranchIsLeast
  <2> QED BY <2>4 DEF BranchesMeet, Off
<1>4. low \in Off(a, b) /\ p \notin Off(a, b) /\ low \in Block /\ p \in Block /\ num(low) = num(p) + 1
  <2>1. low \in Off(a, b) /\ p \notin Off(a, b)
    BY <1>3
  <2>2. low \in Block /\ p \in Block
    BY <1>1, <1>2, <2>1
  <2>3. p # NoBlock
    BY <2>2, ForkTreeAssumption
  <2> HIDE DEF low
  <2> QED BY <2>1, <2>2, <2>3, ParentBelow
<1> HIDE DEF low
<1>5. p \in Branch[a] /\ p \in Branch[b]
  <2>1. p \in Branch[a]
    BY <1>1, <1>4, BranchIsLeast, ForkTreeAssumption
  <2> QED BY Zenon, <1>4, <2>1 DEF Off
<1>6. \A c \in Branch[a] : num(c) >= first => c \in Off(a, b)
  <2>1. ASSUME NEW c \in Branch[a], num(c) >= first, c \in Branch[b] PROVE FALSE
    <3>1. c \in Block /\ low \in Branch[c]
      BY <1>1, <1>4, <2>1, BranchLinear, NumType
    <3>2. Branch[c] \subseteq Branch[b]
      BY <2>1, BranchInBranch
    <3> QED BY Zenon, <1>4, <3>1, <3>2 DEF Off
  <2> QED BY <2>1 DEF Off
<1>7. \A c \in Branch[a] : c \in Branch[b] => num(c) <= num(p)
  <2>1. ASSUME NEW c \in Branch[a], c \in Branch[b] PROVE num(c) <= num(p)
    <3>1. c \in Block /\ c \notin Off(a, b)
      BY Zenon, <1>1, <2>1 DEF Off
    <3> QED BY <1>4, <1>6, <3>1, NumType
  <2> QED BY <2>1
<1>8. first \in Nat /\ len \in Nat \ {0} /\ first <= num(a)
  <2>1. first <= num(a)
    BY <1>1, <1>4, BranchBelow
  <2> QED BY <1>4, <2>1, NumType
<1>9. s = [i \in 1..len |-> Ancestor[a][first + i - 1]]
  BY DEF fetch_branch_from, low, num
<1>10. \A i \in 1..len : s[i] \in Branch[a] /\ num(s[i]) = num(p) + i
  <2>1. ASSUME NEW i \in 1..len PROVE s[i] \in Branch[a] /\ num(s[i]) = num(p) + i
    <3>0. low \in Branch[a] /\ first + i - 1 \in Nat /\ first <= first + i - 1 /\ first + i - 1 <= num(a)
      BY <1>1, <1>4, <1>8, NumType
    <3>1. PICK c \in Branch[a] : num(c) = first + i - 1
      BY Zenon, <3>0, BranchDense
    <3>2. s[i] = c
      BY <1>9, <3>1, AncestorOf
    <3> QED BY <1>4, <3>1, <3>2, NumType
  <2> QED BY Zenon, <2>1
<1>11. s \in Seq(Block) /\ Len(s) = len /\ DOMAIN s = 1..len /\ s # <<>>
  BY SMTT(30), <1>1, <1>8, <1>9, <1>10
<1>12. s[1] = low /\ s[Len(s)] = a
  <2>1. num(s[1]) = num(low) /\ num(s[len]) = num(a) /\ s[1] \in Branch[a] /\ s[len] \in Branch[a]
    BY <1>4, <1>8, <1>10, NumType
  <2> QED BY <1>1, <1>4, <1>11, <2>1, BranchUnique
<1>13. \A i \in 1..len : s[i] \in Off(a, b)
  BY <1>1, <1>4, <1>6, <1>8, <1>10, NumType
<1>14. \A i \in 1..len : i # 1 => previous_id[s[i]] = s[i - 1]
  <2>1. ASSUME NEW i \in 1..len, i # 1 PROVE previous_id[s[i]] = s[i - 1]
    <3>1. i - 1 \in 1..len /\ s[i] \in Block /\ s[i - 1] \in Branch[a] /\ num(s[i - 1]) = num(p) + i - 1
      BY <1>1, <1>4, <1>8, <1>10, <2>1, NumType
    <3>2. previous_id[s[i]] \in Block /\ previous_id[s[i]] # NoBlock
      BY Zenon, <1>2, <1>13, <2>1, ForkTreeAssumption
    <3>3. previous_id[s[i]] \in Branch[a] /\ num(s[i]) = num(previous_id[s[i]]) + 1
      BY Zenon, <1>10, <3>1, <3>2, BranchIsLeast, ParentBelow
    <3> QED BY <1>4, <1>10, <3>1, <3>2, <3>3, BranchUnique, NumType
  <2> QED BY Zenon, <2>1
<1>15. ChainOn(s, p)
  BY Zenon, <1>10, <1>11, <1>12, <1>14 DEF ChainOn
<1>16. \A i \in 1..len : s[i] \in f.index
  <2>1. ASSUME NEW i \in 1..len PROVE s[i] \in f.index
    <3>1. CASE i = len
      BY Zenon, <1>1, <1>11, <1>12, <3>1
    <3>2. CASE i # len
      <4>1. i + 1 \in 1..len /\ previous_id[s[i + 1]] = s[i]
        BY <1>8, <1>14, <3>2
      <4>2. s[i + 1] \in f.linked
        BY Zenon, <1>13, <4>1 DEF BranchesMeet, Off
      <4> QED BY Zenon, <4>1, <4>2 DEF Tree
    <3> QED BY Zenon, <3>1, <3>2
  <2> QED BY Zenon, <2>1
<1> QED BY Zenon, <1>4, <1>5, <1>7, <1>11, <1>12, <1>13, <1>15, <1>16

\* The blocks push_block walks down to, when no pointer was null: they hang one
\* after the other on the parent of the first, and all are in the index.
LEMMA BlocksToPushResult ==
  ASSUME NEW f \in ForkDb, Tree(f), f.head \in f.index, state_head \in Block,
         NEW b \in f.index, previous_id[b] \in f.index,
         num(f.head) > head_block_num,
         \A i \in DOMAIN BlocksToPush(f, b) : BlocksToPush(f, b)[i] # NoBlock
  PROVE  LET s == BlocksToPush(f, b)
         IN  /\ s \in Seq(Block) /\ s # <<>>
             /\ \A i \in DOMAIN s : num(s[i]) = head_block_num + i /\ s[i] \in f.index
             /\ \A i \in DOMAIN s : i # 1 => previous_id[s[i]] = s[i - 1]
<1> DEFINE g == [f EXCEPT !.linked = IF b = f.head THEN @ \cup {b} ELSE @]
           h == f.head
           len == num(h) - head_block_num
           s == BlocksToPush(f, b)
<1>1. g \in ForkDb /\ Tree(g) /\ g.index = f.index /\ h \in Block
  BY DEF ForkDb, Tree
<1>2. len \in Nat \ {0} /\ head_block_num \in Nat
  BY <1>1, NumType DEF head_block_num
<1>3. s = [i \in 1..len |-> WalkTo(g, h, head_block_num + i)]
  BY Zenon DEF BlocksToPush
<1> HIDE DEF g
<1>4. ASSUME NEW i \in 1..len
      PROVE  /\ s[i] \in Branch[h] /\ s[i] \in Block /\ num(s[i]) = head_block_num + i
             /\ \A c \in Branch[h] : num(c) > head_block_num + i => c \in g.linked
  <2>1. s[i] = WalkTo(g, h, head_block_num + i) /\ s[i] # NoBlock
    BY Zenon, <1>3
  <2> QED BY <1>1, <2>1, WalkToResult
<1>5. s \in Seq(Block) /\ s # <<>> /\ DOMAIN s = 1..len
  BY <1>2, <1>3, <1>4
<1>6. ASSUME NEW i \in 1..len, i # 1 PROVE previous_id[s[i]] = s[i - 1]
  <2>1. i - 1 \in 1..len /\ num(s[i]) > head_block_num + (i - 1)
    BY <1>2, <1>4, <1>6
  <2>2. s[i] \in g.linked
    BY Zenon, <1>4, <2>1
  <2>3. previous_id[s[i]] \in Block /\ previous_id[s[i]] # NoBlock
    BY Zenon, <1>1, <2>2, ForkTreeAssumption DEF Tree, ForkDb
  <2>4. previous_id[s[i]] \in Branch[h] /\ num(s[i]) = num(previous_id[s[i]]) + 1
    BY Zenon, <1>1, <1>4, <2>3, BranchIsLeast, ParentBelow
  <2>5. num(previous_id[s[i]]) = num(s[i - 1]) /\ s[i - 1] \in Branch[h]
    BY <1>2, <1>4, <2>1, <2>3, <2>4, NumType
  <2> QED BY Zenon, <1>1, <2>4, <2>5, BranchUnique
<1>7. ASSUME NEW i \in 1..len PROVE s[i] \in f.index
  <2>1. CASE i = len
    <3>1. s[i] \in Branch[h] /\ num(s[i]) = num(h)
      BY <1>1, <1>2, <1>4, <2>1, NumType
    <3> QED BY Zenon, <1>1, <3>1, BranchBelow
  <2>2. CASE i # len
    <3>1. i + 1 \in 1..len /\ num(s[i + 1]) > head_block_num + i /\ previous_id[s[i + 1]] = s[i]
      BY <1>2, <1>4, <1>6, <2>2
    <3>2. s[i + 1] \in g.linked
      BY Zenon, <1>4, <3>1
    <3> QED BY Zenon, <1>1, <3>1, <3>2 DEF Tree
  <2> QED BY Zenon, <2>1, <2>2
<1> QED BY <1>4, <1>5, <1>6, <1>7

--------------------
(* The inductive invariant *)

\* Above the settled block, or above the one that is being settled, the index
\* has the chain of the state.
Floor == IF pc = "commit" /\ lib > num(committed) THEN lib ELSE num(committed)
Kept ==
  pc \notin {"down", "refused"} =>
    \A c \in Branch[state_head] : num(c) > Floor => c \in fork_db.index

\* The fork database is a tree with a head.
Rooted == Tree(fork_db) /\ fork_db.head \in fork_db.index

\* The head of the fork database is the block of the state or higher, but for a
\* state that was popped as far as it can be.
Beside ==
  \/ fork_db.head = state_head
  \/ num(fork_db.head) > num(state_head)
  \/ state_head = committed

Storing == {"store", "append", "commit", "notify", "done"}

HeadInv ==
  /\ pc \in {"idle", "link", "pop"} => Beside
  /\ pc \in Storing => IF op.kind = "none" THEN Beside ELSE fork_db.head = state_head
  /\ pc \in {"append", "commit"} => num(fork_db.head) = num(state_head)
  /\ pc = "failed" => fork_db.head = op.todo[1]
  /\ pc = "link" => op.pushed \in fork_db.index /\ previous_id[op.pushed] \in fork_db.index

InIndex(s) == \A i \in DOMAIN s : s[i] \in fork_db.index

\* The blocks still to be applied hang on the state, or will after the pops.
TodoInv ==
  /\ pc \in {"idle", "link", "down", "refused"} => op.kind = "none"
  /\ pc = "pop" => op.kind \in {"switch", "restore"}
  /\ pc \in {"apply", "failed"} => op.kind # "none"
  /\ pc = "pop" /\ op.kind = "switch" =>
       op.todo # <<>> /\ ChainOn(op.todo, op.target) /\ InIndex(op.todo)
  /\ pc \in {"apply", "failed"} =>
       op.todo # <<>> /\ ChainOn(op.todo, state_head) /\ InIndex(op.todo)
  /\ pc \in Storing /\ op.kind # "none" =>
       /\ op.todo # <<>> /\ op.todo[1] = state_head
       /\ ChainOn(Tail(op.todo), state_head) /\ InIndex(Tail(op.todo))
  /\ pc = "store" /\ op.kind # "none" => state_head # committed

\* The old branch of a fork switch can be applied again as long as the fork
\* database reaches below the common block.
OldInv ==
  op.kind \in {"switch", "restore"} =>
    /\ op.target \in Block /\ op.common = num(op.target) /\ ChainOn(op.old, op.target)
    /\ op.kind = "switch" =>
         /\ InIndex(op.old) \/ \A b \in fork_db.index : num(b) > op.common
         /\ \A i \in DOMAIN op.old, j \in DOMAIN op.todo : op.old[i] # op.todo[j]
    /\ pc = "pop" /\ op.kind = "restore" => InIndex(op.old)

\* The log ends in the settled block, but for the blocks store_block wrote since.
LogInv ==
  /\ block_log[1] = Root
  /\ \A i \in 1..(Len(block_log) - 1) : previous_id[block_log[i + 1]] = block_log[i]
  /\ pc \notin {"append", "commit", "down", "refused"} => LogHead = committed
  /\ committed \in Branch[LogHead]
  /\ pc \in {"append", "commit"} =>
       LogHead \in Branch[state_head] /\ (LogHead = committed \/ num(LogHead) <= lib)
  /\ pc = "append" => \A n \in (num(LogHead) + 1)..lib :
                        fetch_block_on_main_branch_by_number(fork_db, n) # NoBlock
  /\ pc = "commit" => num(LogHead) >= lib

\* The state is above what was settled.
Anchored == committed \in Branch[state_head]

IInv ==
  /\ TypeOK /\ Anchored
  /\ Rooted /\ Kept /\ HeadInv /\ TodoInv /\ OldInv /\ LogInv

\* The first of a list of blocks is taken off, or put back.
LEMMA ChainTail ==
  ASSUME NEW s \in Seq(Block), s # <<>>, NEW p \in Block, ChainOn(s, p)
  PROVE  /\ ChainOn(Tail(s), s[1])
         /\ \A i \in DOMAIN Tail(s) : i + 1 \in DOMAIN s /\ Tail(s)[i] = s[i + 1]
<1>1. /\ \A i \in DOMAIN Tail(s) : i \in Nat \ {0} /\ i + 1 \in DOMAIN s /\ Tail(s)[i] = s[i + 1]
      /\ 1 \in DOMAIN s /\ s[1] \in Block
  OBVIOUS
<1>2. num(s[1]) = num(p) + 1 /\ num(p) \in Nat
  BY <1>1, NumType DEF ChainOn
<1>3. ASSUME NEW i \in DOMAIN Tail(s)
      PROVE  /\ num(Tail(s)[i]) = num(s[1]) + i
             /\ previous_id[Tail(s)[i]] = IF i = 1 THEN s[1] ELSE Tail(s)[i - 1]
  <2>1. num(s[i + 1]) = num(p) + (i + 1) /\ previous_id[s[i + 1]] = s[i]
    BY <1>1 DEF ChainOn
  <2>2. i # 1 => i - 1 \in DOMAIN Tail(s) /\ Tail(s)[i - 1] = s[i]
    BY <1>1
  <2>3. Tail(s)[i] = s[i + 1] /\ i \in Nat
    BY <1>1
  <2>4. num(p) + (i + 1) = num(s[1]) + i
    BY <1>2, <2>3
  <2>5. num(Tail(s)[i]) = num(s[1]) + i /\ previous_id[Tail(s)[i]] = s[i]
    BY <2>1, <2>3, <2>4, Zenon
  <2> QED BY <2>2, <2>5, Zenon
<1> QED BY Zenon, <1>1, <1>3 DEF ChainOn

\* A block on top of p and a list on top of that block are a list on top of p.
LEMMA ChainJoin ==
  ASSUME NEW s \in Seq(Block), s # <<>>, NEW p \in Block, previous_id[s[1]] = p,
         ChainOn(Tail(s), s[1])
  PROVE  ChainOn(s, p)
<1>1. 1 \in DOMAIN s /\ s[1] \in Block
  OBVIOUS
<1>2. num(s[1]) = num(p) + 1 /\ num(p) \in Nat
  BY <1>1, ParentBelow, NumType, ForkTreeAssumption
<1>3. ASSUME NEW i \in DOMAIN s, i # 1
      PROVE  num(s[i]) = num(p) + i /\ previous_id[s[i]] = s[i - 1]
  <2>1. i \in Nat /\ i - 1 \in DOMAIN Tail(s) /\ Tail(s)[i - 1] = s[i]
    BY <1>3
  <2>2. num(s[i]) = num(s[1]) + (i - 1)
    BY <2>1 DEF ChainOn
  <2>3. i - 1 # 1 => i - 1 - 1 \in DOMAIN Tail(s) /\ Tail(s)[i - 1 - 1] = s[i - 1]
    BY SMTT(30), <2>1
  <2>4. previous_id[s[i]] = IF i - 1 = 1 THEN s[1] ELSE Tail(s)[i - 1 - 1]
    BY Zenon, <2>1 DEF ChainOn
  <2>5. num(s[1]) + (i - 1) = num(p) + i /\ (i - 1 = 1 => i - 1 = 1 /\ s[1] = s[i - 1])
    BY SMTT(30), <1>2, <2>1
  <2> QED BY <2>2, <2>3, <2>4, <2>5, Zenon
<1> QED BY <1>2, <1>3 DEF ChainOn

--------------------
(* What the steps share *)

\* The root, the worlds and the bounds have their types.
LEMMA WriterTypes ==
  /\ Root \in Block
  /\ \A v \in Worlds : v.blocks \subseteq Block /\ v.kills \in Nat /\ v.start_voting \in Nat
  /\ HIVE_MAX_WITNESSES \in Nat /\ MaxForkDbSize \in Nat
BY WriterAssumption

\* A writer between operations has an operation of the right type.
LEMMA NoOpType == NoOp \in Op /\ NoOp.kind = "none"
BY DEF NoOp, Op

\* The locals that a step changes.
LEMMA OpOldLib ==
  ASSUME NEW o \in Op, NEW n \in Nat
  PROVE  LET q == [o EXCEPT !.old_lib = n]
         IN  /\ q \in Op /\ q.kind = o.kind /\ q.todo = o.todo /\ q.old = o.old
             /\ q.target = o.target /\ q.common = o.common
BY Zenon DEF Op

\* Taking a block off the list of an operation keeps its type.
LEMMA OpTodo ==
  ASSUME NEW o \in Op, NEW s \in Seq(Block)
  PROVE  LET q == [o EXCEPT !.todo = s]
         IN  /\ q \in Op /\ q.kind = o.kind /\ q.todo = s /\ q.old = o.old
             /\ q.target = o.target /\ q.common = o.common
BY Zenon DEF Op

\* Turning a fork switch into the restoration of the old branch keeps its type.
LEMMA OpRestore ==
  ASSUME NEW o \in Op
  PROVE  LET q == [o EXCEPT !.kind = "restore", !.todo = <<>>]
         IN  /\ q \in Op /\ q.kind = "restore" /\ q.todo = <<>> /\ q.old = o.old
             /\ q.target = o.target /\ q.common = o.common
<1>1. <<>> \in Seq(Block)
  OBVIOUS
<1> QED BY Zenon, <1>1 DEF Op

\* Recording the pushed block keeps the type of the operation.
LEMMA OpPushed ==
  ASSUME NEW o \in Op, NEW b \in Block
  PROVE  LET q == [o EXCEPT !.pushed = b, !.stack = <<b>>]
         IN  q \in Op /\ q.kind = o.kind /\ q.pushed = b
<1>1. <<b>> \in Seq(Block)
  OBVIOUS
<1> QED BY Zenon, <1>1 DEF Op

\* A database that was just started is a tree with a head.
LEMMA Started ==
  ASSUME NEW b \in Block
  PROVE  /\ start_block(b, MaxForkDbSize) \in ForkDb
         /\ Tree(start_block(b, MaxForkDbSize))
         /\ start_block(b, MaxForkDbSize).head = b
         /\ start_block(b, MaxForkDbSize).index = {b}
BY SMTT(30), WriterTypes DEF start_block, ForkDb, Tree

\* A throw leaves the operation, to the idle writer or to the migration of the
\* fast confirm that switched the fork.
LEMMA ThrowLeaves ==
  ASSUME op \in Op, Throw
  PROVE  pc' \in {"idle", "store"} /\ op' \in Op /\ op'.kind = "none"
<1>1. op.confirm_lib \in Nat
  BY DEF Op
<1> QED BY ZenonT(40), <1>1, NoOpType, OpOldLib DEF Throw

\* Outside an operation only the head of the fork database matters.
LEMMA OpLeft ==
  ASSUME pc' \in {"idle", "store"}, op'.kind = "none", Beside'
  PROVE  HeadInv' /\ TodoInv' /\ OldInv'
BY SMTT(30) DEF HeadInv, TodoInv, OldInv, Storing

\* A process that is down has no operation and no fork database to speak of.
LEMMA OpGone ==
  ASSUME pc' \in {"down", "refused"}, op'.kind = "none"
  PROVE  HeadInv' /\ TodoInv' /\ OldInv' /\ Kept'
BY Zenon DEF HeadInv, TodoInv, OldInv, Kept, Storing

\* Outside of a migration LogInv depends on log and settled block alone.
LEMMA LogStays ==
  ASSUME LogInv, block_log' = block_log, committed' = committed,
         pc \notin {"append", "commit", "down", "refused"}, pc' \notin {"append", "commit"}
  PROVE  LogInv'
BY DEF LogInv, LogHead

\* A growing fork database and a shrinking branch of the state keep Kept.
LEMMA KeptStays ==
  ASSUME Kept, pc \notin {"commit", "down", "refused"}, pc' # "commit", committed' = committed,
         fork_db.index \subseteq fork_db'.index, Branch[state_head'] \subseteq Branch[state_head]
  PROVE  Kept'
BY DEF Kept, Floor

\* The log is not empty and its last block is a block.
LEMMA LogHeadType ==
  ASSUME block_log \in Seq(Block), block_log # <<>>
  PROVE  LogHead \in Block
BY DEF LogHead

\* The state one block back, unless that is settled.
LEMMA UndoOne ==
  ASSUME {state_head, committed} \subseteq Block, Anchored, state_head # committed
  PROVE  /\ previous_id[state_head] \in Block
         /\ num(state_head) = num(previous_id[state_head]) + 1
         /\ committed \in Branch[previous_id[state_head]]
         /\ Branch[previous_id[state_head]] \subseteq Branch[state_head]
<1>1. previous_id[state_head] \in Block /\ committed \in Branch[previous_id[state_head]]
  BY BranchStep DEF Anchored
<1>2. previous_id[state_head] # NoBlock
  BY Zenon, <1>1, ForkTreeAssumption
<1>3. previous_id[state_head] \in Branch[state_head]
  BY Zenon, <1>2, BranchIsLeast
<1> QED BY Zenon, <1>1, <1>2, <1>3, ParentBelow, BranchInBranch

\* A longer branch: the database has it when it had the shorter one.
LEMMA ApplyOne ==
  ASSUME NEW b \in Block, state_head \in Block, previous_id[b] = state_head
  PROVE  /\ num(b) = num(state_head) + 1
         /\ Branch[state_head] \subseteq Branch[b]
         /\ \A c \in Branch[b] : c = b \/ c \in Branch[state_head]
<1>1. previous_id[b] # NoBlock
  BY ForkTreeAssumption
<1> QED BY Zenon, <1>1, BranchIsLeast, BranchInBranch, BranchStep, ParentBelow

\* Votes that are kept when the irreversible number moves are votes.
LEMMA KeepRelevantType ==
  ASSUME NEW votes \in [Witness -> Block \cup {NoBlock}], NEW n
  PROVE  KeepRelevant(votes, n) \in [Witness -> Block \cup {NoBlock}]
BY DEF KeepRelevant

--------------------
(* Stopping and opening *)

\* A node that stops or is killed keeps what is durable.
LEMMA StopKeeps ==
  ASSUME IInv, Stop, crashes' \in 0..world.kills
  PROVE  IInv'
<1>1. /\ pc' = "down" /\ op' = NoOp /\ interrupted' = FALSE /\ approved' = NoVotes
      /\ fork_db' = start_block(Root, MaxForkDbSize)
      /\ state_head' = state_head /\ committed' = committed /\ lib' = lib
      /\ block_log' = block_log /\ notified' = notified /\ world' = world
  BY Zenon DEF Stop, durable
<1>2. Rooted' /\ fork_db' \in ForkDb
  BY SMTT(30), <1>1, Started, WriterTypes DEF Rooted
<1>3. TypeOK'
  BY ZenonT(40), <1>1, <1>2, NoOpType DEF IInv, TypeOK, Pc, NoVotes
<1>4. Anchored' /\ LogInv'
  BY Zenon, <1>1 DEF IInv, Anchored, LogInv, LogHead
<1>5. HeadInv' /\ TodoInv' /\ OldInv' /\ Kept'
  BY Zenon, <1>1, OpGone, NoOpType
<1> QED BY Zenon, <1>2, <1>3, <1>4, <1>5 DEF IInv

\* A node that starts on a block has what it needs.
LEMMA StartsOn ==
  ASSUME NEW b \in Block, fork_db' = start_block(b, MaxForkDbSize), pc' = "idle",
         state_head' = b, committed' = b, op'.kind = "none"
  PROVE  /\ fork_db' \in ForkDb /\ Anchored' /\ Rooted' /\ Kept'
         /\ HeadInv' /\ TodoInv' /\ OldInv'
<1>1. /\ fork_db' \in ForkDb /\ Tree(fork_db') /\ fork_db'.head = b /\ fork_db'.index = {b}
  BY Zenon, Started
<1>2. b \in Branch[b] /\ \A c \in Branch[b] : c \in Block /\ num(c) <= num(b)
  BY Zenon, BranchIsLeast, BranchBelow
<1>3. Anchored' /\ Rooted' /\ Beside'
  BY Zenon, <1>1, <1>2 DEF Anchored, Rooted, Beside
<1>4. Kept'
  BY <1>2, NumType DEF Kept, Floor
<1>5. HeadInv' /\ TodoInv' /\ OldInv'
  BY <1>3, OpLeft
<1> QED BY Zenon, <1>1, <1>3, <1>4, <1>5

\* Opening takes the state back to the settled block and starts a fork database
\* there.
LEMMA OpenKeeps ==
  ASSUME IInv, Open
  PROVE  IInv'
<1>1. /\ pc = "down" /\ state_head' = committed /\ approved' = NoVotes /\ committed' = committed
      /\ lib' = lib /\ block_log' = block_log /\ notified' = notified /\ op' = op
      /\ interrupted' = interrupted /\ crashes' = crashes /\ world' = world
      /\ committed \in Block /\ op.kind = "none"
  BY DEF Open, IInv, TypeOK, TodoInv
<1>2. CASE num(committed) >= lib /\ LogHead = committed
  <2>1. pc' = "idle" /\ fork_db' = start_block(committed, MaxForkDbSize)
    BY Zenon, <1>2 DEF Open
  <2>2. fork_db' \in ForkDb /\ Anchored' /\ Rooted' /\ Kept' /\ HeadInv' /\ TodoInv' /\ OldInv'
    BY Zenon, <1>1, <2>1, StartsOn
  <2>3. TypeOK'
    BY Zenon, <1>1, <2>1, <2>2 DEF IInv, TypeOK, Pc, NoVotes
  <2>4. LogInv'
    BY Zenon, <1>1, <1>2, <2>1 DEF IInv, LogInv, LogHead
  <2> QED BY Zenon, <2>2, <2>3, <2>4 DEF IInv
<1>3. CASE ~(num(committed) >= lib /\ LogHead = committed)
  <2>1. pc' = "refused" /\ fork_db' = fork_db
    BY Zenon, <1>3 DEF Open
  <2>2. TypeOK'
    BY Zenon, <1>1, <2>1 DEF IInv, TypeOK, Pc, NoVotes
  <2>3. Anchored' /\ Rooted' /\ LogInv'
    BY Zenon, <1>1, <2>1, BranchIsLeast DEF IInv, Anchored, Rooted, LogInv, LogHead
  <2>4. HeadInv' /\ TodoInv' /\ OldInv' /\ Kept'
    BY Zenon, <1>1, <2>1, OpGone
  <2> QED BY Zenon, <2>2, <2>3, <2>4 DEF IInv
<1> QED BY Zenon, <1>2, <1>3

\* A replay takes the state to the end of the log.
LEMMA ForceReplayKeeps ==
  ASSUME IInv, ForceReplay
  PROVE  IInv'
<1>1. /\ pc = "refused" /\ pc' = "idle" /\ state_head' = LogHead /\ committed' = LogHead
      /\ lib' = num(LogHead) /\ fork_db' = start_block(LogHead, MaxForkDbSize)
      /\ block_log' = block_log /\ approved' = approved /\ notified' = notified /\ op' = op
      /\ interrupted' = interrupted /\ crashes' = crashes /\ world' = world
      /\ LogHead \in Block /\ op.kind = "none"
  BY Zenon, LogHeadType DEF ForceReplay, IInv, TypeOK, TodoInv
<1>2. fork_db' \in ForkDb /\ Anchored' /\ Rooted' /\ Kept' /\ HeadInv' /\ TodoInv' /\ OldInv'
  BY Zenon, <1>1, StartsOn
<1>3. TypeOK'
  BY Zenon, <1>1, <1>2, NumType DEF IInv, TypeOK, Pc
<1>4. LogInv'
  BY Zenon, <1>1, BranchIsLeast DEF IInv, LogInv, LogHead
<1> QED BY <1>2, <1>3, <1>4 DEF IInv

\* Nothing changes.
LEMMA StutterKeeps ==
  ASSUME IInv, UNCHANGED vars
  PROVE  IInv'
<1>1. /\ fork_db' = fork_db /\ state_head' = state_head /\ committed' = committed /\ lib' = lib
      /\ block_log' = block_log /\ approved' = approved /\ notified' = notified /\ pc' = pc /\ op' = op
      /\ interrupted' = interrupted /\ crashes' = crashes /\ world' = world
  BY Zenon DEF vars, durable
<1>2. TypeOK' /\ Anchored' /\ Rooted'
  BY Zenon, <1>1 DEF IInv, TypeOK, Anchored, Rooted
<1>3. Kept' /\ LogInv'
  BY Zenon, <1>1 DEF IInv, Kept, Floor, LogInv, LogHead
<1>4. HeadInv'
  BY Zenon, <1>1 DEF IInv, HeadInv, Beside
<1>5. TodoInv' /\ OldInv'
  BY <1>1 DEF IInv, TodoInv, OldInv, InIndex
<1> QED BY Zenon, <1>2, <1>3, <1>4, <1>5 DEF IInv

--------------------
(* Writing the block log *)

\* store_block finds every block it has to write, or fails.
LEMMA StoreBlockKeeps ==
  ASSUME IInv, StoreBlock
  PROVE  IInv'
<1>1. /\ pc = "store" /\ fork_db' = fork_db /\ committed' = committed
      /\ lib' = lib /\ block_log' = block_log /\ notified' = notified /\ approved' = approved
      /\ crashes' = crashes /\ world' = world
  BY Zenon DEF StoreBlock
<1>2. /\ fork_db \in ForkDb /\ fork_db.head \in fork_db.index /\ fork_db.head \in Block
      /\ fork_db.head # NoBlock /\ op \in Op /\ op.todo \in Seq(Block)
      /\ state_head \in Block /\ committed \in Block /\ lib \in Nat
      /\ block_log \in Seq(Block) /\ block_log # <<>> /\ LogHead \in Block /\ LogHead = committed
  BY Zenon, <1>1, LogHeadType, ForkTreeAssumption DEF IInv, TypeOK, Rooted, LogInv, ForkDb, Op
<1>3. Rooted'
  BY SMTT(30), <1>1 DEF IInv, Rooted
<1>4. CASE StoreAsserts
  <2>1. pc' = "append" /\ state_head' = state_head /\ op' = op /\ interrupted' = interrupted
    BY SMTT(30), <1>4 DEF StoreBlock
  <2>2. TypeOK'
    BY SMTT(30), <1>1, <2>1 DEF IInv, TypeOK, Pc
  <2>3. Anchored' /\ Kept'
    BY SMTT(30), <1>1, <2>1, KeptStays DEF IInv, Anchored
  <2>4. HeadInv'
    BY SMTT(30), <1>1, <1>2, <1>4, <2>1 DEF IInv, HeadInv, Beside, Storing, StoreAsserts, head_block_num
  <2>5. TodoInv' /\ OldInv'
    BY SMTT(30), <1>1, <2>1 DEF IInv, TodoInv, OldInv, InIndex, Storing
  <2>6. ASSUME NEW n \in (num(LogHead) + 1)..lib
        PROVE  fetch_block_on_main_branch_by_number(fork_db, n) # NoBlock
    <3>1. n - num(LogHead) \in 1..(lib - num(LogHead)) /\ num(LogHead) < lib /\ num(LogHead) \in Nat
      BY SMTT(30), <1>2, <2>6, NumType
    <3>2. BlocksToWrite[n - num(LogHead)] = fetch_block_on_main_branch_by_number(fork_db, n)
      BY <3>1 DEF BlocksToWrite
    <3>3. n - num(LogHead) \in DOMAIN BlocksToWrite
      BY SMTT(30), <3>1 DEF BlocksToWrite
    <3> QED BY Zenon, <1>4, <3>1, <3>2, <3>3 DEF StoreAsserts
  <2>7. LogInv'
    BY Zenon, <1>1, <1>2, <2>1, <2>6 DEF IInv, LogInv, LogHead, Anchored
  <2> QED BY <1>3, <2>2, <2>3, <2>4, <2>5, <2>7 DEF IInv
<1>5. CASE ~StoreAsserts /\ op.kind = "none"
  <2>1. pc' = "idle" /\ op' = NoOp /\ state_head' = state_head /\ interrupted' = TRUE
    BY Zenon, <1>5 DEF StoreBlock
  <2>2. TypeOK'
    BY Zenon, <1>1, <2>1, NoOpType DEF IInv, TypeOK, Pc
  <2>3. Anchored' /\ Kept' /\ LogInv'
    BY Zenon, <1>1, <2>1, KeptStays, LogStays DEF IInv, Anchored
  <2>4. Beside'
    BY Zenon, <1>1, <1>5, <2>1 DEF IInv, HeadInv, Storing, Beside
  <2>5. HeadInv' /\ TodoInv' /\ OldInv'
    BY Zenon, <2>1, <2>4, OpLeft, NoOpType
  <2> QED BY Zenon, <1>3, <2>2, <2>3, <2>5 DEF IInv
<1>6. CASE ~StoreAsserts /\ op.kind # "none"
  <2>1. /\ state_head # committed /\ op.todo # <<>> /\ op.todo[1] = state_head
        /\ ChainOn(Tail(op.todo), state_head) /\ InIndex(Tail(op.todo))
        /\ fork_db.head = state_head
    BY Zenon, <1>1, <1>6 DEF IInv, TodoInv, HeadInv, Storing
  <2>2. pc' = "failed" /\ op' = op /\ state_head' = previous_id[state_head] /\ interrupted' = TRUE
    BY Zenon, <1>6, <2>1 DEF StoreBlock
  <2>3. /\ state_head' \in Block /\ Anchored' /\ Branch[state_head'] \subseteq Branch[state_head]
    BY Zenon, <1>1, <1>2, <2>1, <2>2, UndoOne DEF IInv, Anchored
  <2>4. TypeOK'
    BY Zenon, <1>1, <2>2, <2>3 DEF IInv, TypeOK, Pc
  <2>5. Kept' /\ LogInv'
    BY Zenon, <1>1, <2>2, <2>3, KeptStays, LogStays DEF IInv
  <2>6. HeadInv'
    BY Zenon, <1>1, <2>1, <2>2 DEF HeadInv, Storing
  <2>7. ChainOn(op.todo, state_head')
    BY Zenon, <1>2, <2>1, <2>2, <2>3, ChainJoin
  <2>8. \A i \in DOMAIN op.todo : op.todo[i] \in fork_db.index
    <3>1. \A i \in DOMAIN op.todo : i = 1 \/ (i - 1 \in DOMAIN Tail(op.todo) /\ Tail(op.todo)[i - 1] = op.todo[i])
      BY SMTT(30), <1>2, <2>1
    <3> QED BY ZenonT(40), <1>2, <2>1, <3>1 DEF InIndex
  <2>9. TodoInv' /\ OldInv'
    BY Zenon, <1>1, <1>6, <2>1, <2>2, <2>7, <2>8 DEF IInv, TodoInv, OldInv, InIndex, Storing
  <2> QED BY Zenon, <1>3, <2>3, <2>4, <2>5, <2>6, <2>9 DEF IInv
<1> QED BY Zenon, <1>4, <1>5, <1>6

\* The block store_block writes next is the next one of the state's chain.
LEMMA AppendBlockKeeps ==
  ASSUME IInv, AppendBlock
  PROVE  IInv'
<1> DEFINE n == num(LogHead) + 1
           b == fetch_block_on_main_branch_by_number(fork_db, n)
<1>1. /\ pc = "append" /\ num(LogHead) < lib
      /\ fork_db' = fork_db /\ state_head' = state_head /\ committed' = committed /\ lib' = lib
      /\ approved' = approved /\ notified' = notified /\ pc' = pc /\ op' = op
      /\ interrupted' = interrupted /\ crashes' = crashes /\ world' = world
      /\ block_log' = Append(block_log, BlocksToWrite[1])
  BY Zenon DEF AppendBlock
<1>2. /\ fork_db \in ForkDb /\ state_head \in Block /\ committed \in Block /\ lib \in Nat
      /\ block_log \in Seq(Block) /\ block_log # <<>> /\ LogHead \in Block
      /\ num(fork_db.head) = num(state_head) /\ committed \in Branch[LogHead]
      /\ LogHead \in Branch[state_head]
  BY Zenon, <1>1, LogHeadType DEF IInv, TypeOK, HeadInv, LogInv
<1>3. n \in Nat /\ num(LogHead) \in Nat /\ n \in (num(LogHead) + 1)..lib
  BY SMTT(30), <1>1, <1>2, NumType
<1>4. b # NoBlock
  BY Zenon, <1>1, <1>3 DEF IInv, LogInv
<1>5. block_log' = Append(block_log, b)
  <2>1. 1 \in 1..(lib - num(LogHead))
    BY SMTT(30), <1>1, <1>2, <1>3
  <2> QED BY Zenon, <1>1, <2>1 DEF BlocksToWrite
<1>6. /\ fork_db.head \in Block /\ n <= num(fork_db.head) /\ b \in Block /\ num(b) = n
      /\ \A c \in Branch[fork_db.head] : num(c) = n /\ c \in fork_db.index => c = b
  BY Zenon, <1>2, <1>3, <1>4, FetchMain
<1> HIDE DEF n, b
<1>7. num(committed) <= num(LogHead) /\ num(committed) \in Nat
  BY Zenon, <1>2, BranchBelow, NumType
<1>8. fork_db.head = state_head
  <2>1. state_head # committed
    BY SMTT(30), <1>2, <1>3, <1>6, <1>7 DEF n
  <2>2. Beside
    BY Zenon, <1>1 DEF IInv, HeadInv, Storing, Beside
  <2> QED BY SMTT(30), <1>2, <2>1, <2>2, NumType DEF Beside
<1>9. b \in Branch[state_head]
  <2>1. PICK c \in Branch[state_head] : num(c) = n
    BY SMTT(30), <1>2, <1>3, <1>6, <1>8, BranchDense, NumType DEF n
  <2>2. c \in fork_db.index
    BY SMTT(30), <1>1, <1>3, <1>7, <2>1 DEF IInv, Kept, Floor, n
  <2> QED BY Zenon, <1>6, <1>8, <2>1, <2>2
<1>10. LogHead \in Branch[b] /\ previous_id[b] = LogHead
  <2>1. LogHead \in Branch[b] /\ LogHead # b
    BY SMTT(30), <1>2, <1>3, <1>6, <1>9, BranchLinear DEF n
  <2>2. previous_id[b] \in Block /\ LogHead \in Branch[previous_id[b]]
    BY Zenon, <1>6, <2>1, BranchStep
  <2>3. num(previous_id[b]) = num(LogHead)
    BY SMTT(30), <1>3, <1>6, <2>2, ParentBelow, NumType, ForkTreeAssumption DEF n
  <2> QED BY Zenon, <2>1, <2>2, <2>3, BranchBelow
<1>11. /\ block_log' \in Seq(Block) /\ block_log' # <<>> /\ Len(block_log') = Len(block_log) + 1
       /\ \A i \in 1..Len(block_log) : block_log'[i] = block_log[i]
       /\ block_log'[Len(block_log) + 1] = b /\ LogHead' = b /\ Len(block_log) \in Nat \ {0}
       /\ LogHead = block_log[Len(block_log)]
  BY SMTT(30), <1>2, <1>5, <1>6 DEF LogHead
<1>12. TypeOK'
  BY Zenon, <1>1, <1>11 DEF IInv, TypeOK
<1>13. Anchored' /\ Rooted' /\ Kept' /\ HeadInv' /\ TodoInv' /\ OldInv'
  BY Zenon, <1>1 DEF IInv, Anchored, Rooted, Kept, Floor, HeadInv, Beside, TodoInv, OldInv, InIndex, Storing
<1>14. committed' \in Branch[LogHead'] /\ LogHead' \in Branch[state_head'] /\ num(LogHead') <= lib'
  <2>1. committed \in Branch[b]
    BY Zenon, <1>2, <1>6, <1>10, BranchInBranch
  <2>2. num(b) <= lib
    BY SMTT(30), <1>3, <1>6
  <2> QED BY <1>1, <1>9, <1>11, <2>1, <2>2, Zenon
<1>15. block_log'[1] = Root /\ \A i \in 1..(Len(block_log') - 1) : previous_id[block_log'[i + 1]] = block_log'[i]
  <2>1. block_log[1] = Root /\ \A i \in 1..(Len(block_log) - 1) : previous_id[block_log[i + 1]] = block_log[i]
    BY Zenon DEF IInv, LogInv
  <2>2. ASSUME NEW i \in 1..(Len(block_log') - 1) PROVE previous_id[block_log'[i + 1]] = block_log'[i]
    <3>1. CASE i = Len(block_log)
      BY SMTT(30), <1>10, <1>11, <3>1
    <3>2. CASE i # Len(block_log)
      <4>1. i \in 1..(Len(block_log) - 1) /\ i + 1 \in 1..Len(block_log) /\ i \in 1..Len(block_log)
        BY <1>11, <3>2
      <4> QED BY Zenon, <1>11, <2>1, <4>1
    <3> QED BY Zenon, <3>1, <3>2
  <2> QED BY SMTT(30), <1>11, <2>1, <2>2
<1>16. \A m \in (num(LogHead') + 1)..lib' : fetch_block_on_main_branch_by_number(fork_db', m) # NoBlock
  <2>1. ASSUME NEW m \in (num(b) + 1)..lib PROVE fetch_block_on_main_branch_by_number(fork_db, m) # NoBlock
    <3>1. m \in (num(LogHead) + 1)..lib
      BY SMTT(30), <1>2, <1>3, <1>6 DEF n
    <3> QED BY Zenon, <1>1, <3>1 DEF IInv, LogInv
  <2> QED BY Zenon, <1>1, <1>11, <2>1
<1>17. LogInv'
  BY Zenon, <1>1, <1>14, <1>15, <1>16 DEF LogInv
<1> QED BY Zenon, <1>12, <1>13, <1>17 DEF IInv

====
