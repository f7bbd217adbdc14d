----------------------------- MODULE ForkDatabase -----------------------------
(***************************************************************************)
(* fork_database: the tree of reversible blocks a node keeps in memory.    *)
(* Blocks are immutable, so everything a header says is a constant         *)
(* function of the block; the database itself is one record,               *)
(*   index     ids in _index,                                              *)
(*   linked    those of them whose weak pointer prev still locks,          *)
(*   unlinked  ids in _unlinked_index,                                     *)
(*   head      _head (NoBlock when null),                                  *)
(*   max_size  _max_size.                                                  *)
(* A fork_item is identified with the id of its block.  A block whose      *)
(* parent was erased stays in index but leaves linked, and does not come   *)
(* back to it when a block with the parent's id is inserted again: the     *)
(* weak pointer referred to the erased object.                             *)
(***************************************************************************)
EXTENDS Integers, FiniteSets, Sequences

CONSTANTS
  Block,          \* block ids
  NoBlock,        \* null pointer, or the id of a block outside Block
  Witness,        \* block producers
  previous_id,    \* [Block -> Block \cup {NoBlock}]
  get_block_num,  \* [Block -> Nat], the number encoded in the id
  witness         \* [Block -> Witness], who signed the block

ASSUME ForkTreeAssumption ==
  /\ NoBlock \notin Block
  /\ previous_id \in [Block -> Block \cup {NoBlock}]
  /\ get_block_num \in [Block -> Nat \ {0}]
  /\ witness \in [Block -> Witness]
  /\ \A b \in Block : previous_id[b] # NoBlock =>
        get_block_num[b] = get_block_num[previous_id[b]] + 1

ForkDb == [index : SUBSET Block, linked : SUBSET Block, unlinked : SUBSET Block,
           head : Block \cup {NoBlock}, max_size : Nat]

\* A set that holds the parent of each of its blocks.
Closed(S) == \A b \in S : previous_id[b] # NoBlock => previous_id[b] \in S

\* The chain that ends in b, by the ids in the headers: the blocks that no closed
\* set with b in it leaves out.
Branch == [b \in Block |->
  Block \ {a \in Block : \E S \in SUBSET Block : Closed(S) /\ b \in S /\ a \notin S}]

\* prev.lock() of the item of b.
PrevLock(f, b) == IF b \in f.linked THEN previous_id[b] ELSE NoBlock

\* The blocks of the chain that ends in b, by number.
Ancestor == [b \in Block |->
  [n \in {get_block_num[a] : a \in Branch[b]} |-> CHOOSE a \in Branch[b] : get_block_num[a] = n]]

\* The blocks that are reached from b along prev.lock().
Reach(f, b) == {a \in Branch[b] : \A c \in Branch[b] : get_block_num[c] > get_block_num[a] => c \in f.linked}

\* The one of them numbered n; NoBlock when a pointer is null before it.
WalkTo(f, b, n) ==
  IF n \in DOMAIN Ancestor[b] /\ Ancestor[b][n] \in Reach(f, b) THEN Ancestor[b][n] ELSE NoBlock

Oldest(n, f) == IF get_block_num[f.head] > n THEN get_block_num[f.head] - n ELSE 0

\* Erasing items expires the prev of the children they leave behind.
Erase(f, gone) ==
  [f EXCEPT !.index = @ \ gone,
            !.linked = {b \in @ \ gone : previous_id[b] \notin gone}]

start_block(b, size) ==
  [index |-> {b}, linked |-> {}, unlinked |-> {}, head |-> b, max_size |-> size]

\* The two HIVE_ASSERTs of _push_block that raise unlinkable_block_exception;
\* a database without head takes every block.
Unlinkable(f, b) ==
  /\ f.head # NoBlock
  /\ \/ get_block_num[b] <= Oldest(f.max_size, f)
     \/ previous_id[b] \notin f.index

Insert(f, b) ==
  [f EXCEPT !.index = @ \cup {b},
            !.linked = IF b \in f.index \/ f.head = NoBlock THEN @ ELSE @ \cup {b},
            !.head = IF @ = NoBlock THEN b ELSE IF get_block_num[b] > get_block_num[@] THEN b ELSE @]

\* The cached blocks that _push_next(b) looks for.
Waiting(f, b) == {u \in f.unlinked : previous_id[u] = b}

\* _push_next takes one of them out of the cache and pushes it.
TakeOut(f, u) == [f EXCEPT !.unlinked = @ \ {u}]

\* push_block caches a block that does not link before it rethrows.
CacheUnlinked(f, b) == [f EXCEPT !.unlinked = @ \cup {b}]

pop_block(f) == [f EXCEPT !.head = previous_id[@]]

set_head(f, b) == [f EXCEPT !.head = b]

\* remove() of each of a list of blocks, oldest first: no other one than the
\* oldest can be the head.
remove(f, blocks) ==
  LET b == Head(blocks)
      g == IF f.head = b THEN set_head(f, PrevLock(f, b)) ELSE f
  IN  Erase(g, {blocks[i] : i \in DOMAIN blocks})

set_max_size(f, s) ==
  LET old == {b \in Block : get_block_num[b] <= Oldest(s, f)}
  IN  IF f.head = NoBlock THEN [f EXCEPT !.max_size = s]
      ELSE [Erase(f, old) EXCEPT !.unlinked = @ \ old, !.max_size = s]

fetch_block_by_number(f, n) == {b \in f.index : get_block_num[b] = n}

fetch_heads(f) == {b \in f.index : \A c \in f.index : previous_id[c] # b}

\* get_last_irreversible_block_num(), the smallest number in the index, is n or
\* more.
irreversible_at_least(f, n) == \A b \in f.index : n <= get_block_num[b]

\* The blocks get_last_block_generated_by_each_witness may report for w: the
\* highest numbered ones, equal numbers being kept in insertion order.
LastGenerated(f, w) ==
  LET own == {b \in f.index : witness[b] = w}
  IN  IF own = {} THEN {NoBlock}
      ELSE {b \in own : \A c \in own : get_block_num[c] <= get_block_num[b]}

\* Mutant: the first block with that number, without walking the branch.
fetch_any_block_by_number(f, n) ==
  LET blocks == fetch_block_by_number(f, n)
  IN  IF f.head = NoBlock \/ n > get_block_num[f.head] \/ blocks = {} THEN NoBlock
      ELSE CHOOSE b \in blocks : TRUE

\* One block with that number is taken to be the main branch's; the branch is
\* walked only when there are several.
fetch_block_on_main_branch_by_number(f, n) ==
  LET blocks == fetch_block_by_number(f, n)
  IN  IF f.head = NoBlock \/ n > get_block_num[f.head] \/ blocks = {} THEN NoBlock
      ELSE IF \E b \in blocks : blocks = {b} THEN CHOOSE b \in blocks : TRUE
      ELSE WalkTo(f, f.head, n)

\* The blocks of the chain of a that are not on the chain of b.
Off(a, b) == Branch[a] \ Branch[b]

\* fetch_branch_from walks both branches down to the level where they hang on the
\* same parent, or one of them is the other's block, and asserts when a pointer
\* is null before that.
BranchesMeet(f, a, b) ==
  /\ {a, b} \subseteq f.index /\ Branch[a] \cap Branch[b] # {}
  /\ \A c \in Off(a, b) \cup Off(b, a) :
       \/ c \in f.linked
       \/ Off(a, b) # {} /\ Off(b, a) # {} /\ previous_id[c] \in Branch[a] \cap Branch[b]

\* The branch of a since it left the branch of b, oldest block first (the code
\* fills the vectors from the tips and its caller iterates them backwards).
fetch_branch_from(a, b) ==
  LET lowest == CHOOSE c \in Off(a, b) : previous_id[c] \notin Off(a, b)
      first == get_block_num[lowest]
  IN  IF Off(a, b) = {} THEN <<>>
      ELSE [i \in 1..(get_block_num[a] - first + 1) |-> Ancestor[a][first + i - 1]]
===============================================================================
