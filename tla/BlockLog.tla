------------------------------ MODULE BlockLog ------------------------------
(***************************************************************************)
(* One file of the block log and the artifacts file beside it, as          *)
(* libraries/chain/block_log.cpp and block_log_artifacts.cpp keep them.    *)
(*                                                                         *)
(* A log file is a sequence of cells.  A cell is a complete block followed *)
(* by the position the block starts at, or Torn: a block only part of      *)
(* which reached the file.  A cell is the unit of position and of size.    *)
(* The artifacts file is a header and one chunk per block, which gives the *)
(* position of the block; a chunk that was never written reads as zeros.   *)
(* The header exists twice, in memory and in the file: only flush_header   *)
(* and close() copy the first to the second.                               *)
(***************************************************************************)
EXTENDS Integers, Sequences, SequencesExt, FiniteSets, FiniteSetsExt

CONSTANTS
    BLOCKS_IN_SPLIT_BLOCK_LOG_FILE,
    BLOCKS_SAMPLE_AMOUNT,           \* blocks verified when the artifacts are opened
    AUTO_FIXING_DEPTH,              \* blocks verified before a torn tail is cut off
    BLOCKS_COUNT_INTERVAL_FOR_SAVE, \* blocks generated between two saved headers
    WRITE_BATCH_SIZE,               \* chunks generated between two writes
    BLOCKS_COUNT_INTERVAL_FOR_FLUSH \* blocks stored between two flushed headers

(* The arithmetic of parts, block_log_wrapper.hpp.                         *)
get_part_number_for_block(n) ==
    IF n = 0 THEN 1
    ELSE (n + BLOCKS_IN_SPLIT_BLOCK_LOG_FILE - 1) \div BLOCKS_IN_SPLIT_BLOCK_LOG_FILE

get_number_of_first_block_in_part(p) == 1 + (p - 1) * BLOCKS_IN_SPLIT_BLOCK_LOG_FILE

get_number_of_last_block_in_part(p) == p * BLOCKS_IN_SPLIT_BLOCK_LOG_FILE

is_last_number_of_the_file(n) == n % BLOCKS_IN_SPLIT_BLOCK_LOG_FILE = 0

--------------------
Torn == [num |-> 0, pos |-> 0]

NoFile == [log |-> <<>>, exists |-> FALSE]

(* What a read of a block may yield besides a block's number.              *)
Refused == -1
NullBlock == 0
Garbage == -2

artifact_file_header == [head |-> 0, tail |-> 0, interrupted |-> 0]

(* A file with the blocks of cells and no artifacts.                       *)
LogFile(cells) ==
    [log |-> cells, exists |-> TRUE, indexed |-> FALSE,
     header |-> artifact_file_header, chunks |-> <<>>]

(* read_head: the number of the block the last position field leads to.    *)
read_head(cells) == IF cells = <<>> THEN 0 ELSE Last(cells).num

--------------------
(* sanity_check: a last cell that is no complete block stops the opening,  *)
(* unless the file is opened for writing with automatic fixing on and has  *)
(* enough blocks for the walk back that confirms the place of the cut.     *)
IsTorn(cells) == cells # <<>> /\ Last(cells) = Torn

Fixable(cells, read_only, auto_fixing) ==
    ~read_only /\ auto_fixing /\ Len(Front(cells)) >= AUTO_FIXING_DEPTH + 2

sanity_check(cells, read_only, auto_fixing) ==
    ~IsTorn(cells) \/ Fixable(cells, read_only, auto_fixing)

FixedLog(cells) == IF IsTorn(cells) THEN Front(cells) ELSE cells

--------------------
(* A chunk n of the file f, read with its successor, which gives the size. *)
(* header is the header in memory.  A read past the end of the file is     *)
(* incomplete; a hole at n + 1 makes the size wrap around; a hole at n     *)
(* alone reads the beginning of the log under the number n.                *)
LastChunk(f) == IF DOMAIN f.chunks = {} THEN 0 ELSE Max(DOMAIN f.chunks)

BlockAt(cells, p, q) ==
    IF p \in DOMAIN cells /\ q = p + 1 THEN cells[p].num ELSE Garbage

read_raw_block_data_by_num(f, header, n) ==
    IF n = header.head \/ n + 1 > LastChunk(f) \/ n + 1 \notin DOMAIN f.chunks
    THEN Refused
    ELSE IF n \notin DOMAIN f.chunks THEN Garbage
    ELSE BlockAt(f.log, f.chunks[n], f.chunks[n + 1])

(* read_block_by_num, whose caller has loaded the cached head block.       *)
ReadBelowHead(f, header, head, n) ==
    IF n = 0 \/ n > head THEN NullBlock
    ELSE IF n = head THEN n
    ELSE read_raw_block_data_by_num(f, header, n)

(* verify_if_blocks_from_block_log_matches_artifacts, without the full     *)
(* match: the blocks below the head (of the log, when it is the shorter    *)
(* one) are read back through the artifacts.  first is the first block     *)
(* number of the file.  The lower end wraps around near block 0 and then   *)
(* nothing is verified.                                                    *)
Verified(f, first, head, use_log_head) ==
    LET h == f.header
        from == (IF use_log_head THEN head ELSE h.head) - 1
        wraps == from < BLOCKS_SAMPLE_AMOUNT
        to == Max({from - BLOCKS_SAMPLE_AMOUNT, first})
    IN  \/ h.head < BLOCKS_SAMPLE_AMOUNT + 1
        \/ /\ use_log_head => head > 0
           /\ \/ wraps
              \/ /\ to > h.interrupted
                 /\ \A n \in (to + 1) .. from : read_raw_block_data_by_num(f, h, n) = n

(* truncate_file: the artifacts are cut at the log's head.                 *)
Truncated(f, head) ==
    [f EXCEPT !.chunks = [n \in {m \in DOMAIN @ : m <= head} |-> @[n]],
              !.header = [@ EXCEPT !.head = head,
                                   !.interrupted = Min({@, head})]]

(* The header of artifacts that are about to be generated for the blocks   *)
(* up to head: all of them, or those above the ones already there.         *)
Outdated(h, first, head) ==
    [h EXCEPT !.tail = IF h.head = 0 THEN first ELSE h.head, !.head = head]

--------------------
(* block_log_artifacts::open for a log whose last complete block is head.  *)
(* The result is the file with its header flushed, whether the artifacts   *)
(* are writable from now on, whether blocks have to be generated, and the  *)
(* reason of a failure ("" for none).                                      *)
Opened(f, rw, generate, why) == [file |-> f, rw |-> rw, generate |-> generate, why |-> why]

OpenWritable(f, first, head, interrupt) ==
    LET h == f.header
        cut == Truncated(f, head)
    IN  IF ~f.indexed
        THEN Opened([f EXCEPT !.indexed = TRUE,
                              !.header = IF head > 0 THEN Outdated(h, first, head) ELSE h],
                    TRUE, head > 0, "")
        ELSE IF head < h.head
        THEN IF h.interrupted > head \/ ~Verified(f, first, head, TRUE)
             THEN Opened(f, TRUE, FALSE, "artifacts")
             ELSE Opened(cut, TRUE, cut.header.interrupted # 0, "")
        ELSE IF ~Verified(f, first, head, FALSE) THEN Opened(f, TRUE, FALSE, "artifacts")
        ELSE IF h.interrupted # 0 THEN Opened(f, TRUE, TRUE, "")
        ELSE IF head > h.head /\ ~interrupt
        THEN Opened([f EXCEPT !.header = Outdated(h, first, head)], TRUE, TRUE, "")
        ELSE Opened(f, TRUE, FALSE, "")

(* Opened read-only, artifacts that are missing, unfinished or for another *)
(* head are opened for writing after all.                                  *)
OpenReadOnly(f, first, head, interrupt) ==
    IF ~f.indexed \/ f.header.head # head \/ f.header.interrupted # 0
    THEN OpenWritable(f, first, head, interrupt)
    ELSE IF Verified(f, first, head, FALSE) THEN Opened(f, FALSE, FALSE, "")
    ELSE Opened(f, FALSE, FALSE, "artifacts")

(* block_log::open: the log, then its artifacts.                           *)
open(f, first, read_only, auto_fixing, interrupt) ==
    IF ~sanity_check(f.log, read_only, auto_fixing)
    THEN Opened(f, FALSE, FALSE, "torn")
    ELSE LET g == [f EXCEPT !.log = FixedLog(@)]
         IN  IF read_only
             THEN OpenReadOnly(g, first, read_head(g.log), interrupt)
             ELSE OpenWritable(g, first, read_head(g.log), interrupt)

--------------------
(* generate_artifacts_file walks the log down from the head, or from the   *)
(* block an earlier generation was interrupted at, to the header's tail.   *)
(* A generation is the number of the last block done (begun: at least one  *)
(* block is done), the end of the walk, the chunks not yet written and the *)
(* blocks done since the header was saved last.                            *)
Generation(f) ==
    LET h == f.header
    IN  [at |-> IF h.interrupted # 0 THEN h.interrupted ELSE h.head,
         resumed |-> h.interrupted # 0, begun |-> FALSE,
         target |-> h.tail, buffer |-> <<>>, idx |-> 0]

(* The position to resume from is read through the artifacts themselves.   *)
Resumable(f, g) == g.resumed => read_raw_block_data_by_num(f, f.header, g.at) # Refused

(* The next block of the walk; the walk of a resumed generation starts     *)
(* below the block it was interrupted at, and may have no block left.      *)
NextBlock(g) == IF g.begun \/ g.resumed THEN g.at - 1 ELSE g.at

Exhausted(g) == NextBlock(g) < g.target

WalkDone(g) == g.begun /\ g.at <= g.target

Position(f, n) == CHOOSE p \in DOMAIN f.log : f.log[p].num = n

Written(f, g) == [f EXCEPT !.chunks = [n \in DOMAIN @ \cup DOMAIN g.buffer |->
                      IF n \in DOMAIN g.buffer THEN g.buffer[n] ELSE @[n]]]

(* One block through the writer thread: <<file, generation>> after it.     *)
GenerateBlock(f, g) ==
    LET n == NextBlock(g)
        full == Cardinality(DOMAIN g.buffer) >= WRITE_BATCH_SIZE
        f1 == IF full THEN Written(f, g) ELSE f
        kept == IF full THEN <<>> ELSE g.buffer
        g1 == [g EXCEPT !.at = n, !.begun = TRUE, !.idx = @ + 1,
                        !.buffer = [m \in DOMAIN kept \cup {n} |->
                                       IF m = n THEN Position(f, n) ELSE kept[m]]]
        save == g.idx >= BLOCKS_COUNT_INTERVAL_FOR_SAVE
    IN  IF save
        THEN <<[Written(f1, g1) EXCEPT !.header.interrupted = n], [g1 EXCEPT !.buffer = <<>>, !.idx = 1]>>
        ELSE <<f1, g1>>

(* The walk reached its end: the header says so.                           *)
GeneratedKept(f, g, first) == [Written(f, g) EXCEPT !.header.tail = first]

Generated(f, g, first) ==
    [Written(f, g) EXCEPT !.header = [@ EXCEPT !.interrupted = 0, !.tail = first]]
=============================================================================
