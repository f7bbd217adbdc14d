------------------------------ MODULE LogTools ------------------------------
(***************************************************************************)
(* What an operator does to block logs while no node uses them:            *)
(* programs/util/block_log_util.cpp.  A session is a list of commands, run *)
(* one after the other.  A block log is the legacy single file, one part   *)
(* file, or a directory of part files; it holds the blocks from its tail   *)
(* on, and a block is its contents (irreversible blocks have one content,  *)
(* so equal contents are equal blocks).  Every command runs to its end in  *)
(* one step, except compare, whose two threads meet at a barrier.          *)
(*                                                                         *)
(* answer (a history) is the last command with its exit code, its output   *)
(* and the logs before it.                                                 *)
(***************************************************************************)
EXTENDS BlockLog

CONSTANTS
    HIVE_MAX_BLOCK_SIZE,  \* in the units that sizes of blocks are counted in
    OffsetSize,           \* sizeof(uint64_t), in those units
    OffsetRange,          \* uint64_t counts modulo this
    WalkBack,             \* blocks that find_end walks back over, 10 in the code
    Sessions              \* [logs, script, refused], see MCStorage

VARIABLES logs, script, printed, enumerator, barrier, answer

toolVars == <<logs, script, printed, enumerator, barrier, answer>>

Unused == [kind |-> "none", tail |-> 1, data |-> <<>>]
NoAnswer == [code |-> "none"]
NoHash == <<"none">>

HeadOfLog(l) == IF l.data = <<>> THEN 0 ELSE l.tail + Len(l.data) - 1
BlockOf(l, n) == l.data[n - l.tail + 1]
Blocks(l) == l.tail .. l.tail + Len(l.data) - 1
UpTo(l, n) == SubSeq(l.data, 1, n - l.tail + 1)
Segment(l, from, to) == SubSeq(l.data, from - l.tail + 1, to - l.tail + 1)

\* get_block_log_wrapper: a directory is opened with all its parts from the first on.
Opens(l) == l.kind # "none" /\ (l.kind = "split" => l.tail = 1)

--------------------
(* The range of blocks an operator asked for.                              *)
\* Mutant: a negative first block counts from the block after the head.
RangeFromHead(from, to, head, tail) ==
    <<IF from >= 0 THEN Max({tail, from}) ELSE Max({tail, head + from}),
      IF to >= 0 THEN to ELSE Min({head, head + to + 1})>>

get_effective_range_of_blocks(from, to, head, tail) ==
    <<IF from >= 0 THEN Max({tail, from}) ELSE Max({tail, head + from + 1}),
      IF to >= 0 THEN to ELSE Min({head, head + to + 1})>>

validate_first_and_last_block(first, last, tail, head) ==
    first >= tail /\ head >= last /\ first <= last

Done(code, out) == [code |-> code, out |-> out]
Failure(code) == Done(code, <<>>)

\* The blocks first to last of what l holds, or the refusal of the range.
OverRange(l, from, to, head, bound, Out(_, _)) ==
    LET range == get_effective_range_of_blocks(from, to, head, l.tail)
    IN  IF validate_first_and_last_block(range[1], range[2], l.tail, bound)
        THEN Out(range[1], range[2]) ELSE Failure("BlocksRangeError")

get_block_range(l, c) ==
    LET contents(first, last) == Done("Ok", Segment(l, first, last))
    IN  IF Blocks(l) = {} THEN Failure("BlockLogInvalid")
        ELSE OverRange(l, c.from, c.to, HeadOfLog(l), HeadOfLog(l), contents)

get_block_ids(l, c) == get_block_range(l, c)

\* The artifacts of the head are not read: the size comes from the next chunk.
get_block_artifacts(l, c) ==
    LET contents(first, last) ==
            IF last = HeadOfLog(l) THEN Failure("ExceptionOccured")
            ELSE Done("Ok", Segment(l, first, last))
    IN  IF Blocks(l) = {} THEN Failure("BlockLogInvalid")
        ELSE OverRange(l, c.from, c.to, HeadOfLog(l) - 1, HeadOfLog(l), contents)

get_head_block_number(l) == Done("Ok", <<HeadOfLog(l)>>)

--------------------
(* sha256sum and verify-checksums-from-file.  The hash of some blocks is   *)
(* the sequence of their contents.                                         *)
checksum_block_log(l, every) ==
    [final |-> l.data,
     checkpoints |-> [n \in {m \in Blocks(l) : every > 0 /\ m % every = 0 /\ m # HeadOfLog(l)} |->
                         UpTo(l, n)]]

\* One block of validate_block_log_checksum: left holds the checkpoints to come.
CheckBlock(h, s, n, content) ==
    LET read == Append(s.read, content)
        at == IF s.left = {} THEN 0 ELSE Min(s.left)
    IN  IF s.stop THEN s
        ELSE IF n # at THEN [s EXCEPT !.read = read]
        ELSE IF read # h.checkpoints[at]
        THEN [read |-> read, left |-> {}, stop |-> TRUE, matched |-> FALSE]
        ELSE [s EXCEPT !.read = read, !.left = @ \ {at},
                       !.stop = s.left = {at} /\ h.final = NoHash]

validate_block_log_checksum(l, h) ==
    LET check(s, i) == CheckBlock(h, s, l.tail + i - 1, l.data[i])
        end == FoldLeft(check, [read |-> <<>>, left |-> DOMAIN h.checkpoints,
                                stop |-> FALSE, matched |-> TRUE],
                        [i \in 1 .. Len(l.data) |-> i])
    IN  end.matched /\ end.left = {} /\ (h.final = NoHash \/ end.read = h.final)

\* An operator may keep only the lines with checkpoints.
Kept(h, lines) == IF lines = "all" THEN h ELSE [h EXCEPT !.final = NoHash]

Mismatched(lines) ==
    {p \in DOMAIN printed : ~validate_block_log_checksum(logs[p], Kept(printed[p], lines))}

validate_block_log_checksums_from_file(c) ==
    IF \E p \in DOMAIN printed : ~Opens(logs[p]) \/ Blocks(logs[p]) = {}
    THEN Failure("ExceptionOccured")
    ELSE IF Mismatched(c.lines) # {} THEN Failure("OperationFailed")
    ELSE Done("Ok", <<>>)

--------------------
(* truncate, on a single file.                                             *)
Truncates(l, c) == c.response = "yes" /\ HeadOfLog(l) > c.to /\ l.tail <= c.to

truncate_block_log(l, c) ==
    IF c.response # "yes" THEN Done("Ok", <<>>)
    ELSE IF Blocks(l) = {} THEN Failure("BlockLogInvalid")
    ELSE IF Truncates(l, c) THEN Done("Ok", <<>>) ELSE Failure("BlocksRangeError")

--------------------
(* find-end, on a file of blocks with the given sizes and a torn rest.     *)
(* Every block is followed by the offset it starts at; bytes elsewhere are *)
(* taken not to look like an offset.  Offsets are unsigned.                *)
Ceiling(size) == size + OffsetSize

StartOf(sizes, i) == FoldLeft(LAMBDA sum, s : sum + Ceiling(s), 0, SubSeq(sizes, 1, i - 1))

FieldOf(sizes, i) == StartOf(sizes, i) + sizes[i]

is_plausible(sizes, i) ==
    /\ StartOf(sizes, i) < FieldOf(sizes, i)
    /\ StartOf(sizes, i) >= (FieldOf(sizes, i) - HIVE_MAX_BLOCK_SIZE) % OffsetRange

FileSize(f) == StartOf(f.sizes, Len(f.sizes) + 1) + f.torn

\* Where the search stops: the last offset from which WalkBack blocks lead back.
PossibleEnds(f) ==
    LET last == FileSize(f) - OffsetSize
    IN  {i \in 1 .. Len(f.sizes) :
            /\ FieldOf(f.sizes, i) <= last
            /\ FieldOf(f.sizes, i) > last - HIVE_MAX_BLOCK_SIZE
            /\ FieldOf(f.sizes, i) > 0 \/ FieldOf(f.sizes, i) = last
            /\ \A j \in Max({1, i - WalkBack}) .. i : is_plausible(f.sizes, j)}

find_end(f) ==
    IF FileSize(f) < OffsetSize THEN Failure("BlockLogInvalid")
    ELSE IF PossibleEnds(f) = {} THEN Done("Ok", <<"not found">>)
    ELSE Done("Ok", <<FieldOf(f.sizes, Max(PossibleEnds(f))) + OffsetSize>>)

--------------------
(* split: how many parts, up to which one, is computed here; which files   *)
(* these are, and what they hold, in libraries/chain/split_block_log.cpp.  *)
LogSize == BLOCKS_IN_SPLIT_BLOCK_LOG_FILE

SplitRange(l, c) == get_effective_range_of_blocks(c.from, c.to, HeadOfLog(l), l.tail)

part_count(l, c) ==
    LET first == SplitRange(l, c)[1]
        last == SplitRange(l, c)[2]
    IN  IF c.count # 0 THEN IF c.count < 0 THEN -c.count ELSE c.count
        ELSE IF first = 1 THEN 0
        ELSE (last - first) \div LogSize
             + (IF last = HeadOfLog(l) \/ last - first # LogSize THEN 1 ELSE 0)

RangeHeadPart(l, c) ==
    LET last == SplitRange(l, c)[2]
    IN  IF last = HeadOfLog(l) THEN 0 ELSE get_part_number_for_block(last)

head_part_num(l, c) ==
    IF c.count > 0 /\ c.to = -1 THEN c.count + (SplitRange(l, c)[1] \div LogSize)
    ELSE RangeHeadPart(l, c)

max_files_limit(l, c) ==
    IF RangeHeadPart(l, c) # 0 THEN RangeHeadPart(l, c)
    ELSE ((HeadOfLog(l) - SplitRange(l, c)[1] + 1) \div LogSize) + 1

\* The parts and blocks that the library writes.
SplitFirst(l, c) ==
    LET head == IF head_part_num(l, c) = 0 THEN HeadOfLog(l) ELSE head_part_num(l, c) * LogSize
        top == get_part_number_for_block(head)
    IN  get_number_of_first_block_in_part(
            IF part_count(l, c) = 0 \/ top <= part_count(l, c) THEN 1 ELSE top - part_count(l, c) + 1)

SplitLast(l, c) ==
    IF head_part_num(l, c) = 0 THEN HeadOfLog(l)
    ELSE Min({HeadOfLog(l), head_part_num(l, c) * LogSize})

\* The last part is cut down to the last block asked for.
SplitCut(l, c) ==
    LET last == SplitRange(l, c)[2]
    IN  IF last # HeadOfLog(l) /\ last % LogSize # 0 THEN last ELSE SplitLast(l, c)

split_block_log(l, c, into) ==
    LET range == SplitRange(l, c)
    IN  IF l.kind # "single" \/ into.kind # "none" THEN Failure("ExceptionOccured")
        ELSE IF ~validate_first_and_last_block(range[1], range[2], l.tail, HeadOfLog(l))
        THEN Failure("BlocksRangeError")
        ELSE IF c.count # 0 /\ max_files_limit(l, c) < part_count(l, c)
        THEN Failure("BlocksRangeError")
        ELSE Done("Ok", Segment(l, SplitFirst(l, c), SplitCut(l, c)))

--------------------
(* process_blocks: part after part, each from the block reached to the end *)
(* of the range or of the part.                                            *)
LastOfPart(l, n) ==
    IF l.kind = "single" THEN HeadOfLog(l) + 1
    ELSE get_number_of_last_block_in_part(get_part_number_for_block(n))

InHeadPart(l, n) == LastOfPart(l, n) >= HeadOfLog(l)

WalkGoesOn(l, n, to) == LastOfPart(l, n) + 1 < to /\ ~InHeadPart(l, n)

\* The last block handed out of a range, when no processor stops the walk.
LosesLast(l, from, to) == l.kind = "split" /\ to > from /\ to % LogSize = 1

merge_block_logs(l, c, into) ==
    LET limit == get_effective_range_of_blocks(1, c.to, HeadOfLog(l), 1)[2]
    IN  IF ~Opens(l) \/ into.kind # "none" THEN Failure("ExceptionOccured")
        ELSE IF HeadOfLog(l) = 0 THEN Failure("BlockLogInvalid")
        ELSE IF HeadOfLog(l) < limit THEN Failure("BlocksRangeError")
        ELSE Done("Ok", Segment(l, 1, IF LosesLast(l, 1, limit) THEN limit - 1 ELSE limit))

--------------------
(* main: what is refused before a log is read.                             *)
Ranged == {"get-block", "get-block-ids", "get-block-artifacts", "split"}
SingleOnly == {"find-end", "get-block-artifacts", "sha256sum", "split", "truncate"}

\* Which option is wrong, or "Ok".
CheckOptions(c) ==
    IF c.op \in {"verify", "find-end"} THEN "Ok"
    ELSE LET l == logs[c.log]
             limit == get_effective_range_of_blocks(1, c.to, HeadOfLog(l), 1)[2]
    IN  IF l.kind = "none" \/ (c.op = "merge" /\ l.kind # "split") THEN "InvalidArgumentError"
        ELSE IF c.op \in SingleOnly /\ l.kind = "split" THEN "InvalidArgumentError"
        ELSE IF c.op \in Ranged /\ (c.from = 0 \/ c.to = 0) THEN "InvalidArgumentError"
        ELSE IF c.op = "split" /\ c.count # 0 /\ c.from # 1 /\ c.to # -1 THEN "InvalidArgumentError"
        ELSE IF c.op = "split" /\ c.count < 0 /\ (c.from # 1 \/ c.to # -1) THEN "InvalidArgumentError"
        ELSE IF ~Opens(l) THEN "ExceptionOccured"
        ELSE IF /\ c.op \in Ranged \ {"get-block-artifacts"}
                /\ HeadOfLog(l) = 0 \/ HeadOfLog(l) < limit
        THEN "BlocksRangeError"
        ELSE IF c.op = "split" /\ c.from # 1 /\ c.from % LogSize # 0 THEN "InvalidArgumentError"
        ELSE "Ok"

Perform(c) ==
    CASE c.op = "get-block" -> get_block_range(logs[c.log], c)
      [] c.op = "get-block-ids" -> get_block_ids(logs[c.log], c)
      [] c.op = "get-block-artifacts" -> get_block_artifacts(logs[c.log], c)
      [] c.op = "get-head-block-number" -> get_head_block_number(logs[c.log])
      [] c.op = "sha256sum" -> Done("Ok", logs[c.log].data)
      [] c.op = "verify" -> validate_block_log_checksums_from_file(c)
      [] c.op = "truncate" -> truncate_block_log(logs[c.log], c)
      [] c.op = "find-end" -> find_end(c.file)
      [] c.op = "split" -> split_block_log(logs[c.log], c, logs[c.into])
      [] c.op = "merge" -> merge_block_logs(logs[c.log], c, logs[c.into])

\* What the command leaves on the disk.
LeftOnDisk(c, result) ==
    IF result.code # "Ok" THEN logs
    ELSE IF c.op = "truncate" /\ Truncates(logs[c.log], c)
    THEN [logs EXCEPT ![c.log].data = UpTo(logs[c.log], c.to)]
    ELSE IF c.op = "split"
    THEN [logs EXCEPT ![c.into] = [kind |-> "split", tail |-> SplitFirst(logs[c.log], c), data |-> result.out]]
    ELSE IF c.op = "merge"
    THEN [logs EXCEPT ![c.into] = [kind |-> "single", tail |-> 1, data |-> result.out]]
    ELSE logs

Command == script[1]

RunTool ==
    /\ script # <<>> /\ enumerator = <<>> /\ Command.op # "compare"
    /\ LET c == Command
           checked == CheckOptions(c)
           result == IF checked = "Ok" THEN Perform(c) ELSE Failure(checked)
       IN  /\ answer' = [cmd |-> c, code |-> result.code, out |-> result.out, before |-> logs]
           /\ logs' = LeftOnDisk(c, result)
           /\ printed' = IF c.op = "sha256sum" /\ result.code = "Ok"
                         THEN [p \in DOMAIN printed \cup {c.log} |->
                                  IF p = c.log THEN checksum_block_log(logs[p], c.every) ELSE printed[p]]
                         ELSE printed
    /\ script' = Tail(script)
    /\ UNCHANGED <<enumerator, barrier>>

--------------------
(* compare: two threads walk the two logs and wait for each other at every *)
(* block.                                                                  *)
Side(i) == IF i = 1 THEN Command.log ELSE Command.second
SideLog(i) == logs[Side(i)]
CompareRange(i) ==
    get_effective_range_of_blocks(Command.from, Command.to, HeadOfLog(SideLog(i)), SideLog(i).tail)

Answered(code, out) ==
    /\ answer' = [cmd |-> Command, code |-> code, out |-> out, before |-> logs]
    /\ script' = Tail(script) /\ enumerator' = <<>>
    /\ barrier' = [differ |-> 0]

\* The part from block n on, or the end of the walk.
EnterPart(i, n) ==
    LET last == Min({LastOfPart(SideLog(i), n), CompareRange(i)[2]})
    IN  [pc |-> IF n <= last THEN "block" ELSE "released", next |-> n, last |-> last]

compare_block_logs ==
    /\ script # <<>> /\ enumerator = <<>> /\ Command.op = "compare"
    /\ IF \E i \in 1 .. 2 : SideLog(i).kind = "none" THEN Answered("InvalidArgumentError", <<>>)
       ELSE IF \E i \in 1 .. 2 : ~Opens(SideLog(i)) THEN Answered("ExceptionOccured", <<>>)
       ELSE IF \E i \in 1 .. 2 : HeadOfLog(SideLog(i)) = 0 THEN Answered("BlockLogInvalid", <<>>)
       ELSE IF CompareRange(1) # CompareRange(2) THEN Answered("Ok", <<"ranges">>)
       ELSE /\ enumerator' = [i \in 1 .. 2 |-> EnterPart(i, CompareRange(i)[1])]
            /\ barrier' = [differ |-> 0]
            /\ UNCHANGED <<answer, script>>
    /\ UNCHANGED <<logs, printed>>

\* A thread has read its next block and waits for the other one.
Arrive(i) ==
    /\ enumerator # <<>> /\ enumerator[i].pc = "block"
    /\ enumerator' = [enumerator EXCEPT ![i].pc = "barrier"]
    /\ UNCHANGED <<logs, script, printed, barrier, answer>>

\* The last one to arrive compares; both go on.
compare_blocks ==
    /\ enumerator # <<>> /\ \A i \in 1 .. 2 : enumerator[i].pc = "barrier"
    /\ enumerator' = [i \in 1 .. 2 |-> [enumerator[i] EXCEPT !.pc = "released"]]
    /\ barrier' = IF BlockOf(SideLog(1), enumerator[1].next) # BlockOf(SideLog(2), enumerator[2].next)
                  THEN [differ |-> enumerator[1].next] ELSE barrier
    /\ UNCHANGED <<logs, script, printed, answer>>

\* A difference ends the part, and only the part.
Proceed(i) ==
    LET e == enumerator[i]
    IN  /\ enumerator # <<>> /\ e.pc = "released"
        /\ enumerator' = [enumerator EXCEPT ![i] =
              IF barrier.differ = 0 /\ e.next < e.last THEN [e EXCEPT !.pc = "block", !.next = @ + 1]
              ELSE IF WalkGoesOn(SideLog(i), e.next, CompareRange(i)[2])
              THEN EnterPart(i, LastOfPart(SideLog(i), e.next) + 1)
              ELSE [e EXCEPT !.pc = "done"]]
        /\ UNCHANGED <<logs, script, printed, barrier, answer>>

JoinThreads ==
    /\ enumerator # <<>> /\ \A i \in 1 .. 2 : enumerator[i].pc = "done"
    /\ Answered("Ok", IF barrier.differ = 0 THEN <<"same">> ELSE <<barrier.differ>>)
    /\ UNCHANGED <<logs, printed>>

--------------------
ToolInit ==
    /\ \E s \in Sessions : logs = s.logs /\ script = s.script
    /\ printed = <<>> /\ enumerator = <<>> /\ barrier = [differ |-> 0] /\ answer = NoAnswer

ToolNext ==
    \/ RunTool
    \/ compare_block_logs
    \/ \E i \in 1 .. 2 : Arrive(i) \/ Proceed(i)
    \/ compare_blocks
    \/ JoinThreads

ToolSpec == ToolInit /\ [][ToolNext]_toolVars

--------------------
(* What the options promise, and exactly where the code departs from it.   *)
AskedFor(x, l) == IF x > 0 THEN x ELSE HeadOfLog(l) + x + 1

Answers(ops) == answer # NoAnswer /\ answer.cmd.op \in ops /\ answer.code = "Ok"

Before == answer.before[answer.cmd.log]

\* A query returns the blocks it was asked for, in order, from the tail on when
\* the range begins below it; the end of a range of artifacts that is counted
\* from the head is one block lower (get_block_range, get_block_artifacts).
RangesExact ==
    Answers({"get-block", "get-block-ids", "get-block-artifacts"}) =>
      LET c == answer.cmd
          low == IF c.op = "get-block-artifacts" THEN 1 ELSE 0
          at(x) == AskedFor(x, Before) - (IF x < 0 THEN low ELSE 0)
      IN  answer.out = Segment(Before, Max({Before.tail, at(c.from)}), at(c.to))

\* The blocks that the options of split ask for: "from" is exclusive, and names
\* a whole number of parts.
SplitWanted(l, c) ==
    LET last == AskedFor(c.to, l)
        from == IF c.from = 1 THEN 0 ELSE c.from
        part == get_part_number_for_block(last)
    IN  IF c.count = 0 THEN from + 1 .. last
        ELSE IF c.count > 0 /\ c.to = -1
        THEN from + 1 .. Min({last, from + c.count * LogSize})
        ELSE Max({0, part - (IF c.count > 0 THEN c.count ELSE -c.count)}) * LogSize + 1 .. last

\* A whole number of parts is counted as one more, unless it is exactly one part
\* that does not end with the head.
CountsOnePartMore(l, c) ==
    LET length == AskedFor(c.to, l) - c.from
    IN  /\ c.count = 0 /\ c.from # 1 /\ length % LogSize = 0
        /\ AskedFor(c.to, l) = HeadOfLog(l) \/ length # LogSize

\* split writes the blocks it was asked for, and one part more exactly when the
\* range is a whole number of parts (split_block_log).
SplitExact ==
    Answers({"split"}) =>
      LET c == answer.cmd
          extra == IF CountsOnePartMore(Before, c) THEN c.from - LogSize + 1 .. c.from ELSE {}
          out == logs[c.into]
      IN  Blocks(out) = SplitWanted(Before, c) \cup extra

\* merge writes the blocks up to the one asked for, inclusively, but loses it
\* when it is the first block of a part (merge_block_logs, process_blocks).
MergeExact ==
    Answers({"merge"}) =>
      LET last == AskedFor(answer.cmd.to, Before)
      IN  Blocks(logs[answer.cmd.into]) = 1 .. (IF last > 1 /\ last % LogSize = 1 THEN last - 1 ELSE last)

\* Whatever is split off, merged, cut and read, a block keeps its contents: the
\* logs made from the log a agree with it wherever they overlap.
CopiesAgree ==
    \A p \in DOMAIN logs \ {"b"} : \A n \in Blocks(logs[p]) \cap Blocks(logs["a"]) :
        BlockOf(logs[p], n) = BlockOf(logs["a"], n)

\* Verification succeeds exactly when every log still has the blocks that were
\* summed, up to each checkpoint and, if its line was kept, in total
\* (validate_block_log_checksum).
SumsTell ==
    (answer # NoAnswer /\ answer.cmd.op = "verify" /\ answer.code # "ExceptionOccured") =>
      ((answer.code = "Ok") <=>
        \A p \in DOMAIN printed :
          /\ \A n \in DOMAIN printed[p].checkpoints :
                n \in Blocks(logs[p]) /\ UpTo(logs[p], n) = printed[p].checkpoints[n]
          /\ answer.cmd.lines = "all" => logs[p].data = printed[p].final)

\* The end that find_end proposes is the end of the last complete block.  It is
\* found unless the torn rest is as long as a block may be, or the walk back
\* comes to a block that ends within the first HIVE_MAX_BLOCK_SIZE bytes, where
\* the unsigned subtraction wraps (is_data_at_file_position_a_plausible_...).
EndExact ==
    Answers({"find-end"}) =>
      LET f == answer.cmd.file
          walked == Max({1, Len(f.sizes) - WalkBack})
      IN  answer.out = IF /\ f.sizes # <<>> /\ f.torn < HIVE_MAX_BLOCK_SIZE
                          /\ FieldOf(f.sizes, walked) >= HIVE_MAX_BLOCK_SIZE
                       THEN <<StartOf(f.sizes, Len(f.sizes) + 1)>> ELSE <<"not found">>

--------------------
InParts(i) == SideLog(i).kind = "split"

Differences ==
    {n \in CompareRange(1)[1] .. CompareRange(1)[2] : BlockOf(SideLog(1), n) # BlockOf(SideLog(2), n)}

\* The walk over parts ends before the last block with nothing found, or goes
\* on to the next part after the first difference.
WalksApart(i) ==
    LET last == CompareRange(1)[2]
        loses == LosesLast(SideLog(i), CompareRange(1)[1], last)
    IN  IF Differences \subseteq (IF loses THEN {last} ELSE {}) THEN loses
        ELSE WalkGoesOn(SideLog(i), Min(Differences), last)

\* compare can hang, one thread at the barrier and the other one gone, exactly
\* when one log is in parts and the other is not, and the walks of the two differ
\* (process_blocks, the barrier of compare_block_logs).
CompareGoesOn ==
    enumerator # <<>> =>
      LET stuck == \E i \in 1 .. 2 : enumerator[i].pc = "barrier" /\ enumerator[3 - i].pc = "done"
          ended == \A i \in 1 .. 2 : enumerator[i].pc = "done"
          apart == InParts(1) # InParts(2) /\ \E i \in 1 .. 2 : InParts(i) /\ WalksApart(i)
      IN  (stuck => apart) /\ (ended => ~apart)

\* compare reports the first difference, and none only if there is none.  Between
\* two logs in parts it misses the last block when that begins a part, and reports
\* the last differing beginning of a part after the first difference, if any.
CompareExact ==
    (enumerator # <<>> /\ \A i \in 1 .. 2 : enumerator[i].pc = "done") =>
      LET last == CompareRange(1)[2]
          missed == IF InParts(1) /\ LosesLast(SideLog(1), CompareRange(1)[1], last) THEN {last} ELSE {}
          seen == Differences \ missed
          later == {n \in seen : InParts(1) /\ InParts(2) /\ n % LogSize = 1}
      IN  barrier.differ = IF seen = {} THEN 0
                           ELSE Max({Min(seen)} \cup {n \in later : n > Min(seen)})

\* The offline tools do what their options say, with the exceptions named above.
ToolsExact ==
    /\ RangesExact /\ SplitExact /\ MergeExact /\ CopiesAgree
    /\ SumsTell /\ EndExact /\ CompareGoesOn /\ CompareExact
====
