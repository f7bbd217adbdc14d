---------------------------- MODULE BlockStorage ----------------------------
(***************************************************************************)
(* The node's block storage, libraries/chain/block_log_wrapper.cpp: the    *)
(* chain of irreversible blocks, split into part files, opened read-only   *)
(* at startup, possibly generated from the legacy single file, possibly    *)
(* replayed into the state, then reopened for writing, appended to and     *)
(* pruned while API threads read it, and closed; the process may be killed *)
(* at any point.  Every file is a BlockLog.  Irreversible blocks do not    *)
(* fork, so a block is its number.                                         *)
(*                                                                         *)
(* files is what survives the process: the part files by number, the       *)
(* legacy file and the state's last irreversible block.  node is the       *)
(* memory of the process; readers are the calls of API threads.  lost (a    *)
(* history) holds the parts whose artifacts a kill left unfinished.        *)
(***************************************************************************)
EXTENDS BlockLog, Functions

CONSTANTS
    BLOCKS_IN_BATCH_IO_MODE,
    MAX_FILES_OF_SPLIT_BLOCK_LOG,
    Readers,        \* the API threads
    MaxBlock,       \* bound on the number of a block
    StorageWorlds   \* the initial situations, see MCStorage

ASSUME BatchesFillParts == BLOCKS_IN_SPLIT_BLOCK_LOG_FILE % BLOCKS_IN_BATCH_IO_MODE = 0

VARIABLES files, node, readers, lost, setup, events

storageVars == <<files, node, readers, lost, setup, events>>

Split == setup.block_log_split

--------------------
First(p) == get_number_of_first_block_in_part(p)

Parts == DOMAIN files.parts

(* The process that does not run, and the one that has just been started.  *)
Down == [pc |-> "down", why |-> "", interrupt |-> FALSE, logs |-> <<>>, count |-> 0,
         slots |-> {}, garbage |-> {}, todo |-> {}, part |-> 0, gen |-> <<>>,
         next |-> 0, last |-> 0, fresh |-> FALSE, replay |-> FALSE]

NoReaders == [r \in Readers |-> [pc |-> "idle"]]

Failed(why) == [Down EXCEPT !.pc = "failed", !.why = why]

(* The headers of the logs open for writing reach their files when the     *)
(* storage is closed, which the end of the process after a failure does.   *)
Flushed(fs, logs) ==
    [p \in DOMAIN fs |-> IF p \in DOMAIN logs /\ logs[p].rw
                         THEN [fs[p] EXCEPT !.header = logs[p].header] ELSE fs[p]]

Continue(fs, n, next) ==
    /\ node' = next
    /\ files' = IF next.pc = "failed" THEN [fs EXCEPT !.parts = Flushed(@, n.logs)] ELSE fs

(* The head log, and a block log object that has just opened file f.       *)
HeadPart == node.count

LogObject(f, rw) ==
    [size |-> Len(f.log), head |-> read_head(f.log), header |-> f.header, rw |-> rw]

With(fn, x, v) == [y \in DOMAIN fn \cup {x} |-> IF y = x THEN v ELSE fn[y]]

Without(fn, S) == [y \in DOMAIN fn \ S |-> fn[y]]

HeadBlock == node.logs[HeadPart].head

--------------------
(* common_open_and_init.  Part files that are there fix the head part; the *)
(* configuration, and a replay, fix the lowest part needed.                *)
ActualTailNeeded(head_part) ==
    IF \/ node.replay /\ setup.force_replay
       \/ node.replay /\ files.state = 0
       \/ head_part <= Split
    THEN 1
    ELSE LET replayed == IF node.replay THEN get_part_number_for_block(files.state)
                         ELSE head_part
         IN  Min({replayed, head_part, head_part - Split})

(* force_parts_exist: the lowest part of the unbroken run that ends in the *)
(* head part, and the part the walk down stopped at.                       *)
LastContinuous(head_part) ==
    Min({p \in Parts : \A q \in p .. head_part : q \in Parts})

LastChecked(head_part) ==
    LET below == {p \in Parts : p < LastContinuous(head_part)}
    IN  IF below = {} THEN LastContinuous(head_part) ELSE Max(below)

PartsMissing(tail, head_part) ==
    Min(Parts) > tail \/ LastContinuous(head_part) > tail

LowMissing(tail, head_part) == IF LastChecked(head_part) = tail THEN tail + 1 ELSE tail

HighMissing(head_part) == LastContinuous(head_part) - 1

Blocked(tail, head_part) ==
    /\ LastChecked(head_part) < LastContinuous(head_part)
    /\ LastChecked(head_part) > LowMissing(tail, head_part)

(* split_block_log: which blocks of the legacy file become which parts.    *)
SourceHead == read_head(files.mono.log)

SplitHeadPart(head_block) ==
    get_part_number_for_block(IF head_block = 0 THEN SourceHead ELSE head_block)

SplitTailPart(head_block, part_count) ==
    LET hp == SplitHeadPart(head_block)
    IN  IF part_count = 0 \/ hp <= part_count THEN 1 ELSE hp - part_count + 1

SplitStop(head_block) ==
    IF head_block = 0 THEN SourceHead ELSE Min({SourceHead, head_block})

CanSplit(head_block, part_count) ==
    /\ files.mono.exists
    /\ \A p \in Parts :
          p < SplitTailPart(head_block, part_count) \/ p > SplitHeadPart(head_block)

BeginSplit(n, head_block, part_count) ==
    [n EXCEPT !.pc = "splitting",
              !.next = First(SplitTailPart(head_block, part_count)),
              !.last = SplitStop(head_block)]

(* Open all needed parts, lowest first.                                    *)
BeginOpening(n) ==
    LET head_part == Max(Parts)
        tail == ActualTailNeeded(head_part)
    IN  [n EXCEPT !.pc = "opening", !.count = head_part,
                  !.todo = {p \in Parts : p >= tail}]

(* No part file: the first one is created empty.                           *)
EmptyStorage(n) == [n EXCEPT !.pc = "opening", !.count = 1, !.todo = {1}]

Started(replay) == [Down EXCEPT !.pc = "starting", !.replay = replay]

(* The parts there and their number decide how the storage is opened.      *)
OpenAndInit ==
    LET head_part == Max(Parts)
        tail == ActualTailNeeded(head_part)
        wanted == IF node.replay THEN MAX_FILES_OF_SPLIT_BLOCK_LOG
                  ELSE IF Split = MAX_FILES_OF_SPLIT_BLOCK_LOG THEN 0 ELSE Split + 1
        upto == IF node.replay THEN 0 ELSE files.state
        gap_upto == get_number_of_last_block_in_part(HighMissing(head_part))
        gap == HighMissing(head_part) - LowMissing(tail, head_part) + 1
    IN  /\ node.pc = "starting"
        /\ node' = IF Parts = {}
                   THEN IF CanSplit(upto, wanted) THEN BeginSplit(node, upto, wanted)
                        ELSE EmptyStorage(node)
                   ELSE IF ~PartsMissing(tail, head_part) THEN BeginOpening(node)
                   ELSE IF Blocked(tail, head_part) \/ ~CanSplit(gap_upto, gap)
                   THEN Failed("missing")
                   ELSE BeginSplit(node, gap_upto, gap)
        /\ UNCHANGED <<files, readers, lost, setup, events>>

(* Starting the process, for a replay or not: a hard replay wipes the      *)
(* state, a resync the state and the storage.                              *)
StartNode(replay) ==
    /\ node.pc = "down"
    /\ events.starts > 0
    /\ events' = [events EXCEPT !.starts = @ - 1]
    /\ node' = Started(replay)
    /\ files' = [files EXCEPT
                    !.state = IF (replay /\ setup.force_replay) \/ setup.resync THEN 0 ELSE @,
                    !.parts = IF setup.resync THEN <<>> ELSE @]
    /\ UNCHANGED <<readers, lost, setup>>

--------------------
(* One batch of the legacy file is appended to the part it belongs to,     *)
(* which the first batch creates; the batch that ends a part closes it.    *)
(* The head block of the legacy file has no artifacts of its own and comes *)
(* in a write by itself.                                                   *)
BatchLast ==
    LET stop == IF node.last = SourceHead THEN node.last - 1 ELSE node.last
    IN  IF node.next > stop THEN node.next
        ELSE Min({stop, node.next + BLOCKS_IN_BATCH_IO_MODE - 1})

(* append_raw, multi_append_raw: the blocks at the end of the file, each   *)
(* with the position the memory expects it at, then their chunks.          *)
CellsFor(size, from, to) ==
    [i \in 1 .. (to - from + 1) |-> [num |-> from + i - 1, pos |-> size + i]]

ChunksFor(size, from, to) == [n \in from .. to |-> size + n - from + 1]

SplitBatch ==
    LET p == get_part_number_for_block(node.next)
        f == IF p \in Parts THEN files.parts[p] ELSE [LogFile(<<>>) EXCEPT !.indexed = TRUE]
        size == Len(f.log)
        g == [f EXCEPT !.log = @ \o CellsFor(size, node.next, BatchLast),
                       !.chunks = [n \in DOMAIN @ \cup node.next .. BatchLast |->
                          IF n \in DOMAIN @ THEN @[n]
                          ELSE ChunksFor(size, node.next, BatchLast)[n]]]
        closed == BatchLast = node.last \/ is_last_number_of_the_file(BatchLast)
        stored == [head |-> BatchLast, tail |-> First(p), interrupted |-> 0]
    IN  /\ node.pc = "splitting"
        /\ node.next <= node.last
        /\ files' = [files EXCEPT !.parts =
                        With(@, p, IF closed THEN [g EXCEPT !.header = stored] ELSE g)]
        /\ node' = [node EXCEPT !.next = BatchLast + 1]
        /\ UNCHANGED <<readers, lost, setup, events>>

(* The split is complete: the parts it made are opened with the others.    *)
SplitDone ==
    /\ node.pc = "splitting"
    /\ node.next > node.last
    /\ node' = BeginOpening([node EXCEPT !.next = 0, !.last = 0])
    /\ UNCHANGED <<files, readers, lost, setup, events>>

--------------------
(* internal_open_and_init of the lowest part still to be opened: read-only *)
(* at startup, and a file that is missing is created.                      *)
FileOf(p) == IF p \in Parts THEN files.parts[p] ELSE LogFile(<<>>)

(* The first block of a part must follow the last block of the part below, *)
(* which the walk from the lowest part has opened before.                  *)
Linked(p, f) ==
    LET below == {q \in DOMAIN node.logs : q < p /\ node.logs[q].head # 0}
        first == ReadBelowHead(f, f.header, read_head(f.log), First(p))
    IN  \/ below = {}
        \/ /\ first = First(p)
           /\ node.logs[Max(below)].head = First(p) - 1

Entered(n, p, o) ==
    [n EXCEPT !.logs = With(@, p, LogObject(o.file, o.rw)), !.slots = @ \cup {p},
              !.todo = @ \ {p}, !.part = p]

(* What follows the opening of a part, after its artifacts are complete    *)
(* (or their generation was interrupted).                                  *)
AfterOpening(n, p, fs) ==
    IF ~Linked(p, fs.parts[p]) THEN Failed("unlinked")
    ELSE [n EXCEPT !.pc = IF n.todo = {} THEN "open" ELSE "opening", !.gen = <<>>]

OpenPart ==
    LET p == Min(node.todo)
        o == open(FileOf(p), First(p), TRUE, setup.auto_fixing, node.interrupt)
        fs == [files EXCEPT !.parts = With(@, p, o.file)]
        n == Entered(node, p, o)
    IN  /\ node.pc = "opening"
        /\ Continue(fs, n,
              IF o.why # "" THEN Failed(o.why)
              ELSE IF ~o.generate THEN AfterOpening(n, p, fs)
              ELSE IF ~Resumable(o.file, Generation(o.file)) THEN Failed("artifacts")
              ELSE [n EXCEPT !.pc = "generating", !.gen = Generation(o.file)])
        /\ UNCHANGED <<readers, lost, setup, events>>

(* reopen_for_writing, for the head part only, and only if the state and   *)
(* the log end in the same block or a replay has just been done.           *)
check_data_consistency == node.replay \/ HeadBlock = files.state

ReopenForWriting ==
    LET p == HeadPart
        o == open(files.parts[p], First(p), FALSE, setup.auto_fixing, node.interrupt)
        n == Entered(node, p, o)
    IN  /\ node.pc \in {"open", "replayed"}
        /\ node.replay => node.pc = "replayed"
        /\ ~node.interrupt
        /\ IF ~check_data_consistency THEN Continue(files, node, Failed("inconsistent"))
           ELSE Continue([files EXCEPT !.parts[p] = o.file], n,
                   IF o.why # "" THEN Failed(o.why)
                   ELSE IF ~o.generate THEN [n EXCEPT !.pc = "up"]
                   ELSE IF ~Resumable(o.file, Generation(o.file)) THEN Failed("artifacts")
                   ELSE [n EXCEPT !.pc = "regenerating", !.gen = Generation(o.file)])
        /\ UNCHANGED <<readers, lost, setup, events>>

(* The artifacts of the part being opened: a block, or the end, of their   *)
(* generation.  The end may find that the log has grown past them.         *)
Generating == node.pc \in {"generating", "regenerating"}

Finished(n, p, fs) ==
    IF n.pc = "regenerating" THEN [n EXCEPT !.pc = "up", !.gen = <<>>]
    ELSE AfterOpening(n, p, fs)

Generate ==
    LET p == node.part
        step == GenerateBlock(files.parts[p], node.gen)
    IN  /\ Generating
        /\ ~node.interrupt
        /\ ~WalkDone(node.gen) /\ ~Exhausted(node.gen)
        /\ files' = [files EXCEPT !.parts[p] = step[1]]
        /\ node' = [node EXCEPT !.gen = step[2]]
        /\ UNCHANGED <<readers, lost, setup, events>>

FinishGenerating ==
    LET p == node.part
        done == Generated(files.parts[p], node.gen, First(p))
        longer == node.logs[p].head > done.header.head /\ ~node.interrupt
        again == [done EXCEPT !.header = Outdated(@, First(p), node.logs[p].head)]
        end == IF longer THEN again ELSE done
        fs == [files EXCEPT !.parts[p] = end]
        n == [node EXCEPT !.logs[p].header = end.header]
    IN  /\ Generating
        /\ WalkDone(node.gen)
        /\ IF longer THEN files' = fs /\ node' = [n EXCEPT !.gen = Generation(again)]
           ELSE Continue(fs, n, Finished(n, p, fs))
        /\ UNCHANGED <<readers, lost, setup, events>>

(* The generation is interrupted, or was resumed with nothing left to do,  *)
(* which its writer thread takes for an interruption: the header in memory *)
(* remembers the block, the one in the file only when it is closed.        *)
StopGenerating ==
    LET p == node.part
        written == Written(files.parts[p], node.gen)
        n == [node EXCEPT !.logs[p].header.interrupted = node.gen.at]
        fs == [files EXCEPT !.parts = With(@, p, written)]
    IN  /\ Generating
        /\ ~WalkDone(node.gen)
        /\ node.interrupt \/ Exhausted(node.gen)
        /\ Continue(fs, n, Finished(n, p, fs))
        /\ UNCHANGED <<readers, lost, setup, events>>

--------------------
(* reindex: the block after the state's, or block 1, is applied first and  *)
(* the rest through process_blocks, part by part.                          *)
ReplayLast ==
    IF setup.stop_replay_at > 0 THEN Min({setup.stop_replay_at, HeadBlock}) ELSE HeadBlock

(* read_block_by_num of the wrapper.                                       *)
Read(n) ==
    LET p == get_part_number_for_block(n)
    IN  IF p \notin node.slots THEN NullBlock
        ELSE ReadBelowHead(files.parts[p], node.logs[p].header, node.logs[p].head, n)

ReplayRequired ==
    /\ files.state > 0 => setup.stop_replay_at = 0 \/ setup.stop_replay_at > files.state
    /\ files.state > 0 => Read(files.state + 1) # NullBlock

BeginReplay ==
    LET first == files.state + 1
    IN  /\ node.pc = "open"
        /\ node.replay
        /\ ~node.interrupt
        /\ IF HeadBlock = 0 \/ Read(IF ReplayRequired THEN first ELSE files.state) = NullBlock
           THEN Continue(files, node, Failed("replay"))
           ELSE IF ~ReplayRequired
           THEN node' = [node EXCEPT !.pc = "replayed", !.last = files.state] /\ UNCHANGED files
           ELSE /\ files' = [files EXCEPT !.state = first]
                /\ node' = [node EXCEPT !.pc = IF first < ReplayLast THEN "replaying"
                                               ELSE "replayed",
                                        !.next = first + 1, !.last = ReplayLast]
        /\ UNCHANGED <<readers, lost, setup, events>>

(* process_blocks: whether the walk goes on after block n, the end of the  *)
(* range or of its part.                                                   *)
GoesOn(n) ==
    LET p == get_part_number_for_block(n)
    IN  IF n < Min({get_number_of_last_block_in_part(p), node.last}) THEN TRUE
        ELSE /\ get_number_of_last_block_in_part(p) + 1 < node.last
             /\ p # HeadPart

ReplayLogBlock ==
    /\ node.pc = "replaying"
    /\ IF Read(node.next) # node.next
       THEN Continue(files, node, Failed("replay"))
       ELSE /\ files' = [files EXCEPT !.state = node.next]
            /\ node' = [node EXCEPT
                          !.pc = IF node.interrupt \/ ~GoesOn(node.next) THEN "replayed" ELSE @,
                          !.next = @ + 1]
    /\ UNCHANGED <<readers, lost, setup, events>>

--------------------
(* internal_append, in the steps other threads and a kill can tell apart.  *)
(* A block that begins a part first flushes the part below and creates the *)
(* new files; the new part joins the others when its first block is in.    *)
AppendStart ==
    LET n == HeadBlock + 1
        p == get_part_number_for_block(n)
        fresh == is_last_number_of_the_file(n - 1) /\ p > node.count
        target == IF fresh THEN p ELSE HeadPart
    IN  /\ node.pc \in {"up", "appended"}
        /\ ~node.interrupt
        /\ events.appends > 0
        /\ n <= MaxBlock
        /\ events' = [events EXCEPT !.appends = @ - 1]
        /\ IF fresh
           THEN /\ files' = [files EXCEPT !.parts = With(
                       IF node.count > 0
                       THEN [@ EXCEPT ![HeadPart].header = node.logs[HeadPart].header] ELSE @,
                       p, [LogFile(<<>>) EXCEPT !.indexed = TRUE])]
                /\ node' = [node EXCEPT !.pc = "write", !.next = n, !.part = target, !.fresh = TRUE,
                              !.logs = With(@, p, LogObject(LogFile(<<>>), TRUE))]
           ELSE /\ node' = [node EXCEPT !.pc = "write", !.next = n, !.part = target, !.fresh = FALSE]
                /\ UNCHANGED files
        /\ UNCHANGED <<readers, lost, setup>>

(* append_raw: the block and its position in one write.                    *)
WriteBlock ==
    /\ node.pc = "write"
    /\ files' = [files EXCEPT !.parts[node.part].log =
                    Append(@, [num |-> node.next, pos |-> node.logs[node.part].size + 1])]
    /\ node' = [node EXCEPT !.pc = "store", !.logs[node.part].size = @ + 1]
    /\ UNCHANGED <<readers, lost, setup, events>>

(* The write fails, before or after a part of the block is in the file:    *)
(* migrate_irreversible_state then asks the process to end.  A part that   *)
(* was being created is forgotten, its files stay.                         *)
WriteFails ==
    /\ node.pc = "write"
    /\ events.kills > 0
    /\ events' = [events EXCEPT !.kills = @ - 1]
    /\ files' \in {files, [files EXCEPT !.parts[node.part].log = Append(@, Torn)]}
    /\ node' = [node EXCEPT !.pc = "up", !.interrupt = TRUE, !.next = 0, !.part = 0,
                  !.fresh = FALSE,
                  !.logs = IF node.fresh THEN Without(@, {node.part}) ELSE @]
    /\ UNCHANGED <<readers, lost, setup>>

(* store_block_artifacts: the chunk, then the header in memory, which is   *)
(* flushed at live sync only (or after many blocks).  Artifacts that were  *)
(* never completed take no new block.                                      *)
StoreArtifacts ==
    LET p == node.part
        h == node.logs[p].header
        stored == [h EXCEPT !.head = node.next, !.tail = IF @ = 0 THEN First(p) ELSE @]
        flush == setup.live_sync \/ 1 > BLOCKS_COUNT_INTERVAL_FOR_FLUSH
    IN  /\ node.pc = "store"
        /\ IF h.interrupted # 0 /\ node.next > h.head
           THEN Continue(files, node, Failed("unfinished"))
           ELSE /\ files' = [files EXCEPT
                      !.parts[p].chunks = With(@, node.next, node.logs[p].size),
                      !.parts[p].header = IF flush THEN stored ELSE @]
                /\ node' = [node EXCEPT !.pc = "publish", !.logs[p].header = stored]
        /\ UNCHANGED <<readers, lost, setup, events>>

(* The cached head block; a new part joins the others and the part that    *)
(* now is one too many loses its place among them.                         *)
PrunedLate ==
    IF Split > 0 /\ node.fresh /\ node.part - 2 > Split THEN {node.part - 2 - Split} ELSE {}

PrunedEarly ==
    IF Split > 0 /\ node.fresh /\ node.part > Split THEN {p \in node.slots : p <= node.part - Split}
    ELSE {}

Pruned == IF Split > 0 /\ node.fresh /\ node.part - 1 > Split THEN {node.part - 1 - Split} ELSE {}

PublishHead ==
    /\ node.pc = "publish"
    /\ node' = [node EXCEPT !.pc = IF Pruned = {} THEN "appended" ELSE "prune",
                            !.logs[node.part].head = node.next,
                            !.count = IF node.fresh THEN @ + 1 ELSE @,
                            !.slots = @ \cup {node.part}]
    /\ UNCHANGED <<files, readers, lost, setup, events>>

(* dispose_garbage: logs nobody uses any more are closed and removed.  The  *)
(* rotation itself still holds the log it prunes, so that the files of     *)
(* that log stay until the next rotation, or until the storage closes.     *)
InUse(p) == \E r \in Readers : readers[r].pc \in {"taken", "loaded"} /\ readers[r].part = p

Disposable(G) == {p \in G : ~InUse(p)}

Prune ==
    LET D == Disposable(node.garbage)
    IN  /\ node.pc = "prune"
        /\ files' = [files EXCEPT !.parts = Without(@, D)]
        /\ node' = [node EXCEPT !.pc = "appended", !.slots = @ \ Pruned,
                                !.garbage = (@ \ D) \cup Pruned, !.logs = Without(@, D)]
        /\ UNCHANGED <<readers, lost, setup, events>>

(* The end of every migration of irreversible blocks: the state learns the *)
(* last of them and flush_head_storage flushes the header.                 *)
FlushHead ==
    /\ node.pc = "appended"
    /\ files' = [files EXCEPT !.parts[HeadPart].header = node.logs[HeadPart].header,
                              !.state = HeadBlock]
    /\ node' = [node EXCEPT !.pc = "up", !.next = 0, !.part = 0, !.fresh = FALSE]
    /\ UNCHANGED <<readers, lost, setup, events>>

--------------------
(* The user asks the process to end; close_storage; a kill, between two    *)
(* steps or within the write of a block; a power failure, which may also   *)
(* take blocks the file system had not written yet.                        *)
Interrupt ==
    /\ node.pc \notin {"down", "failed"}
    /\ ~node.interrupt
    /\ events.interrupts > 0
    /\ events' = [events EXCEPT !.interrupts = @ - 1]
    /\ node' = [node EXCEPT !.interrupt = TRUE]
    /\ UNCHANGED <<files, readers, lost, setup>>

(* A pruned log that is still in use stops the closing.                    *)
CloseStorage ==
    /\ node.pc \in {"open", "replayed", "up"}
    /\ node.interrupt
    /\ IF Disposable(node.garbage) # node.garbage
       THEN Continue(files, node, Failed("busy"))
       ELSE /\ files' = [files EXCEPT
                   !.parts = Without(Flushed(@, node.logs), node.garbage)]
            /\ node' = Down
    /\ readers' = NoReaders
    /\ UNCHANGED <<lost, setup, events>>

Unfinished ==
    {p \in DOMAIN node.logs : node.logs[p].header.interrupted # 0} \cup
    (IF Generating THEN {node.part} ELSE {})

KillNode ==
    /\ node.pc \notin {"down", "failed"}
    /\ events.kills > 0
    /\ events' = [events EXCEPT !.kills = @ - 1]
    /\ node' = Down
    /\ readers' = NoReaders
    /\ files' \in {files} \cup
          IF node.pc = "write" THEN {[files EXCEPT !.parts[node.part].log = Append(@, Torn)]}
          ELSE {}
    /\ lost' = lost \cup Unfinished
    /\ UNCHANGED setup

PowerFailure ==
    /\ node.pc \notin {"down", "failed", "splitting"}
    /\ Parts # {}
    /\ events.failures > 0
    /\ events' = [events EXCEPT !.failures = @ - 1]
    /\ node' = Down
    /\ readers' = NoReaders
    /\ \E k \in 1 .. Len(files.parts[Max(Parts)].log) :
          files' = [files EXCEPT !.parts[Max(Parts)].log = SubSeq(@, 1, Len(@) - k)]
    /\ lost' = lost \cup Unfinished
    /\ UNCHANGED setup

--------------------
(* get_block_by_number, called by an API thread: the head block is looked  *)
(* at, then the log of the block's part is taken, then that log's cached   *)
(* head, and at last the file is read.  known: the block was in the        *)
(* storage when the call began.                                            *)
Serving == node.pc \in {"up", "write", "store", "publish", "prune", "appended"}

ReaderStart(r, n) ==
    /\ Serving
    /\ readers[r].pc = "idle"
    /\ events.reads > 0
    /\ events' = [events EXCEPT !.reads = @ - 1]
    /\ readers' = [readers EXCEPT ![r] =
          IF n > HeadBlock THEN [pc |-> "done", num |-> n, known |-> FALSE, got |-> NullBlock]
          ELSE [pc |-> "begun", num |-> n, known |-> TRUE]]
    /\ UNCHANGED <<files, node, lost, setup>>

ReaderTake(r) ==
    LET p == get_part_number_for_block(readers[r].num)
    IN  /\ Serving
        /\ readers[r].pc = "begun"
        /\ readers' = [readers EXCEPT ![r] =
              IF p \in node.slots
              THEN [pc |-> "taken", num |-> @.num, known |-> TRUE, part |-> p]
              ELSE [pc |-> "done", num |-> @.num, known |-> TRUE, got |-> Refused]]
        /\ UNCHANGED <<files, node, lost, setup, events>>

ReaderLoad(r) ==
    /\ Serving
    /\ readers[r].pc = "taken"
    /\ readers' = [readers EXCEPT ![r] =
          [pc |-> "loaded", num |-> @.num, known |-> TRUE, part |-> @.part,
           head |-> node.logs[@.part].head]]
    /\ UNCHANGED <<files, node, lost, setup, events>>

ReaderRead(r) ==
    LET c == readers[r]
    IN  /\ Serving
        /\ c.pc = "loaded"
        /\ readers' = [readers EXCEPT ![r] =
              [pc |-> "done", num |-> c.num, known |-> TRUE,
               got |-> IF c.part \notin Parts THEN Garbage
                       ELSE ReadBelowHead(files.parts[c.part], node.logs[c.part].header,
                                          c.head, c.num)]]
        /\ UNCHANGED <<files, node, lost, setup, events>>

ReaderForget(r) ==
    /\ readers[r].pc = "done"
    /\ readers' = [readers EXCEPT ![r] = [pc |-> "idle"]]
    /\ UNCHANGED <<files, node, lost, setup, events>>

StorageInit ==
    /\ setup \in StorageWorlds
    /\ files = setup.files
    /\ events = setup.quota
    /\ node = Down
    /\ readers = NoReaders
    /\ lost = {}

StorageNext ==
    \/ \E replay \in setup.replay : StartNode(replay)
    \/ OpenAndInit \/ SplitBatch \/ SplitDone
    \/ OpenPart \/ Generate \/ FinishGenerating \/ StopGenerating \/ ReopenForWriting
    \/ BeginReplay \/ ReplayLogBlock
    \/ AppendStart \/ WriteBlock \/ WriteFails \/ StoreArtifacts \/ PublishHead
    \/ Prune \/ FlushHead
    \/ Interrupt \/ CloseStorage \/ KillNode \/ PowerFailure
    \/ \E r \in Readers : \/ \E n \in 1 .. MaxBlock : ReaderStart(r, n)
                          \/ ReaderTake(r) \/ ReaderLoad(r) \/ ReaderRead(r) \/ ReaderForget(r)

StorageSpec == StorageInit /\ [][StorageNext]_storageVars

--------------------
(* The blocks that can be found in the part files by walking them.         *)
Stored == {n \in 1 .. MaxBlock : \E p \in Parts :
             \E i \in DOMAIN files.parts[p].log : files.parts[p].log[i].num = n}

(* A call for a block that was in the storage when the call began yields   *)
(* that block, whatever is appended, rotated and pruned meanwhile; it is   *)
(* refused only when the block has been pruned, or lies in a part the      *)
(* generation of whose artifacts was once killed.                          *)
ReadsRight ==
    \A r \in Readers : readers[r].pc = "done" =>
        LET c == readers[r]
            p == get_part_number_for_block(c.num)
        IN  \/ c.got = c.num
            \/ c.got = NullBlock /\ ~c.known
            \/ c.got = Refused /\ p \notin node.slots
            \/ p \in lost

(* Log, artifacts and memory agree whenever the storage is in use: a part  *)
(* holds its blocks in order, each at the position written after it, the   *)
(* object in memory has the size and head of the file, the artifacts lead  *)
(* to every block, and the parts form one run that ends in the head part.  *)
(* A replay has then taken the state to the last block asked for (when     *)
(* that block is the first of its part, process_blocks ends one earlier).  *)
PartWhole(p) ==
    LET f == files.parts[p]
        l == node.logs[p]
    IN  /\ \A i \in DOMAIN f.log : f.log[i] = [num |-> First(p) + i - 1, pos |-> i]
        /\ Len(f.log) <= BLOCKS_IN_SPLIT_BLOCK_LOG_FILE
        /\ l.size = Len(f.log)
        /\ p # HeadPart => Len(f.log) = BLOCKS_IN_SPLIT_BLOCK_LOG_FILE
        /\ p \notin lost => \A i \in DOMAIN f.log : /\ First(p) + i - 1 \in DOMAIN f.chunks
                                                  /\ f.chunks[First(p) + i - 1] = i

ReplayWhole ==
    node.pc = "replayed" /\ ~node.interrupt =>
        \/ files.state = node.last
        \/ files.state = node.last - 1 /\ is_last_number_of_the_file(files.state)

PartsWhole ==
    node.pc \in {"open", "replayed", "up", "appended"} /\ ~node.interrupt =>
        /\ \A p \in node.slots : PartWhole(p)
        /\ node.slots = Min(node.slots) .. HeadPart
        /\ Split > 0 /\ node.pc = "appended" => Cardinality(node.slots) <= Split + 1

(* A block once written whole into the storage stays there: it leaves only *)
(* with its part, when enough newer parts are kept, with a power failure,  *)
(* or on the user's request.                                               *)
Durable ==
    [][\A n \in Stored \ Stored' :
          \/ get_part_number_for_block(n) + Split < Max(Parts)
          \/ events'.failures < events.failures
          \/ setup.resync]_storageVars

(* The process refuses to start, or to go on, only for a cause outside the *)
(* storage's own steps.  A torn block is really there; a part is missing   *)
(* that no legacy file can supply; the state and the log differ because a  *)
(* kill came after the append and before the state learnt of it (the log   *)
(* is then ahead and a replay repairs it), or the log was split from a     *)
(* legacy file the state never followed, or was split in part only by a    *)
(* killed process; a log is still in use while it is closed; and artifacts *)
(* are unusable only after a kill, a power failure or an interrupted       *)
(* generation.  A storage that was closed and opened any number of times   *)
(* otherwise opens again.                                                  *)
Crashed == events.kills < setup.quota.kills

PoweredOff == events.failures < setup.quota.failures

StoppedGenerating ==
    events.interrupts < setup.quota.interrupts
    /\ \E p \in DOMAIN setup.files.parts : ~setup.files.parts[p].indexed

RestartRefusedOnly ==
    node.pc = "failed" =>
        \/ node.why = "torn" /\ \E p \in Parts : IsTorn(files.parts[p].log)
        \/ node.why = "missing" /\ Cardinality(Parts) < Max(Parts)
        \/ node.why = "inconsistent" 
           /\ ((Crashed /\ files.state < Max(Stored)) \/ files.mono.exists)
        \/ node.why = "busy" /\ Split > 0
        \/ node.why \in {"artifacts", "unlinked", "unfinished"}
           /\ (Crashed \/ StoppedGenerating)
        \/ PoweredOff

(* The storage in use is whole, read right while it is appended to, and    *)
(* replayed in full, and it opens again unless something outside it went   *)
(* wrong.  (split_block_log and block_log_wrapper)                         *)
StorageWhole == ReadsRight /\ PartsWhole /\ ReplayWhole /\ RestartRefusedOnly
=============================================================================
