---- MODULE MCStorage ----
(***************************************************************************)
(* Small instances of what a node keeps: a table of objects in shared      *)
(* memory, and the file it is in, through several lives of the node; block *)
(* logs in parts of four blocks, and the tools that split, merge, compare, *)
(* cut and compress them; a node with a block tree of two branches, two    *)
(* accounts and a comment, for the archives; state databases for the       *)
(* snapshot of their indices.  A behaviour is about one of them, the       *)
(* others keep to a parked world.                                          *)
(***************************************************************************)
EXTENDS IndexAllocation, BlockStorage, Archives, LogTools, BlockCompressor, SharedMemory

Cells(from, to) == [i \in 1 .. (to - from + 1) |-> [num |-> from + i - 1, pos |-> i]]

Bare(from, to) == LogFile(Cells(from, to))

Whole(from, to) ==
    [LogFile(Cells(from, to)) EXCEPT
        !.indexed = TRUE,
        !.header = [head |-> to, tail |-> from, interrupted |-> 0],
        !.chunks = [n \in from .. to |-> n - from + 1]]

Chain(top) ==
    [p \in {q \in 1 .. get_part_number_for_block(top) : top > 0} |->
        Whole(First(p), Min({top, get_number_of_last_block_in_part(p)}))]

Quota(starts, appends, reads, kills, interrupts, failures) ==
    [starts |-> starts, appends |-> appends, reads |-> reads, kills |-> kills,
     interrupts |-> interrupts, failures |-> failures]

(* A node that keeps one part besides the head part and starts normally    *)
(* with the blocks up to top in the storage.                               *)
World(top, q) ==
    [block_log_split |-> 1, auto_fixing |-> TRUE, live_sync |-> FALSE, replay |-> {FALSE},
     force_replay |-> FALSE, resync |-> FALSE, stop_replay_at |-> 0, quota |-> q,
     files |-> [parts |-> Chain(top), mono |-> NoFile, state |-> top]]

(* From nothing into the second part; through two rotations with readers.  *)
Growing == World(0, Quota(2, 6, 1, 0, 2, 0))
Pruning == World(7, Quota(2, 6, 1, 0, 1, 0))

(* Kills between and within the steps of appending, at sync and live.      *)
Killed == [World(6, Quota(3, 4, 0, 2, 1, 0)) EXCEPT !.replay = {FALSE, TRUE}]
KilledLive == [Killed EXCEPT !.live_sync = TRUE]
Powerless == [World(7, Quota(3, 1, 0, 0, 0, 2)) EXCEPT !.replay = {FALSE, TRUE}]

(* Parts whose artifacts have to be generated, interrupted and killed.     *)
Generates == [World(11, Quota(4, 1, 1, 1, 2, 0)) EXCEPT
                 !.files.parts = [Chain(11) EXCEPT ![2] = Bare(5, 8), ![3] = Bare(9, 11)]]

(* The legacy file of ten blocks beside parts, with the state at a block.  *)
Monolith(split, state, parts) ==
    [World(0, Quota(3, 1, 1, 1, 1, 0)) EXCEPT
        !.block_log_split = split,
        !.files = [parts |-> parts, mono |-> Whole(1, 10), state |-> state]]

(* Parts that are not there, and that the legacy file cannot supply.       *)
Gap(split, parts, mono) ==
    [World(0, Quota(1, 0, 0, 0, 0, 0)) EXCEPT
        !.block_log_split = split, !.files = [parts |-> parts, mono |-> mono, state |-> 14]]

Replays(top, state, stop) ==
    [World(top, Quota(2, 1, 0, 0, 1, 0)) EXCEPT
        !.replay = {TRUE}, !.stop_replay_at = stop, !.files.state = state,
        !.block_log_split = 2]

Stores ==
    {Growing, Pruning, Killed, KilledLive, Powerless, Generates,
     Monolith(1, 10, <<>>), Monolith(9, 0, <<>>), Monolith(1, 6, <<>>),
     Monolith(2, 10, [p \in {3} |-> Whole(9, 10)]),
     Monolith(9, 10, [p \in {1, 3} |-> IF p = 1 THEN Whole(1, 4) ELSE Whole(9, 10)]),
     Gap(2, [p \in {4} |-> Whole(13, 14)], NoFile),
     Gap(3, [p \in {2, 4} |-> Whole(First(p), Min({4 * p, 14}))], Whole(1, 14)),
     Replays(10, 0, 0), Replays(10, 4, 0), Replays(10, 4, 9), Replays(10, 10, 0),
     [Replays(6, 6, 0) EXCEPT !.force_replay = TRUE],
     [World(6, Quota(1, 1, 0, 0, 1, 0)) EXCEPT !.resync = TRUE]}
--------------------
op(v, t) == [vop |-> v, to |-> t]
blk(p, o, cr, ca) == [prev |-> p, ops |-> o, creates |-> cr, cash |-> ca]

Both == <<"alice", "bob">>
Tree == [a1 |-> blk("", <<op(FALSE, Both)>>, {"x"}, {}),
         a2 |-> blk("a1", <<op(TRUE, <<"alice">>), op(TRUE, Both)>>, {}, {"x"}),
         a3 |-> blk("a2", <<op(FALSE, <<"bob">>), op(TRUE, <<"bob">>)>>, {}, {}),
         b2 |-> blk("a1", <<op(FALSE, <<"alice">>)>>, {}, {}),
         b3 |-> blk("b2", <<op(TRUE, <<"alice">>)>>, {}, {"x"})]

None == [blocks |-> 0, pops |-> 0, pending |-> 0, confirms |-> 0, kills |-> 0,
         stops |-> 0, starts |-> 0, dumps |-> 0]
W(name, archive, limit, batch, rd, q) ==
    [name |-> name, blocks |-> Tree, height |-> 3, accounts |-> {"alice", "bob"},
     archive |-> archive, limit |-> limit, batch |-> batch, reader |-> rd,
     quota |-> q @@ None]

ForkWorld == W("fork", "rocksdb", 0, 2, FALSE,
    [blocks |-> 5, pops |-> 2, pending |-> 1, confirms |-> 1, starts |-> 1])
KillWorld == W("kill", "rocksdb", 1, 2, FALSE,
    [blocks |-> 3, kills |-> 1, starts |-> 3, confirms |-> 1])
StopWorld == W("stop", "rocksdb", 2, 2, FALSE,
    [blocks |-> 3, stops |-> 1, kills |-> 1, starts |-> 3])
SnapWorld == W("snap", "rocksdb", 1, 2, FALSE,
    [blocks |-> 3, stops |-> 1, starts |-> 3, dumps |-> 1])
ReaderWorld == W("reader", "none", 0, 1, TRUE,
    [blocks |-> 4, pops |-> 1, confirms |-> 1, starts |-> 1])
AllWorlds == {ForkWorld, KillWorld, StopWorld, SnapWorld, ReaderWorld}
NoNode == W("parked", "none", 0, 1, FALSE, None)

\* Three ids per file: a is dense, g has gaps in its ids, e is empty and its
\* next id is not 0.  In SnapGaps the ids leave the last worker nothing.
Snap(ids, next, faults) == [ids |-> ids, next |-> next, per |-> 3, faults |-> faults]
Wide == [a |-> 0 .. 4, e |-> {}, g |-> {0, 2, 5, 8, 9}]
WideNext == [a |-> 5, e |-> 4, g |-> 12]
SnapWhole == Snap(Wide, WideNext, 2)
SnapParked == Snap([a |-> {}], [a |-> 0], 0)
SnapGaps == {Snap([a |-> 0 .. 3], [a |-> 4], 0)}

--------------------
TLog(kind, from, to, diff) ==
    [kind |-> kind, tail |-> from,
     data |-> [i \in 1 .. to - from + 1 |-> 2 * (from + i - 1) + (IF from + i - 1 \in diff THEN 1 ELSE 0)]]
Asks(o, log_, from, to) == [op |-> o, log |-> log_, from |-> from, to |-> to]
Splits(from, to, count) ==
    [op |-> "split", log |-> "a", into |-> "out", from |-> from, to |-> to, count |-> count]
Merges(to) == [op |-> "merge", log |-> "out", into |-> "whole", from |-> 1, to |-> to]
Compares(p, q, from, to) == [op |-> "compare", log |-> p, second |-> q, from |-> from, to |-> to]
Sums(every) == [op |-> "sha256sum", log |-> "a", every |-> every, from |-> 1, to |-> -1]
Verifies(lines) == [op |-> "verify", lines |-> lines]
Cuts(to, response) == [op |-> "truncate", log |-> "a", from |-> 1, to |-> to, response |-> response]
Ends(sizes, torn) == [op |-> "find-end", file |-> [sizes |-> sizes, torn |-> torn]]

(* Commands given one after another, over two logs.                        *)
Session(a, b, cmds) ==
    [logs |-> [p \in {"a", "b", "out", "whole"} |->
                 IF p = "a" THEN a ELSE IF p = "b" THEN b ELSE Unused], script |-> cmds]
One(h) == TLog("single", 1, h, {})
SplitSessions ==
    {Session(One(h), Unused, <<Splits(f, t, c), Merges(-1), Compares("a", "whole", 1, -1), Compares("whole", "out", 1, -2)>>) :
        h \in {1, 5, 8, 10}, f \in {1, 4, 8, 3}, t \in {-1, 4, 7, 8}, c \in {-2, 0, 1, 3}}
MergeSessions ==
    {Session(One(h), Unused, <<Splits(1, -1, 0), Merges(t), Compares("out", "whole", 1, 4)>>) :
        h \in {7, 9}, t \in {-1, -3, 4, 5, 9}}
SumSessions ==
    {Session(TLog(k[1], k[2], 9, {}), Unused,
             <<Sums(e), Verifies(l), Cuts(t, r), Verifies(l), Asks("get-head-block-number", "a", 1, -1)>>) :
        k \in {<<"single", 1>>, <<"part", 5>>}, e \in {0, 2, 3}, l \in {"all", "checkpoints"},
        t \in {3, 6, 9}, r \in {"yes", "no"}}
AskSessions ==
    {Session(TLog(k[1], k[2], k[3], {}), Unused, <<Asks(o, "a", f, t)>>) :
        k \in {<<"single", 1, 6>>, <<"split", 1, 6>>, <<"part", 5, 6>>, <<"split", 5, 6>>},
        o \in Ranged \ {"split"}, f \in {-2, 0, 1, 3, 6, 7}, t \in {-3, -1, 0, 1, 4, 6, 7}}
CompareSessions ==
    {Session(TLog(k, 1, h, {}), TLog(l, 1, 10, d), <<Compares("a", "b", f, t)>>) :
        k \in {"single", "split"}, l \in {"single", "split"}, h \in {9, 10},
        d \in {{}, 3 .. 10, {6}, {9}}, f \in {1, 5}, t \in {-1, 5, 9}}
EndSessions ==
    {Session(One(1), Unused, <<Ends([i \in 1 .. n |-> 1 + ((i * s) % 3)], r)>>) : n \in 0 .. 4, s \in 1 .. 2, r \in 0 .. 5}
AllSessions == SplitSessions \cup MergeSessions \cup SumSessions \cup AskSessions \cup CompareSessions \cup EndSessions

(* Compressing a log of four blocks of which the second would grow.        *)
CompressAll == [head |-> 4, start |-> 1, count |-> Everything, used |-> FALSE, zstd |-> TRUE, larger |-> {2},
        even |-> FALSE, fails |-> {}]
AllJobs ==
    {CompressAll, [CompressAll EXCEPT !.zstd = FALSE], [CompressAll EXCEPT !.even = TRUE, !.count = 2], [CompressAll EXCEPT !.start = 2, !.count = 4],
     [CompressAll EXCEPT !.count = 5], [CompressAll EXCEPT !.head = 0], [CompressAll EXCEPT !.used = TRUE], [CompressAll EXCEPT !.count = 0]}
    \cup {[CompressAll EXCEPT !.fails = {<<w, n>>}] : w \in {"read", "compress", "append"}, n \in {1, 3}}

(* Starts of a node one after another: with and without a plugin, with a   *)
(* wiped state, another build, other tables, another size of the file.     *)
Tables == <<"props", "accounts">>
Life == [build |-> 1, defs |-> 1, plugins |-> <<"votes">>, size |-> 10, wipe |-> FALSE]
Plain == [Life EXCEPT !.plugins = <<>>]
AllLives == {
    <<Life, Life>>,
    <<Life, Plain, Life>>,
    <<Plain, Life, [Life EXCEPT !.wipe = TRUE]>>,
    <<Life, [Life EXCEPT !.defs = 2]>>,
    <<[Life EXCEPT !.size = 5], [Life EXCEPT !.build = 2]>>,
    <<Life, [Life EXCEPT !.size = 30]>>}

--------------------
(* The part that moves, the others are parked.                             *)
VARIABLE moving

NoStore == World(0, Quota(0, 0, 0, 0, 0, 0))
NoSession == Session(Unused, Unused, <<>>)
NoJob == [CompressAll EXCEPT !.head = 0, !.start = 9]
NoLives == <<>>

Choice(part, all, parked) == IF moving = part THEN all \ {parked} ELSE {parked}
KeepInit ==
    /\ moving \in {"objects", "blocks", "archives", "snapshot", "tools", "compressor", "memory"}
    /\ setup \in Choice("blocks", StorageWorlds, NoStore)
    /\ world \in Choice("archives", Worlds, NoNode)
    /\ sworld \in Choice("snapshot", SnapWorlds, SnapParked)
    /\ \E s \in Choice("tools", Sessions, NoSession) : logs = s.logs /\ script = s.script
    /\ job \in Choice("compressor", Jobs, NoJob)
    /\ lives \in Choice("memory", Lives, NoLives)
    /\ InitAllocation /\ StorageInit /\ NodeInit /\ SnapInit /\ ToolInit /\ CompressorInit /\ MemoryInit

KeepNext ==
    \/ moving = "objects" /\ NextAllocation /\ UNCHANGED <<moving, storageVars, nodeVars, svars, toolVars, cvars, memoryVars>>
    \/ moving = "blocks" /\ StorageNext /\ UNCHANGED <<moving, allVars, nodeVars, svars, toolVars, cvars, memoryVars>>
    \/ moving = "archives" /\ NodeNext /\ UNCHANGED <<moving, allVars, storageVars, svars, toolVars, cvars, memoryVars>>
    \/ moving = "snapshot" /\ SnapNext /\ UNCHANGED <<moving, allVars, storageVars, nodeVars, toolVars, cvars, memoryVars>>
    \/ moving = "tools" /\ ToolNext /\ UNCHANGED <<moving, allVars, storageVars, nodeVars, svars, cvars, memoryVars>>
    \/ moving = "compressor" /\ CompressorNext /\ UNCHANGED <<moving, allVars, storageVars, nodeVars, svars, toolVars, memoryVars>>
    \/ moving = "memory" /\ MemoryNext /\ UNCHANGED <<moving, allVars, storageVars, nodeVars, svars, toolVars, cvars>>

KeepSpec == KeepInit /\ [][KeepNext]_<<moving, allVars, storageVars, nodeVars, svars, toolVars, cvars, memoryVars>>

AllStores == Stores \union {NoStore}
OneStore == {NoStore}
NodeWorlds == AllWorlds \union {NoNode}
OneNode == {NoNode}
SnapshotWorlds == {SnapWhole, SnapParked}
AnySession == AllSessions \union {NoSession}
OneSession == {NoSession}
AnyJob == AllJobs \union {NoJob}
OneJob == {NoJob}
AnyLives == AllLives \union {NoLives}
OneLife == {NoLives}

(* An object is a pair: its unique key and the number of bytes it owns.    *)
MCValues == {<<"k1", 0>>, <<"k1", 2>>, <<"k2", 1>>}
MCKey(v) == v[1]
MCDynamicAlloc(v) == v[2]
====
