---------------------------- MODULE MCBlockWriter ----------------------------
(* Trees of blocks, schedules and confirms for BlockWriter; the digit in the *)
(* name of a block is its number.                                            *)
EXTENDS BlockWriter, TLC

CONSTANTS r1, a2, a3, a4, b3, b4, b5, c2, c3, d3, d4, w1, w2, w3

AllWitnesses == {w1, w2, w3}

\* A chain r1-a2-a3-a4, a longer fork a2-b3-b4-b5, and a fork r1-c2 with two
\* branches on it.
AllBlocks == {r1, a2, a3, a4, b3, b4, b5, c2, c3, d3, d4}
parents == (r1 :> NoBlock) @@ (a2 :> r1) @@ (a3 :> a2) @@ (a4 :> a3)
        @@ (b3 :> a2) @@ (b4 :> b3) @@ (b5 :> b4)
        @@ (c2 :> r1) @@ (c3 :> c2) @@ (d3 :> c2) @@ (d4 :> d3)
numbers == (r1 :> 1) @@ (a2 :> 2) @@ (a3 :> 3) @@ (a4 :> 4)
        @@ (b3 :> 3) @@ (b4 :> 4) @@ (b5 :> 5)
        @@ (c2 :> 2) @@ (c3 :> 3) @@ (d3 :> 3) @@ (d4 :> 4)
signers == (r1 :> w1) @@ (a2 :> w2) @@ (a3 :> w3) @@ (a4 :> w1)
        @@ (b3 :> w1) @@ (b4 :> w2) @@ (b5 :> w3)
        @@ (c2 :> w1) @@ (c3 :> w2) @@ (d3 :> w3) @@ (d4 :> w1)
\* The same blocks with w1 silent: when all three must approve, nothing becomes
\* irreversible without a confirm of w1.
silent == [b \in AllBlocks |-> IF b \in {a2, a4, b4} THEN w2 ELSE IF b = r1 THEN w1 ELSE w3]
schedules == [b \in AllBlocks |-> AllWitnesses]

confirms == {<<w1, a2>>, <<w3, a3>>, <<w1, b4>>}
late_confirms == {<<w1, a3>>, <<w1, b4>>}

TwoForks == {r1, a2, a3, a4, b3, b4, b5}
BadRoot == {r1, a2, a3, c2, c3, d3, d4}
World(blocks, invalid, late, start, kills) ==
  [blocks |-> blocks, invalid |-> invalid, late |-> late, start_voting |-> start, kills |-> kills]

\* Good blocks and a kill; two branches on a bad block; a block that fails late;
\* the first blocks of a chain.
CrashWorlds == {World(TwoForks, {}, {}, 0, 1), World(BadRoot, {c2}, {}, 0, 0),
                World(TwoForks, {}, {b4}, 0, 0), World(TwoForks, {}, {}, 4, 0)}
\* A block that fails in the middle of the longer fork, or none that fails, or one
\* with two branches on it: a failed switch to one of them leaves the other behind.
BadMiddleWorlds == {World(TwoForks, {b4}, {}, 0, 0), World(TwoForks \ {a4}, {}, {}, 0, 0),
                    World(BadRoot, {c2}, {}, 0, 0)}
===============================================================================
