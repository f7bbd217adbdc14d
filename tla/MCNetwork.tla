----------------------------- MODULE MCNetwork -----------------------------
(***************************************************************************)
(* Instances of Network.  Blocks are numbered so that the last digit is    *)
(* the block number: 1 to 5 are one chain, 13 and 14 fork off after 2.     *)
(***************************************************************************)
EXTENDS Network, TLC

Blocks == 1..5 \cup {13, 14}

prev == [b \in Blocks |-> IF b = 1 THEN 0 ELSE IF b = 13 THEN 2 ELSE b - 1]

numbers == [b \in Blocks \cup {0} |-> b % 10]

contained == [b \in Blocks |-> IF b = 4 THEN {100} ELSE {}]

Calm == [connects |-> 0, faults |-> 0, timeouts |-> 0, stalls |-> 0,
         prunes |-> 0, originates |-> 0, minutes |-> 0]

Base ==
  [links |-> <<>>, connected |-> {}, asked |-> {}, head |-> [n \in Node |-> 1],
   invalid |-> [n \in Node |-> {}], reversible |-> 10, slots |-> 10,
   desired_connections |-> 20, maximum_connections |-> 200,
   version |-> [n \in Node |-> 107], chain_id |-> [n \in Node |-> "pixagram"],
   originates |-> {}, quota |-> Calm]

link(x, y) == [from |-> x, to |-> y]

heads(x, y, z) == [n \in Node |-> CASE n = "a" -> x [] n = "b" -> y [] n = "c" -> z]

by(n, i) == [node |-> n, item |-> i]

Pair == [ab |-> link("a", "b")]
Star == [ab |-> link("a", "b"), ac |-> link("a", "c")]
Cross == [ab |-> link("a", "b"), ba |-> link("b", "a")]

All == {<<n, c>> : n \in Node, c \in Connection}

\* a and b connect to each other at the same time, and may try again.
Crossing == [Base EXCEPT !.links = Cross, !.quota.connects = 3]

\* An attempt may fail or time out.
SlowHandshake == [Base EXCEPT !.links = Pair, !.quota.connects = 2,
                              !.quota.timeouts = 1, !.quota.faults = 1]

\* a connects to b and to c, and has room for one connection only.
Crowded == [Base EXCEPT !.links = Star, !.quota.connects = 2, !.maximum_connections = 1]

\* b is on another chain.
Stranger == [Base EXCEPT !.links = Cross, !.quota.connects = 2, !.chain_id["b"] = "other"]

\* a is behind b and c, which have found that a has nothing for them.
Behind == [Base EXCEPT !.links = Star, !.connected = {"ab", "ac"},
             !.asked = {<<"b", "ab">>, <<"c", "ac">>}, !.head = heads(1, 4, 3)]

\* a has no blocks at all, and b more than fit into one reply or one batch.
FromNothing == [Base EXCEPT !.links = Pair, !.connected = {"ab"}, !.head = heads(0, 5, 1)]

\* a is on a minority fork; in Abandoned it is one that b has left behind.
Forked == [Base EXCEPT !.links = Pair, !.connected = {"ab"}, !.head = heads(13, 5, 1)]
Abandoned == [Forked EXCEPT !.reversible = 1]

\* Connections break, or requests time out, while a catches up.
Faulty == [Behind EXCEPT !.head = heads(1, 3, 3), !.quota.faults = 1]
Late == [Behind EXCEPT !.head = heads(2, 3, 3), !.quota.timeouts = 1]

\* a refuses block 3, which both others have.
Refused == [Behind EXCEPT !.head = heads(2, 3, 3), !.invalid["a"] = {3}]

\* b makes a block while a is catching up.
Handover == [Behind EXCEPT !.head = heads(1, 2, 2), !.originates = {by("b", 3)},
                           !.quota.originates = 1]

\* Everyone is in sync; a block and a transaction spread.
Spread == [Base EXCEPT !.links = Star, !.connected = {"ab", "ac"}, !.asked = All,
             !.head = heads(2, 2, 2), !.originates = {by("b", 3), by("a", 100)},
             !.quota.originates = 2]

\* The same where every two nodes are connected.
Triangle == [Spread EXCEPT !.links = Star @@ [bc |-> link("b", "c")],
               !.connected = {"ab", "ac", "bc"}, !.originates = {by("b", 3)}]

\* a refuses both b's block and c's; in Spam, a transaction.
Disputed == [Spread EXCEPT !.invalid["a"] = {3, 13}, !.originates = {by("b", 3), by("c", 13)}]
Spam == [Spread EXCEPT !.invalid["a"] = {100}, !.quota.prunes = 1, !.originates = {by("b", 100)}]

\* b makes blocks faster than a takes them, and forgets a transaction.
Fast == [Base EXCEPT !.links = Pair, !.connected = {"ab"}, !.asked = All,
             !.originates = {by("b", 2), by("b", 3), by("b", 4)},
             !.quota.originates = 3, !.quota.stalls = 1]
Forgetful == [Fast EXCEPT !.originates = {by("b", 2), by("b", 3), by("b", 100)}, !.quota.stalls = 0]

\* A minute passes while b's blocks and transaction are on their way, or while
\* the breaker counts.
Waiting == [Forgetful EXCEPT !.quota.minutes = 1]
Cooling == [Disputed EXCEPT !.quota.minutes = 1]

NetWorlds == {Crossing, SlowHandshake, Crowded, Stranger, Behind, FromNothing, Forked,
              Abandoned, Faulty, Late, Refused, Handover, Spread, Triangle, Disputed,
              Spam, Fast, Forgetful, Waiting, Cooling}

FaultyWorlds == {Faulty}
=============================================================================
