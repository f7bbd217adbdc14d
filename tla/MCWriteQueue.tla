----------------------------- MODULE MCWriteQueue -----------------------------
(* Two network blocks, one of them early, transactions of the API and of the *)
(* colony plugin, and two rounds of the production loop.                     *)
EXTENDS WriteQueue, TLC

CONSTANTS b1, b2, t1, t2, t3, g1, g2

World(reqs, early, stop_at, exit_at, syncing) ==
  [requests |-> reqs, early |-> early, stop_at |-> stop_at, exit_at |-> exit_at, syncing |-> syncing]

SmallWorlds ==
  {World({b1, b2}, {b1, b2}, {}, FALSE, FALSE),
   World({g1, g2}, {}, {}, FALSE, FALSE),
   World({b1, g1}, {}, {}, FALSE, FALSE),
   World({b1, t1}, {}, {b1}, FALSE, TRUE),
   World({t2, t3}, {}, {}, FALSE, FALSE),
   World({g1, t1}, {}, {g1}, TRUE, FALSE)}

\* b2 may win a fork switch although its slot is not the latest.
slots == (b1 :> 1) @@ (b2 :> 1)
===============================================================================
