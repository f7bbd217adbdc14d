----------------------------- MODULE MCGovernance -----------------------------
(* Each world brings the operations together that touch the same sums: chains *)
(* of four proxies longer than the limit, votes and proxies that expire or    *)
(* are declined, power down into delayed votes, delegation and power down.    *)
EXTENDS Credits, TLC

CONSTANTS alice, bob, carol, dave, erin

AllAccounts == {alice, bob, carol, dave, erin, pixa_ico}
ids == (alice :> 1) @@ (bob :> 2) @@ (carol :> 3) @@ (dave :> 4) @@ (erin :> 5) @@ (pixa_ico :> 6)
Vests(f) == f @@ [x \in AllAccounts |-> 0]

World(operations, accounts, vesting, rewards, last) ==
  [operations |-> operations, accounts |-> accounts, vesting |-> Vests(vesting),
   rewards |-> Vests(rewards), last |-> last, total |-> 6, credits |-> FALSE, transactions |-> 0, others |-> {}, tos |-> SUBSET accounts \ {{}}]
Credited(w, transactions, others) ==
  [w EXCEPT !.credits = TRUE, !.total = 27, !.transactions = transactions, !.others = others]

\* Prices and pools that move within a few blocks.
small_curve == [coeff_a |-> 1, scale |-> 2, coeff_b |-> 2]
small_dynamics == [r \in Resource |-> [budget |-> 2, decay |-> 4, pool |-> 4]]

\* Credits are lent while VESTS come and go.
Lending(operations, last, transactions) ==
  Credited(World(operations \union {<<"delegate_rc", alice>>}, {alice, bob, carol}, (alice :> 3) @@ (bob :> 1) @@ (carol :> 0), alice :> 0, last),
           transactions, {})
LendingWorld == Lending({<<"delegate", alice>>}, 2, 3)
LeavingWorld == Lending({<<"power_down", alice>>}, 3, 3)
\* More receivers than a step may remove, twice in a block.
ManyWorld ==
  [Credited(World({<<"delegate_rc", alice>>, <<"delegate", alice>>}, AllAccounts \ {pixa_ico}, (alice :> 4) @@ (bob :> 0), alice :> 0, 1), 3, {})
     EXCEPT !.tos = {{bob, carol, dave, erin}}]
MutualWorld == Lending({<<"delegate_rc", bob>>, <<"delegate", bob>>}, 1, 3)
\* Transactions of all kinds cost something when there are VESTS enough; VESTS from everywhere.
Comment == Op("comment", 0)
UsageWorld ==
  Credited(World({<<"other", alice>>, <<"power_up", alice>>, <<"claim", alice>>, <<"transfer", pixa_ico>>, <<"produce", alice>>}, {alice, pixa_ico},
                 (alice :> 2) @@ (pixa_ico :> 22), alice :> 1, 3), 2,
           {Op("transfer", 0), [Op("claim_account", 0) EXCEPT !.free = TRUE], Op("recover_account", 1),
            [Op("account_update", 2) EXCEPT !.replaces = 4]})
PumpWorld ==
  Credited(World({<<"delegate_rc", alice>>, <<"other", carol>>}, {alice, carol, dave}, (alice :> 3) @@ (carol :> 0) @@ (dave :> 21), alice :> 0, 3), 3, {Comment})

LendingOnly == {LendingWorld}
ProxyWorld ==
  World(({"proxy"} \X {alice, bob, carol, dave}) \union {<<"vote", erin>>, <<"claim", dave>>},
        {alice, bob, carol, dave, erin}, (alice :> 1) @@ (bob :> 2) @@ (carol :> 4) @@ (dave :> 8) @@ (erin :> 16), dave :> 1, 0)
VoterWorld ==
  World(({"proxy"} \X {alice, bob}) \union ({"vote"} \X {bob, carol}) \union ({"decline"} \X {bob}), {alice, bob, carol},
        (alice :> 1) @@ (bob :> 2) @@ (carol :> 4), alice :> 0, 3)
RouteWorld == World({<<"power_down", alice>>, <<"route", alice>>, <<"vote", bob>>}, {alice, bob}, (alice :> 4) @@ (bob :> 0), alice :> 0, 3)
DelayWorld ==
  World({<<"power_up", alice>>, <<"power_down", alice>>, <<"proxy", alice>>, <<"vote", bob>>, <<"produce", alice>>}, {alice, bob},
        (alice :> 2) @@ (bob :> 1), alice :> 0, 3)
DelegationWorld ==
  World({<<"delegate", alice>>, <<"power_down", alice>>, <<"power_down", bob>>, <<"transfer", pixa_ico>>}, {alice, bob, pixa_ico},
        (alice :> 3) @@ (bob :> 1) @@ (pixa_ico :> 1), alice :> 0, 3)

SmallWorlds ==
  {ProxyWorld, VoterWorld, RouteWorld, DelayWorld, DelegationWorld,
   LendingWorld, LeavingWorld, ManyWorld, MutualWorld, UsageWorld, PumpWorld}
===============================================================================
