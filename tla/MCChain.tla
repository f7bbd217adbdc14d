-------------------------------- MODULE MCChain --------------------------------
EXTENDS Chain

Key(key) == [weight_threshold |-> 1, key_auths |-> <<<<key, 1>>>>, account_auths |-> <<>>]
Accounts(threshold, names) ==
  [weight_threshold |-> threshold, key_auths |-> <<>>, account_auths |-> [i \in DOMAIN names |-> <<names[i], 1>>]]
Open == [weight_threshold |-> 0, key_auths |-> <<>>, account_auths |-> <<>>]
Same(auth) == [owner |-> auth, active |-> auth, posting |-> auth]

Props == [account_creation_fee |-> 1, maximum_block_size |-> 2, account_subsidy_budget |-> 4, account_subsidy_decay |-> 2]
Rd == rd_setup_dynamics_params(4, 2)

\* A world with these witnesses, by name and votes, that nothing happens in.
\* Everybody has one key, named like the account.
Base(names, votes, hardfork) ==
  LET build == [version |-> 30, times |-> [n \in 28..31 |-> IF n < 30 THEN 5 ELSE 7]]
      all == ToSet(names) \cup {"alice", "bob", "null", "temp"}
      Wit(i) == [FreshWitness(names[i], Props, i) EXCEPT !.votes = votes[i], !.running_version = hardfork,
                   !.hardfork_vote = <<hardfork, 0>>, !.virtual_scheduled_time = VIRTUAL_MAX \div (votes[i] + 1)]
  IN  [accounts |-> all, balance |-> 5, agent |-> [a \in all |-> IF a = "alice" THEN "bob" ELSE NoAccount],
       auths |-> [a \in all |-> Same(IF a = "temp" THEN Open ELSE Key(a))],
       witnesses |-> [w \in ToSet(names) |-> Wit(CHOOSE i \in DOMAIN names : names[i] = w)],
       schedule |-> [shuffled |-> SubSeq(names, 1, Min({3, Len(names)})), current_virtual_time |-> 0, majority_version |-> hardfork,
                     median |-> Props, account_subsidy_rd |-> Rd, account_subsidy_witness_rd |-> Rd,
                     witness_pay_normalization_factor |-> 1, hardfork_required_witnesses |-> 2],
       hardfork |-> hardfork, head |-> 0, vests |-> 150, start |-> 3, last |-> 6, props |-> Props,
       transactions |-> 0, operations |-> {}, signers |-> {{a} : a \in all}, names |-> names \o <<"alice", "bob", "null", "temp">>, names_to_take |-> {"carol"},
       new_auths |-> {Same(Key("alice"))}, fees |-> {1}, updates |-> {}, lost |-> {"alice"}, owners |-> {Key("new")}, agents |-> {},
       keys |-> {NoKey}, changes |-> {}, prices |-> {}, deltas |-> {}, slots |-> {1}, random |-> {<<0, 0, 0>>},
       build |-> build, builds |-> [w \in ToSet(names) |-> {build}], required |-> {}, all_keys |-> {}, arrives |-> 1000, upgrade |-> 30]

One == <<"wit">>
Four == <<"w1", "w2", "w3", "w4">>
All(operations, accounts) == operations \X accounts

\* Alice's key was stolen: the thief sets another, and changes the recovery account.
TheftWorld(hardfork) ==
  [Base(One, <<10>>, hardfork) EXCEPT
     !.last = IF hardfork = 30 THEN 7 ELSE 8, !.transactions = 4, !.slots = IF hardfork = 30 THEN {1, 2} ELSE {1}, !.agents = {"wit", "bob"}, !.owners = {Key("alice"), Key("thief"), Key("new")},
     !.updates = {"owner" :> Key("thief"), "owner" :> Key("alice")},
     !.operations = {<<"account_update", "alice">>, <<"change_recovery_account", "alice">>, <<"recover_account", "alice">>}
                      \cup All({"request_account_recovery"}, {"bob", "wit"}),
     !.signers = {{"alice", "thief"}, {"bob"}, {"wit"}, {"alice", "new"}}]

ClaimWorld ==
  [Base(<<"w1", "w2">>, <<10, 5>>, 30) EXCEPT
     !.last = 14, !.transactions = 5, !.fees = {0, 1}, !.balance = 2,
     !.operations = All({"account_create", "claim_account", "create_claimed_account"}, {"alice"})]

\* Witnesses come and go.
WitnessWorld ==
  [Base(<<"w1", "w2">>, <<10, 1>>, 30) EXCEPT
     !.last = 8, !.transactions = 3, !.slots = {1, 2}, !.keys = {NoKey, "k"}, !.random = {<<0, 0, 0>>, <<1, 0, 0>>},
     !.changes = {"new_signing_key" :> NoKey, ("maximum_block_size" :> 3 @@ "hbd_exchange_rate" :> 2)}, !.prices = {1},
     !.operations = All({"witness_update", "witness_set_properties", "feed_publish"}, {"w1", "w2", "temp"}),
     !.signers = {{"w1"}, {"w2"}, {"k"}}]

VoteWorld ==
  [Base(Four, <<10, 9, 4, 2>>, 30) EXCEPT
     !.last = 12, !.transactions = 2, !.deltas = {-2, 8}, !.operations = All({"vote"}, ToSet(Four)), !.random = {<<1, 1, 0>>},
     !.vests = 30]

\* Nobody votes, for a long time.
PatienceWorld ==
  [Base(Four, <<10, 9, 6, 1>>, 29) EXCEPT !.last = 75, !.vests = 12, !.transactions = 1, !.deltas = {-3, 2}, !.operations = All({"vote"}, ToSet(Four)),
     !.build.times = [n \in 28..31 |-> 500], !.builds = [w \in ToSet(Four) |-> {[version |-> 30, times |-> [n \in 28..31 |-> 500]]}]]

\* The witnesses upgrade one by one, or not at all.
Builds(times) == {[version |-> 29, times |-> [n \in 28..31 |-> 5]], [version |-> 30, times |-> [n \in 28..31 |-> IF n < 30 THEN 5 ELSE times]]}
UpgradeWorld ==
  [Base(Four, <<10, 9, 4, 2>>, 28) EXCEPT
     !.last = 15, !.build.times[30] = 10, !.builds = [w \in ToSet(Four) |-> IF w = "w4" THEN {} ELSE Builds(10)], !.slots = {1, 2}]

\* They agree on another time than this build's, or on a hardfork it has not.
EarlyWorld ==
  [Base(Four, <<10, 9, 4, 2>>, 29) EXCEPT
     !.last = 15, !.build.times[30] = 10, !.builds = [w \in ToSet(Four) |-> Builds(5)]]
LaterWorld ==
  [Base(Four, <<10, 9, 4, 2>>, 30) EXCEPT
     !.last = 15, !.builds = [w \in ToSet(Four) |-> {[version |-> v, times |-> [n \in 28..32 |-> 9]] : v \in {30, 31}}]]

\* Two witnesses produce, the others are there in name only.
AbsentWorld ==
  LET w == Base(Four, <<10, 9, 4, 2>>, 29)
  IN  [w EXCEPT
         !.last = 32, !.arrives = 30, !.slots = {1, 2, 3},
         !.builds = [v \in ToSet(Four) |-> IF v \in {"w1", "w2"} THEN {w.build} ELSE {}],
         !.witnesses = [v \in DOMAIN @ |-> [@[v] EXCEPT !.last_confirmed_block_num = 1]]]

\* Authorities that name each other.
AuthorityWorld ==
  LET shapes == {Key("alice"), Accounts(1, <<"bob", "alice">>), Accounts(2, <<"bob", "wit">>),
                 [weight_threshold |-> 2, key_auths |-> <<<<"alice", 1>>, <<"k", 1>>>>, account_auths |-> <<<<"bob", 1>>, <<"carl", 1>>>>]}
      w == Base(One, <<10>>, 30)
      all == w.accounts \cup {"carl"}
  IN  [w EXCEPT
         !.accounts = all, !.agent = [a \in all |-> NoAccount], !.names = Append(@, "carl"),
         !.auths = [a \in all |-> IF a = "bob" THEN [owner |-> Key("bob"), active |-> Accounts(1, <<"carl", "wit">>), posting |-> Accounts(2, <<"carl", "wit">>)]
                                  ELSE IF a = "carl" THEN [Same(Key("carl")) EXCEPT !.active = Accounts(1, <<"wit", "alice">>)]
                                  ELSE Same(Key(a))],
         !.last = 4, !.transactions = 2, !.updates = {<<>>} \cup {role :> shape : role \in {"owner", "active", "posting"}, shape \in shapes},
         !.operations = All({"account_update", "account_update2"}, {"alice", "bob"}),
         !.signers = {{"alice", "wit"}, {"bob"}, {"k", "carl"}},
         !.all_keys = {"alice", "carl", "wit", "k"},
         !.required = {Active("alice"), Owner("alice"), Active("bob"), [NoneRequired EXCEPT !.posting = {"alice"}],
                       [NoneRequired EXCEPT !.active = {"alice", "bob"}],
                       [NoneRequired EXCEPT !.active = {"bob"}, !.other = <<Accounts(2, <<"alice", "carl">>)>>]}]

ChainWorlds ==
  {TheftWorld(29), TheftWorld(30), ClaimWorld, WitnessWorld, VoteWorld, PatienceWorld, UpgradeWorld, EarlyWorld, LaterWorld,
   AbsentWorld, AuthorityWorld}
===============================================================================
