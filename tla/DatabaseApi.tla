----------------------------- MODULE DatabaseApi -----------------------------
(* The list and find calls of database_api.  Every list_* call walks one      *)
(* ordered index of the state from a starting key and returns at most `limit' *)
(* objects; a client reads a whole table page by page, starting each page     *)
(* from what it saw last.  A page is read under the read lock, the table may  *)
(* change between two pages.                                                  *)
(*                                                                            *)
(* Names are naturals in alphabetical order, the empty name is 0, account ids *)
(* are given in the order of creation.  A key is a tuple compared from left   *)
(* to right; a component an index sorts with std::greater is negated.  Of an  *)
(* object only its id and the fields its indexes sort by are kept.            *)
EXTENDS Integers, Sequences, FiniteSets

CONSTANTS
    AccountId,                   \* the id of each account name
    HIVE_PROPOSAL_MAINTENANCE_CLEANUP,
    HBD_SYMBOL, HIVE_SYMBOL,     \* numbers: prices sort by symbol first
    DATABASE_API_SINGLE_QUERY_LIMIT,
    head_block_time,
    ListWorlds,                  \* what is listed, how, and what may change
    Row(_, _, _)                 \* the objects of a list, by id and version

EmptyName == 0
NoObject == [id |-> 0]
AccountNames == DOMAIN AccountId
NameOf(i) == IF i = 0 THEN EmptyName ELSE CHOOSE n \in AccountNames : AccountId[n] = i
IdOf(n) == IF n = EmptyName THEN 0 ELSE AccountId[n]

ASSUME DatabaseApiAssumption ==
    /\ \A n \in AccountNames : n # EmptyName /\ AccountId[n] \in Nat \ {0}
    /\ \A n, m \in AccountNames : n # m => AccountId[n] # AccountId[m]
    /\ HBD_SYMBOL > HIVE_SYMBOL
    /\ \A w \in ListWorlds : w.limit \in 1 .. DATABASE_API_SINGLE_QUERY_LIMIT

VARIABLES
    lworld,      \* the member of ListWorlds
    table,       \* the objects of the listed class
    next_id,     \* the id the next object created will have
    untouched,   \* history: ids of the objects nothing has changed so far
    client       \* seen: the ids listed so far; last: the last object of the
                 \* last page; done: a short page came; stuck: a full page
                 \* ended where the one before it did

lvars == <<lworld, table, next_id, untouched, client>>

--------------------
(* The keys of every ordered index, by order name.                            *)

account_index(o) ==
    [by_name |-> <<o.name>>, by_proxy |-> <<o.proxy, o.name>>,
     by_next_vesting_withdrawal |-> <<o.next_vesting_withdrawal, o.name>>]

owner_authority_history_index(o) ==
    [by_account |-> <<o.account, o.last_valid_time, o.id>>]

vesting_delegation_index(o) == [by_delegation |-> <<o.delegator, o.delegatee>>]

vesting_delegation_expiration_index(o) ==
    [by_expiration |-> <<o.expiration, o.id>>,
     by_account_expiration |-> <<o.delegator, o.expiration, o.id>>]

account_recovery_request_index(o) ==
    [by_account |-> <<o.account_to_recover>>,
     by_expiration |-> <<o.expires, o.account_to_recover>>]

change_recovery_account_request_index(o) ==
    [by_account |-> <<o.account_to_recover>>,
     by_effective_date |-> <<o.effective_on, o.account_to_recover>>]

witness_index(o) ==
    [by_name |-> <<o.owner>>, by_vote_name |-> <<-o.votes, o.owner>>,
     by_schedule_time |-> <<o.virtual_scheduled_time, o.id>>]

witness_vote_index(o) ==
    [by_account_witness |-> <<o.account, o.witness>>,
     by_witness_account |-> <<o.witness, o.account>>]

escrow_index(o) ==
    [by_from_id |-> <<o.from, o.escrow_id>>,
     by_ratification_deadline |->
        <<IF o.to_approved /\ o.agent_approved THEN 1 ELSE 0, o.ratification_deadline, o.id>>]

withdraw_vesting_route_index(o) ==
    [by_withdraw_route |-> <<o.from_account, o.to_account>>,
     by_destination |-> <<o.to_account, o.id>>]

savings_withdraw_index(o) ==
    [by_from_id |-> <<o.from, o.request_id>>,
     by_complete_from_id |-> <<o.complete, o.from, o.request_id>>,
     by_to_complete |-> <<o.to, o.complete, o.id>>]

convert_request_index(o) ==
    [by_conversion_date |-> <<o.conversion_date, o.id>>,
     by_account |-> <<o.owner, o.requestid>>]

collateralized_convert_request_index(o) ==
    [by_conversion_date |-> <<o.conversion_date, o.id>>,
     by_account |-> <<o.owner, o.requestid>>]

decline_voting_rights_request_index(o) ==
    [by_account |-> <<o.account>>, by_effective_date |-> <<o.effective_date, o.account>>]

limit_order_index(o) ==
    [by_price |-> <<-o.sell_price.base, -o.sell_price.ratio, o.id>>,
     by_account |-> <<o.seller, o.orderid>>]

get_end_date_with_delay(o) == o.end_date + HIVE_PROPOSAL_MAINTENANCE_CLEANUP

proposal_index(o) ==
    [by_creator |-> <<o.creator, o.id>>, by_start_date |-> <<o.start_date, o.id>>,
     by_end_date |-> <<get_end_date_with_delay(o), o.id>>,
     by_total_votes |-> <<o.total_votes, o.id>>]

proposal_vote_index(o) ==
    [by_voter_proposal |-> <<o.voter, o.proposal_id>>,
     by_proposal_voter |-> <<o.proposal_id, o.voter>>]

Index(list, o) ==
    CASE list = "accounts" -> account_index(o)
      [] list = "owner_histories" -> owner_authority_history_index(o)
      [] list = "vesting_delegations" -> vesting_delegation_index(o)
      [] list = "vesting_delegation_expirations" -> vesting_delegation_expiration_index(o)
      [] list = "account_recovery_requests" -> account_recovery_request_index(o)
      [] list = "change_recovery_account_requests" -> change_recovery_account_request_index(o)
      [] list = "witnesses" -> witness_index(o)
      [] list = "witness_votes" -> witness_vote_index(o)
      [] list = "escrows" -> escrow_index(o)
      [] list = "withdraw_vesting_routes" -> withdraw_vesting_route_index(o)
      [] list = "savings_withdrawals" -> savings_withdraw_index(o)
      [] list = "hbd_conversion_requests" -> convert_request_index(o)
      [] list = "collateralized_conversion_requests" -> collateralized_convert_request_index(o)
      [] list = "decline_voting_rights_requests" -> decline_voting_rights_request_index(o)
      [] list = "limit_orders" -> limit_order_index(o)
      [] list = "proposals" -> proposal_index(o)
      [] list = "proposal_votes" -> proposal_vote_index(o)

--------------------
(* What a client is shown: names in the place of account ids.                 *)

api_account_object(o) == [o EXCEPT !.proxy = NameOf(@)]
api_vesting_delegation_object(o) == [o EXCEPT !.delegator = NameOf(@), !.delegatee = NameOf(@)]
api_vesting_delegation_expiration_object(o) == [o EXCEPT !.delegator = NameOf(@)]
api_convert_request_object(o) == [o EXCEPT !.owner = NameOf(@)]
api_collateralized_convert_request_object(o) == [o EXCEPT !.owner = NameOf(@)]

ApiObject(list, o) ==
    CASE list = "accounts" -> api_account_object(o)
      [] list = "vesting_delegations" -> api_vesting_delegation_object(o)
      [] list = "vesting_delegation_expirations" -> api_vesting_delegation_expiration_object(o)
      [] list = "hbd_conversion_requests" -> api_convert_request_object(o)
      [] list = "collateralized_conversion_requests" -> api_collateralized_convert_request_object(o)
      [] OTHER -> o

--------------------
(* The starting key each list_* call builds out of the fields the client      *)
(* passes (those of `a', the object it was shown last).                       *)

list_witnesses(a) ==
    [by_name |-> <<a.owner>>, by_vote_name |-> <<-a.votes, a.owner>>,
     by_schedule_time |->
        <<a.virtual_scheduled_time, (CHOOSE w \in table : w.owner = a.owner).id>>]

list_witness_votes(a) ==
    [by_account_witness |-> <<a.account, a.witness>>,
     by_witness_account |-> <<a.witness, a.account>>]

list_accounts(a) ==
    [by_name |-> <<a.name>>, by_proxy |-> <<IdOf(a.proxy), a.name>>,
     by_next_vesting_withdrawal |-> <<a.next_vesting_withdrawal, a.name>>]

list_owner_histories(a) == [by_account |-> <<a.account, a.last_valid_time>>]

list_account_recovery_requests(a) ==
    [by_account |-> <<a.account_to_recover>>,
     by_expiration |-> <<a.expires, a.account_to_recover>>]

list_change_recovery_account_requests(a) ==
    [by_account |-> <<a.account_to_recover>>,
     by_effective_date |-> <<a.effective_on, a.account_to_recover>>]

list_escrows(a) ==
    [by_from_id |-> <<a.from, a.escrow_id>>,
     by_ratification_deadline |->
        <<IF a.to_approved /\ a.agent_approved THEN 1 ELSE 0, a.ratification_deadline, a.id>>]

list_withdraw_vesting_routes(a) ==
    [by_withdraw_route |-> <<a.from_account, a.to_account>>,
     by_destination |-> <<a.to_account, a.id>>]

list_savings_withdrawals(a) ==
    [by_from_id |-> <<a.from, a.request_id>>,
     by_complete_from_id |-> <<a.complete, a.from, a.request_id>>,
     by_to_complete |-> <<a.to, a.complete, a.id>>]

list_vesting_delegations(a) == [by_delegation |-> <<IdOf(a.delegator), IdOf(a.delegatee)>>]

list_vesting_delegation_expirations(a) ==
    [by_expiration |-> <<a.expiration, a.id>>,
     by_account_expiration |-> <<IdOf(a.delegator), a.expiration, a.id>>]

(* A mutant: the owner's name is taken for the id the index sorts by.         *)
ConversionsByName(a) ==
    [by_conversion_date |-> <<a.conversion_date, a.id>>,
     by_account |-> <<a.owner, a.requestid>>]

list_hbd_conversion_requests(a) ==
    [by_conversion_date |-> <<a.conversion_date, a.id>>,
     by_account |-> <<IdOf(a.owner), a.requestid>>]

list_collateralized_conversion_requests(a) ==
    [by_conversion_date |-> <<a.conversion_date, a.id>>,
     by_account |-> <<IdOf(a.owner), a.requestid>>]

list_decline_voting_rights_requests(a) ==
    [by_account |-> <<a.account>>, by_effective_date |-> <<a.effective_date, a.account>>]

list_limit_orders(a) ==
    [by_price |-> <<-a.sell_price.base, -a.sell_price.ratio, a.id>>,
     by_account |-> <<a.seller, a.orderid>>]

(* Only the first component can be passed: the second is the lowest or the    *)
(* greatest id, whichever takes in every proposal with an equal first one.    *)
list_proposals(a) ==
    [by_creator |-> <<a.creator>>, by_start_date |-> <<a.start_date>>,
     by_end_date |-> <<a.end_date>>, by_total_votes |-> <<a.total_votes>>]

list_proposal_votes(a) ==
    [by_voter_proposal |-> <<a.voter, a.proposal_id>>,
     by_proposal_voter |-> <<a.proposal_id, a.voter>>]

Start(list, a) ==
    CASE list = "accounts" -> list_accounts(a)
      [] list = "owner_histories" -> list_owner_histories(a)
      [] list = "vesting_delegations" -> list_vesting_delegations(a)
      [] list = "vesting_delegation_expirations" -> list_vesting_delegation_expirations(a)
      [] list = "account_recovery_requests" -> list_account_recovery_requests(a)
      [] list = "change_recovery_account_requests" -> list_change_recovery_account_requests(a)
      [] list = "witnesses" -> list_witnesses(a)
      [] list = "witness_votes" -> list_witness_votes(a)
      [] list = "escrows" -> list_escrows(a)
      [] list = "withdraw_vesting_routes" -> list_withdraw_vesting_routes(a)
      [] list = "savings_withdrawals" -> list_savings_withdrawals(a)
      [] list = "hbd_conversion_requests" -> list_hbd_conversion_requests(a)
      [] list = "collateralized_conversion_requests" -> list_collateralized_conversion_requests(a)
      [] list = "decline_voting_rights_requests" -> list_decline_voting_rights_requests(a)
      [] list = "limit_orders" -> list_limit_orders(a)
      [] list = "proposals" -> list_proposals(a)
      [] list = "proposal_votes" -> list_proposal_votes(a)

--------------------
(* Walking an index.                                                          *)

Less(a, b) ==
    \E i \in DOMAIN a \cap DOMAIN b :
        a[i] < b[i] /\ \A j \in 1 .. (i - 1) : a[j] = b[j]

KeyOf(order, o) == Index(lworld.list, o)[order]

InOrder(order, objects) ==
    [n \in 1 .. Cardinality(objects) |->
        CHOOSE o \in objects :
            Cardinality({p \in objects : Less(KeyOf(order, p), KeyOf(order, o))}) = n - 1]

Backwards(seq) == [n \in DOMAIN seq |-> seq[Len(seq) + 1 - n]]

get_proposal_status(o) ==
    CASE o.start_date <= head_block_time /\ head_block_time <= o.end_date -> "active"
      [] head_block_time < o.start_date -> "inactive"
      [] head_block_time > o.end_date -> "expired"

filter_proposal_status(o) ==
    /\ ~o.removed
    /\ \/ lworld.status = "all"
       \/ lworld.status = get_proposal_status(o)
       \/ lworld.status = "votable" /\ get_proposal_status(o) \in {"active", "inactive"}

Filter(o) == lworld.list \in {"proposals", "proposal_votes"} => filter_proposal_status(o)

iteration_loop(objects) ==
    LET passing == SelectSeq(objects, Filter)
    IN  IF Len(passing) <= lworld.limit THEN passing ELSE SubSeq(passing, 1, lworld.limit)

(* find(id) and upper_bound(id) in the index by id are dereferenced without a *)
(* look at end(): the header of the container they then yield is the end of   *)
(* every other index as well.                                                 *)
iterate_results_from_index(index) ==
    LET ordered == InOrder(lworld.order, table)
        Place(ids) == IF ids = {} THEN Len(ordered) + 1
                      ELSE LET lowest == CHOOSE i \in ids : \A k \in ids : i <= k
                           IN  CHOOSE n \in DOMAIN ordered : ordered[n].id = lowest
    IN  IF lworld.direction = "ascending"
        THEN iteration_loop(SubSeq(ordered, Place({o.id : o \in table} \cap {index}), Len(ordered)))
        ELSE iteration_loop(Backwards(SubSeq(ordered, 1,
                 Place({i \in {o.id : o \in table} : i > index}) - 1)))

(* Without a start the walk is over the whole index: no key is less or greater *)
(* than the empty one.                                                        *)
iterate_results(start) ==
    LET Reached(o) == IF lworld.direction = "ascending"
                      THEN ~Less(KeyOf(lworld.order, o), start)
                      ELSE ~Less(start, KeyOf(lworld.order, o))
        ordered == InOrder(lworld.order, {o \in table : Reached(o)})
    IN  iteration_loop(IF lworld.direction = "ascending" THEN ordered ELSE Backwards(ordered))

ListPage ==
    IF client.last # NoObject /\ lworld.by = "last_id"
    THEN iterate_results_from_index(client.last.id)
    ELSE iterate_results(IF client.last = NoObject THEN <<>>
                         ELSE Start(lworld.list, client.last)[lworld.order])

--------------------
(* find_* calls: the objects of one account, from lower_bound on.             *)

Found(order, owner) ==
    LET ordered == InOrder(order, {o \in table : ~Less(KeyOf(order, o), <<owner>>)})
        Taken(n) == /\ n <= DATABASE_API_SINGLE_QUERY_LIMIT + 1
                    /\ \A m \in 1 .. n : KeyOf(order, ordered[m])[1] = owner
    IN  {ordered[n] : n \in {m \in DOMAIN ordered : Taken(m)}}

find_owner_histories(n) == Found("by_account", n)
find_escrows(n) == Found("by_from_id", n)
find_withdraw_vesting_routes(order, n) == Found(order, n)
find_savings_withdrawals(n) == Found("by_from_id", n)
DelegationsByName(n) == Found("by_delegation", n)   \* a mutant, as above
find_vesting_delegations(n) == Found("by_delegation", AccountId[n])
find_vesting_delegation_expirations(n) == Found("by_account_expiration", AccountId[n])
find_hbd_conversion_requests(n) == Found("by_account", AccountId[n])
find_collateralized_conversion_requests(n) == Found("by_account", AccountId[n])
find_limit_orders(n) == Found("by_account", n)

(* The best bids and asks: from the greatest price of each side on.           *)
get_order_book ==
    LET BestOf(symbol) ==
            LET ordered == InOrder("by_price", {o \in table : ~Less(KeyOf("by_price", o), <<-symbol>>)})
                Taken(n) == /\ n <= lworld.limit
                            /\ \A m \in 1 .. n : ordered[m].sell_price.base = symbol
            IN  SelectSeq(ordered, LAMBDA o : \E n \in DOMAIN ordered : ordered[n] = o /\ Taken(n))
    IN  [bids |-> BestOf(HBD_SYMBOL), asks |-> BestOf(HIVE_SYMBOL)]

--------------------
(* The blocks applied between two calls.                                      *)

Ids == {o.id : o \in table}

CreateObject ==
    /\ next_id \in lworld.created
    /\ table' = table \cup {Row(lworld.list, next_id, 0)}
    /\ next_id' = next_id + 1
    /\ UNCHANGED <<lworld, untouched, client>>

ModifyObject ==
    /\ \E i \in Ids \cap lworld.modified :
        /\ table' = {IF o.id = i THEN Row(lworld.list, i, 1) ELSE o : o \in table}
        /\ untouched' = untouched \ {i}
    /\ table' # table
    /\ UNCHANGED <<lworld, next_id, client>>

RemoveObject ==
    /\ \E i \in Ids \cap lworld.removed :
        /\ table' = {o \in table : o.id # i}
        /\ untouched' = untouched \ {i}
    /\ UNCHANGED <<lworld, next_id, client>>

(* The client: it keeps what it has not seen yet, and stops at a short page.  *)
NextPage ==
    LET page == ListPage
        New(i) == \A n \in DOMAIN client.seen : client.seen[n] # i
        last == IF page = <<>> THEN client.last ELSE ApiObject(lworld.list, page[Len(page)])
        fresh == SelectSeq([n \in DOMAIN page |-> page[n].id], New)
    IN  /\ ~client.done /\ ~client.stuck
        /\ client' = [seen |-> client.seen \o fresh,
                      last |-> last,
                      done |-> Len(page) < lworld.limit,
                      stuck |-> Len(page) = lworld.limit /\ last = client.last]
        /\ UNCHANGED <<lworld, table, next_id, untouched>>

ListInit ==
    /\ lworld \in ListWorlds
    /\ table = {Row(lworld.list, i, 0) : i \in lworld.first}
    /\ next_id = Cardinality(lworld.first) + 1
    /\ untouched = lworld.first
    /\ client = [seen |-> <<>>, last |-> NoObject, done |-> FALSE, stuck |-> FALSE]

ListNext == CreateObject \/ ModifyObject \/ RemoveObject \/ NextPage

--------------------
(* A client that has read a table to its end has seen every object that was   *)
(* there throughout and that its filter lets through, in the order of the     *)
(* index, whatever was created, changed or removed between its pages: each    *)
(* list_* call starts its walk at the key the client was shown last.  And     *)
(* every full page gets further than the one before it.                       *)
PagesComplete ==
    LET there == {o \in table : o.id \in untouched /\ Filter(o)}
        ordered == InOrder(lworld.order, there)
        expected == IF lworld.direction = "ascending" THEN ordered ELSE Backwards(ordered)
    IN  /\ ~client.stuck
        /\ client.done =>
              SelectSeq(client.seen, LAMBDA i : \E o \in there : o.id = i)
                = [n \in DOMAIN expected |-> expected[n].id]

(* A find_* call returns exactly the objects of the account it names, and the *)
(* order book holds the best orders of each side, best first.                 *)
FindsExact ==
    LET Of(field, n) == {o \in table : ApiObject(lworld.list, o)[field] = n}
        Side(symbol) == {o \in table : o.sell_price.base = symbol}
        Best(seq, symbol) ==
            /\ Len(seq) = IF Cardinality(Side(symbol)) < lworld.limit
                          THEN Cardinality(Side(symbol)) ELSE lworld.limit
            /\ \A n \in DOMAIN seq : seq[n] \in Side(symbol)
            /\ \A n \in DOMAIN seq, o \in Side(symbol) :
                  o.sell_price.ratio > seq[n].sell_price.ratio =>
                    \E m \in 1 .. (n - 1) : seq[m] = o
    IN  /\ \A n \in AccountNames :
            CASE lworld.list = "owner_histories" -> find_owner_histories(n) = Of("account", n)
              [] lworld.list = "escrows" -> find_escrows(n) = Of("from", n)
              [] lworld.list = "withdraw_vesting_routes" ->
                    /\ find_withdraw_vesting_routes("by_withdraw_route", n) = Of("from_account", n)
                    /\ find_withdraw_vesting_routes("by_destination", n) = Of("to_account", n)
              [] lworld.list = "savings_withdrawals" -> find_savings_withdrawals(n) = Of("from", n)
              [] lworld.list = "vesting_delegations" ->
                    find_vesting_delegations(n) = Of("delegator", n)
              [] lworld.list = "vesting_delegation_expirations" ->
                    find_vesting_delegation_expirations(n) = Of("delegator", n)
              [] lworld.list = "hbd_conversion_requests" ->
                    find_hbd_conversion_requests(n) = Of("owner", n)
              [] lworld.list = "collateralized_conversion_requests" ->
                    find_collateralized_conversion_requests(n) = Of("owner", n)
              [] lworld.list = "limit_orders" -> find_limit_orders(n) = Of("seller", n)
              [] OTHER -> TRUE
        /\ lworld.list = "limit_orders" =>
              /\ Best(get_order_book.bids, HBD_SYMBOL)
              /\ Best(get_order_book.asks, HIVE_SYMBOL)

(* Whichever way a client asks the database api for objects, it gets the      *)
(* right ones.                                                                *)
ListsExact == PagesComplete /\ FindsExact
=============================================================================
