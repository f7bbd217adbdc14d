---- MODULE PeerProtocol ----
(***************************************************************************)
(* The state of the p2p nodes and of their connections (node.cpp and       *)
(* peer_connection.cpp), and the operations on one connection: sending,    *)
(* the four lists a connection moves through, and the ways it ends.        *)
(*                                                                         *)
(* Every node runs the same code on one thread of cooperative tasks, so a  *)
(* step of the model is what one task does between two points where it     *)
(* may yield.  A handler is an operator from the state s of its node (and  *)
(* the connection c it is about) to the state it leaves.                   *)
(*                                                                         *)
(* A message in flight is in "out" of its sender: the queue of the         *)
(* peer_connection and the wire, which is TCP, are one FIFO.  All nodes    *)
(* speak the current protocol version, so a block is known by its id.      *)
(***************************************************************************)
EXTENDS Integers, Sequences, FiniteSets, SequencesExt, FiniteSetsExt

CONSTANTS Node, Block, Trx, NoBlock,
          Connection,     \* names for connections; a world uses some
          previous_id,    \* the parent of each block
          get_block_num,  \* the number in each block id; 0 for NoBlock
          Worlds

VARIABLES nodes,  \* the state of each node
          world,  \* the links, the chains and the faults of this behaviour
          quota   \* what the environment may still do

Conn == DOMAIN world.links

Ends(c) == {world.links[c].from, world.links[c].to}

Other(n, c) == CHOOSE m \in Ends(c) : m # n

\* Block numbers are uint32_t; the width of the model only has to exceed them.
Unsigned(x) == x % 65536

\* No synopsis is waiting for its answer (a real one never names NoBlock).
NoRequest == <<NoBlock>>

\* The fields of peer_connection.  "sock" is the socket and its read loop:
\* "none" before the connection and after on_connection_closed.
peer_connection ==
  [list |-> "none", sock |-> "none", our_state |-> "disconnected",
   their_state |-> "disconnected", node_id |-> FALSE,
   they_have_requested_close |-> FALSE, we_have_requested_close |-> FALSE,
   peer_needs_sync_items_from_us |-> TRUE,
   we_need_sync_items_from_peer |-> TRUE,
   first_id_block_number |-> 0, last_requested_block_number |-> 0,
   ids_of_items_to_get |-> <<>>, ids_of_items_being_processed |-> {},
   number_of_unfetched_item_ids |-> 0,
   item_ids_requested |-> NoRequest, sync_items_requested |-> {},
   items_requested |-> {}, last_block_delegate_has_seen |-> NoBlock,
   inhibit_fetching_sync_blocks |-> FALSE,
   block_rejected_while_breaker_tripped |-> FALSE,
   inventory_peer_advertised_to_us |-> {}, inventory_advertised_to_peer |-> {},
   old |-> {},   \* the entries of the two that are older than a minute
   blamed |-> FALSE, out |-> <<>>]

Active(s) == {c \in DOMAIN s.peers : s.peers[c].list = "active"}

Handshaking(s) == {c \in DOMAIN s.peers : s.peers[c].list = "handshaking"}

get_number_of_connections(s) == Cardinality(Active(s) \cup Handshaking(s))

idle(p) == /\ p.items_requested = {}
           /\ p.sync_items_requested = {}
           /\ p.item_ids_requested = NoRequest

\* Back to one block before the first id: unsigned, so 0 wraps.
reset_id_search_for_peer(p) ==
  [p EXCEPT !.last_requested_block_number = Unsigned(p.first_id_block_number - 1)]

ResetAllSearches(s) ==
  [s EXCEPT !.peers = [c \in DOMAIN s.peers |->
     IF c \in Active(s) THEN reset_id_search_for_peer(s.peers[c]) ELSE s.peers[c]]]

\* What is sent on a socket that is already closed goes nowhere.
send_message(s, c, m) ==
  IF s.peers[c].sock = "open" THEN [s EXCEPT !.peers[c].out = Append(@, m)] ELSE s

SendAll(s, c, ms) ==
  IF s.peers[c].sock = "open" THEN [s EXCEPT !.peers[c].out = @ \o ms] ELSE s

\* Do(s, c) for every connection of a set.
ForEach(s, conns, Do(_, _)) == FoldSet(LAMBDA c, t : Do(t, c), s, conns)

move_peer_to(s, c, list) == [s EXCEPT !.peers[c].list = list]

\* The read loop notices later and calls on_connection_closed.
close_connection(s, c) ==
  [s EXCEPT !.peers[c].sock = IF @ = "open" THEN "shut" ELSE @]

(***************************************************************************)
(* disconnect_from_peer: close at once when the other side has asked for   *)
(* it, else ask the other side and wait (for the sweep that ends a closing *)
(* connection).  "blamed" remembers a disconnection caused by an error.    *)
(***************************************************************************)
disconnect_from_peer(s, c, caused_by_error) ==
  LET t == [move_peer_to(s, c, "closing") EXCEPT
              !.peers[c].blamed = @ \/ caused_by_error]
  IN IF s.peers[c].they_have_requested_close THEN close_connection(t, c)
     ELSE send_message([t EXCEPT !.peers[c].we_have_requested_close = TRUE], c,
                       [type |-> "closing_connection"])

on_closing_connection(s, c) ==
  LET t == [s EXCEPT !.peers[c].they_have_requested_close = TRUE]
  IN IF s.peers[c].we_have_requested_close THEN close_connection(t, c) ELSE t

--------------------
(* The tasks that wait for a promise: setting the flag wakes them.         *)

trigger_fetch_sync_items_loop(s) == [s EXCEPT !.sync_items_to_fetch_updated = TRUE]

trigger_fetch_items_loop(s) == [s EXCEPT !.items_to_fetch_updated = TRUE]

trigger_process_backlog_of_sync_blocks(s) == [s EXCEPT !.backlog_scheduled = TRUE]

--------------------
(***************************************************************************)
(* The delegate: what the network asks of the chain (p2p_plugin.cpp and    *)
(* fork_db_block_reader.cpp).  A node knows a set of blocks closed under   *)
(* previous_id down to block 1; its oldest fork database entry is the last *)
(* irreversible block, here a fixed depth below the head.                  *)
(***************************************************************************)
RECURSIVE Branch(_)
Branch(b) == IF b = NoBlock THEN <<>> ELSE Append(Branch(previous_id[b]), b)

MainChain(s) == Branch(s.head)

has_item(s, b) == b \in s.known

\* is_included_block_unlocked: on the main branch.
is_included_block(s, b) ==
  LET i == get_block_num[b]
  IN i = 0 \/ (i <= get_block_num[s.head] /\ MainChain(s)[i] = b)

OldestInForkDb(s) == get_block_num[s.last_irreversible]

\* handle_block: "unlinkable", "invalid" or "accepted".
handle_block(s, b) ==
  IF b \in s.known THEN "accepted"
  ELSE IF \/ previous_id[b] \notin s.known \cup {NoBlock}
          \/ get_block_num[b] <= OldestInForkDb(s) THEN "unlinkable"
  ELSE IF b \in s.invalid THEN "invalid" ELSE "accepted"

\* The state after a block was accepted: the longest chain wins, the last
\* irreversible block (or the first block) follows, and what forked off below
\* it is forgotten.
AddBlock(s, b) ==
  LET head == IF get_block_num[b] > get_block_num[s.head] THEN b ELSE s.head
      main == Branch(head)
      irr == get_block_num[head] - world.reversible
      lib == main[Max({1, irr, OldestInForkDb(s)})]
  IN [s EXCEPT !.head = head, !.last_irreversible = lib,
        !.known = {k \in @ \cup {b} : \/ get_block_num[k] > get_block_num[lib]
                                      \/ k \in ToSet(main)}]


--------------------
(***************************************************************************)
(* Catching up with the peers (node.cpp): a node asks each active peer for *)
(* the ids of the blocks that follow its own chain, requests the blocks    *)
(* from whichever peer is idle, and hands them to the chain in the order   *)
(* of the lists of ids it was given.                                       *)
(***************************************************************************)

CONSTANTS ITEM_IDS_LIMIT,               \* block ids in one reply
          MIN_BLOCK_IDS_TO_PREFETCH,
          MAX_BLOCKS_PER_PEER,          \* requested from one peer in sync
          MAX_BLOCKS_TO_HANDLE,         \* handle_block calls at one time
          MAX_SYNC_BLOCKS_TO_PREFETCH,  \* received and not yet handled
          BREAKER_COUNT                 \* disconnections before the breaker

(***************************************************************************)
(* The block ids a synopsis names: from low, every time half of what is    *)
(* left of the way to high, as long as they do not pass stop.              *)
(***************************************************************************)
RECURSIVE Halving(_, _, _)
Halving(low, high, stop) ==
  LET next == low + (high - low + 2) \div 2
  IN <<low>> \o (IF next <= stop THEN Halving(next, high, stop) ELSE <<>>)

get_blockchain_synopsis(s, reference, after) ==
  LET r == IF reference = NoBlock THEN s.head ELSE reference
      at == get_block_num[r]
      lib == OldestInForkDb(s)
      nums == Halving(lib, at + after, at)
  IN IF s.head = NoBlock THEN [result |-> "built", ids |-> <<>>]
     ELSE IF at < lib
     THEN IF is_included_block(s, r) THEN [result |-> "built", ids |-> <<r>>]
          ELSE [result |-> "unreachable", ids |-> <<>>]
     ELSE IF r \notin s.known THEN [result |-> "throws", ids |-> <<>>]
     ELSE [result |-> "built", ids |-> [i \in 1..Len(nums) |-> Branch(r)[nums[i]]]]

\* The chain's own blocks up to the last one the peer is known to share,
\* then the ids already promised by the peer.
create_blockchain_synopsis_for_peer(s, c) ==
  LET p == s.peers[c]
      to_get == p.ids_of_items_to_get
      own == get_blockchain_synopsis(s, p.last_block_delegate_has_seen, Len(to_get))
      first == get_block_num[Head(to_get)]
      low == IF own.ids = <<>> THEN 1 ELSE get_block_num[Head(own.ids)]
      high == first + Len(to_get) - 1
      nums == SelectSeq(Halving(low, high, high), LAMBDA x : x >= first)
      more == [i \in 1..Len(nums) |-> to_get[nums[i] - first + 1]]
  IN IF own.result # "built" \/ to_get = <<>> THEN own
     ELSE [own EXCEPT !.ids = @ \o more]

fetch_next_batch_of_item_ids_from_peer(s, c) ==
  LET synopsis == create_blockchain_synopsis_for_peer(s, c)
  IN IF s.peers[c].item_ids_requested # NoRequest THEN s
     ELSE IF synopsis.result = "unreachable" THEN disconnect_from_peer(s, c, TRUE)
     ELSE IF synopsis.result = "throws" THEN [s EXCEPT !.threw = TRUE]
     ELSE send_message([s EXCEPT !.peers[c].item_ids_requested = synopsis.ids], c,
            [type |-> "fetch_blockchain_item_ids", ids |-> synopsis.ids])

StartForgettingRequests(s, c) ==
  fetch_next_batch_of_item_ids_from_peer(
    [s EXCEPT !.peers[c].ids_of_items_to_get = <<>>,
              !.peers[c].sync_items_requested = {},
              !.peers[c].items_requested = {},
              !.peers[c].number_of_unfetched_item_ids = 0,
              !.peers[c].we_need_sync_items_from_peer = TRUE,
              !.peers[c].last_block_delegate_has_seen = NoBlock,
              !.peers[c].inhibit_fetching_sync_blocks = FALSE], c)

start_synchronizing_with_peer(s, c) ==
  fetch_next_batch_of_item_ids_from_peer(
    [s EXCEPT !.peers[c].ids_of_items_to_get = <<>>,
              !.peers[c].number_of_unfetched_item_ids = 0,
              !.peers[c].we_need_sync_items_from_peer = TRUE,
              !.peers[c].last_block_delegate_has_seen = NoBlock,
              !.peers[c].inhibit_fetching_sync_blocks = FALSE], c)

new_peer_just_added(s, c) == start_synchronizing_with_peer(s, c)

--------------------
(* Serving the ids.                                                        *)

\* get_block_ids: from the last block of the synopsis on our main branch.
get_block_ids(s, synopsis) ==
  LET shared == {i \in 1..Len(synopsis) : is_included_block(s, synopsis[i])}
      from == IF synopsis = <<>> THEN 1 ELSE get_block_num[synopsis[Max(shared)]]
      top == get_block_num[s.head]
      last == Min({top, from + ITEM_IDS_LIMIT - 1})
  IN IF s.head = NoBlock \/ (synopsis # <<>> /\ shared = {})
     THEN [ids |-> <<>>, remaining |-> 0]
     ELSE [ids |-> SubSeq(MainChain(s), from, last), remaining |-> top - last]

on_fetch_blockchain_item_ids(s, c, synopsis) ==
  LET reply == get_block_ids(s, synopsis)
      nothing_new == /\ synopsis # <<>>
                     /\ Len(reply.ids) = 1
                     /\ Last(reply.ids) \in ToSet(synopsis)
      t == [s EXCEPT !.peers[c].peer_needs_sync_items_from_us =
                        ~(reply.ids = <<>> \/ nothing_new)]
      they_are_ahead == /\ ~s.peers[c].we_need_sync_items_from_peer
                        /\ synopsis # <<>>
                        /\ ~has_item(s, Last(synopsis))
      u == send_message(
             IF they_are_ahead THEN start_synchronizing_with_peer(t, c) ELSE t, c,
             [type |-> "blockchain_item_ids_inventory", ids |-> reply.ids,
              remaining |-> reply.remaining])
      inbound == world.links[c].to = s.self
  IN IF nothing_new /\ s.peers[c].inhibit_fetching_sync_blocks
     THEN disconnect_from_peer(u, c, TRUE)
     ELSE IF inbound /\ u.peers[c].list = "handshaking"
     THEN new_peer_just_added(
            [move_peer_to(u, c, "active") EXCEPT
               !.peer_db[Other(s.self, c)] = "succeeded"], c)
     ELSE u

--------------------
(* Using the ids.                                                          *)

is_item_id_being_processed(s, b) ==
  \E c \in Active(s) : b \in s.peers[c].ids_of_items_being_processed

\* The longest prefix of ids all of whose members are in S.
PrefixIn(ids, S) ==
  Max({k \in 0..Len(ids) : \A i \in 1..k : ids[i] \in S})

\* The first list of ids of a peer: skip what the chain has, note what the
\* chain is working on, and keep the rest.
FirstIds(s, c, ids) ==
  LET p == s.peers[c]
      seen == PrefixIn(ids, s.known)
      rest == SubSeq(ids, seen + 1, Len(ids))
      busy == PrefixIn(rest, {b \in ToSet(rest) : is_item_id_being_processed(s, b)})
      new == SubSeq(rest, busy + 1, Len(rest))
      q == [p EXCEPT !.last_block_delegate_has_seen =
                        IF seen > 0 THEN ids[seen] ELSE @,
                     !.ids_of_items_being_processed =
                        @ \cup {rest[i] : i \in 1..busy},
                     !.ids_of_items_to_get = new]
  IN IF new = <<>> THEN q
     ELSE reset_id_search_for_peer(
            [q EXCEPT !.first_id_block_number = get_block_num[Head(new)]])

\* A later list starts at an id we know: drop what the peer no longer
\* follows, down to that id, and append.
MoreIds(p, ids) ==
  LET to_get == p.ids_of_items_to_get
      keep == Max({0} \cup {i \in 1..Len(to_get) : to_get[i] = Head(ids)})
      q == [p EXCEPT !.last_requested_block_number =
                        Unsigned(@ - (Len(to_get) - keep))]
      r == IF q.last_requested_block_number < Unsigned(q.first_id_block_number - 1)
           THEN reset_id_search_for_peer(q) ELSE q
  IN IF keep = 0
     THEN reset_id_search_for_peer(
            [r EXCEPT !.last_block_delegate_has_seen = Head(ids),
                      !.first_id_block_number = get_block_num[Head(ids)] + 1,
                      !.ids_of_items_to_get = Tail(ids)])
     ELSE [r EXCEPT !.ids_of_items_to_get = SubSeq(to_get, 1, keep - 1) \o ids]

\* The reply does not start where the request allowed it to.
InvalidReply(asked, ids) ==
  /\ ids # <<>>
  /\ \/ \E i \in 2..Len(ids) :
          get_block_num[ids[i]] # get_block_num[ids[1]] + i - 1
     \/ asked = <<>> /\ get_block_num[ids[1]] # 1
     \/ asked # <<>> /\ ids[1] \notin ToSet(asked)

\* More blocks than the time since the last one we share allows.
MoreThanExist(p) ==
  get_block_num[p.last_block_delegate_has_seen] + p.number_of_unfetched_item_ids
    > world.slots

on_blockchain_item_ids_inventory(s, c, ids, remaining) ==
  LET p == [s.peers[c] EXCEPT !.item_ids_requested = NoRequest]
      to_get == p.ids_of_items_to_get
      in_sync == /\ remaining = 0
                 /\ ids = <<>> \/ (Len(ids) = 1 /\ has_item(s, ids[1]))
                 /\ to_get = <<>>
                 /\ p.number_of_unfetched_item_ids = 0
      q == [(IF ids = <<>> THEN p
             ELSE IF to_get = <<>> THEN FirstIds(s, c, ids) ELSE MoreIds(p, ids))
              EXCEPT !.number_of_unfetched_item_ids = remaining,
                     !.item_ids_requested = NoRequest]
      \* front() of what is left when the reply is the one id before our list
      nothing_left == /\ to_get # <<>>
                      /\ Len(ids) = 1
                      /\ ids[1] \notin ToSet(to_get)
      t == [s EXCEPT !.peers[c] = q, !.threw = @ \/ nothing_left]
      enough == IF remaining # 0
                THEN Len(q.ids_of_items_to_get) > MIN_BLOCK_IDS_TO_PREFETCH
                ELSE q.ids_of_items_to_get # <<>>
  IN IF s.peers[c].item_ids_requested = NoRequest THEN s
     ELSE IF InvalidReply(s.peers[c].item_ids_requested, ids)
     THEN disconnect_from_peer(s, c, TRUE)
     ELSE IF in_sync
     THEN [s EXCEPT !.peers[c] = [p EXCEPT !.we_need_sync_items_from_peer = FALSE]]
     ELSE IF MoreThanExist(q) THEN disconnect_from_peer(t, c, TRUE)
     ELSE IF enough THEN trigger_fetch_sync_items_loop(t)
     ELSE fetch_next_batch_of_item_ids_from_peer(t, c)

--------------------
(* Requesting the blocks.                                                  *)

\* One pass of fetch_sync_items_loop over the peers in some order; it
\* returns the node's state and what to request from whom.
RECURSIVE ChooseItems(_, _, _)
ChooseItems(s, order, chosen) ==
  IF order = <<>> THEN [state |-> s, chosen |-> chosen]
  ELSE
  LET c == Head(order)
      p == s.peers[c]
      before == Unsigned(p.first_id_block_number - 1)
      start == IF p.last_requested_block_number < before THEN before
               ELSE p.last_requested_block_number
      first == Unsigned(start - p.first_id_block_number + 1)
      ids == p.ids_of_items_to_get
      taken == s.active_sync_requests \cup s.already_received
                 \cup UNION {chosen[x] : x \in DOMAIN chosen}
      free == {i \in first + 1 .. Len(ids) : ids[i] \notin taken}
      picked == {i \in free : Cardinality({j \in free : j <= i}) <= MAX_BLOCKS_PER_PEER}
      stop == IF Cardinality(picked) = MAX_BLOCKS_PER_PEER THEN Max(picked) ELSE Len(ids)
      searched == p.first_id_block_number + stop - 1
      OnThisFork(x) == LET q == s.peers[x]
                           at == Unsigned(searched - q.first_id_block_number)
                       IN /\ at < Len(q.ids_of_items_to_get)
                          /\ q.ids_of_items_to_get[at + 1] = ids[stop]
      t == [s EXCEPT !.peers[c].last_requested_block_number = start]
      u == [t EXCEPT !.peers = [x \in DOMAIN t.peers |->
             IF /\ x \in Active(s) /\ OnThisFork(x)
                /\ searched > t.peers[x].last_requested_block_number
             THEN [t.peers[x] EXCEPT !.last_requested_block_number = searched]
             ELSE t.peers[x]]]
  IN IF \/ p.inhibit_fetching_sync_blocks
        \/ ~idle(p)
        \/ ~p.we_need_sync_items_from_peer
        \/ ids = <<>>
     THEN ChooseItems(s, Tail(order), chosen)
     ELSE IF first >= Len(ids) THEN ChooseItems(t, Tail(order), chosen)
     ELSE ChooseItems(u, Tail(order), [chosen EXCEPT ![c] = {ids[i] : i \in picked}])

request_sync_items_from_peer(s, c, items) ==
  IF items = {} THEN s
  ELSE send_message(
         [s EXCEPT !.active_sync_requests = @ \cup items,
                   !.peers[c].sync_items_requested = @ \cup items], c,
         [type |-> "fetch_items", items |->
            SetToSortSeq(items, LAMBDA x, y : get_block_num[x] < get_block_num[y])])

fetch_sync_items_loop(s, order) ==
  LET r == ChooseItems([s EXCEPT !.sync_items_to_fetch_updated = FALSE], order,
                       [c \in DOMAIN s.peers |-> {}])
  IN IF s.suspend_fetching_sync_blocks THEN [s EXCEPT !.sync_items_to_fetch_updated = FALSE]
     ELSE ForEach(r.state, ToSet(order),
                  LAMBDA t, c : request_sync_items_from_peer(t, c, r.chosen[c]))

\* A block that was asked for in sync.
process_block_during_sync(s, c, b) ==
  LET t == trigger_process_backlog_of_sync_blocks(
             [s EXCEPT !.peers[c].sync_items_requested = @ \ {b},
                       !.active_sync_requests = @ \ {b},
                       !.new_received = @ \cup {b},
                       !.already_received = @ \cup {b}])
      p == t.peers[c]
  IN IF ~idle(p) THEN t
     ELSE IF /\ p.number_of_unfetched_item_ids > 0
             /\ Len(p.ids_of_items_to_get) < MIN_BLOCK_IDS_TO_PREFETCH
     THEN fetch_next_batch_of_item_ids_from_peer(t, c)
     ELSE trigger_fetch_sync_items_loop(t)

discard_abandoned_sync_blocks(s) ==
  LET referenced == UNION {ToSet(s.peers[c].ids_of_items_to_get) : c \in Active(s)}
      abandoned == s.received \ referenced
  IN [s EXCEPT !.received = @ \ abandoned, !.already_received = @ \ abandoned]

--------------------
(* Handing the blocks to the chain.                                        *)

SyncCalls(s) == {i \in 1..Len(s.calls) : s.calls[i].kind = "sync"}

\* Take block b off the lists that start with it, as being processed.
TakeFront(s, b) ==
  [s EXCEPT !.peers = [c \in DOMAIN s.peers |->
     IF c \in Active(s) /\ s.peers[c].ids_of_items_to_get # <<>>
          /\ Head(s.peers[c].ids_of_items_to_get) = b
     THEN [s.peers[c] EXCEPT !.ids_of_items_to_get = Tail(@),
                             !.first_id_block_number = Unsigned(@ + 1),
                             !.ids_of_items_being_processed = @ \cup {b}]
     ELSE s.peers[c]]]

\* Of those, the peers that have to be asked for more ids.
RanDry(s, b) ==
  {c \in Active(s) : LET p == s.peers[c] IN
     /\ p.ids_of_items_to_get = <<b>>
     /\ p.number_of_unfetched_item_ids # 0
     /\ p.we_need_sync_items_from_peer}

\* The blocks received for the front of some list.
Fronts(s) ==
  {Head(s.peers[c].ids_of_items_to_get) :
     c \in {x \in Active(s) : s.peers[x].ids_of_items_to_get # <<>>}} \cap s.received

NotProcessing(s, b) ==
  [s EXCEPT !.peers = [c \in DOMAIN s.peers |->
     IF c \in Active(s)
     THEN [s.peers[c] EXCEPT !.ids_of_items_being_processed = @ \ {b}]
     ELSE s.peers[c]]]

\* The loop of process_backlog_of_sync_blocks: it ends when it finds no
\* block to hand over, when the block it found was already accepted, or at
\* the limit of calls.  The result is every outcome the order of the peers
\* allows: the state, and the peers to ask for more ids.
RECURSIVE Backlog(_, _)
Backlog(s, ask) ==
  LET full(t) == Cardinality(SyncCalls(t)) >= MAX_BLOCKS_TO_HANDLE
      Stop(t) == [t EXCEPT !.suspend_fetching_sync_blocks =
                     @ \/ (full(t) /\ Cardinality(t.received) >= MAX_SYNC_BLOCKS_TO_PREFETCH)]
      Given(b) == [TakeFront(s, b) EXCEPT !.received = @ \ {b}, !.already_received = @ \ {b}]
      Hand(b) == [Given(b) EXCEPT !.calls = Append(@, [kind |-> "sync", item |-> b])]
  IN IF Fronts(s) = {} THEN {[state |-> Stop(s), ask |-> ask]}
     ELSE UNION {IF b \in s.most_recent_blocks_accepted
                 THEN {[state |-> Stop(NotProcessing(Given(b), b)), ask |-> ask \cup RanDry(s, b)]}
                 ELSE IF full(Hand(b))
                 THEN {[state |-> Stop(Hand(b)), ask |-> ask \cup RanDry(s, b)]}
                 ELSE Backlog(Hand(b), ask \cup RanDry(s, b)) : b \in Fronts(s)}

process_backlog_of_sync_blocks(s) ==
  LET t == [s EXCEPT !.backlog_scheduled = FALSE]
      u == [t EXCEPT !.suspend_fetching_sync_blocks = FALSE,
                     !.received = @ \cup t.new_received, !.new_received = {}]
      Finish(r) ==
        LET v == ForEach(r.state, r.ask, fetch_next_batch_of_item_ids_from_peer)
        IN IF v.suspend_fetching_sync_blocks THEN v ELSE trigger_fetch_sync_items_loop(v)
  IN IF Cardinality(SyncCalls(t)) >= MAX_BLOCKS_TO_HANDLE THEN {t}
     ELSE {Finish(r) : r \in Backlog(u, {})}

\* After a rejected block: too many punitive disconnections in the last minute
\* open the breaker (older ones stop counting in MinutePasses).
invalid_block_disconnect_breaker_tripped(s) == s.invalid_disconnects >= BREAKER_COUNT

(***************************************************************************)
(* The end of send_sync_block_to_node_delegate for the oldest call: the    *)
(* chain has answered.                                                     *)
(***************************************************************************)
SyncBlockAccepted(s, b) ==
  LET t == [AddBlock(s, b) EXCEPT !.most_recent_blocks_accepted = @ \cup {b}]
      nothing_left(p) == /\ p.ids_of_items_to_get = <<>>
                         /\ p.ids_of_items_being_processed = {}
      to_sync == {c \in Active(s) : LET p == s.peers[c] IN
                    /\ nothing_left(p)
                    /\ ~p.peer_needs_sync_items_from_us
                    /\ ~p.we_need_sync_items_from_peer}
      offered == {c \in Active(s) : b \in s.peers[c].ids_of_items_being_processed}
      u == NotProcessing([t EXCEPT !.peers = [c \in DOMAIN t.peers |->
             IF c \in offered
             THEN [t.peers[c] EXCEPT !.last_block_delegate_has_seen = b]
             ELSE t.peers[c]]], b)
      to_ask == {c \in offered : LET p == u.peers[c] IN
                   /\ idle(p)
                   /\ \/ /\ p.number_of_unfetched_item_ids # 0
                         /\ Len(p.ids_of_items_to_get) < MIN_BLOCK_IDS_TO_PREFETCH
                      \/ nothing_left(p) /\ p.number_of_unfetched_item_ids = 0}
  IN ForEach(ForEach(u, to_ask, fetch_next_batch_of_item_ids_from_peer),
             to_sync, start_synchronizing_with_peer)

\* Not linkable, or rejected while the breaker is open: ask again.
SyncBlockDropped(s, b, flag) ==
  LET offered == {c \in Active(s) : b \in s.peers[c].ids_of_items_being_processed}
      t == NotProcessing([s EXCEPT !.peers = [c \in DOMAIN s.peers |->
             [s.peers[c] EXCEPT !.block_rejected_while_breaker_tripped =
                                   @ \/ (flag /\ c \in offered)]]], b)
  IN ForEach(t, {c \in offered : idle(t.peers[c])}, fetch_next_batch_of_item_ids_from_peer)

SyncBlockRejected(s, b) ==
  LET offered == {c \in Active(s) : b \in s.peers[c].ids_of_items_being_processed}
      t == [s EXCEPT !.invalid_disconnects = @ + 1]
  IN IF invalid_block_disconnect_breaker_tripped(s) THEN SyncBlockDropped(s, b, TRUE)
     ELSE ForEach(t, offered, LAMBDA x, c : disconnect_from_peer(x, c, TRUE))

send_sync_block_to_node_delegate(s, b) ==
  LET u == CASE handle_block(s, b) = "accepted" -> SyncBlockAccepted(s, b)
             [] handle_block(s, b) = "unlinkable" -> SyncBlockDropped(s, b, FALSE)
             [] handle_block(s, b) = "invalid" -> SyncBlockRejected(s, b)
  IN IF Cardinality(SyncCalls(u)) + 1 < MAX_BLOCKS_TO_HANDLE \div 2
     THEN trigger_process_backlog_of_sync_blocks(u) ELSE u


--------------------
(***************************************************************************)
(* What peers exchange besides synchronisation (node.cpp): the handshake   *)
(* that opens a connection, and after it new blocks and transactions.      *)
(*                                                                         *)
(* Opening a connection.  Both ends send a hello; each answers             *)
(* the other's with an acceptance or a rejection, and on either answer     *)
(* asks for addresses; the reply to that ends the handshake: the           *)
(* connection becomes active, or is closed when one side had rejected it.  *)
(***************************************************************************)

CONSTANTS MINIMUM_PROTOCOL_VERSION

is_wanting_new_connections(s) ==
  get_number_of_connections(s) < world.desired_connections

is_accepting_new_connections(s) ==
  get_number_of_connections(s) <= world.maximum_connections

\* An outgoing connection is bound to the listening port, so either
\* direction counts.
is_connection_to_endpoint_in_progress(s, m) ==
  \E c \in Active(s) \cup Handshaking(s) : Other(s.self, c) = m

AlreadyActive(s, m) ==
  \E c \in Active(s) : Other(s.self, c) = m /\ s.peers[c].node_id

is_already_connected_to_id(s, m) ==
  \E c \in Active(s) \cup Handshaking(s) : Other(s.self, c) = m /\ s.peers[c].node_id

\* connect_to_endpoint and initiate_connect_to: a new peer_connection.
InitiateConnect(s, c) ==
  [s EXCEPT !.peers[c] =
     [peer_connection EXCEPT !.list = "handshaking", !.sock = "connecting"]]

\* The socket is connected and the keys are exchanged: send the hello.
SendHello(s, c) ==
  send_message([s EXCEPT !.peers[c].sock = "open",
                         !.peers[c].our_state = "just_connected",
                         !.peers[c].their_state = "just_connected"],
               c, [type |-> "hello"])

\* accept_loop and accept_connection_task.
AcceptConnection(s, c) ==
  SendHello([s EXCEPT !.peers[c] = [peer_connection EXCEPT !.list = "handshaking"]], c)

ConnectSucceeded(s, c) ==
  SendHello([s EXCEPT !.peer_db[Other(s.self, c)] = "handshaking_failed"], c)

ConnectFailed(s, c) ==
  [s EXCEPT !.peers[c] = peer_connection, !.peer_db[Other(s.self, c)] = "failed"]

Answer(s, c, state) ==
  send_message([s EXCEPT !.peers[c].their_state = state], c, [type |-> state])

on_hello(s, c) ==
  LET m == Other(s.self, c)
      t == [s EXCEPT !.peers[c].node_id = TRUE]
      incompatible == \/ world.version[m] < MINIMUM_PROTOCOL_VERSION
                      \/ world.chain_id[m] # world.chain_id[s.self]
  IN IF s.peers[c].their_state # "just_connected" THEN disconnect_from_peer(t, c, TRUE)
     ELSE IF incompatible
     THEN disconnect_from_peer(Answer(t, c, "connection_rejected"), c, TRUE)
     ELSE IF is_already_connected_to_id(s, m) \/ ~is_accepting_new_connections(s)
     THEN Answer(t, c, "connection_rejected")
     ELSE Answer(t, c, "connection_accepted")

on_connection_accepted(s, c) ==
  send_message([s EXCEPT !.peers[c].our_state = "connection_accepted"], c,
               [type |-> "address_request"])

\* A rejection that was not due is an exception, which ends the read loop.
on_connection_rejected(s, c) ==
  IF s.peers[c].our_state # "just_connected" THEN close_connection(s, c)
  ELSE send_message([s EXCEPT !.peers[c].our_state = "connection_rejected",
                              !.peer_db[Other(s.self, c)] = "rejected"], c,
                    [type |-> "address_request"])

on_address_request(s, c) == send_message(s, c, [type |-> "address"])

on_address(s, c) ==
  LET p == s.peers[c]
  IN IF p.list # "handshaking" THEN s
     ELSE IF "connection_rejected" \in {p.our_state, p.their_state}
     THEN disconnect_from_peer(s, c, FALSE)
     ELSE new_peer_just_added(
            [move_peer_to(s, c, "active") EXCEPT
               !.peer_db[Other(s.self, c)] = "succeeded"], c)


--------------------
(***************************************************************************)
(* Spreading new blocks and transactions (node.cpp).  A node advertises    *)
(* what it has accepted to the peers that are in sync with it; a peer that *)
(* wants the item requests it from one of those that advertised it, passes *)
(* it to the chain, and advertises it in turn.                             *)
(***************************************************************************)

CONSTANTS MESSAGE_CACHE_DURATION_IN_BLOCKS,
          MAX_ITEMS_PER_PEER,
          MAX_INVENTORY,             \* advertised items kept per peer, and the
          MAX_BLOCK_INVENTORY,       \* room beyond it that only blocks may use
          FUTURE_BLOCK_IDS_GRACE_BLOCKS,
          transactions               \* the transactions of each block

IsBlock(i) == i \in Block

\* The message caches: an item and the block clock when it was cached.
Cached(s, i) == \E e \in s.cache : e.item = i

cache_message(s, i) ==
  IF Cached(s, i) THEN s
  ELSE [s EXCEPT !.cache = @ \cup {[item |-> i, clock |-> s.block_clock]}]

block_accepted(s) ==
  LET clock == s.block_clock + 1
  IN [s EXCEPT !.block_clock = clock,
        !.cache = {e \in @ : \/ clock <= MESSAGE_CACHE_DURATION_IN_BLOCKS
                             \/ e.clock >= clock - MESSAGE_CACHE_DURATION_IN_BLOCKS}]

advertise(s, i) == [s EXCEPT !.new_inventory = @ \cup {i}]

broadcast_block(s, b) ==
  block_accepted(advertise(cache_message(
    [s EXCEPT !.most_recent_blocks_accepted = @ \cup {b}], b), b))

broadcast_transaction(s, t) == advertise(cache_message(s, t), t)

--------------------
(* Advertisements.                                                         *)

\* The items of one type in an inventory or fetch message; transactions
\* come before blocks.
ByType(items) ==
  LET trxs == SetToSeq({i \in items : ~IsBlock(i)})
      blocks == SetToSeq({i \in items : IsBlock(i)})
  IN SelectSeq(<<trxs, blocks>>, LAMBDA q : q # <<>>)

clear_old_inventory(p) ==
  [p EXCEPT !.inventory_peer_advertised_to_us = {i \in @ : <<"to_us", i>> \notin p.old},
            !.inventory_advertised_to_peer = {i \in @ : <<"to_peer", i>> \notin p.old},
            !.old = {}]

advertise_inventory_loop(s) ==
  LET New(p) == s.new_inventory \ (p.inventory_advertised_to_peer
                                     \cup p.inventory_peer_advertised_to_us)
      Advertise(t, c) ==
        LET items == New(t.peers[c])
        IN SendAll([t EXCEPT !.peers[c].inventory_advertised_to_peer = @ \cup items], c,
                   [k \in 1..Len(ByType(items)) |->
                      [type |-> "item_ids_inventory", items |-> ByType(items)[k]]])
      t == ForEach(s, {c \in Active(s) : ~s.peers[c].peer_needs_sync_items_from_us}, Advertise)
  IN [ForEach(t, Active(s), LAMBDA u, c : [u EXCEPT !.peers[c] = clear_old_inventory(@)])
        EXCEPT !.new_inventory = {}]

classify_advertised_block_id(s, b) ==
  IF get_block_num[b] > get_block_num[s.head] + FUTURE_BLOCK_IDS_GRACE_BLOCKS
  THEN "implausible_future"
  ELSE IF has_item(s, b) THEN "known"
  ELSE IF get_block_num[b] <= OldestInForkDb(s) THEN "dead_fork"
  ELSE "fetchable"

is_item_in_any_peers_inventory(s, i) ==
  \E c \in Active(s) : i \in s.peers[c].inventory_peer_advertised_to_us

WaitingToFetch(s, i) == i \in ToSet(s.items_to_fetch)

inventory_full(p, i) ==
  Cardinality(p.inventory_peer_advertised_to_us)
    > MAX_INVENTORY + (IF IsBlock(i) THEN MAX_BLOCK_INVENTORY ELSE 0)

Queue(s, i) ==
  [s EXCEPT !.items_to_fetch = Append(@, i), !.expired = @ \ {i}, !.dropped = @ \ {i}]

\* One advertised item that is wanted: remember who has it, and queue it
\* unless it was requested already or failed recently; one that is queued
\* starts to expire anew.
Advertised(s, c, i) ==
  LET t == [s EXCEPT !.peers[c].inventory_peer_advertised_to_us = @ \cup {i}]
  IN IF \/ \E d \in Active(s) : i \in s.peers[d].items_requested
        \/ i \in s.recently_failed_items
     THEN t
     ELSE IF WaitingToFetch(s, i) THEN [t EXCEPT !.expired = @ \ {i}]
     ELSE trigger_fetch_items_loop(Queue(t, i))

\* The items of the message one after another.  "stalled": the head has not moved
\* for a minute (stalled_head_resync_due).
RECURSIVE InventoryItems(_, _, _, _)
InventoryItems(s, c, items, stalled) ==
  IF items = <<>> THEN s
  ELSE
  LET i == Head(items)
      class == classify_advertised_block_id(s, i)
      skip == \/ i \in s.message_ids_being_processed
              \/ ~IsBlock(i) /\ Cached(s, i)
              \/ IsBlock(i) /\ class # "fetchable"
      resync == /\ i \notin s.message_ids_being_processed
                /\ IsBlock(i) /\ class = "implausible_future"
                /\ stalled /\ ~s.peers[c].we_need_sync_items_from_peer
  IN IF resync THEN InventoryItems(start_synchronizing_with_peer(s, c), c, Tail(items), stalled)
     ELSE IF skip THEN InventoryItems(s, c, Tail(items), stalled)
     ELSE IF inventory_full(s.peers[c], i) THEN s
     ELSE InventoryItems(Advertised(s, c, i), c, Tail(items), stalled)

on_item_ids_inventory(s, c, items, stalled) ==
  InventoryItems([s EXCEPT !.peers[c] = clear_old_inventory(@)], c, items, stalled)

--------------------
(* Requests.                                                               *)

\* The queue in the order it is served: blocks first.
ByPriority(q) == SelectSeq(q, IsBlock) \o SelectSeq(q, LAMBDA i : ~IsBlock(i))

\* Give each item to the idle peer that advertised it and has the fewest
\* items so far; "order" breaks ties.  (Nothing ever sets the time until which
\* fetching transactions from a peer is inhibited, so that check always passes.)
RECURSIVE Assign(_, _, _, _)
Assign(s, queue, order, given) ==
  IF queue = <<>> THEN given
  ELSE
  LET i == Head(queue)
      can == {k \in 1..Len(order) : LET c == order[k] IN
                /\ Cardinality(given[c]) < MAX_ITEMS_PER_PEER
                /\ i \in s.peers[c].inventory_peer_advertised_to_us}
      load(k) == Cardinality(given[order[k]])
      best == {k \in can : \A j \in can : load(k) < load(j) \/ (load(k) = load(j) /\ k <= j)}
  IN Assign(s, Tail(queue), order,
            IF can = {} THEN given
            ELSE LET c == order[CHOOSE k \in best : TRUE]
                 IN [given EXCEPT ![c] = @ \cup {i}])

\* What has waited for a minute is dropped from the queue.
fetch_items_loop(s, order) ==
  LET idle_peers == SelectSeq(order, LAMBDA c : idle(s.peers[c]))
      fresh == SelectSeq(s.items_to_fetch, LAMBDA i : i \notin s.expired)
      given == Assign(s, ByPriority(fresh), idle_peers,
                      [c \in DOMAIN s.peers |-> {}])
      taken == UNION {given[c] : c \in DOMAIN given}
      Request(t, c) ==
        SendAll([t EXCEPT !.peers[c].items_requested = @ \cup given[c]], c,
                [k \in 1..Len(ByType(given[c])) |->
                   [type |-> "fetch_items", items |-> ByType(given[c])[k]]])
  IN [ForEach(s, ToSet(idle_peers), Request) EXCEPT
        !.items_to_fetch = SelectSeq(fresh, LAMBDA i : i \notin taken),
        !.expired = {}, !.dropped = @ \cup (ToSet(s.items_to_fetch) \cap s.expired),
        !.items_to_fetch_updated = FALSE]

\* Blocks come from the cache or the chain, transactions from the cache.
on_fetch_items(s, c, items) ==
  LET Has(i) == Cached(s, i) \/ (IsBlock(i) /\ has_item(s, i))
      found == {k \in 1..Len(items) : IsBlock(items[k]) /\ Has(items[k])}
      last == items[Max(found)]
      t == SendAll(s, c, [k \in 1..Len(items) |->
             [type |-> IF ~Has(items[k]) THEN "item_not_available"
                       ELSE IF IsBlock(items[k]) THEN "block" ELSE "trx",
              item |-> items[k]]])
  IN IF found = {} THEN t
     ELSE IF get_block_num[last] <= get_block_num[s.peers[c].last_block_delegate_has_seen]
     THEN t
     ELSE [t EXCEPT !.peers[c].last_block_delegate_has_seen = last]

\* Queue again what a peer did not deliver, if another one has it.
Requeue(s, i) ==
  IF /\ IsBlock(i) => classify_advertised_block_id(s, i) = "fetchable"
     /\ is_item_in_any_peers_inventory(s, i)
     /\ ~WaitingToFetch(s, i)
  THEN Queue(s, i) ELSE s

on_item_not_available(s, c, i) ==
  LET p == s.peers[c]
  IN IF i \in p.items_requested
     THEN trigger_fetch_items_loop(Requeue(
            [s EXCEPT !.peers[c].items_requested = @ \ {i},
                      !.peers[c].inventory_peer_advertised_to_us = @ \ {i},
                      !.peers[c].old = @ \ {<<"to_us", i>>}], i))
     ELSE IF i \notin p.sync_items_requested THEN s
     ELSE trigger_fetch_sync_items_loop(
            IF p.peer_needs_sync_items_from_us
            THEN ResetAllSearches([s EXCEPT
                   !.peers[c].inhibit_fetching_sync_blocks = TRUE,
                   !.active_sync_requests = @ \ {i},
                   !.peers[c].sync_items_requested = @ \ {i}])
            ELSE disconnect_from_peer(s, c, TRUE))

--------------------
(* Blocks and transactions that arrive outside a sync.                     *)

FetchMoreIfIdle(s, c) ==
  IF idle(s.peers[c]) THEN trigger_fetch_items_loop(s) ELSE s

\* The peers that advertised the block have it; old inventory goes.
NoteLastSeen(s, b) ==
  [s EXCEPT !.peers = [c \in DOMAIN s.peers |->
     LET p == s.peers[c]
     IN IF c \notin Active(s) THEN p
        ELSE IF b \in p.inventory_peer_advertised_to_us
        THEN clear_old_inventory([p EXCEPT !.last_block_delegate_has_seen = b])
        ELSE clear_old_inventory(p)]]

process_block_during_normal_operation(s, c, b) ==
  IF b \in s.most_recent_blocks_accepted \/ has_item(s, b)
  THEN FetchMoreIfIdle(advertise(NoteLastSeen(s, b), b), c)
  ELSE IF b \in s.message_ids_being_processed THEN FetchMoreIfIdle(s, c)
  ELSE [s EXCEPT !.message_ids_being_processed = @ \cup {b},
                 !.calls = Append(@, [kind |-> "live", item |-> b, peer |-> c])]

\* A block message: it was requested in sync, or in normal operation, or
\* not at all.
process_block_message(s, c, b) ==
  IF b \in s.peers[c].sync_items_requested THEN process_block_during_sync(s, c, b)
  ELSE IF b \in s.peers[c].items_requested
  THEN process_block_during_normal_operation(
         [s EXCEPT !.peers[c].items_requested = @ \ {b}], c, b)
  ELSE disconnect_from_peer(s, c, TRUE)

\* The chain has answered for a block of normal operation.
LiveBlockAccepted(s, b) ==
  LET t == AddBlock(s, b)
      gone == {b} \cup transactions[b]
  IN broadcast_block(NoteLastSeen(
       [t EXCEPT !.items_to_fetch = SelectSeq(@, LAMBDA i : i \notin gone)], b), b)

LiveBlockRejected(s, c) ==
  IF invalid_block_disconnect_breaker_tripped(s)
  THEN start_synchronizing_with_peer(
         [s EXCEPT !.peers[c].block_rejected_while_breaker_tripped = TRUE], c)
  ELSE disconnect_from_peer([s EXCEPT !.invalid_disconnects = @ + 1], c, TRUE)

LiveBlockHandled(s, c, b) ==
  LET t == [s EXCEPT !.message_ids_being_processed = @ \ {b}]
  IN FetchMoreIfIdle(
       CASE handle_block(t, b) = "accepted" -> LiveBlockAccepted(t, b)
         [] handle_block(t, b) = "unlinkable" -> start_synchronizing_with_peer(t, c)
         [] handle_block(t, b) = "invalid" -> LiveBlockRejected(t, c), c)

process_trx_message(s, c, t) ==
  IF t \notin s.peers[c].items_requested THEN disconnect_from_peer(s, c, TRUE)
  ELSE FetchMoreIfIdle(
         [s EXCEPT !.peers[c].items_requested = @ \ {t},
                   !.message_ids_being_processed = @ \cup {t},
                   !.calls = Append(@, [kind |-> "trx", item |-> t, peer |-> c])], c)

\* The id leaves _message_ids_currently_being_processed only on success.
TransactionHandled(s, t) ==
  IF t \in s.invalid THEN [s EXCEPT !.recently_failed_items = @ \cup {t}]
  ELSE broadcast_transaction([s EXCEPT !.message_ids_being_processed = @ \ {t}], t)

====
