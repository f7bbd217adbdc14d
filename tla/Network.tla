------------------------------ MODULE Network ------------------------------
(***************************************************************************)
(* The p2p network: nodes that all run node.cpp, connected by links that   *)
(* deliver in order, may fail, and are set up and torn down by the code.   *)
(***************************************************************************)
EXTENDS PeerProtocol

vars == <<nodes, world, quota>>

\* node_impl before it has any connection.
node_impl(n) ==
  LET head == world.head[n]
      lib == Max({1, get_block_num[head] - world.reversible})
  IN [self |-> n,
      peers |-> [c \in {x \in Conn : n \in Ends(x)} |-> peer_connection],
      peer_db |-> [m \in Node |-> "never_attempted"],
      known |-> ToSet(Branch(head)), head |-> head,
      last_irreversible |-> IF head = NoBlock THEN NoBlock ELSE Branch(head)[lib],
      invalid |-> world.invalid[n],
      most_recent_blocks_accepted |-> {head} \ {NoBlock},
      active_sync_requests |-> {}, new_received |-> {}, received |-> {},
      already_received |-> {}, suspend_fetching_sync_blocks |-> FALSE,
      backlog_scheduled |-> FALSE, sync_items_to_fetch_updated |-> FALSE,
      items_to_fetch_updated |-> FALSE, items_to_fetch |-> <<>>,
      expired |-> {},   \* the items of the queue that have waited for a minute
      dropped |-> {},   \* history: items dropped for that and not queued since
      message_ids_being_processed |-> {}, recently_failed_items |-> {},
      cache |-> {}, block_clock |-> 0, new_inventory |-> {},
      invalid_disconnects |-> 0, threw |-> FALSE,
      calls |-> <<>>,   \* calls of the chain that have not returned
      tasks |-> <<>>]   \* block messages whose task has not run

\* The connections of "connected" have just become active at both ends; at
\* those of "asked", the node has had the answer that there is nothing new.
Connected(s) ==
  LET conns == DOMAIN s.peers \cap world.connected
      Establish(t, c) ==
        LET u == [t EXCEPT !.peers[c] =
          [peer_connection EXCEPT !.list = "active", !.sock = "open",
             !.node_id = TRUE, !.our_state = "connection_accepted",
             !.their_state = "connection_accepted",
             !.we_need_sync_items_from_peer = <<s.self, c>> \notin world.asked,
             !.peer_needs_sync_items_from_us = <<Other(s.self, c), c>> \notin world.asked]]
        IN IF <<s.self, c>> \in world.asked THEN u ELSE new_peer_just_added(u, c)
  IN ForEach(s, conns, Establish)

Init ==
  /\ world \in Worlds
  /\ quota = world.quota
  /\ nodes = [n \in Node |-> Connected(node_impl(n))]

Becomes(n, s) == nodes' = [nodes EXCEPT ![n] = s]

Spend(what) ==
  /\ quota[what] > 0
  /\ quota' = [quota EXCEPT ![what] = @ - 1]

Free == UNCHANGED quota

--------------------
(* Opening connections.                                                    *)

\* p2p_network_connect_loop; the delays between attempts pass.
Connect(n, c) ==
  /\ Spend("connects")
  /\ world.links[c].from = n
  /\ nodes[n].peers[c].sock = "none"
  /\ nodes[Other(n, c)].peers[c].sock = "none"
  /\ is_wanting_new_connections(nodes[n])
  /\ ~is_connection_to_endpoint_in_progress(nodes[n], Other(n, c))
  /\ Becomes(n, InitiateConnect(nodes[n], c))

Knocking(n, c) ==
  /\ world.links[c].to = n
  /\ nodes[n].peers[c].sock = "none"
  /\ nodes[Other(n, c)].peers[c].sock = "connecting"

Accept(n, c) ==
  /\ Knocking(n, c)
  /\ Becomes(n, AcceptConnection(nodes[n], c))
  /\ Free

Answered(n, c) == /\ nodes[n].peers[c].sock = "connecting"
                  /\ nodes[Other(n, c)].peers[c].sock = "open"

ConnectDone(n, c) ==
  /\ nodes[n].peers[c].sock = "connecting"
  /\ \/ /\ Answered(n, c)
        /\ Becomes(n, ConnectSucceeded(nodes[n], c))
        /\ Free
     \/ /\ Spend("faults")
        /\ Becomes(n, ConnectFailed(nodes[n], c))

--------------------
(* Receiving.                                                              *)

\* A transaction is passed to the chain by the read loop itself.
ReadLoopWaits(s, c) ==
  \E i \in 1..Len(s.calls) : s.calls[i].kind = "trx" /\ s.calls[i].peer = c

on_message(s, c, m, stalled) ==
  CASE m.type = "hello" -> on_hello(s, c)
    [] m.type = "connection_accepted" -> on_connection_accepted(s, c)
    [] m.type = "connection_rejected" -> on_connection_rejected(s, c)
    [] m.type = "address_request" -> on_address_request(s, c)
    [] m.type = "address" -> on_address(s, c)
    [] m.type = "fetch_blockchain_item_ids" ->
         on_fetch_blockchain_item_ids(s, c, m.ids)
    [] m.type = "blockchain_item_ids_inventory" ->
         on_blockchain_item_ids_inventory(s, c, m.ids, m.remaining)
    [] m.type = "fetch_items" -> on_fetch_items(s, c, m.items)
    [] m.type = "item_not_available" -> on_item_not_available(s, c, m.item)
    [] m.type = "item_ids_inventory" -> on_item_ids_inventory(s, c, m.items, stalled)
    [] m.type = "closing_connection" -> on_closing_connection(s, c)
    [] m.type = "block" -> [s EXCEPT !.tasks = Append(@, [peer |-> c, item |-> m.item])]
    [] m.type = "trx" -> process_trx_message(s, c, m.item)

Arriving(n, c) == /\ nodes[n].peers[c].sock = "open"
                  /\ nodes[Other(n, c)].peers[c].out # <<>>
                  /\ ~ReadLoopWaits(nodes[n], c)

\* The head may have been still for a minute when an advertisement arrives.
Receive(n, c) ==
  LET m == Other(n, c)
      out == nodes[m].peers[c].out
  IN /\ Arriving(n, c)
     /\ \E stalled \in BOOLEAN :
          /\ IF stalled THEN Head(out).type = "item_ids_inventory" /\ Spend("stalls")
             ELSE Free
          /\ nodes' = [nodes EXCEPT ![m].peers[c].out = Tail(@),
                                    ![n] = on_message(@, c, Head(out), stalled)]

--------------------
(* The tasks of a node.                                                    *)

ProcessBlockMessage(n) ==
  LET s == nodes[n]
  IN /\ s.tasks # <<>>
     /\ Becomes(n, process_block_message([s EXCEPT !.tasks = Tail(@)],
                                         Head(s.tasks).peer, Head(s.tasks).item))
     /\ Free

ProcessBacklog(n) ==
  /\ nodes[n].backlog_scheduled
  /\ \E s \in process_backlog_of_sync_blocks(nodes[n]) : Becomes(n, s)
  /\ Free

\* The active connections in any order: they are a hash set of pointers.
Orders(s) == SetToSeqs(Active(s))

FetchSyncItems(n) ==
  /\ nodes[n].sync_items_to_fetch_updated
  /\ \E order \in Orders(nodes[n]) : Becomes(n, fetch_sync_items_loop(nodes[n], order))
  /\ Free

FetchItems(n) ==
  /\ nodes[n].items_to_fetch_updated
  /\ \E order \in Orders(nodes[n]) : Becomes(n, fetch_items_loop(nodes[n], order))
  /\ Free

Advertise(n) ==
  /\ nodes[n].new_inventory # {}
  /\ Becomes(n, advertise_inventory_loop(nodes[n]))
  /\ Free

\* The chain answers the oldest call of those about blocks.
BlockHandled(n) ==
  LET s == nodes[n]
      i == Min({j \in 1..Len(s.calls) : s.calls[j].kind # "trx"})
      call == s.calls[i]
      t == [s EXCEPT !.calls = RemoveAt(@, i)]
  IN /\ \E j \in 1..Len(s.calls) : s.calls[j].kind # "trx"
     /\ Becomes(n, IF call.kind = "sync" THEN send_sync_block_to_node_delegate(t, call.item)
                   ELSE LiveBlockHandled(t, call.peer, call.item))
     /\ Free

TrxHandled(n) ==
  LET s == nodes[n]
  IN \E i \in 1..Len(s.calls) :
       /\ s.calls[i].kind = "trx"
       /\ Becomes(n, TransactionHandled([s EXCEPT !.calls = RemoveAt(@, i)],
                                        s.calls[i].item))
       /\ Free

\* A block this node produced, or a transaction it was given by a client.
Originate(n, i) ==
  /\ [node |-> n, item |-> i] \in world.originates
  /\ Spend("originates")
  /\ ~Cached(nodes[n], i)
  /\ IF IsBlock(i)
     THEN /\ previous_id[i] = nodes[n].head
          /\ Becomes(n, broadcast_block(AddBlock(nodes[n], i), i))
     ELSE Becomes(n, broadcast_transaction(nodes[n], i))

--------------------
(* Ends of connections.                                                    *)

ClosedKeepingRequests(s, c) ==
  discard_abandoned_sync_blocks(
    [s EXCEPT !.peers[c].list = "none", !.peers[c].sock = "none", !.peers[c].out = <<>>])

ClosedWithoutReset(s, c) ==
  trigger_fetch_sync_items_loop(
    [s EXCEPT !.peers[c].list = "none", !.peers[c].sock = "none", !.peers[c].out = <<>>,
              !.active_sync_requests = @ \ s.peers[c].sync_items_requested])

on_connection_closed(s, c) ==
  LET p == s.peers[c]
      t == [s EXCEPT !.peers[c].list = "none", !.peers[c].sock = "none",
                     !.peers[c].out = <<>>]
      u == IF p.sync_items_requested = {} THEN t
           ELSE trigger_fetch_sync_items_loop(ResetAllSearches(
                  [t EXCEPT !.active_sync_requests = @ \ p.sync_items_requested]))
      v == IF p.items_requested = {} THEN u
           ELSE trigger_fetch_items_loop(
                  FoldSet(LAMBDA i, x : Requeue(x, i), u, p.items_requested))
  IN discard_abandoned_sync_blocks(v)

\* The read loop ends: this side closed the socket, or the other side did.
ReadLoopEnds(n, c) ==
  LET near == nodes[n].peers[c].sock
      far == nodes[Other(n, c)].peers[c].sock
  IN /\ ~ReadLoopWaits(nodes[n], c)
     /\ near = "shut" \/ (near = "open" /\ far \in {"shut", "none"})

ConnectionClosed(n, c) ==
  /\ ReadLoopEnds(n, c)
  /\ Becomes(n, on_connection_closed(nodes[n], c))
  /\ Free

\* The network breaks the connection: both ends find out on their own.
ConnectionLost(c) ==
  /\ Spend("faults")
  /\ \A n \in Ends(c) : nodes[n].peers[c].sock = "open"
  /\ nodes' = [n \in Node |-> IF n \in Ends(c) THEN close_connection(nodes[n], c)
                              ELSE nodes[n]]

(***************************************************************************)
(* terminate_inactive_connections_loop, for one connection.                *)
(***************************************************************************)
Terminate(s, c) == close_connection(move_peer_to(s, c, "terminating"), c)

\* A request has not been answered in time, or a handshake is stuck.
SweepTimeout(n, c) ==
  LET p == nodes[n].peers[c]
  IN /\ Spend("timeouts")
     /\ \/ p.list = "active" /\ ~idle(p)
        \/ p.list = "handshaking" /\ p.sock = "open"
     /\ Becomes(n, Terminate(nodes[n], c))

\* Nothing was received for ten block intervals.
SweepInactive(n, c) ==
  /\ Spend("timeouts")
  /\ nodes[n].peers[c].list = "active"
  /\ Becomes(n, disconnect_from_peer(nodes[n], c, FALSE))

\* Blocks are wanted from this peer and nothing is being done about it.
SyncStalled(n, c) ==
  LET p == nodes[n].peers[c]
  IN /\ p.list = "active"
     /\ p.we_need_sync_items_from_peer
     /\ p.ids_of_items_being_processed = {}
     /\ ~ReadLoopWaits(nodes[n], c)
     /\ p.item_ids_requested = NoRequest
     /\ p.ids_of_items_to_get = <<>>

SweepStalledSync(n, c) ==
  /\ SyncStalled(n, c)
  /\ Becomes(n, Terminate(nodes[n], c))
  /\ Free

\* The other side did not close in time.
SweepClosing(n, c) ==
  /\ nodes[n].peers[c].list = "closing"
  /\ Becomes(n, Terminate(nodes[n], c))
  /\ Free

\* The head is still, and this peer's block was rejected under the breaker.
SweepRejected(n, c) ==
  LET p == nodes[n].peers[c]
  IN /\ p.list = "active"
     /\ p.block_rejected_while_breaker_tripped
     /\ Becomes(n, disconnect_from_peer(nodes[n], c, TRUE))
     /\ Free

\* fetch_updated_peer_lists_loop, after a quarter of an hour.
FetchPeerLists(n) ==
  /\ Spend("prunes")
  /\ Becomes(n, [ForEach(nodes[n], Active(nodes[n]),
                         LAMBDA s, c : send_message(s, c, [type |-> "address_request"]))
                   EXCEPT !.recently_failed_items = {}])

\* The clock: a minute in which the two loops had nothing to do.  What is in the
\* queue, the inventories and the window of the breaker is then too old.
MinutePasses(n) ==
  LET s == nodes[n]
      Aged(p) == [p EXCEPT !.old = ({"to_us"} \X p.inventory_peer_advertised_to_us)
                                     \cup ({"to_peer"} \X p.inventory_advertised_to_peer)]
  IN /\ Spend("minutes")
     /\ ~s.items_to_fetch_updated /\ s.new_inventory = {}
     /\ Becomes(n, [s EXCEPT !.peers = [c \in DOMAIN s.peers |-> Aged(s.peers[c])],
                             !.expired = ToSet(s.items_to_fetch),
                             !.invalid_disconnects = 0])

--------------------
Task(n) == \/ ProcessBlockMessage(n) \/ ProcessBacklog(n) \/ FetchSyncItems(n)
           \/ FetchItems(n) \/ Advertise(n) \/ BlockHandled(n) \/ TrxHandled(n)

Link(n, c) == \/ Accept(n, c) \/ ConnectDone(n, c) \/ Receive(n, c)
              \/ ConnectionClosed(n, c) \/ SweepClosing(n, c)
              \/ SweepStalledSync(n, c)

Next ==
  /\ UNCHANGED world
  /\ \/ \E n \in Node : Task(n) \/ FetchPeerLists(n) \/ MinutePasses(n)
     \/ \E n \in Node, i \in Block \cup Trx : Originate(n, i)
     \/ \E c \in Conn : ConnectionLost(c)
     \/ \E c \in Conn : \E n \in Ends(c) :
          \/ Link(n, c) \/ Connect(n, c) \/ SweepTimeout(n, c) \/ SweepInactive(n, c)
          \/ SweepRejected(n, c)

\* A node has a task to run, or a connection something to do.
CanStep ==
  \/ \E n \in Node : LET s == nodes[n] IN
       \/ s.tasks # <<>> \/ s.new_inventory # {}
       \/ s.backlog_scheduled \/ s.sync_items_to_fetch_updated \/ s.items_to_fetch_updated
  \/ \E c \in Conn : \E n \in Ends(c) :
       \/ Knocking(n, c) \/ Answered(n, c) \/ Arriving(n, c) \/ ReadLoopEnds(n, c)
       \/ nodes[n].peers[c].list = "closing" \/ SyncStalled(n, c)

\* The tasks of a node run (fc schedules them in turn), what is sent arrives,
\* and the sweep runs every second: while something can be done, something is
\* (the environment is bounded by its quota, so this is the weak fairness of
\* these actions together).  And the chain answers, whatever the network does.
Answers(n) == Len(nodes[n].calls') < Len(nodes[n].calls)

Fairness ==
  /\ []<>(~CanStep) \/ []<><<CanStep>>_vars
  /\ \A n \in Node : []<>(nodes[n].calls = <<>>) \/ []<><<Answers(n)>>_vars

Spec == Init /\ [][Next]_vars

FairSpec == Spec /\ Fairness

--------------------
(* Properties.                                                             *)

Peers(n, m) == {c \in DOMAIN nodes[n].peers : Other(n, c) = m}

\* A node never has two active connections to the same node, even when the
\* two of them connect to each other at the same time: is_already_connected_to_id
\* also looks at the connections still in their handshake.
OneConnectionPerNode ==
  \A n, m \in Node : Cardinality(Peers(n, m) \cap Active(nodes[n])) <= 1

AllValid == \A n \in Node : world.invalid[n] \cap Block = {}

Honest == /\ AllValid
          /\ \A n, m \in Node : world.chain_id[n] = world.chain_id[m]

\* Nodes on one chain that all run this code never disconnect one another for
\* an error (a block or reply "I didn't ask for", an invalid list of ids, a
\* missing sync item), and no handler meets a state it throws on, whatever
\* the order of messages, tasks, timeouts and lost connections.
NoFalseAccusation ==
  Honest => \A n \in Node : /\ ~nodes[n].threw
                            /\ \A c \in DOMAIN nodes[n].peers : ~nodes[n].peers[c].blamed

\* Peers are treated as they should be: one connection each, no accusation.
PeersTreatedFairly == OneConnectionPerNode /\ NoFalseAccusation

Live(s) == {c \in DOMAIN s.peers : s.peers[c].sock \in {"open", "shut"}}

Settled(s, i) ==
  \/ i \in s.known \/ Cached(s, i) \/ WaitingToFetch(s, i)
  \/ \E c \in Live(s) : i \in s.peers[c].items_requested
  \/ \E k \in 1..Len(s.tasks) : s.tasks[k].item = i
  \/ i \in s.message_ids_being_processed \cup s.recently_failed_items
  \/ \E b \in s.most_recent_blocks_accepted : i \in transactions[b]
  \/ ~IsBlock(i) /\ s.block_clock > MESSAGE_CACHE_DURATION_IN_BLOCKS  \* expired
  \/ IsBlock(i) /\ classify_advertised_block_id(s, i) = "dead_fork"

\* Nothing that a peer was asked for, or has advertised, is forgotten: a block
\* in _active_sync_requests is owed by a connection that still exists (else no
\* peer would ever be asked for it again), and an item in the inventory of a
\* peer is known, queued, requested, being processed, or has failed, unless it
\* waited for a minute in the queue: the loop drops it then, although the
\* inventory may still say who has it.
NothingForgotten ==
  \A n \in Node : LET s == nodes[n] IN
    /\ s.active_sync_requests \subseteq UNION {s.peers[c].sync_items_requested : c \in Live(s)}
    /\ \A c \in Active(s) : \A i \in s.peers[c].inventory_peer_advertised_to_us :
         Settled(s, i) \/ i \in s.dropped \/ s.peers[c].we_need_sync_items_from_peer

\* The blocks that m had first, or made.
Own(m) == {b \in Block : b = world.head[m] \/ [node |-> m, item |-> b] \in world.originates}
            \cap nodes[m].known

\* Up to a block that waited too long in the queue, which the next one brings back.
\* The last disjunct: the block the node needs next was received, and will be
\* looked at when another one is.
CaughtUp(n, m) ==
  \/ /\ \A b \in Own(m) \ nodes[n].dropped : get_block_num[nodes[n].head] >= get_block_num[b]
     /\ \A c \in Peers(n, m) \cap Active(nodes[n]) :
          ~nodes[n].peers[c].we_need_sync_items_from_peer
  \/ Fronts(nodes[n]) # {}

\* New blocks come no faster than they are plausible to everyone.
Steady == \A e \in world.originates, n \in Node : IsBlock(e.item) =>
            get_block_num[e.item] <= get_block_num[world.head[n]] + FUTURE_BLOCK_IDS_GRACE_BLOCKS

Closing(n) == {c \in DOMAIN nodes[n].peers : nodes[n].peers[c].list \in {"closing", "terminating"}}

\* Once the environment rests, the network settles: every connection that was
\* being closed is gone, and an honest node has caught up with the blocks of
\* every peer it is still connected to, whether it got them in sync, or by
\* advertisement, or in the handover from one to the other.
Settles ==
  AllValid =>
    <>[](\A n \in Node :
           /\ Closing(n) = {}
           /\ \A m \in Node \ {n} : (Honest /\ Steady /\ Peers(n, m) \cap Active(nodes[n]) # {})
                => CaughtUp(n, m))
=============================================================================
