------------------------------ MODULE WriteQueue ------------------------------
(***************************************************************************)
(* The write queue of the chain plugin: the network, API and witness       *)
(* threads that post requests and wait for a promise, the one thread that  *)
(* serves them under the write lock, and the shutdown that must not leave  *)
(* any of them waiting.                                                    *)
(*                                                                         *)
(* A request is a p2p block, a transaction of the network or of the API,   *)
(* a transaction nobody waits for (the colony plugin's), or the witness    *)
(* loop's request to generate a block.  What executing a request does to   *)
(* the state is reduced to the head it leaves and to whether it failed.    *)
(***************************************************************************)
EXTENDS Integers, Sequences, FiniteSets

CONSTANTS
  P2pBlock, P2pTx, ApiTx, ColonyTx, GenBlock,   \* the requests, by their kind
  slot,          \* [P2pBlock -> Nat], the slot of the block
  Worlds,        \* what a behaviour may be about: records of the requests that
                 \* may come, the blocks among them that come before their release
                 \* time, the block --stop-at-block names, whether it is the
                 \* --exit-at-block too, and whether the node starts behind
  max_held_blocks,
  MaxSlot        \* bound on the slots of generated blocks

Request == P2pBlock \cup P2pTx \cup ApiTx \cup ColonyTx \cup GenBlock
Priority == P2pBlock \cup GenBlock
NoReq == "no_request"
Genesis == "genesis"

ASSUME QueueAssumption ==
  /\ slot \in [P2pBlock -> Nat]
  /\ Worlds \subseteq [requests : SUBSET Request, early : SUBSET P2pBlock,
                        stop_at : SUBSET Request, exit_at : BOOLEAN, syncing : BOOLEAN]
  /\ max_held_blocks \in Nat /\ MaxSlot \in Nat
  /\ {NoReq, Genesis} \cap Request = {}
  /\ P2pBlock \cap (P2pTx \cup ApiTx \cup ColonyTx \cup GenBlock) = {}   \* a request has one kind
  /\ P2pTx \cap (ApiTx \cup ColonyTx \cup GenBlock) = {}
  /\ ApiTx \cap (ColonyTx \cup GenBlock) = {} /\ ColonyTx \cap GenBlock = {}

VARIABLES
  priority_write_queue, write_queue,
  running,           \* FALSE once stop_write_processing() was called
  interrupt,         \* theApp.is_interrupt_request()
  stop_at_block_interrupt_request,
  finish_status,     \* finish.status
  is_syncing,
  worker, cxt,       \* the write_queue thread and the request it serves
  call,              \* where the caller of each request is
  promise,           \* how many times the promise of the request was set
  except,            \* the exception stored in the request
  legacy,            \* API transactions tried again in legacy serialization
  due,               \* early blocks whose release time has come
  held_block_count,
  head,              \* the head block of the state and its slot
  produce_block_data,
  witness,           \* the block production loop, with the data it copied
  produced,          \* <<head, slot>> of every block generated here (history)
  main,              \* the thread that shuts the node down
  world              \* one of Worlds, for ever

queues == <<priority_write_queue, write_queue>>
flags == <<running, interrupt, stop_at_block_interrupt_request, finish_status, is_syncing>>
requests == <<promise, except, legacy>>
holding == <<due, held_block_count>>
chain == <<head, produce_block_data, produced>>
vars == <<queues, flags, worker, cxt, call, requests, holding, chain, witness, main, world>>

Early == world.early
Produces == world.requests \cap GenBlock # {}     \* a witness is configured
StopAt == world.stop_at
exit_at_block == world.exit_at

is_interrupt_request == interrupt \/ stop_at_block_interrupt_request
is_running == running /\ ~is_interrupt_request

QueuesEmpty == priority_write_queue = <<>> /\ write_queue = <<>>

Idle == [at |-> "idle", request |-> NoReq, head |-> Genesis, slot |-> 0]

Init ==
  /\ world \in Worlds
  /\ priority_write_queue = <<>> /\ write_queue = <<>>
  /\ running = TRUE /\ interrupt = FALSE /\ stop_at_block_interrupt_request = FALSE
  /\ finish_status = FALSE      \* start_write_processing() has run
  /\ is_syncing = world.syncing
  /\ worker = "wait" /\ cxt = NoReq
  /\ call = [r \in Request |-> "none"]
  /\ promise = [r \in Request |-> 0] /\ except = [r \in Request |-> "none"] /\ legacy = {}
  /\ due = {} /\ held_block_count = 0
  /\ head = [id |-> Genesis, slot |-> 0]
  /\ produce_block_data = [head |-> Genesis, next_slot |-> 1, produce_in_next_slot |-> Produces]
  /\ produced = {} /\ witness = Idle /\ main = "run"

--------------------
(* The callers *)

\* add_to_any_queue
Enqueue(r) ==
  IF r \in Priority
  THEN priority_write_queue' = Append(priority_write_queue, r) /\ UNCHANGED write_queue
  ELSE write_queue' = Append(write_queue, r) /\ UNCHANGED priority_write_queue

Becomes(r, where) == call' = [call EXCEPT ![r] = where]

HoldBlockUncounted(r) ==
  /\ r \in world.requests \cap (Early \ due) /\ call[r] = "none" /\ main \in {"run", "finish_request"}
  /\ held_block_count' = IF held_block_count < max_held_blocks THEN held_block_count + 1 ELSE held_block_count
  /\ Becomes(r, IF held_block_count + 1 <= max_held_blocks THEN "held" ELSE "refused")
  /\ UNCHANGED <<queues, flags, worker, cxt, requests, due, chain, witness, main, world>>

HoldBlockLoose(r) ==
  /\ r \in world.requests \cap (Early \ due) /\ call[r] = "none" /\ main \in {"run", "finish_request"}
  /\ held_block_count' = held_block_count + 1
  /\ Becomes(r, IF held_block_count <= max_held_blocks THEN "held" ELSE "refused")
  /\ UNCHANGED <<queues, flags, worker, cxt, requests, due, chain, witness, main, world>>

\* check_time_in_block: a block ahead of the clock counts itself among the held
\* ones before it looks whether there are too many.
HoldBlock(r) ==
  /\ r \in world.requests \cap (Early \ due) /\ call[r] = "none" /\ main \in {"run", "finish_request"}
  /\ held_block_count' = held_block_count + 1
  /\ Becomes(r, IF held_block_count + 1 <= max_held_blocks THEN "held" ELSE "refused")
  /\ UNCHANGED <<queues, flags, worker, cxt, requests, due, chain, witness, main, world>>

RefuseHeld(r) ==
  /\ call[r] = "refused"
  /\ held_block_count' = held_block_count - 1
  /\ Becomes(r, "threw")
  /\ UNCHANGED <<queues, flags, worker, cxt, requests, due, chain, witness, main, world>>

\* The clock reaches the release time of an early block.
TimeArrives(r) ==
  /\ r \in Early \ due
  /\ due' = due \cup {r}
  /\ UNCHANGED <<queues, flags, worker, cxt, call, requests, held_block_count, chain, witness, main, world>>

\* The end of the sleep in check_time_in_block, and the rest of accept_block.
ReleaseHeld(r) ==
  /\ call[r] = "held" /\ r \in due
  /\ held_block_count' = held_block_count - 1
  /\ IF finish_status THEN Becomes(r, "threw") /\ UNCHANGED queues
     ELSE Becomes(r, "queued") /\ Enqueue(r)
  /\ UNCHANGED <<flags, worker, cxt, requests, due, chain, witness, main, world>>

\* accept_block, accept_transaction, queue_transaction and
\* push_generate_block_request up to the queue.  The p2p plugin refuses blocks
\* and transactions once its shutdown began.
Post(r) ==
  /\ call[r] = "none" /\ r \in world.requests
  /\ r \in P2pBlock => r \notin Early \ due
  /\ r \in P2pBlock \cup P2pTx => main \in {"run", "finish_request"}
  /\ r \in GenBlock => witness.at = "push" /\ witness.request = r
  /\ Enqueue(r)
  /\ Becomes(r, IF r \in ColonyTx THEN "returned" ELSE "queued")
  /\ UNCHANGED <<flags, worker, cxt, requests, holding, chain, witness, main, world>>

\* is_finished_write_processing() decides whether the caller waits.
CheckFinished(r) ==
  /\ call[r] = "queued"
  /\ Becomes(r, IF finish_status THEN "threw" ELSE "waiting")
  /\ UNCHANGED <<queues, flags, worker, cxt, requests, holding, chain, witness, main, world>>

\* The future is ready; rethrow_if_exception.  An API transaction that failed
\* its authority check is sent again in legacy serialization, once.
Wake(r) ==
  /\ call[r] = "waiting" /\ promise[r] > 0
  /\ IF except[r] = "auth" /\ r \in ApiTx \ legacy
     THEN /\ Becomes(r, "none") /\ legacy' = legacy \cup {r}
          /\ promise' = [promise EXCEPT ![r] = 0] /\ except' = [except EXCEPT ![r] = "none"]
     ELSE /\ Becomes(r, IF except[r] = "none" THEN "returned" ELSE "threw")
          /\ UNCHANGED requests
  /\ UNCHANGED <<queues, flags, worker, cxt, holding, chain, witness, main, world>>

--------------------
(* The write_queue thread *)

\* Takes the next request, blocks first.
Pop ==
  /\ ~QueuesEmpty
  /\ IF priority_write_queue # <<>>
     THEN /\ cxt' = Head(priority_write_queue) /\ UNCHANGED write_queue
          /\ priority_write_queue' = Tail(priority_write_queue)
     ELSE /\ cxt' = Head(write_queue) /\ UNCHANGED priority_write_queue
          /\ write_queue' = Tail(write_queue)
  /\ worker' = "visit"

DequeueEager ==
  /\ worker = "wait"
  /\ is_running => ~QueuesEmpty
  /\ finish_status' = (finish_status \/ ~is_running)
  /\ IF ~is_running THEN worker' = "exit" /\ UNCHANGED <<queues, cxt>> ELSE Pop
  /\ UNCHANGED <<running, interrupt, stop_at_block_interrupt_request, is_syncing, call, requests,
                 holding, chain, witness, main, world>>

DequeueBlocksOnly ==
  /\ worker = "wait"
  /\ is_running => priority_write_queue # <<>>
  /\ finish_status' = (finish_status \/ ~is_running)
  /\ IF QueuesEmpty THEN worker' = "exit" /\ UNCHANGED <<queues, cxt>> ELSE Pop
  /\ UNCHANGED <<running, interrupt, stop_at_block_interrupt_request, is_syncing, call, requests,
                 holding, chain, witness, main, world>>

DequeueAsleep ==
  /\ worker = "wait" /\ ~QueuesEmpty
  /\ finish_status' = (finish_status \/ ~is_running)
  /\ Pop
  /\ UNCHANGED <<running, interrupt, stop_at_block_interrupt_request, is_syncing, call, requests,
                 holding, chain, witness, main, world>>

\* The outer loop: under the queue's lock, after the wait.  A thread that is no
\* longer running announces it first, and leaves only when the queues are empty.
Dequeue ==
  /\ worker = "wait"
  /\ is_running => ~QueuesEmpty
  /\ finish_status' = (finish_status \/ ~is_running)
  /\ IF QueuesEmpty THEN worker' = "exit" /\ UNCHANGED <<queues, cxt>> ELSE Pop
  /\ UNCHANGED <<running, interrupt, stop_at_block_interrupt_request, is_syncing, call, requests,
                 holding, chain, witness, main, world>>

\* trigger_promise: the promise is reset when it is set.
TriggerAgain(r) == promise' = [promise EXCEPT ![r] = @ + 1]
Trigger(r) == promise' = [promise EXCEPT ![r] = IF @ = 0 THEN 1 ELSE @]

\* on_failure
Fails(r, why) == except' = [except EXCEPT ![r] = why]

\* update_produce_block_data( get_slot_time( 1 ) ): whether the slot is ours,
\* its key is here and participation is high enough is left open.
UpdateProduceBlockData(h, s) ==
  \E mine \in IF Produces THEN BOOLEAN ELSE {FALSE} :
    produce_block_data' = [head |-> h.id, next_slot |-> s, produce_in_next_slot |-> mine]

\* on_finish_push_block
FinishPush(h) == head' = h /\ UpdateProduceBlockData(h, h.slot + 1)

\* Any request taken once an interruption is pending is answered at once.
VisitInterrupted ==
  /\ worker = "visit" /\ is_interrupt_request
  /\ Fails(cxt, "canceled") /\ Trigger(cxt) /\ worker' = "next"
  /\ UNCHANGED <<queues, flags, cxt, call, legacy, holding, chain, witness, main, world>>

\* push_block up to on_fork_ignore or on_end_of_transactions, which let the
\* p2p thread continue; or its failure before that.
VisitBlock ==
  /\ worker = "visit" /\ ~is_interrupt_request /\ cxt \in P2pBlock
  /\ Trigger(cxt)
  /\ \/ worker' = "next" /\ Fails(cxt, "failed")
     \/ worker' = "ignored" /\ UNCHANGED except
     \/ worker' = "executed" /\ UNCHANGED except
  /\ UNCHANGED <<queues, flags, cxt, call, legacy, holding, chain, witness, main, world>>

\* The rest of push_block.  A block that extends the head has a later slot; one
\* that won a fork switch need not.  It may still fail after its caller went on.
FinishBlock ==
  /\ worker \in {"ignored", "executed"} /\ cxt \in P2pBlock
  /\ worker' = "next"
  /\ \/ /\ FinishPush(IF worker = "ignored" THEN head ELSE [id |-> cxt, slot |-> slot[cxt]])
        /\ UNCHANGED <<promise, except>>
     \/ Fails(cxt, "failed") /\ Trigger(cxt) /\ UNCHANGED <<head, produce_block_data>>
  /\ UNCHANGED <<queues, flags, cxt, call, legacy, holding, produced, witness, main, world>>

VisitTransaction ==
  /\ worker = "visit" /\ ~is_interrupt_request /\ cxt \in P2pTx \cup ApiTx \cup ColonyTx
  /\ \/ UNCHANGED except
     \/ \E why \in {"failed", "auth"} : Fails(cxt, why)
  /\ Trigger(cxt) /\ worker' = "next"
  /\ UNCHANGED <<queues, flags, cxt, call, legacy, holding, chain, witness, main, world>>

\* generate_block up to the fork database, from where the block is broadcast.
\* The slot must be after the head's; the scheduled witness or key may differ.
GenerateBlock(early) ==
  /\ worker = "visit" /\ ~is_interrupt_request /\ cxt \in GenBlock
  /\ \/ /\ worker' = "next" /\ Fails(cxt, "failed") /\ Trigger(cxt)
     \/ /\ witness.slot > head.slot
        /\ worker' = "generated" /\ UNCHANGED except
        /\ IF early THEN Trigger(cxt) ELSE UNCHANGED promise
  /\ UNCHANGED <<queues, flags, cxt, call, legacy, holding, chain, witness, main, world>>

VisitGenerateEarly == GenerateBlock(TRUE)
VisitGenerate == GenerateBlock(FALSE)

FinishGeneratedStale ==
  /\ worker = "generated"
  /\ \/ /\ worker' = "answer" /\ head' = [id |-> cxt, slot |-> witness.slot]
        /\ produced' = produced \cup {<<head.id, witness.slot>>}
        /\ UNCHANGED <<promise, except, produce_block_data>>
     \/ /\ worker' = "next" /\ Fails(cxt, "failed") /\ Trigger(cxt)
        /\ UNCHANGED chain
  /\ UNCHANGED <<queues, flags, cxt, call, legacy, holding, witness, main, world>>

\* push_block of the generated block: applied, the production data renewed ...
FinishGenerated ==
  /\ worker = "generated"
  /\ \/ /\ worker' = "answer" /\ FinishPush([id |-> cxt, slot |-> witness.slot])
        /\ produced' = produced \cup {<<head.id, witness.slot>>}
        /\ UNCHANGED <<promise, except>>
     \/ /\ worker' = "next" /\ Fails(cxt, "failed") /\ Trigger(cxt)
        /\ UNCHANGED chain
  /\ UNCHANGED <<queues, flags, cxt, call, legacy, holding, witness, main, world>>

\* ... and only then the promise set, in on_end_of_apply_block.
AnswerGenerated ==
  /\ worker = "answer" /\ Trigger(cxt) /\ worker' = "next"
  /\ UNCHANGED <<queues, flags, cxt, call, except, legacy, holding, chain, witness, main, world>>

\* --stop-at-block and --exit-at-block, right after the request.
StopReached == cxt \in StopAt /\ head.id = cxt /\ ~stop_at_block_interrupt_request

\* The inner loop after a request: the stop block, the time the write lock may
\* be held in live mode, then the next request if there is one.
NextRequest ==
  /\ worker = "next"
  /\ stop_at_block_interrupt_request' = (stop_at_block_interrupt_request \/ StopReached)
  /\ interrupt' = (interrupt \/ (StopReached /\ exit_at_block))
  /\ is_syncing' = (is_syncing /\ ~(StopReached /\ ~exit_at_block))
  /\ \/ /\ QueuesEmpty \/ ~running \/ (~is_syncing /\ is_running /\ ~StopReached)
        /\ worker' = "wait" /\ cxt' = NoReq /\ UNCHANGED queues
     \/ running /\ Pop
  /\ UNCHANGED <<running, finish_status, call, requests, holding, chain, witness, main, world>>

\* The head came close enough to the clock; the lock has been given up.
EnterLiveMode ==
  /\ worker = "wait" /\ is_syncing
  /\ is_syncing' = FALSE
  /\ UNCHANGED <<queues, running, interrupt, stop_at_block_interrupt_request, finish_status,
                 worker, cxt, call, requests, holding, chain, witness, main, world>>

\* The scope exit of the thread: finish.status, and the notification.
Exit ==
  /\ worker = "exit" /\ worker' = "exited" /\ finish_status' = TRUE
  /\ UNCHANGED <<queues, running, interrupt, stop_at_block_interrupt_request, is_syncing, cxt,
                 call, requests, holding, chain, witness, main, world>>

--------------------
(* The block production loop of the witness plugin *)

\* maybe_produce_block: the slot's time has come and the copied data says to
\* produce.
MaybeProduce(g) ==
  /\ witness.at = "idle" /\ produce_block_data.produce_in_next_slot
  /\ produce_block_data.next_slot <= MaxSlot
  /\ call[g] = "none" /\ g \in world.requests
  /\ witness' = [at |-> "push", request |-> g, head |-> produce_block_data.head,
                 slot |-> produce_block_data.next_slot]
  /\ UNCHANGED <<queues, flags, worker, cxt, call, requests, holding, chain, main, world>>

\* The slot passed: the data is renewed for a later one, under the read lock.
ProductionLags ==
  /\ Produces /\ witness.at = "idle" /\ worker \in {"wait", "exit", "exited"}
  /\ \E s \in (produce_block_data.next_slot + 1)..MaxSlot : UpdateProduceBlockData(head, s)
  /\ UNCHANGED <<queues, flags, worker, cxt, call, requests, holding, head, produced, witness, main, world>>

\* After the request: a cancellation interrupts the node and ends the loop.
ProductionLoop ==
  /\ witness.at = "push" /\ call[witness.request] \in {"returned", "threw"}
  /\ LET canceled == /\ call[witness.request] = "threw"
                     /\ except[witness.request] \in {"none", "canceled"}
     IN  /\ interrupt' = (interrupt \/ canceled)
         /\ witness' = [Idle EXCEPT !.at = IF canceled \/ finish_status THEN "ended" ELSE "idle"]
  /\ UNCHANGED <<queues, running, stop_at_block_interrupt_request, finish_status, is_syncing,
                 worker, cxt, call, requests, holding, chain, main, world>>

--------------------
(* Shutdown *)

\* A signal, at any time.
Interrupt ==
  /\ ~interrupt /\ interrupt' = TRUE
  /\ UNCHANGED <<queues, running, stop_at_block_interrupt_request, finish_status, is_syncing,
                 worker, cxt, call, requests, holding, chain, witness, main, world>>

\* finish_request, which waits for finish.status; the p2p plugin's wait for its
\* handlers (external: appbase's shutdown_mgr); stop_write_processing and join.
Shutdown ==
  /\ \/ main = "run" /\ interrupt /\ main' = "finish_request" /\ UNCHANGED running
     \/ main = "finish_request" /\ finish_status /\ main' = "p2p" /\ UNCHANGED running
     \/ /\ main = "p2p" /\ main' = "join" /\ running' = FALSE
        /\ \A r \in P2pBlock \cup P2pTx : call[r] \in {"none", "returned", "threw"}
     \/ main = "join" /\ worker = "exited" /\ main' = "closed" /\ UNCHANGED running
  /\ UNCHANGED <<queues, interrupt, stop_at_block_interrupt_request, finish_status, is_syncing,
                 worker, cxt, call, requests, holding, chain, witness, world>>

--------------------
Caller(r) == CheckFinished(r) \/ Wake(r) \/ RefuseHeld(r) \/ ReleaseHeld(r)

Serve ==
  \/ Dequeue \/ VisitInterrupted \/ VisitBlock \/ FinishBlock \/ VisitTransaction \/ VisitGenerate
  \/ FinishGenerated \/ AnswerGenerated \/ NextRequest \/ Exit

WitnessGoesOn == ProductionLoop \/ \E g \in GenBlock : Post(g)

Next ==
  \/ \E r \in Request : Post(r) \/ HoldBlock(r) \/ TimeArrives(r) \/ Caller(r)
  \/ Serve \/ EnterLiveMode
  \/ (\E g \in GenBlock : MaybeProduce(g)) \/ ProductionLags \/ ProductionLoop
  \/ Interrupt \/ Shutdown

Spec == Init /\ [][Next]_vars

\* The operating system runs every thread that can run; the clock goes on.
\* Nothing makes a request arrive, a slot be ours, or a signal be sent.
FairSpec ==
  /\ Spec
  /\ WF_vars(Serve) /\ WF_vars(WitnessGoesOn) /\ WF_vars(Shutdown)
  /\ WF_vars(\E r \in Request : Caller(r) \/ TimeArrives(r))

--------------------
TypeOK ==
  /\ priority_write_queue \in Seq(Priority) /\ write_queue \in Seq(Request \ Priority)
  /\ {running, interrupt, stop_at_block_interrupt_request, finish_status, is_syncing} \subseteq BOOLEAN
  /\ worker \in {"wait", "visit", "ignored", "executed", "generated", "answer", "next", "exit", "exited"}
  /\ cxt \in Request \cup {NoReq}
  /\ call \in [Request -> {"none", "held", "refused", "queued", "waiting", "returned", "threw"}]
  /\ promise \in [Request -> 0..2]
  /\ except \in [Request -> {"none", "canceled", "failed", "auth"}]
  /\ legacy \subseteq ApiTx /\ due \subseteq Early
  /\ held_block_count \in 0..Cardinality(Early)
  /\ head \in [id : Request \cup {Genesis}, slot : Nat]
  /\ produce_block_data.head \in Request \cup {Genesis}
  /\ witness.at \in {"idle", "push", "ended"}
  /\ main \in {"run", "finish_request", "p2p", "join", "closed"}

\* Once the thread has left its loop nobody is left waiting for it: a caller
\* that posted too late saw finish.status and threw instead (accept_block,
\* accept_transaction, push_generate_block_request).
NobodyWaitsForever ==
  worker \in {"exit", "exited"} => \A r \in Request : call[r] = "waiting" => promise[r] > 0

\* No promise is set twice, though a block may be released when its
\* transactions were executed and fail afterwards (trigger_promise).
PromiseSetOnce == \A r \in Request : promise[r] <= 1

\* The witness loop never asks for a block it already generated: it goes on only
\* when the state and its own data reflect that block (the comment in
\* generate_block_flow_control::on_end_of_apply_block).
NoBlockAskedTwice ==
  \A g \in GenBlock : witness.at = "push" /\ witness.request = g /\ call[g] = "none"
                        => <<witness.head, witness.slot>> \notin produced

\* Never more than max_held_blocks callers sleep on an early block, however the
\* increments and decrements of the counter interleave (check_time_in_block).
HeldBounded == Cardinality({r \in Early : call[r] = "held"}) <= max_held_blocks

\* A verdict is about the request: a caller told that its transaction was good
\* has no exception stored in it (rethrow_if_exception after the promise).
VerdictIsFinal ==
  \A r \in P2pTx \cup ApiTx \cup GenBlock : call[r] = "returned" => except[r] = "none"

\* Every caller that posted a request goes on, shutdown or not.
CallsEnd ==
  \A r \in Request : (call[r] \in {"held", "queued", "waiting"}) ~> (call[r] \in {"none", "returned", "threw"})

\* A node told to stop does stop: no thread waits for another for ever (the
\* comment on the drained queue in start_write_processing).
ShutdownCompletes == interrupt ~> main = "closed"

\* Every answer is given once, in order and for good.
AnswersOrderly == PromiseSetOnce /\ NoBlockAskedTwice /\ HeldBounded /\ VerdictIsFinal

\* No thread waits for another for ever.
EveryoneGoesOn == CallsEnd /\ ShutdownCompletes
===============================================================================
