---- MODULE WriteQueueInvariant ----
(* The invariant of the write queue, for any requests, worlds and bounds, and  *)
(* its thread, which keeps it.                                                 *)
EXTENDS WriteQueue, TLAPS

--------------------
(* Queues *)

In(q, r) == \E i \in DOMAIN q : q[i] = r
Once(q) == \A i, j \in DOMAIN q : q[i] = q[j] => i = j

\* A request joins a queue at its end and leaves it at its front.
LEMMA AppendIn ==
  ASSUME NEW S, NEW q \in Seq(S), NEW r \in S
  PROVE  /\ Append(q, r) \in Seq(S)
         /\ \A x : In(Append(q, r), x) <=> (In(q, x) \/ x = r)
         /\ Once(q) /\ ~In(q, r) => Once(Append(q, r))
<1>1. /\ DOMAIN Append(q, r) = 1..(Len(q) + 1) /\ DOMAIN q = 1..Len(q) /\ Len(q) \in Nat
      /\ \A i \in 1..Len(q) : Append(q, r)[i] = q[i]
      /\ Append(q, r)[Len(q) + 1] = r /\ Append(q, r) \in Seq(S)
  OBVIOUS
<1>2. \A i \in 1..(Len(q) + 1) : i \in 1..Len(q) \/ i = Len(q) + 1
  BY <1>1
<1>3. \A x : In(Append(q, r), x) <=> (In(q, x) \/ x = r)
  BY <1>1, <1>2 DEF In
<1>4. ASSUME Once(q), ~In(q, r), NEW i \in 1..(Len(q) + 1), NEW j \in 1..(Len(q) + 1),
             Append(q, r)[i] = Append(q, r)[j]
      PROVE  i = j
  BY <1>1, <1>2, <1>4 DEF Once, In
<1> QED BY <1>1, <1>3, <1>4 DEF Once

\* Popping the front of a queue removes that request and no other.
LEMMA TailIn ==
  ASSUME NEW S, NEW q \in Seq(S), q # <<>>
  PROVE  /\ Tail(q) \in Seq(S) /\ Head(q) \in S
         /\ \A x : In(q, x) <=> (In(Tail(q), x) \/ x = Head(q))
         /\ Once(q) => Once(Tail(q)) /\ ~In(Tail(q), Head(q))
<1>1. /\ DOMAIN q = 1..Len(q) /\ Len(q) \in Nat \ {0} /\ Head(q) = q[1] /\ Head(q) \in S
      /\ DOMAIN Tail(q) = 1..(Len(q) - 1) /\ Tail(q) \in Seq(S)
      /\ \A i \in 1..(Len(q) - 1) : Tail(q)[i] = q[i + 1]
  OBVIOUS
<1>2. ASSUME NEW i \in 1..Len(q), i # 1
      PROVE  i - 1 \in 1..(Len(q) - 1) /\ Tail(q)[i - 1] = q[i]
  <2>1. i - 1 \in 1..(Len(q) - 1) /\ (i - 1) + 1 = i
    BY <1>1, <1>2
  <2> QED BY <1>1, <2>1
<1>3. \A i \in 1..(Len(q) - 1) : i + 1 \in 1..Len(q) /\ i + 1 # 1 /\ Tail(q)[i] = q[i + 1]
  BY <1>1
<1>4. \A x : In(q, x) <=> (In(Tail(q), x) \/ x = Head(q))
  <2>1. ASSUME NEW x, In(q, x), x # Head(q) PROVE In(Tail(q), x)
    <3>1. PICK i \in 1..Len(q) : q[i] = x
      BY <1>1, <2>1 DEF In
    <3> QED BY Zenon, <1>1, <1>2, <2>1, <3>1 DEF In
  <2>2. ASSUME NEW x, In(Tail(q), x) PROVE In(q, x)
    BY <1>1, <1>3, <2>2 DEF In
  <2>3. In(q, Head(q))
    BY <1>1 DEF In
  <2> QED BY <2>1, <2>2, <2>3
<1>5. Once(q) => Once(Tail(q)) /\ ~In(Tail(q), Head(q))
  <2>1. ASSUME Once(q), NEW i \in 1..(Len(q) - 1), NEW j \in 1..(Len(q) - 1), Tail(q)[i] = Tail(q)[j]
        PROVE  i = j
    <3>1. i + 1 = j + 1
      BY <1>1, <1>3, <2>1 DEF Once
    <3> QED BY <3>1
  <2>2. ASSUME Once(q), NEW i \in 1..(Len(q) - 1), Tail(q)[i] = Head(q) PROVE FALSE
    BY <1>1, <1>3, <2>2 DEF Once
  <2> QED BY Zenon, <1>1, <2>1, <2>2 DEF Once, In
<1> QED BY <1>1, <1>4, <1>5

--------------------
(* The inductive invariant *)

Serving == {"visit", "ignored", "executed", "generated"}

\* A request waits in a queue; or the thread has it and has not finished it; or
\* it is not answered yet.
Queued(r) == In(priority_write_queue, r) \/ In(write_queue, r)
InHand(r) == Queued(r) \/ (cxt = r /\ worker \in Serving)
Pending(r) == Queued(r) \/ (cxt = r /\ worker \in {"visit", "generated", "answer"})
Posted(r) == call[r] \in {"queued", "waiting", "returned", "threw"}

Typed ==
  /\ world \in Worlds
  /\ priority_write_queue \in Seq(Priority) /\ write_queue \in Seq(Request \ Priority)
  /\ call \in [Request -> {"none", "held", "refused", "queued", "waiting", "returned", "threw"}]
  /\ promise \in [Request -> 0..1]
  /\ except \in [Request -> {"none", "canceled", "failed", "auth"}]
  /\ worker \in Serving \cup {"answer", "next", "wait", "exit", "exited"}
  /\ worker \in Serving \cup {"answer", "next"} => cxt \in Request
  /\ worker \in {"ignored", "executed"} => cxt \in P2pBlock
  /\ worker \in {"generated", "answer"} => cxt \in GenBlock
  /\ finish_status \in BOOLEAN

\* A request is in one place, once, and only after it was posted.
OnePlace ==
  /\ Once(priority_write_queue) /\ Once(write_queue)
  /\ worker \in Serving \cup {"answer"} => ~Queued(cxt)
  /\ \A r \in Request : InHand(r) \/ Pending(r) => Posted(r)

\* What is pending has no answer; whoever waits for one has it or is pending.
Answered ==
  /\ \A r \in Request : Pending(r) => promise[r] = 0 /\ except[r] = "none"
  /\ \A r \in Request : call[r] \in {"queued", "waiting"} => promise[r] > 0 \/ Pending(r)
  /\ \A r \in Request \ ColonyTx : call[r] = "returned" => promise[r] > 0
  /\ \A r \in Request : call[r] \in {"none", "held", "refused"} => promise[r] = 0 /\ except[r] = "none"
  /\ worker \in {"exit", "exited"} => finish_status

\* The counter counts the callers that sleep or are about to be refused.
Asleep == {r \in Request : call[r] \in {"held", "refused"}}
Held ==
  /\ IsFiniteSet(Asleep) /\ held_block_count = Cardinality(Asleep)
  /\ Asleep \subseteq P2pBlock

\* A block that is or was the head: it was posted and is in hand no more.
Applied(h) == h = Genesis \/ (h \in P2pBlock \cup GenBlock /\ Posted(h) /\ ~InHand(h))

\* The production loop and the thread agree on the block that is asked for.
Production ==
  /\ produce_block_data.head = head.id /\ Applied(head.id)
  /\ \A p \in produced : p[1] # head.id /\ Applied(p[1])
  /\ witness.at = "push" => witness.request \in GenBlock
  /\ \A g \in GenBlock : Pending(g) =>
       /\ witness.at = "ended" \/ (witness.at = "push" /\ witness.request = g)
       /\ call[g] = "threw" => finish_status

IInv ==
  /\ Typed /\ OnePlace /\ Answered /\ Held /\ Production
  /\ NobodyWaitsForever /\ HeldBounded /\ VerdictIsFinal /\ NoBlockAskedTwice

\* The kinds of requests are disjoint.
LEMMA Kinds ==
  /\ NoReq \notin Request /\ Genesis \notin Request
  /\ P2pBlock \subseteq Request /\ GenBlock \subseteq Request /\ ApiTx \subseteq Request
  /\ P2pTx \subseteq Request /\ ColonyTx \subseteq Request
  /\ Priority \subseteq Request
  /\ \A r \in P2pBlock : r \notin P2pTx /\ r \notin ApiTx /\ r \notin ColonyTx /\ r \notin GenBlock
  /\ \A r \in GenBlock : r \notin P2pTx /\ r \notin ApiTx /\ r \notin ColonyTx /\ r \notin P2pBlock
  /\ \A r \in ColonyTx : r \notin P2pTx /\ r \notin ApiTx
  /\ \A r \in ApiTx : r \notin P2pTx
BY QueueAssumption DEF Request, Priority

\* The worlds bring only requests, and hold back only blocks of the network.
LEMMA WorldTypes ==
  ASSUME world \in Worlds
  PROVE  world.requests \subseteq Request /\ Early \subseteq P2pBlock /\ StopAt \subseteq Request
BY QueueAssumption DEF Early, StopAt

\* The sleeping callers are the same, and as many.
LEMMA HeldStays ==
  ASSUME IInv, world' = world, held_block_count' = held_block_count,
         \A r \in Request : call'[r] \in {"held", "refused"} <=> call[r] \in {"held", "refused"},
         \A r \in Request : call'[r] = "held" <=> call[r] = "held"
  PROVE  Held' /\ HeldBounded'
<1>1. Asleep' = Asleep
  BY DEF Asleep
<1>2. Early \subseteq Request
  BY WorldTypes, Kinds DEF IInv, Typed
<1>3. {r \in Early : call'[r] = "held"} = {r \in Early : call[r] = "held"} /\ Early' = Early
  BY <1>2 DEF Early
<1> QED BY <1>1, <1>3 DEF IInv, Held, HeldBounded

\* A request that was posted joins the end of its queue.
LEMMA Enqueued ==
  ASSUME IInv, NEW r \in Request, Enqueue(r), ~Queued(r)
  PROVE  /\ priority_write_queue' \in Seq(Priority) /\ write_queue' \in Seq(Request \ Priority)
         /\ Once(priority_write_queue') /\ Once(write_queue')
         /\ \A x : Queued(x)' <=> (Queued(x) \/ x = r)
<1>1. CASE r \in Priority
  <2>1. priority_write_queue' = Append(priority_write_queue, r) /\ write_queue' = write_queue
    BY <1>1 DEF Enqueue
  <2> QED BY <1>1, <2>1, AppendIn DEF IInv, Typed, OnePlace, Queued
<1>2. CASE r \notin Priority
  <2>1. write_queue' = Append(write_queue, r) /\ priority_write_queue' = priority_write_queue
    BY <1>2 DEF Enqueue
  <2> QED BY <1>2, <2>1, AppendIn DEF IInv, Typed, OnePlace, Queued
<1> QED BY <1>1, <1>2

\* The thread takes a request that is then in no queue.
LEMMA Popped ==
  ASSUME IInv, Pop
  PROVE  /\ priority_write_queue' \in Seq(Priority) /\ write_queue' \in Seq(Request \ Priority)
         /\ Once(priority_write_queue') /\ Once(write_queue')
         /\ cxt' \in Request /\ Queued(cxt') /\ worker' = "visit"
         /\ \A x : Queued(x) <=> (Queued(x)' \/ x = cxt')
         /\ ~(In(priority_write_queue', cxt') \/ In(write_queue', cxt'))
<1>0. \A x : (In(write_queue, x) => x \notin Priority) /\ (In(priority_write_queue, x) => x \in Priority)
  BY DEF IInv, Typed, In
<1>1. CASE priority_write_queue # <<>>
  <2>1. /\ cxt' = Head(priority_write_queue) /\ priority_write_queue' = Tail(priority_write_queue)
        /\ write_queue' = write_queue /\ worker' = "visit"
    BY <1>1 DEF Pop
  <2>2. /\ Tail(priority_write_queue) \in Seq(Priority) /\ Head(priority_write_queue) \in Priority
        /\ \A x : In(priority_write_queue, x) <=> (In(Tail(priority_write_queue), x) \/ x = Head(priority_write_queue))
        /\ Once(Tail(priority_write_queue)) /\ ~In(Tail(priority_write_queue), Head(priority_write_queue))
    BY <1>1, TailIn DEF IInv, Typed, OnePlace
  <2> QED BY <1>0, <2>1, <2>2, Kinds DEF IInv, Typed, OnePlace, Queued
<1>2. CASE priority_write_queue = <<>>
  <2>1. /\ cxt' = Head(write_queue) /\ write_queue' = Tail(write_queue) /\ write_queue # <<>>
        /\ priority_write_queue' = priority_write_queue /\ worker' = "visit"
    BY <1>2 DEF Pop, QueuesEmpty
  <2>2. /\ Tail(write_queue) \in Seq(Request \ Priority) /\ Head(write_queue) \in Request \ Priority
        /\ \A x : In(write_queue, x) <=> (In(Tail(write_queue), x) \/ x = Head(write_queue))
        /\ Once(Tail(write_queue)) /\ ~In(Tail(write_queue), Head(write_queue))
    BY <2>1, TailIn DEF IInv, Typed, OnePlace
  <2> QED BY <1>0, <2>1, <2>2 DEF IInv, Typed, OnePlace, Queued
<1> QED BY <1>1, <1>2

\* A block that was the head stays one that was served.
LEMMA AppliedStays ==
  ASSUME NEW h, Applied(h), Posted(h) => Posted(h)', InHand(h)' => InHand(h)
  PROVE  Applied(h)'
BY DEF Applied

\* The production loop and the data it reads are not touched.
LEMMA ProductionStays ==
  ASSUME IInv, produce_block_data' = produce_block_data, head' = head, produced' = produced,
         witness' = witness, finish_status => finish_status',
         \A r \in Request : Posted(r) /\ r \notin ApiTx => Posted(r)',
         \A r \in Request : InHand(r)' => InHand(r) \/ call[r] = "none" \/ call[r] = "held",
         \A g \in GenBlock : Pending(g)' => Pending(g) /\ (call'[g] = "threw" => call[g] = "threw" \/ finish_status')
  PROVE  Production'
<1>1. ASSUME NEW h, Applied(h) PROVE Applied(h)'
  BY <1>1, Kinds DEF Applied, Posted
<1>2. produce_block_data'.head = head'.id /\ Applied(head.id)'
  BY <1>1 DEF IInv, Production
<1>3. \A p \in produced' : p[1] # head'.id /\ Applied(p[1])'
  BY <1>1 DEF IInv, Production
<1>4. witness'.at = "push" => witness'.request \in GenBlock
  BY DEF IInv, Production
<1>5. ASSUME NEW g \in GenBlock, Pending(g)'
      PROVE  /\ witness'.at = "ended" \/ (witness'.at = "push" /\ witness'.request = g)
             /\ call'[g] = "threw" => finish_status'
  BY <1>5 DEF IInv, Production
<1> QED BY <1>2, <1>3, <1>4, <1>5 DEF Production

\* No request comes back to the state in which it could be asked for.
LEMMA AskedStays ==
  ASSUME IInv, produced' = produced, witness' = witness,
         \A g \in GenBlock : call'[g] = "none" => call[g] = "none"
  PROVE  NoBlockAskedTwice'
BY DEF IInv, NoBlockAskedTwice

\* Steps that leave every request where it is.
LEMMA RequestsStay ==
  ASSUME IInv, call' = call, priority_write_queue' = priority_write_queue,
         write_queue' = write_queue, finish_status' = finish_status, worker' = worker, cxt' = cxt,
         promise' = promise, except' = except, world' = world
  PROVE  /\ Typed' /\ OnePlace' /\ Answered' /\ NobodyWaitsForever' /\ VerdictIsFinal'
         /\ \A x : (Applied(x)' <=> Applied(x)) /\ (Pending(x)' <=> Pending(x))
<1>1. Typed' /\ OnePlace' /\ Answered' /\ NobodyWaitsForever' /\ VerdictIsFinal'
  BY DEF IInv, Typed, OnePlace, Answered, NobodyWaitsForever, VerdictIsFinal,
         Queued, InHand, Pending, Posted
<1>2. \A x : (Applied(x)' <=> Applied(x)) /\ (Pending(x)' <=> Pending(x))
  BY DEF Applied, Queued, InHand, Pending, Posted
<1> QED BY Zenon, <1>1, <1>2

\* Steps that touch nothing the invariant is about.
LEMMA NothingMoves ==
  ASSUME IInv, call' = call, held_block_count' = held_block_count,
         priority_write_queue' = priority_write_queue, write_queue' = write_queue,
         finish_status' = finish_status, worker' = worker, cxt' = cxt,
         promise' = promise, except' = except, produce_block_data' = produce_block_data,
         head' = head, produced' = produced, witness' = witness, world' = world
  PROVE  IInv'
<1>1. Typed' /\ OnePlace' /\ Answered' /\ NobodyWaitsForever' /\ VerdictIsFinal'
  BY RequestsStay
<1>2. Production' /\ NoBlockAskedTwice'
  <2>1. \A x : (Applied(x)' <=> Applied(x)) /\ (Pending(x)' <=> Pending(x))
    BY RequestsStay
  <2> QED BY Zenon, <2>1 DEF IInv, Production, NoBlockAskedTwice
<1>3. Held' /\ HeldBounded'
  BY HeldStays
<1> QED BY <1>1, <1>2, <1>3 DEF IInv

--------------------
(* The write_queue thread *)

\* Taking the next request, after the wait or right after another request.
LEMMA PopKeeps ==
  ASSUME IInv, Pop, worker \in {"wait", "next"}, call' = call, held_block_count' = held_block_count,
         finish_status => finish_status', finish_status' \in BOOLEAN, promise' = promise, except' = except,
         produce_block_data' = produce_block_data,
         head' = head, produced' = produced, witness' = witness, world' = world
  PROVE  IInv'
<1>1. /\ priority_write_queue' \in Seq(Priority) /\ write_queue' \in Seq(Request \ Priority)
      /\ Once(priority_write_queue') /\ Once(write_queue')
      /\ cxt' \in Request /\ Queued(cxt') /\ worker' = "visit"
      /\ \A x : Queued(x) <=> (Queued(x)' \/ x = cxt')
      /\ ~(In(priority_write_queue', cxt') \/ In(write_queue', cxt'))
  BY Popped
<1>2. Typed'
  BY <1>1 DEF IInv, Typed, Serving
<1>3. /\ \A x \in Request : Posted(x)' <=> Posted(x)
      /\ \A x \in Request : InHand(x)' <=> InHand(x)
      /\ \A x \in Request : Pending(x)' <=> Pending(x)
  BY <1>1 DEF Posted, InHand, Pending, Serving
<1>4. OnePlace'
  <2>1. ~Queued(cxt)'
    BY Zenon, <1>1 DEF Queued
  <2> QED BY <1>1, <1>3, <2>1 DEF IInv, OnePlace
<1>5. Answered' /\ NobodyWaitsForever' /\ VerdictIsFinal'
  BY <1>1, <1>3 DEF IInv, Answered, NobodyWaitsForever, VerdictIsFinal
<1>6. Production' /\ NoBlockAskedTwice'
  BY <1>3, Kinds, ProductionStays, AskedStays
<1>7. Held' /\ HeldBounded'
  BY HeldStays
<1> QED BY <1>2, <1>4, <1>5, <1>6, <1>7 DEF IInv

\* The thread takes the first request of a batch from the queues, or leaves its
\* loop.
LEMMA DequeueKeeps ==
  ASSUME IInv, Dequeue
  PROVE  IInv'
<1>1. /\ worker = "wait" /\ call' = call /\ held_block_count' = held_block_count
      /\ finish_status' = (finish_status \/ ~is_running) /\ promise' = promise /\ except' = except
      /\ produce_block_data' = produce_block_data
      /\ head' = head /\ produced' = produced /\ witness' = witness /\ world' = world
  BY DEF Dequeue, requests, chain, holding
<1>2. CASE ~QueuesEmpty
  <2>1. Pop
    BY <1>2 DEF Dequeue
  <2> QED BY Zenon, <1>1, <2>1, PopKeeps
<1>3. CASE QueuesEmpty
  <2>1. /\ worker' = "exit" /\ cxt' = cxt /\ finish_status'
        /\ priority_write_queue' = priority_write_queue /\ write_queue' = write_queue
    BY Zenon, <1>1, <1>3 DEF Dequeue, queues
  <2>2. \A x : ~Queued(x) /\ ~Queued(x)'
    BY <1>3, <2>1 DEF QueuesEmpty, Queued, In
  <2>3. \A x : ~Pending(x) /\ ~Pending(x)' /\ ~InHand(x) /\ ~InHand(x)' /\ (Posted(x) <=> Posted(x)')
    BY <1>1, <2>1, <2>2 DEF Pending, InHand, Posted, Serving
  <2>4. Typed'
    BY Zenon, <1>1, <2>1 DEF IInv, Typed, Serving
  <2>5. OnePlace' /\ Answered' /\ VerdictIsFinal'
    BY Zenon, <1>1, <2>1, <2>2, <2>3 DEF IInv, OnePlace, Answered, VerdictIsFinal
  <2>6. NobodyWaitsForever'
    BY Zenon, <1>1, <2>1, <2>3 DEF IInv, Answered, NobodyWaitsForever
  <2>7. Production' /\ NoBlockAskedTwice'
    BY <1>1, <2>1, <2>3, Kinds, ProductionStays, AskedStays
  <2>8. Held' /\ HeldBounded'
    BY <1>1, HeldStays
  <2> QED BY <2>4, <2>5, <2>6, <2>7, <2>8 DEF IInv
<1> QED BY <1>2, <1>3

\* The thread goes on with another request under the same lock, or lets go of
\* it.
LEMMA NextRequestKeeps ==
  ASSUME IInv, NextRequest
  PROVE  IInv'
<1>1. /\ worker = "next" /\ call' = call /\ held_block_count' = held_block_count
      /\ finish_status' = finish_status /\ promise' = promise /\ except' = except
      /\ produce_block_data' = produce_block_data
      /\ head' = head /\ produced' = produced /\ witness' = witness /\ world' = world
  BY Zenon DEF NextRequest, requests, chain, holding
<1>2. CASE Pop
  BY <1>1, <1>2, PopKeeps DEF IInv, Typed
<1>3. CASE worker' = "wait" /\ cxt' = NoReq /\ UNCHANGED queues
  <2>1. \A x : /\ Queued(x)' <=> Queued(x)
               /\ Pending(x)' <=> Pending(x)
               /\ InHand(x)' <=> InHand(x)
               /\ Posted(x)' <=> Posted(x)
    BY <1>1, <1>3 DEF queues, Queued, Pending, InHand, Posted, Serving
  <2>2. Typed'
    BY ZenonT(40), <1>1, <1>3 DEF IInv, Typed, Serving, queues
  <2>3. OnePlace' /\ Answered' /\ VerdictIsFinal' /\ NobodyWaitsForever'
    BY <1>1, <1>3, <2>1 DEF IInv, OnePlace, Answered, VerdictIsFinal, NobodyWaitsForever, queues, Serving
  <2>4. Production' /\ NoBlockAskedTwice'
    BY <1>1, <2>1, Kinds, ProductionStays, AskedStays
  <2>5. Held' /\ HeldBounded'
    BY <1>1, HeldStays
  <2> QED BY <2>2, <2>3, <2>4, <2>5 DEF IInv
<1> QED BY <1>2, <1>3 DEF NextRequest

\* The thread answers the request it serves: no answer was given before, and no
\* caller has gone on with one.
LEMMA AnswerKeeps ==
  ASSUME IInv, worker \in {"visit", "generated", "answer"}, cxt' = cxt,
         promise' = [promise EXCEPT ![cxt] = 1],
         except' = except \/ \E why \in {"canceled", "failed", "auth"} : except' = [except EXCEPT ![cxt] = why],
         worker' = "next" \/ (worker' \in {"ignored", "executed"} /\ worker = "visit" /\ cxt \in P2pBlock),
         call' = call, held_block_count' = held_block_count,
         priority_write_queue' = priority_write_queue, write_queue' = write_queue,
         finish_status' = finish_status, produce_block_data' = produce_block_data,
         head' = head, produced' = produced, witness' = witness, world' = world
  PROVE  IInv'
<1>1. cxt \in Request /\ Pending(cxt) /\ promise[cxt] = 0 /\ except[cxt] = "none" /\ ~Queued(cxt)
  BY DEF IInv, Typed, Answered, OnePlace, Pending, Serving
<1>2. /\ promise' \in [Request -> 0..1] /\ promise'[cxt] = 1
      /\ except' \in [Request -> {"none", "canceled", "failed", "auth"}]
      /\ \A x \in Request : x # cxt => promise'[x] = promise[x] /\ except'[x] = except[x]
  BY <1>1 DEF IInv, Typed
<1>3. Typed'
  BY Zenon, <1>1, <1>2 DEF IInv, Typed, Serving
<1>4. /\ \A x : Queued(x)' <=> Queued(x)
      /\ \A x : Posted(x)' <=> Posted(x)
      /\ \A x : InHand(x)' => InHand(x)
      /\ \A x : Pending(x)' <=> Pending(x) /\ x # cxt
  BY <1>1 DEF Queued, Posted, InHand, Pending, Serving
<1>5. OnePlace'
  BY Zenon, <1>1, <1>4 DEF IInv, OnePlace
<1>6. Answered' /\ NobodyWaitsForever'
  BY <1>1, <1>2, <1>4 DEF IInv, Typed, OnePlace, Answered, NobodyWaitsForever, Posted
<1>7. VerdictIsFinal'
  BY <1>1, <1>2, Kinds DEF IInv, Answered, VerdictIsFinal, Typed
<1>8. Production' /\ NoBlockAskedTwice'
  BY Zenon, <1>4, Kinds, ProductionStays, AskedStays
<1>9. Held' /\ HeldBounded'
  BY HeldStays
<1> QED BY Zenon, <1>3, <1>5, <1>6, <1>7, <1>8, <1>9 DEF IInv

\* The promise of a request that is served is set from 0 to 1.
LEMMA Triggered ==
  ASSUME IInv, worker \in {"visit", "generated", "answer"}, Trigger(cxt)
  PROVE  promise' = [promise EXCEPT ![cxt] = 1]
<1>1. cxt \in Request /\ promise[cxt] = 0
  BY DEF IInv, Typed, Answered, Pending, Serving
<1> QED BY <1>1 DEF Trigger, IInv, Typed

\* A request met after the interruption is answered without being executed.
LEMMA VisitInterruptedKeeps ==
  ASSUME IInv, VisitInterrupted
  PROVE  IInv'
<1>1. /\ worker = "visit" /\ worker' = "next" /\ cxt' = cxt /\ Trigger(cxt)
      /\ except' = [except EXCEPT ![cxt] = "canceled"]
      /\ call' = call /\ held_block_count' = held_block_count
      /\ priority_write_queue' = priority_write_queue /\ write_queue' = write_queue
      /\ finish_status' = finish_status /\ produce_block_data' = produce_block_data
      /\ head' = head /\ produced' = produced /\ witness' = witness /\ world' = world
  BY DEF VisitInterrupted, Fails, queues, flags, holding, chain
<1> QED BY <1>1, AnswerKeeps, Triggered

\* A block of the network is executed, ignored or fails.
LEMMA VisitBlockKeeps ==
  ASSUME IInv, VisitBlock
  PROVE  IInv'
<1>1. /\ worker = "visit" /\ cxt' = cxt /\ Trigger(cxt) /\ cxt \in P2pBlock
      /\ except' = except \/ except' = [except EXCEPT ![cxt] = "failed"]
      /\ worker' \in {"next", "ignored", "executed"}
      /\ call' = call /\ held_block_count' = held_block_count
      /\ priority_write_queue' = priority_write_queue /\ write_queue' = write_queue
      /\ finish_status' = finish_status /\ produce_block_data' = produce_block_data
      /\ head' = head /\ produced' = produced /\ witness' = witness /\ world' = world
  BY DEF VisitBlock, Fails, queues, flags, holding, chain
<1> QED BY <1>1, AnswerKeeps, Triggered

\* A transaction is executed or fails, and is answered.
LEMMA VisitTransactionKeeps ==
  ASSUME IInv, VisitTransaction
  PROVE  IInv'
<1>1. /\ worker = "visit" /\ worker' = "next" /\ cxt' = cxt /\ Trigger(cxt)
      /\ except' = except \/ \E why \in {"failed", "auth"} : except' = [except EXCEPT ![cxt] = why]
      /\ call' = call /\ held_block_count' = held_block_count
      /\ priority_write_queue' = priority_write_queue /\ write_queue' = write_queue
      /\ finish_status' = finish_status /\ produce_block_data' = produce_block_data
      /\ head' = head /\ produced' = produced /\ witness' = witness /\ world' = world
  BY DEF VisitTransaction, Fails, queues, flags, holding, chain
<1> QED BY <1>1, AnswerKeeps, Triggered

\* The promise of the generated block is set after it was pushed.
LEMMA AnswerGeneratedKeeps ==
  ASSUME IInv, AnswerGenerated
  PROVE  IInv'
<1>1. /\ worker = "answer" /\ worker' = "next" /\ cxt' = cxt /\ Trigger(cxt) /\ except' = except
      /\ call' = call /\ held_block_count' = held_block_count
      /\ priority_write_queue' = priority_write_queue /\ write_queue' = write_queue
      /\ finish_status' = finish_status /\ produce_block_data' = produce_block_data
      /\ head' = head /\ produced' = produced /\ witness' = witness /\ world' = world
  BY DEF AnswerGenerated, queues, flags, holding, chain
<1> QED BY <1>1, AnswerKeeps, Triggered

\* A generation request makes a block, or fails.
LEMMA VisitGenerateKeeps ==
  ASSUME IInv, VisitGenerate
  PROVE  IInv'
<1>1. /\ worker = "visit" /\ cxt' = cxt /\ cxt \in GenBlock
      /\ call' = call /\ held_block_count' = held_block_count
      /\ priority_write_queue' = priority_write_queue /\ write_queue' = write_queue
      /\ finish_status' = finish_status /\ produce_block_data' = produce_block_data
      /\ head' = head /\ produced' = produced /\ witness' = witness /\ world' = world
  BY DEF VisitGenerate, GenerateBlock, queues, flags, holding, chain
<1>2. CASE worker' = "next" /\ Fails(cxt, "failed") /\ Trigger(cxt)
  BY <1>1, <1>2, AnswerKeeps, Triggered DEF Fails
<1>3. CASE worker' = "generated" /\ except' = except /\ promise' = promise
  <2>1. Typed'
    BY Zenon, <1>1, <1>3 DEF IInv, Typed, Serving
  <2>2. OnePlace' /\ Answered' /\ NobodyWaitsForever' /\ VerdictIsFinal'
    BY Zenon, <1>1, <1>3 DEF IInv, Typed, OnePlace, Answered, NobodyWaitsForever, VerdictIsFinal,
       Queued, InHand, Pending, Posted, Serving
  <2>3. Production' /\ NoBlockAskedTwice'
    BY <1>1, <1>3, Kinds, ProductionStays, AskedStays DEF Queued, InHand, Pending, Posted, Serving
  <2>4. Held' /\ HeldBounded'
    BY Zenon, <1>1, HeldStays
  <2> QED BY <2>1, <2>2, <2>3, <2>4 DEF IInv
<1> QED BY <1>2, <1>3 DEF VisitGenerate, GenerateBlock

\* The first component of a pair.
LEMMA PairFirst == \A a, b : <<a, b>>[1] = a
OBVIOUS

\* A request the thread has in hand becomes the head: none before it was.
LEMMA NewHead ==
  ASSUME IInv, worker \in {"executed", "generated"}, cxt' = cxt,
         worker' \in {"next", "answer"}, call' = call, promise' = promise, except' = except,
         worker' = "answer" <=> worker = "generated", head'.id = cxt,
         produce_block_data'.head = head'.id, held_block_count' = held_block_count,
         \/ produced' = produced
         \/ worker = "generated" /\ \E s : produced' = produced \cup {<<head.id, s>>},
         priority_write_queue' = priority_write_queue, write_queue' = write_queue,
         finish_status' = finish_status, witness' = witness, world' = world
  PROVE  IInv'
<1>1. cxt \in Request /\ InHand(cxt) /\ Posted(cxt) /\ ~Queued(cxt) /\ cxt \in P2pBlock \cup GenBlock
  BY Zenon DEF IInv, Typed, OnePlace, InHand, Serving
<1>2. /\ \A x : Queued(x)' <=> Queued(x)
      /\ \A x : Posted(x)' <=> Posted(x)
      /\ \A x : InHand(x)' <=> InHand(x) /\ x # cxt
      /\ \A x : Pending(x)' <=> Pending(x)
  BY Zenon, <1>1 DEF Queued, Posted, InHand, Pending, Serving
<1>3. Typed'
  BY Zenon, <1>1 DEF IInv, Typed, Serving
<1>4. OnePlace' /\ Answered' /\ NobodyWaitsForever' /\ VerdictIsFinal'
  BY Zenon, <1>1, <1>2 DEF IInv, OnePlace, Answered, NobodyWaitsForever, VerdictIsFinal, Serving
<1>5. \A h : Applied(h) => Applied(h)' /\ h # cxt
  BY Zenon, <1>1, <1>2, Kinds DEF Applied
<1>6. Applied(cxt)'
  BY Zenon, <1>1, <1>2 DEF Applied
<1>7. \A p \in produced' : p[1] # cxt /\ Applied(p[1])'
  <2>1. Applied(head.id) /\ \A p \in produced : Applied(p[1])
    BY Zenon DEF IInv, Production
  <2>2. ASSUME NEW p \in produced' PROVE Applied(p[1])
    <3>1. CASE p \in produced
      BY Zenon, <2>1, <3>1
    <3>2. CASE p \notin produced
      <4>1. PICK s : p = <<head.id, s>>
        BY Zenon, <2>2, <3>2
      <4>2. p[1] = head.id
        BY Zenon, <4>1, PairFirst
      <4> QED BY Zenon, <2>1, <4>2
    <3> QED BY Zenon, <3>1, <3>2
  <2> QED BY Zenon, <1>5, <2>2
<1>8. Production'
  BY Zenon, <1>2, <1>6, <1>7 DEF IInv, Production
<1>9. NoBlockAskedTwice'
  <2>1. CASE produced' = produced
    BY <2>1, AskedStays
  <2>2. CASE worker = "generated"
    <3>1. Pending(cxt) /\ cxt \in GenBlock
      BY SMTT(30), <2>2 DEF Pending, IInv, Typed
    <3>2. \A g \in GenBlock : ~(witness.at = "push" /\ witness.request = g /\ call[g] = "none")
      BY <1>1, <3>1 DEF IInv, Production, Posted
    <3> QED BY <3>2 DEF NoBlockAskedTwice
  <2> QED BY <2>1, <2>2
<1>10. Held' /\ HeldBounded'
  BY HeldStays
<1> QED BY Zenon, <1>3, <1>4, <1>8, <1>9, <1>10 DEF IInv

\* The generated block is pushed and becomes the head, or fails; a failure is
\* answered.
LEMMA FinishGeneratedKeeps ==
  ASSUME IInv, FinishGenerated
  PROVE  IInv'
<1>1. /\ worker = "generated" /\ cxt' = cxt
      /\ call' = call /\ held_block_count' = held_block_count
      /\ priority_write_queue' = priority_write_queue /\ write_queue' = write_queue
      /\ finish_status' = finish_status /\ witness' = witness /\ world' = world
  BY DEF FinishGenerated, queues, flags, holding
<1>2. CASE worker' = "next" /\ Fails(cxt, "failed") /\ Trigger(cxt) /\ UNCHANGED chain
  BY Zenon, <1>1, <1>2, AnswerKeeps, Triggered DEF Fails, chain
<1>3. CASE /\ worker' = "answer" /\ FinishPush([id |-> cxt, slot |-> witness.slot])
           /\ produced' = produced \cup {<<head.id, witness.slot>>}
           /\ UNCHANGED <<promise, except>>
  <2>1. head'.id = cxt /\ produce_block_data'.head = head'.id
    BY <1>3 DEF FinishPush, UpdateProduceBlockData
  <2> QED BY Zenon, <1>1, <1>3, <2>1, NewHead
<1> QED BY Zenon, <1>2, <1>3 DEF FinishGenerated

\* The caller of a block went on when its transactions were executed; what comes
\* after may only add an exception nobody reads.
LEMMA FinishBlockKeeps ==
  ASSUME IInv, FinishBlock
  PROVE  IInv'
<1>1. /\ worker \in {"ignored", "executed"} /\ cxt' = cxt /\ cxt \in P2pBlock /\ worker' = "next"
      /\ call' = call /\ held_block_count' = held_block_count /\ produced' = produced
      /\ priority_write_queue' = priority_write_queue /\ write_queue' = write_queue
      /\ finish_status' = finish_status /\ witness' = witness /\ world' = world
  BY Zenon DEF FinishBlock, queues, flags, holding
<1>2. CASE worker = "executed" /\ FinishPush([id |-> cxt, slot |-> slot[cxt]]) /\ UNCHANGED <<promise, except>>
  <2>1. head'.id = cxt /\ produce_block_data'.head = head'.id
    BY <1>2 DEF FinishPush, UpdateProduceBlockData
  <2> QED BY Zenon, <1>1, <1>2, <2>1, NewHead
<1>3. CASE \/ worker = "ignored" /\ FinishPush(head) /\ UNCHANGED <<promise, except>>
           \/ Fails(cxt, "failed") /\ Trigger(cxt) /\ UNCHANGED <<head, produce_block_data>>
  <2>1. head' = head /\ produce_block_data'.head = head.id
    <3>1. CASE FinishPush(head)
      BY <3>1 DEF FinishPush, UpdateProduceBlockData
    <3>2. CASE UNCHANGED <<head, produce_block_data>>
      BY Zenon, <3>2 DEF IInv, Production
    <3> QED BY <1>3, <3>1, <3>2
  <2>2. cxt \in Request /\ ~Queued(cxt) /\ Posted(cxt) /\ ~Pending(cxt)
    BY Zenon, <1>1, Kinds DEF IInv, OnePlace, InHand, Pending, Serving
  <2>3. /\ promise' \in [Request -> 0..1] /\ except' \in [Request -> {"none", "canceled", "failed", "auth"}]
        /\ \A x \in Request : promise'[x] = promise[x] \/ (x = cxt /\ promise'[x] = 1)
        /\ \A x \in Request : x # cxt => except'[x] = except[x]
    BY <1>3, <2>2 DEF Trigger, Fails, IInv, Typed
  <2>4. /\ \A x : Queued(x)' <=> Queued(x)
        /\ \A x : Posted(x)' <=> Posted(x)
        /\ \A x : InHand(x)' => InHand(x)
        /\ \A x : Pending(x)' <=> Pending(x)
    BY Zenon, <1>1 DEF Queued, Posted, InHand, Pending, Serving
  <2>5. Typed'
    BY Zenon, <1>1, <2>3 DEF IInv, Typed, Serving
  <2>6. OnePlace'
    BY Zenon, <1>1, <2>4 DEF IInv, OnePlace, Serving
  <2>7. Answered' /\ NobodyWaitsForever'
    <3>1. ASSUME NEW x \in Request
          PROVE  /\ x # cxt => promise'[x] = promise[x] /\ except'[x] = except[x]
                 /\ promise[x] > 0 => promise'[x] > 0
                 /\ call[x] \in {"none", "held", "refused"} => x # cxt
                 /\ Pending(x) => x # cxt
      BY <2>2, <2>3 DEF IInv, Typed, Posted
    <3> QED BY Zenon, <1>1, <2>4, <3>1 DEF IInv, Answered, NobodyWaitsForever
  <2>8. VerdictIsFinal'
    BY Zenon, <1>1, <2>3, Kinds DEF IInv, VerdictIsFinal
  <2>9. Production'
    <3>1. ASSUME NEW h, Applied(h) PROVE Applied(h)'
      BY <2>4, <3>1 DEF Applied
    <3> QED BY Zenon, <1>1, <2>1, <2>4, <3>1 DEF IInv, Production
  <2>10. NoBlockAskedTwice' /\ Held' /\ HeldBounded'
    BY Zenon, <1>1, HeldStays, AskedStays
  <2> QED BY Zenon, <2>5, <2>6, <2>7, <2>8, <2>9, <2>10 DEF IInv
<1> QED BY <1>1, <1>2, <1>3 DEF FinishBlock

\* The thread ends.
LEMMA ExitKeeps ==
  ASSUME IInv, Exit
  PROVE  IInv'
<1>1. /\ worker = "exit" /\ worker' = "exited" /\ finish_status' = TRUE /\ cxt' = cxt
      /\ call' = call /\ held_block_count' = held_block_count
      /\ priority_write_queue' = priority_write_queue /\ write_queue' = write_queue
      /\ promise' = promise /\ except' = except /\ produce_block_data' = produce_block_data
      /\ head' = head /\ produced' = produced /\ witness' = witness /\ world' = world
  BY Zenon DEF Exit, queues, holding, requests, chain
<1>2. /\ \A x : Queued(x)' <=> Queued(x)
      /\ \A x : Posted(x)' <=> Posted(x)
      /\ \A x : InHand(x)' <=> InHand(x)
      /\ \A x : Pending(x)' <=> Pending(x)
  BY Zenon, <1>1 DEF Queued, Posted, InHand, Pending, Serving
<1>3. Typed'
  BY Zenon, <1>1 DEF IInv, Typed, Serving
<1>4. OnePlace' /\ Answered' /\ NobodyWaitsForever' /\ VerdictIsFinal'
  BY Zenon, <1>1, <1>2 DEF IInv, OnePlace, Answered, NobodyWaitsForever, VerdictIsFinal, Serving
<1>5. Production' /\ NoBlockAskedTwice'
  BY Zenon, <1>1, <1>2, Kinds, ProductionStays, AskedStays
<1>6. Held' /\ HeldBounded'
  BY <1>1, HeldStays
<1> QED BY <1>3, <1>4, <1>5, <1>6 DEF IInv
====
