---- MODULE WriteQueueProofs ----
(* What the write queue promises to its callers, for any requests, worlds and  *)
(* bounds.                                                                     *)
EXTENDS WriteQueueInvariant, FiniteSetTheorems

--------------------
(* The callers *)

\* A caller that slept goes on, and the counter goes down.
LEMMA OneAwake ==
  ASSUME IInv, world' = world, NEW r \in Asleep, Asleep' = Asleep \ {r},
         held_block_count' = held_block_count - 1,
         \A x \in Request : call'[x] = "held" => call[x] = "held"
  PROVE  Held' /\ HeldBounded'
<1>1. IsFiniteSet(Asleep') /\ Cardinality(Asleep') = Cardinality(Asleep) - 1
  BY FS_RemoveElement DEF IInv, Held
<1>2. Early \subseteq Request /\ Early \subseteq P2pBlock /\ Early' = Early
  BY WorldTypes, Kinds DEF IInv, Typed, Early
<1>3. {x \in Early : call'[x] = "held"} \subseteq {x \in Early : call[x] = "held"}
  BY <1>2
<1>4. {x \in Early : call[x] = "held"} \subseteq Asleep
  BY <1>2 DEF Asleep
<1>5. IsFiniteSet({x \in Early : call[x] = "held"})
  BY <1>4, FS_Subset DEF IInv, Held
<1>6. /\ Cardinality({x \in Early : call'[x] = "held"}) <= Cardinality({x \in Early : call[x] = "held"})
      /\ Cardinality({x \in Early : call'[x] = "held"}) \in Nat
      /\ Cardinality({x \in Early : call[x] = "held"}) \in Nat
  BY Zenon, <1>3, <1>5, FS_Subset, FS_CardinalityType
<1>7. HeldBounded'
  BY <1>2, <1>6, QueueAssumption DEF IInv, HeldBounded
<1> QED BY <1>1, <1>7 DEF IInv, Held

\* accept_block puts the caller of an early block to sleep and counts it.
LEMMA HoldBlockKeeps ==
  ASSUME IInv, NEW r \in Request, HoldBlock(r)
  PROVE  IInv'
<1> DEFINE s == IF held_block_count + 1 <= max_held_blocks THEN "held" ELSE "refused"
<1>1. /\ call[r] = "none" /\ call' = [call EXCEPT ![r] = s] /\ r \in Early
      /\ held_block_count' = held_block_count + 1
      /\ priority_write_queue' = priority_write_queue /\ write_queue' = write_queue
      /\ finish_status' = finish_status /\ worker' = worker /\ cxt' = cxt
      /\ promise' = promise /\ except' = except /\ produce_block_data' = produce_block_data
      /\ head' = head /\ produced' = produced /\ witness' = witness /\ world' = world
  BY DEF HoldBlock, Becomes, queues, flags, requests, chain
<1>2. s \in {"held", "refused"}
  OBVIOUS
<1> HIDE DEF s
<1>3. r \in P2pBlock /\ Early \subseteq P2pBlock /\ P2pBlock \subseteq Request
  BY Zenon, <1>1, WorldTypes, Kinds DEF IInv, Typed
<1>4. Typed'
  BY ZenonT(40), <1>1, <1>2 DEF IInv, Typed
<1>5. OnePlace' /\ Answered' /\ NobodyWaitsForever' /\ VerdictIsFinal'
  BY <1>1, <1>2, <1>3, Kinds DEF IInv, Typed, OnePlace, Answered, NobodyWaitsForever, VerdictIsFinal,
     Queued, InHand, Pending, Posted
<1>6. Production' /\ NoBlockAskedTwice'
  BY ZenonT(40), <1>1, <1>2, <1>3, Kinds, ProductionStays, AskedStays DEF IInv, Typed, Queued, InHand, Pending, Posted
<1>7. Asleep' = Asleep \cup {r} /\ r \notin Asleep
  BY <1>1, <1>2 DEF Asleep, IInv, Typed
<1>8. /\ IsFiniteSet(Asleep') /\ Cardinality(Asleep') = Cardinality(Asleep) + 1
      /\ held_block_count \in Nat
  BY Zenon, <1>7, FS_AddElement, FS_CardinalityType DEF IInv, Held
<1>9. Held'
  BY Zenon, <1>1, <1>3, <1>7, <1>8 DEF IInv, Held
<1>10. HeldBounded'
  <2>1. CASE s = "refused"
    <3>1. {x \in Early' : call'[x] = "held"} = {x \in Early : call[x] = "held"}
      BY Zenon, <1>1, <1>3, <2>1 DEF Early, IInv, Typed
    <3> QED BY Zenon, <3>1 DEF HeldBounded, IInv
  <2>2. CASE s = "held"
    <3>1. {x \in Early' : call'[x] = "held"} \subseteq Asleep'
      BY <1>1, <1>3 DEF Early, Asleep
    <3>2. Cardinality({x \in Early' : call'[x] = "held"}) <= Cardinality(Asleep')
      BY Zenon, <1>8, <3>1, FS_Subset
    <3>3. held_block_count + 1 <= max_held_blocks
      BY <2>2 DEF s
    <3>4. Cardinality({x \in Early' : call'[x] = "held"}) \in Nat /\ max_held_blocks \in Nat
      BY Zenon, <1>8, <3>1, FS_Subset, FS_CardinalityType, QueueAssumption
    <3> QED BY <1>8, <3>2, <3>3, <3>4 DEF HeldBounded, IInv, Held
  <2> QED BY Zenon, <1>2, <2>1, <2>2
<1> QED BY Zenon, <1>4, <1>5, <1>6, <1>9, <1>10 DEF IInv

\* The caller of one early block too many is refused and no longer counted.
LEMMA RefuseHeldKeeps ==
  ASSUME IInv, NEW r \in Request, RefuseHeld(r)
  PROVE  IInv'
<1>1. /\ call[r] = "refused" /\ call' = [call EXCEPT ![r] = "threw"]
      /\ held_block_count' = held_block_count - 1
      /\ priority_write_queue' = priority_write_queue /\ write_queue' = write_queue
      /\ finish_status' = finish_status /\ worker' = worker /\ cxt' = cxt
      /\ promise' = promise /\ except' = except /\ produce_block_data' = produce_block_data
      /\ head' = head /\ produced' = produced /\ witness' = witness /\ world' = world
  BY DEF RefuseHeld, Becomes, queues, flags, requests, chain
<1>2. r \in P2pBlock
  BY Zenon, <1>1 DEF IInv, Held, Asleep
<1>3. Typed'
  BY Zenon, <1>1 DEF IInv, Typed
<1>4. OnePlace' /\ Answered' /\ NobodyWaitsForever' /\ VerdictIsFinal'
  BY ZenonT(40), <1>1, <1>2, Kinds DEF IInv, Typed, OnePlace, Answered, NobodyWaitsForever, VerdictIsFinal,
     Queued, InHand, Pending, Posted
<1>5. Production' /\ NoBlockAskedTwice'
  BY Zenon, <1>1, <1>2, Kinds, ProductionStays, AskedStays DEF IInv, Typed, Queued, InHand, Pending, Posted
<1>6. Held' /\ HeldBounded'
  <2>1. call' \in [Request -> {"none", "held", "refused", "queued", "waiting", "returned", "threw"}]
    BY <1>3 DEF Typed
  <2>2. Asleep' = Asleep \ {r} /\ r \in Asleep
    BY <1>1 DEF Asleep, IInv, Typed
  <2> QED BY <1>1, <1>2, <2>2, OneAwake
<1> QED BY Zenon, <1>3, <1>4, <1>5, <1>6 DEF IInv

\* A held caller wakes at the release time and posts its block, or finds the
\* node finished.
LEMMA ReleaseHeldKeeps ==
  ASSUME IInv, NEW r \in Request, ReleaseHeld(r)
  PROVE  IInv'
<1> DEFINE s == IF finish_status THEN "threw" ELSE "queued"
<1>1. /\ call[r] = "held" /\ call' = [call EXCEPT ![r] = s]
      /\ held_block_count' = held_block_count - 1
      /\ IF finish_status THEN priority_write_queue' = priority_write_queue /\ write_queue' = write_queue
         ELSE Enqueue(r)
      /\ finish_status' = finish_status /\ worker' = worker /\ cxt' = cxt
      /\ promise' = promise /\ except' = except /\ produce_block_data' = produce_block_data
      /\ head' = head /\ produced' = produced /\ witness' = witness /\ world' = world
  BY DEF ReleaseHeld, Becomes, queues, flags, requests, chain
<1>2. r \in P2pBlock /\ r \notin GenBlock
  BY <1>1, Kinds DEF IInv, Held, Asleep
<1>3. s \in {"threw", "queued"} /\ (s = "queued" <=> ~finish_status)
  BY Zenon
<1> HIDE DEF s
<1>4. /\ ~InHand(r) /\ ~Pending(r) /\ ~Queued(r) /\ promise[r] = 0 /\ except[r] = "none"
  BY Zenon, <1>1 DEF IInv, OnePlace, Answered, Posted, Typed, InHand
<1>5. /\ priority_write_queue' \in Seq(Priority) /\ write_queue' \in Seq(Request \ Priority)
      /\ Once(priority_write_queue') /\ Once(write_queue')
      /\ \A x : Queued(x)' <=> (Queued(x) \/ (x = r /\ ~finish_status))
  BY Zenon, <1>1, <1>4, Enqueued DEF IInv, Typed, OnePlace, Queued
<1>6. Typed'
  BY Zenon, <1>1, <1>3, <1>5 DEF IInv, Typed
<1>7. /\ \A x \in Request : Posted(x) => Posted(x)'
      /\ \A x \in Request : InHand(x)' <=> InHand(x) \/ (x = r /\ ~finish_status)
      /\ \A x \in Request : Pending(x)' <=> Pending(x) \/ (x = r /\ ~finish_status)
  BY Zenon, <1>1, <1>3, <1>5 DEF IInv, Typed, Posted, InHand, Pending
<1>8. OnePlace'
  <2>1. worker' \in Serving \cup {"answer"} => ~Queued(cxt)'
    BY Zenon, <1>1, <1>4, <1>5 DEF IInv, OnePlace, Typed, InHand, Pending, Serving
  <2>2. Posted(r)' 
    BY ZenonT(40), <1>1, <1>3 DEF IInv, Typed, Posted
  <2> QED BY ZenonT(40), <1>5, <1>7, <2>1, <2>2 DEF IInv, OnePlace
<1>9. Answered' /\ NobodyWaitsForever' /\ VerdictIsFinal'
  BY SMTT(30), <1>1, <1>2, <1>3, <1>4, <1>7, Kinds DEF IInv, Typed, Answered, NobodyWaitsForever, VerdictIsFinal
<1>10. Production' /\ NoBlockAskedTwice'
  BY ZenonT(40), <1>1, <1>2, <1>3, <1>7, Kinds, ProductionStays, AskedStays DEF IInv, Typed
<1>11. Held' /\ HeldBounded'
  <2>2. Asleep' = Asleep \ {r} /\ r \in Asleep
    BY Zenon, <1>1, <1>3 DEF Asleep, IInv, Typed
  <2> QED BY <1>1, <1>2, <1>3, <2>2, OneAwake
<1> QED BY ZenonT(40), <1>6, <1>8, <1>9, <1>10, <1>11 DEF IInv

\* Time passing changes nothing of the queue.
LEMMA TimeArrivesKeeps ==
  ASSUME IInv, NEW r \in Request, TimeArrives(r)
  PROVE  IInv'
<1>1. /\ call' = call /\ held_block_count' = held_block_count
      /\ priority_write_queue' = priority_write_queue /\ write_queue' = write_queue
      /\ finish_status' = finish_status /\ worker' = worker /\ cxt' = cxt
      /\ promise' = promise /\ except' = except /\ produce_block_data' = produce_block_data
      /\ head' = head /\ produced' = produced /\ witness' = witness /\ world' = world
  BY DEF TimeArrives, queues, flags, requests, chain
<1> QED BY Zenon, <1>1, NothingMoves

\* A caller puts its request at the end of its queue.
LEMMA PostKeeps ==
  ASSUME IInv, NEW r \in Request, Post(r)
  PROVE  IInv'
<1> DEFINE s == IF r \in ColonyTx THEN "returned" ELSE "queued"
<1>1. /\ call[r] = "none" /\ call' = [call EXCEPT ![r] = s] /\ Enqueue(r)
      /\ r \in GenBlock => witness.at = "push" /\ witness.request = r
      /\ held_block_count' = held_block_count
      /\ finish_status' = finish_status /\ worker' = worker /\ cxt' = cxt
      /\ promise' = promise /\ except' = except /\ produce_block_data' = produce_block_data
      /\ head' = head /\ produced' = produced /\ witness' = witness /\ world' = world
  BY DEF Post, Becomes, queues, flags, requests, chain, holding
<1>2. s \in {"returned", "queued"} /\ (s = "returned" => r \in ColonyTx)
  BY Zenon
<1> HIDE DEF s
<1>3. ~InHand(r) /\ ~Pending(r) /\ ~Queued(r) /\ promise[r] = 0 /\ except[r] = "none"
  BY Zenon, <1>1 DEF IInv, OnePlace, Answered, Posted, Typed, InHand
<1>4. /\ priority_write_queue' \in Seq(Priority) /\ write_queue' \in Seq(Request \ Priority)
      /\ Once(priority_write_queue') /\ Once(write_queue')
      /\ \A x : Queued(x)' <=> (Queued(x) \/ x = r)
  BY Zenon, <1>1, <1>3, Enqueued
<1>5. Typed'
  BY Zenon, <1>1, <1>2, <1>4 DEF IInv, Typed
<1>6. /\ \A x \in Request : Posted(x)' <=> Posted(x) \/ x = r
      /\ \A x \in Request : InHand(x)' <=> InHand(x) \/ x = r
      /\ \A x \in Request : Pending(x)' <=> Pending(x) \/ x = r
  BY Zenon, <1>1, <1>2, <1>4 DEF IInv, Typed, Posted, InHand, Pending
<1>7. OnePlace'
  <2>1. worker' \in Serving \cup {"answer"} => ~Queued(cxt)'
    BY ZenonT(40), <1>1, <1>3, <1>4 DEF IInv, OnePlace, Typed, InHand, Pending, Serving
  <2> QED BY Zenon, <1>4, <1>6, <2>1 DEF IInv, OnePlace
<1>8. Answered' /\ NobodyWaitsForever' /\ VerdictIsFinal'
  BY SMTT(30), <1>1, <1>2, <1>3, <1>6, Kinds DEF IInv, Typed, Answered, NobodyWaitsForever, VerdictIsFinal
<1>9. NoBlockAskedTwice'
  BY ZenonT(40), <1>1, <1>2, AskedStays, Kinds DEF IInv, Typed
<1>10. Production'
  <2>1. ASSUME NEW h, Applied(h) PROVE Applied(h)'
    BY Zenon, <1>1, <1>6, <2>1, Kinds DEF Applied, Posted
  <2>2. ASSUME NEW g \in GenBlock, Pending(g)'
        PROVE  /\ witness'.at = "ended" \/ (witness'.at = "push" /\ witness'.request = g)
               /\ call'[g] = "threw" => finish_status'
    BY ZenonT(40), <1>1, <1>2, <1>6, <2>2, Kinds DEF IInv, Production, Typed
  <2> QED BY Zenon, <1>1, <2>1, <2>2 DEF IInv, Production
<1>11. Held' /\ HeldBounded'
  BY Zenon, <1>1, <1>2, HeldStays DEF IInv, Typed
<1> QED BY ZenonT(40), <1>5, <1>7, <1>8, <1>9, <1>10, <1>11 DEF IInv

\* A caller looks at the status once its request is in the queue.
LEMMA CheckFinishedKeeps ==
  ASSUME IInv, NEW r \in Request, CheckFinished(r)
  PROVE  IInv'
<1> DEFINE s == IF finish_status THEN "threw" ELSE "waiting"
<1>1. /\ call[r] = "queued" /\ call' = [call EXCEPT ![r] = s]
      /\ held_block_count' = held_block_count
      /\ priority_write_queue' = priority_write_queue /\ write_queue' = write_queue
      /\ finish_status' = finish_status /\ worker' = worker /\ cxt' = cxt
      /\ promise' = promise /\ except' = except /\ produce_block_data' = produce_block_data
      /\ head' = head /\ produced' = produced /\ witness' = witness /\ world' = world
  BY DEF CheckFinished, Becomes, queues, flags, requests, chain, holding
<1>2. s \in {"threw", "waiting"} /\ (s = "threw" <=> finish_status)
  BY Zenon
<1> HIDE DEF s
<1>3. Typed'
  BY Zenon, <1>1, <1>2 DEF IInv, Typed
<1>4. OnePlace' /\ Answered' /\ NobodyWaitsForever' /\ VerdictIsFinal'
  BY ZenonT(40), <1>1, <1>2, Kinds DEF IInv, Typed, OnePlace, Answered, NobodyWaitsForever, VerdictIsFinal,
     Queued, InHand, Pending, Posted
<1>5. Production' /\ NoBlockAskedTwice'
  BY Zenon, <1>1, <1>2, Kinds, ProductionStays, AskedStays DEF IInv, Typed, Queued, InHand, Pending, Posted
<1>6. Held' /\ HeldBounded'
  BY ZenonT(40), <1>1, <1>2, HeldStays DEF IInv, Typed
<1> QED BY <1>3, <1>4, <1>5, <1>6 DEF IInv

\* A caller whose promise is set returns, throws or sends its transaction
\* again.
LEMMA WakeKeeps ==
  ASSUME IInv, NEW r \in Request, Wake(r)
  PROVE  IInv'
<1>1. /\ call[r] = "waiting" /\ promise[r] > 0
      /\ held_block_count' = held_block_count
      /\ priority_write_queue' = priority_write_queue /\ write_queue' = write_queue
      /\ finish_status' = finish_status /\ worker' = worker /\ cxt' = cxt
      /\ produce_block_data' = produce_block_data
      /\ head' = head /\ produced' = produced /\ witness' = witness /\ world' = world
  BY Zenon DEF Wake, queues, flags, chain, holding
<1>2. ~Pending(r)
  BY <1>1 DEF IInv, Answered, Typed
<1>3. CASE except[r] = "auth" /\ r \in ApiTx \ legacy
  <2>1. /\ call' = [call EXCEPT ![r] = "none"] /\ promise' = [promise EXCEPT ![r] = 0]
        /\ except' = [except EXCEPT ![r] = "none"]
    BY Zenon, <1>3 DEF Wake, Becomes
  <2>2. Typed'
    BY <1>1, <2>1 DEF IInv, Typed
  <2>3. ~InHand(r)
    BY ZenonT(40), <1>2, <1>3, Kinds DEF IInv, Typed, InHand, Pending, Serving
  <2>4. OnePlace' /\ Answered' /\ NobodyWaitsForever' /\ VerdictIsFinal'
    BY ZenonT(40), <1>1, <1>2, <1>3, <2>1, <2>3, Kinds DEF IInv, Typed, OnePlace, Answered, NobodyWaitsForever,
       VerdictIsFinal, Queued, InHand, Pending, Posted
  <2>5. Production' /\ NoBlockAskedTwice'
    BY Zenon, <1>1, <1>3, <2>1, Kinds, ProductionStays, AskedStays DEF IInv, Typed, Queued, InHand, Pending, Posted
  <2>6. Held' /\ HeldBounded'
    BY ZenonT(40), <1>1, <2>1, HeldStays DEF IInv, Typed
  <2> QED BY <2>2, <2>4, <2>5, <2>6 DEF IInv
<1>4. CASE ~(except[r] = "auth" /\ r \in ApiTx \ legacy)
  <2> DEFINE s == IF except[r] = "none" THEN "returned" ELSE "threw"
  <2>1. call' = [call EXCEPT ![r] = s] /\ promise' = promise /\ except' = except
    BY <1>4 DEF Wake, Becomes, requests
  <2>2. s \in {"returned", "threw"} /\ (s = "returned" <=> except[r] = "none")
    BY Zenon
  <2> HIDE DEF s
  <2>3. Typed'
    BY ZenonT(40), <1>1, <2>1, <2>2 DEF IInv, Typed
  <2>4. OnePlace' /\ Answered' /\ NobodyWaitsForever' /\ VerdictIsFinal'
    BY ZenonT(40), <1>1, <2>1, <2>2, Kinds DEF IInv, Typed, OnePlace, Answered, NobodyWaitsForever, VerdictIsFinal,
       Queued, InHand, Pending, Posted
  <2>5. Production' /\ NoBlockAskedTwice'
    BY ZenonT(40), <1>1, <1>2, <2>1, <2>2, Kinds, ProductionStays, AskedStays
       DEF IInv, Typed, Queued, InHand, Pending, Posted
  <2>6. Held' /\ HeldBounded'
    BY ZenonT(40), <1>1, <2>1, <2>2, HeldStays DEF IInv, Typed
  <2> QED BY <2>3, <2>4, <2>5, <2>6 DEF IInv
<1> QED BY Zenon, <1>3, <1>4

--------------------
(* The production loop *)

\* The loop copies data of the present head, which no generated block had for
\* its own.
LEMMA MaybeProduceKeeps ==
  ASSUME IInv, NEW g \in GenBlock, MaybeProduce(g)
  PROVE  IInv'
<1>1. /\ witness.at = "idle" /\ witness'.at = "push" /\ witness'.request = g
      /\ witness'.head = produce_block_data.head /\ worker' = worker /\ cxt' = cxt
      /\ call' = call /\ held_block_count' = held_block_count
      /\ priority_write_queue' = priority_write_queue /\ write_queue' = write_queue
      /\ finish_status' = finish_status
      /\ promise' = promise /\ except' = except /\ produce_block_data' = produce_block_data
      /\ head' = head /\ produced' = produced /\ world' = world
  BY Zenon DEF MaybeProduce, queues, flags, holding, requests, chain
<1>2. Typed' /\ OnePlace' /\ Answered' /\ NobodyWaitsForever' /\ VerdictIsFinal'
  BY <1>1, RequestsStay
<1>3. Production'
  <2>1. \A x : (Applied(x)' <=> Applied(x)) /\ (Pending(x)' <=> Pending(x))
    BY <1>1, RequestsStay
  <2>2. \A x \in GenBlock : ~Pending(x)
    BY Zenon, <1>1 DEF IInv, Production
  <2> QED BY Zenon, <1>1, <2>1, <2>2 DEF IInv, Production
<1>4. NoBlockAskedTwice'
  <2>1. <<witness'.head, witness'.slot>> \notin produced
    BY Zenon, <1>1 DEF IInv, Production
  <2> QED BY Zenon, <1>1, <2>1 DEF NoBlockAskedTwice
<1>5. Held' /\ HeldBounded'
  BY Zenon, <1>1, HeldStays
<1> QED BY Zenon, <1>2, <1>3, <1>4, <1>5 DEF IInv

\* The slot data is copied again after slots have passed.
LEMMA ProductionLagsKeeps ==
  ASSUME IInv, ProductionLags
  PROVE  IInv'
<1>1. /\ worker' = worker /\ cxt' = cxt
      /\ call' = call /\ held_block_count' = held_block_count
      /\ priority_write_queue' = priority_write_queue /\ write_queue' = write_queue
      /\ finish_status' = finish_status /\ produce_block_data'.head = head.id
      /\ promise' = promise /\ except' = except /\ witness' = witness
      /\ head' = head /\ produced' = produced /\ world' = world
  BY DEF ProductionLags, UpdateProduceBlockData, queues, flags, holding, requests
<1>2. Typed' /\ OnePlace' /\ Answered' /\ NobodyWaitsForever' /\ VerdictIsFinal'
  BY Zenon, <1>1, RequestsStay
<1>3. Production'
  <2>1. \A x : (Applied(x)' <=> Applied(x)) /\ (Pending(x)' <=> Pending(x))
    BY Zenon, <1>1, RequestsStay
  <2> QED BY Zenon, <1>1, <2>1 DEF IInv, Production
<1>4. NoBlockAskedTwice' /\ Held' /\ HeldBounded'
  BY Zenon, <1>1, HeldStays, AskedStays
<1> QED BY Zenon, <1>2, <1>3, <1>4 DEF IInv

\* The loop goes on only when its request is answered, or ends.
LEMMA ProductionLoopKeeps ==
  ASSUME IInv, ProductionLoop
  PROVE  IInv'
<1>1. /\ witness.at = "push" /\ call[witness.request] \in {"returned", "threw"}
      /\ worker' = worker /\ cxt' = cxt
      /\ call' = call /\ held_block_count' = held_block_count
      /\ priority_write_queue' = priority_write_queue /\ write_queue' = write_queue
      /\ finish_status' = finish_status /\ produce_block_data' = produce_block_data
      /\ promise' = promise /\ except' = except
      /\ head' = head /\ produced' = produced /\ world' = world
  BY DEF ProductionLoop, queues, holding, requests, chain
<1>2. witness'.at \in {"idle", "ended"} /\ (finish_status => witness'.at = "ended")
  BY Zenon DEF ProductionLoop, Idle
<1>3. Typed' /\ OnePlace' /\ Answered' /\ NobodyWaitsForever' /\ VerdictIsFinal'
  BY Zenon, <1>1, RequestsStay
<1>4. Production'
  <2>1. \A x : (Applied(x)' <=> Applied(x)) /\ (Pending(x)' <=> Pending(x))
    BY Zenon, <1>1, RequestsStay
  <2>2. ASSUME NEW x \in GenBlock, Pending(x), witness'.at = "idle" PROVE FALSE
    <3>1. x = witness.request /\ x \in Request /\ x \notin ColonyTx
      BY ZenonT(40), <1>1, <2>2, Kinds DEF IInv, Production
    <3>2. promise[x] = 0
      BY ZenonT(40), <2>2, <3>1 DEF IInv, Answered
    <3>3. call[x] = "threw"
      BY <1>1, <3>1, <3>2 DEF IInv, Answered, Typed
    <3> QED BY Zenon, <1>2, <2>2, <3>3 DEF IInv, Production
  <2> QED BY Zenon, <1>1, <1>2, <2>1, <2>2 DEF IInv, Production
<1>5. NoBlockAskedTwice' /\ Held' /\ HeldBounded'
  BY Zenon, <1>1, <1>2, HeldStays DEF NoBlockAskedTwice
<1> QED BY <1>3, <1>4, <1>5 DEF IInv

--------------------
(* The theorems *)

\* The node starts in the invariant.
LEMMA InitHolds ==
  ASSUME Init
  PROVE  IInv
<1>1. \A x : ~Queued(x) /\ ~Pending(x) /\ ~InHand(x)
  BY DEF Init, Queued, Pending, InHand, In, Serving
<1>2. Typed
  <2>1. priority_write_queue \in Seq(Priority) /\ write_queue \in Seq(Request \ Priority)
    BY DEF Init
  <2>2. /\ call \in [Request -> {"none", "held", "refused", "queued", "waiting", "returned", "threw"}]
        /\ except \in [Request -> {"none", "canceled", "failed", "auth"}]
    BY Zenon DEF Init
  <2>3. promise \in [Request -> 0..1]
    BY DEF Init
  <2>4. worker = "wait" /\ finish_status = FALSE /\ world \in Worlds
    BY Zenon DEF Init
  <2> QED BY Zenon, <2>1, <2>2, <2>3, <2>4 DEF Typed, Serving
<1>3. OnePlace /\ Answered /\ NobodyWaitsForever /\ VerdictIsFinal
  BY <1>1 DEF Init, OnePlace, Answered, NobodyWaitsForever, VerdictIsFinal, Once, Serving, Request
<1>4. Production /\ NoBlockAskedTwice
  BY Zenon, <1>1 DEF Init, Production, NoBlockAskedTwice, Applied, Idle
<1>5. Asleep = {} /\ {r \in Early : call[r] = "held"} = {}
  <2>1. Early \subseteq Request
    BY Zenon, <1>2, WorldTypes, Kinds DEF Typed
  <2> QED BY Zenon, <2>1 DEF Init, Asleep
<1>6. IsFiniteSet(Asleep) /\ Cardinality(Asleep) = 0 /\ held_block_count = 0 /\ Asleep \subseteq P2pBlock
  BY Zenon, <1>5, FS_EmptySet DEF Init
<1>7. Cardinality({r \in Early : call[r] = "held"}) = 0
  BY <1>5, FS_EmptySet, Zenon
<1>8. 0 <= max_held_blocks
  BY QueueAssumption
<1>9. Held /\ HeldBounded
  BY Zenon, <1>6, <1>7, <1>8 DEF Held, HeldBounded
<1> QED BY ZenonT(40), <1>2, <1>3, <1>4, <1>9 DEF IInv

\* Every step keeps the invariant.
LEMMA NextKeeps ==
  ASSUME IInv, [Next]_vars
  PROVE  IInv'
<1>1. CASE \E r \in Request : Post(r) \/ HoldBlock(r) \/ TimeArrives(r) \/ Caller(r)
  BY ZenonT(40), <1>1, PostKeeps, HoldBlockKeeps, TimeArrivesKeeps, CheckFinishedKeeps, WakeKeeps,
     RefuseHeldKeeps, ReleaseHeldKeeps DEF Caller
<1>2. CASE Serve
  BY ZenonT(40), <1>2, DequeueKeeps, VisitInterruptedKeeps, VisitBlockKeeps, FinishBlockKeeps, VisitTransactionKeeps,
     VisitGenerateKeeps, FinishGeneratedKeeps, AnswerGeneratedKeeps, NextRequestKeeps, ExitKeeps DEF Serve
<1>3. CASE (\E g \in GenBlock : MaybeProduce(g)) \/ ProductionLags \/ ProductionLoop
  BY Zenon, <1>3, MaybeProduceKeeps, ProductionLagsKeeps, ProductionLoopKeeps
<1>4. CASE EnterLiveMode \/ Interrupt \/ Shutdown \/ UNCHANGED vars
  <2>1. /\ call' = call /\ held_block_count' = held_block_count
        /\ priority_write_queue' = priority_write_queue /\ write_queue' = write_queue
        /\ finish_status' = finish_status /\ worker' = worker /\ cxt' = cxt
        /\ promise' = promise /\ except' = except /\ produce_block_data' = produce_block_data
        /\ head' = head /\ produced' = produced /\ witness' = witness /\ world' = world
    BY <1>4 DEF EnterLiveMode, Interrupt, Shutdown, vars, queues, flags, holding, requests, chain
  <2> QED BY Zenon, <2>1, NothingMoves
<1> QED BY Zenon, <1>1, <1>2, <1>3, <1>4 DEF Next

\* However callers, the thread, the witness loop and the shutdown interleave, no
\* caller waits for a thread that has left its loop.
THEOREM NobodyLeftWaiting == Spec => []NobodyWaitsForever
<1>1. Init => IInv
  BY Zenon, InitHolds
<1>2. IInv /\ [Next]_vars => IInv'
  BY NextKeeps
<1>3. IInv => NobodyWaitsForever
  BY Zenon DEF IInv
<1> QED BY <1>1, <1>2, <1>3, PTL DEF Spec

\* A promise is set at most once, a generated block is never asked for again, no
\* more than max_held_blocks callers sleep on early blocks, and a caller told that
\* its request was good has no exception stored in it.
THEOREM AnswersStayOrderly == Spec => []AnswersOrderly
<1>1. Init => IInv
  BY InitHolds
<1>2. IInv /\ [Next]_vars => IInv'
  BY NextKeeps
<1>3. IInv => AnswersOrderly
  BY DEF IInv, Typed, AnswersOrderly, PromiseSetOnce
<1> QED BY <1>1, <1>2, <1>3, PTL DEF Spec
====
