----------------------------- MODULE FullBlock -----------------------------
(***************************************************************************)
(* Blocks and transactions as the threads of a node share them.  A         *)
(* full_block_type or full_transaction_type computes each of its fields    *)
(* (the uncompressed bytes, the header, the merkle root, the keys that     *)
(* signed...) at the first call that needs it, under a mutex, and keeps    *)
(* the result behind an atomic flag that the getters read without the      *)
(* mutex.  The pool of worker threads makes the same calls in advance.     *)
(* The same transaction seen twice is one object: full_transaction_cache   *)
(* holds weak pointers, and the destructors only queue the digests that    *)
(* the next insertion will forget.                                         *)
(*                                                                         *)
(* A field is <<object, name>>.  A thread is a stack of calls over an      *)
(* agenda, the calls it still has to make.                                 *)
(***************************************************************************)
EXTENDS Integers, Sequences, FiniteSets

CONSTANTS Workers,      \* the threads of the pool
          Clients,      \* the network, writer and API threads, and main
          TxObject,     \* full_transaction_type objects
          TheBlock,     \* the one full_block_type object
          NoOne,
          BlockWorlds   \* block, transactions, settings, and the clients' agendas

VARIABLES bworld,
          value,      \* what a field holds
          ready,      \* the fields whose flag is set
          mutex,      \* who holds each mutex
          calls,      \* the stack of calls of each thread
          agenda,     \* what each thread has still to do
          got,        \* <<name, outcome>> of every getter that returned to a client
          keeps,      \* the threads holding the block
          mine,       \* the transaction object each thread holds
          full_transactions, \* the block's transactions, once decoded
          digest_of,  \* the merkle digest of each object created
          cache,      \* digest -> object, live or expired
          is_in_cache,\* objects marked so, whose destructor has not run
          digests_to_delete,
          work_queues,\* priority -> requests
          asleep,     \* workers waiting on the condition variable
          gone,       \* workers that returned from thread_function
          running, interrupted

bvars == <<bworld, value, ready, mutex, calls, agenda, got, keeps, mine, full_transactions,
           digest_of, cache, is_in_cache, digests_to_delete, work_queues, asleep, gone,
           running, interrupted>>
objects == <<keeps, mine, full_transactions, digest_of, cache, is_in_cache, digests_to_delete>>
pool == <<work_queues, asleep, gone, running, interrupted>>

Thread == Workers \cup Clients
BlockField == {"uncompressed", "header", "digest", "id", "unpacked", "compressed", "alternate",
               "message_hash", "signing_key", "merkle_root"}
TxField == {"merkle_digest", "message_hash", "digest", "signature_keys", "validation",
            "authorities", "legacy_pack"}
Field == ({TheBlock} \X BlockField) \cup (TxObject \X TxField)
Mutexes == (TxObject \X {"results"}) \cup
           ({TheBlock} \X {"compressed", "uncompressed", "header", "message_hash", "unpacked", "key_merkle"})

live_object(o) == \/ \E t \in Thread : mine[t] = o
                  \/ keeps # {} /\ \E i \in DOMAIN full_transactions : full_transactions[i] = o

(***************************************************************************)
(* The lazily computed fields                                              *)
(***************************************************************************)
\* A call of a getter looks at the flag first; a compute_ function goes to the mutex.
Get(o, f) == [of |-> o, want |-> f, f |-> f, at |-> "check", todo |-> <<>>]
Compute(o, f) == [Get(o, f) EXCEPT !.at = "lock"]

\* The mutex each function takes, the calls it makes while it holds it, the fields it reads.
decompress_block == [mutex |-> "uncompressed", calls |-> <<>>, reads |-> {"compressed"}]
decode_block_header ==
  [mutex |-> "header", calls |-> <<Compute(TheBlock, "uncompressed")>>, reads |-> {"uncompressed"}]
decode_block ==
  [mutex |-> "unpacked", calls |-> <<Compute(TheBlock, "header")>>, reads |-> {"header", "uncompressed"}]
\* the dictionary depends on the block's number, hence on its id
compress_block ==
  [mutex |-> "compressed", calls |-> <<Get(TheBlock, "id")>>, reads |-> {"uncompressed", "id"}]
alternate_compress_block ==
  [mutex |-> "compressed", calls |-> <<Compute(TheBlock, "uncompressed")>>, reads |-> {"uncompressed"}]
compute_legacy_block_message_hash ==
  [mutex |-> "message_hash", calls |-> <<Compute(TheBlock, "header")>>, reads |-> {"uncompressed", "id"}]
compute_signing_key ==
  [mutex |-> "key_merkle", calls |-> <<Compute(TheBlock, "header")>>, reads |-> {"header", "digest"}]
compute_merkle_root ==
  [mutex |-> "key_merkle", calls |-> <<Compute(TheBlock, "unpacked")>>, reads |-> {"unpacked"}]
\* every field of a transaction is computed from its bytes under its one mutex
transaction_function == [mutex |-> "results", calls |-> <<>>, reads |-> {}]

function_of(o, f) ==
  IF o # TheBlock THEN transaction_function
  ELSE CASE f = "uncompressed" -> decompress_block
         [] f = "header" -> decode_block_header
         [] f = "unpacked" -> decode_block
         [] f = "compressed" -> compress_block
         [] f = "alternate" -> alternate_compress_block
         [] f = "message_hash" -> compute_legacy_block_message_hash
         [] f = "signing_key" -> compute_signing_key
         [] f = "merkle_root" -> compute_merkle_root

mutex_of(o, f) == <<o, function_of(o, f).mutex>>

\* What the computation gives, or that it throws: a block whose header or transactions do
\* not unpack, a signature no key can be recovered from, a transaction that fails validate()
\* (whose exception is stored and thrown again at each call).
truth(o, f) ==
  CASE f = "compressed" -> IF bworld.form \in {"dict", "plain"} THEN bworld.form
                           ELSE IF bworld.bad = "header" /\ ~bworld.id_given THEN "throws" ELSE "dict"
    [] f = "alternate" -> "plain"
    [] f = "id" /\ bworld.id_given -> "right"
    [] f = "validation" -> IF digest_of[o] \in bworld.invalid THEN "throws" ELSE "right"
    [] o = TheBlock /\ f = "uncompressed" -> "right"
    [] o = TheBlock /\ bworld.bad = "header" -> "throws"
    [] f \in {"unpacked", "merkle_root"} /\ bworld.bad = "transactions" -> "throws"
    [] f = "signing_key" /\ bworld.bad = "signature" -> "throws"
    [] OTHER -> "right"

outcome(o, f) ==
  IF \A g \in function_of(o, f).reads : value[<<o, g>>] # "none" THEN truth(o, f) ELSE "wrong"

\* what a getter hands out; get_alternate_compressed_block prefers the stored block when
\* that one has no dictionary
handed_out(o, f) ==
  IF f = "alternate" /\ value[<<o, "compressed">>] = "plain" /\ <<o, "compressed">> \in ready
  THEN "plain" ELSE value[<<o, f>>]

\* get_block_id decodes the header, which gives the id along the way
computed_with(f) == IF f = "id" THEN "header" ELSE f

--------------------
(***************************************************************************)
(* full_transaction_cache                                                  *)
(***************************************************************************)
\* A digest erased although its entry is in use.
consume_all_blindly == [e \in DOMAIN cache \ digests_to_delete |-> cache[e]]

\* consume_all, under the cache's mutex: only entries that expired are erased
consume_all ==
  [e \in {e \in DOMAIN cache : e \notin digests_to_delete \/ live_object(cache[e])} |-> cache[e]]

\* create_from_block / create_from_serialized_transaction: new objects with the digests es,
\* and add_to_cache of each, which gives back the object in use if there is one
unused == TxObject \ DOMAIN digest_of
add_to_cache(es, use_transaction_cache) ==
  LET kept == IF use_transaction_cache THEN consume_all ELSE cache
      old == {i \in DOMAIN es : use_transaction_cache /\ es[i] \in DOMAIN kept /\ live_object(kept[es[i]])}
      made == CHOOSE s \in [DOMAIN es -> unused] : \A i, j \in DOMAIN es : i # j => s[i] # s[j]
      new == {made[i] : i \in DOMAIN es \ old}
      digests == [o \in DOMAIN digest_of \cup new |->
                    IF o \in new THEN es[CHOOSE i \in DOMAIN es : made[i] = o] ELSE digest_of[o]]
  IN  [result |-> [i \in DOMAIN es |-> IF i \in old THEN kept[es[i]] ELSE made[i]],
       digest_of |-> digests,
       cache |-> IF ~use_transaction_cache THEN cache
                 ELSE [e \in DOMAIN kept \cup {digests[o] : o \in new} |->
                         IF \E o \in new : digests[o] = e THEN CHOOSE o \in new : digests[o] = e ELSE kept[e]],
       marked |-> IF use_transaction_cache THEN new ELSE {},
       digests_to_delete |-> IF use_transaction_cache /\ es # <<>> THEN {} ELSE digests_to_delete]

Created(c) ==
  /\ digest_of' = c.digest_of /\ cache' = c.cache
  /\ is_in_cache' = is_in_cache \cup c.marked
  /\ digests_to_delete' = c.digests_to_delete

\* is_in_cache is read by the destructor, after the last reference is gone
Destroy(o) ==
  /\ o \in is_in_cache /\ ~live_object(o)
  /\ is_in_cache' = is_in_cache \ {o}
  /\ digests_to_delete' = digests_to_delete \cup {digest_of[o]}
  /\ UNCHANGED <<bworld, value, ready, mutex, calls, agenda, got, keeps, mine,
                 full_transactions, digest_of, cache, pool>>

--------------------
(***************************************************************************)
(* One step of the call on top of a thread's stack                         *)
(***************************************************************************)
Above(t) == Tail(calls[t])
Return(t) ==
  /\ calls' = [calls EXCEPT ![t] = Above(t)]
  /\ got' = IF Above(t) = <<>> /\ t \in Clients
            THEN got \cup {<<Head(calls[t]).of = TheBlock, Head(calls[t]).want,
                             handed_out(Head(calls[t]).of, Head(calls[t]).want),
                             truth(Head(calls[t]).of, Head(calls[t]).want)>>}
            ELSE got

\* the flag, without the mutex; get_signing_key and get_merkle_root look under it
CheckFlag(t, fr) ==
  /\ fr.at = "check"
  /\ fr.f \in {"signing_key", "merkle_root"} => mutex[mutex_of(fr.of, fr.f)] = NoOne
  /\ IF <<fr.of, fr.f>> \in ready THEN Return(t)
     ELSE calls' = [calls EXCEPT ![t] = <<[fr EXCEPT !.at = "lock", !.f = computed_with(fr.f)]>> \o Above(t)]
          /\ UNCHANGED got
  /\ UNCHANGED <<bworld, value, ready, mutex, agenda, objects, pool>>

\* the mutex, then the flag again: somebody else may have been faster
Lock(t, fr) ==
  /\ fr.at = "lock" /\ mutex[mutex_of(fr.of, fr.f)] = NoOne
  /\ mutex' = [mutex EXCEPT ![mutex_of(fr.of, fr.f)] = t]
  /\ calls' = [calls EXCEPT ![t] =
       <<IF <<fr.of, fr.f>> \in ready THEN [fr EXCEPT !.at = "unlock"]
         ELSE [fr EXCEPT !.at = "compute", !.todo = function_of(fr.of, fr.f).calls]>> \o Above(t)]
  /\ UNCHANGED <<bworld, value, ready, agenda, got, objects, pool>>

CallNext(t, fr) ==
  /\ fr.at = "compute" /\ fr.todo # <<>>
  /\ calls' = [calls EXCEPT ![t] = <<Head(fr.todo), [fr EXCEPT !.todo = Tail(@)]>> \o Above(t)]
  /\ UNCHANGED <<bworld, value, ready, mutex, agenda, got, objects, pool>>

\* An exception leaves every function of the stack, whose guards unlock; perform_work, and
\* the clients' callers, give up.
Throw(t) ==
  /\ calls' = [calls EXCEPT ![t] = <<>>]
  /\ agenda' = [agenda EXCEPT ![t] = SelectSeq(@, LAMBDA a : a[1] \in {"drop"})]
  /\ mutex' = [m \in Mutexes |-> IF mutex[m] = t THEN NoOne ELSE mutex[m]]
  /\ got' = IF t \in Clients
            THEN got \cup {<<calls[t][Len(calls[t])].of = TheBlock, calls[t][Len(calls[t])].want, "throws",
                             truth(calls[t][Len(calls[t])].of, calls[t][Len(calls[t])].want)>>}
            ELSE got

\* compute_merkle_root asks each transaction for its digest
AskDigest(t, fr) ==
  /\ fr.at = "compute" /\ fr.todo = <<>> /\ fr.f = "merkle_root"
  /\ \E i \in DOMAIN full_transactions :
       /\ <<full_transactions[i], "merkle_digest">> \notin ready
       /\ calls' = [calls EXCEPT ![t] = <<Get(full_transactions[i], "merkle_digest")>> \o @]
  /\ UNCHANGED <<bworld, value, ready, mutex, agenda, got, objects, pool>>

\* decode_block creates the transactions before it can notice that the data goes on;
\* decode_block_header publishes the id before it computes the digest
ComputeField(t, fr) ==
  LET unpacking == fr.of = TheBlock /\ fr.f = "unpacked"
      c == add_to_cache(bworld.txs, bworld.live)
      throws == fr.of = TheBlock /\ truth(fr.of, fr.f) = "throws"
      done == {<<fr.of, fr.f>>} \cup (IF fr.f = "header" THEN {<<TheBlock, "id">>} ELSE {})
      hashed == IF unpacking THEN c.marked \X {"merkle_digest"} ELSE {}
  IN
  /\ fr.at = "compute" /\ fr.todo = <<>>
  /\ fr.f = "merkle_root" => \A i \in DOMAIN full_transactions : <<full_transactions[i], "merkle_digest">> \in ready
  /\ IF unpacking THEN Created(c) /\ full_transactions' = c.result /\ UNCHANGED <<keeps, mine>>
     ELSE UNCHANGED objects
  /\ value' = [g \in Field |-> IF g \in hashed THEN "right"
                               ELSE IF throws \/ g \notin done THEN value[g]
                               ELSE IF g[2] = "id" THEN "right" ELSE outcome(fr.of, fr.f)]
  /\ ready' = ready \cup hashed \cup (IF throws THEN {} ELSE done \ {<<fr.of, fr.f>>})
  /\ IF throws THEN Throw(t)
     ELSE /\ calls' = [calls EXCEPT ![t] = <<[fr EXCEPT !.at = "publish"]>> \o Above(t)]
          /\ UNCHANGED <<agenda, mutex, got>>
  /\ UNCHANGED <<bworld, pool>>

Publish(t, fr) ==
  /\ fr.at = "publish"
  /\ value' = IF fr.of = TheBlock /\ fr.f = "header" THEN [value EXCEPT ![<<TheBlock, "digest">>] = "right"] ELSE value
  /\ ready' = ready \cup {<<fr.of, fr.f>>}
  /\ calls' = [calls EXCEPT ![t] = <<[fr EXCEPT !.at = "unlock"]>> \o Above(t)]
  /\ UNCHANGED <<bworld, mutex, agenda, got, objects, pool>>

Unlock(t, fr) ==
  /\ fr.at = "unlock"
  /\ mutex' = [mutex EXCEPT ![mutex_of(fr.of, fr.f)] = NoOne]
  /\ Return(t)
  /\ UNCHANGED <<bworld, value, ready, agenda, objects, pool>>

CallStep(t) ==
  /\ calls[t] # <<>>
  /\ LET fr == Head(calls[t])
     IN  CheckFlag(t, fr) \/ Lock(t, fr) \/ CallNext(t, fr) \/ AskDigest(t, fr) \/ ComputeField(t, fr) \/ Publish(t, fr) \/ Unlock(t, fr)

--------------------
(***************************************************************************)
(* blockchain_worker_thread_pool                                           *)
(***************************************************************************)
Priority == 1..3    \* high, medium, low

get_priority(source) ==
  CASE source \in {"locally_produced_block", "block_log_for_decompressing", "in_block_from_p2p", "in_block_for_replay"} -> 1
    [] source \in {"block_received_from_p2p", "block_log_for_replay"} -> 2
    [] OTHER -> 3

is_running == running /\ ~interrupted

\* perform_work on a block: the calls of each data source; "enqueue" posts the transactions.
\* Nothing queues a block as block_log_for_artifact_generation, so that decode_block_id_only,
\* which leaves a header without its digest, is never called.
block_work(source) ==
  LET block(f) == <<"compute", TheBlock, f>>
      checks == <<block("signing_key"), block("merkle_root")>>
  IN CASE source = "block_received_from_p2p" ->
            <<block("unpacked"), <<"enqueue", "in_block_from_p2p">>>> \o checks
            \o <<block("message_hash"), block("compressed")>>
       [] source = "locally_produced_block" -> <<block("compressed"), block("message_hash")>>
       [] source = "destined_for_p2p_compressed" -> <<block("compressed")>>
       [] source = "destined_for_p2p_uncompressed" -> <<block("uncompressed")>>
       [] source = "destined_for_p2p_alternate_compressed" -> <<block("alternate")>>
       [] source = "block_log_for_replay" ->
            <<block("unpacked")>>
            \o (IF bworld.validate THEN <<<<"enqueue", "in_block_for_replay">>>> \o checks ELSE <<>>)
            \o <<block("uncompressed")>>
       [] source = "block_log_for_decompressing" -> <<block("uncompressed")>>

\* perform_work on a transaction.  The request of a transaction of a block never carries the
\* block's number, so with a checkpoint set nothing is computed in advance.
transaction_work(source, o) ==
  LET validation == <<<<"compute", o, "validation">>>>
      authority == <<<<"compute", o, "signature_keys">>, <<"compute", o, "authorities">>>>
  IN CASE source = "in_block_from_p2p" ->
            IF bworld.checkpoint THEN <<>> ELSE validation \o (IF bworld.validate THEN authority ELSE <<>>)
       [] source = "in_block_for_replay" -> IF bworld.validate THEN validation \o authority ELSE <<>>
       [] OTHER -> validation \o authority

push_work(requests) ==
  [p \in Priority |-> work_queues[p] \o SelectSeq(requests, LAMBDA r : get_priority(r.source) = p)]

has_work == \E p \in Priority : work_queues[p] # <<>>

\* thread_function: the first request of the most urgent queue.  A weak pointer to an object
\* that is gone means there is nothing to do.
dequeue_work(w) ==
  /\ w \notin asleep \cup gone /\ calls[w] = <<>> /\ agenda[w] = <<>>
  /\ is_running /\ has_work
  /\ LET p == CHOOSE p \in Priority : work_queues[p] # <<>> /\ \A q \in 1..(p - 1) : work_queues[q] = <<>>
         r == Head(work_queues[p])
         alive == IF r.of = TheBlock THEN keeps # {} ELSE live_object(r.of)
     IN  /\ work_queues' = [work_queues EXCEPT ![p] = Tail(@)]
         /\ agenda' = [agenda EXCEPT ![w] =
              IF ~alive THEN <<>>
              ELSE (IF r.of = TheBlock THEN block_work(r.source) ELSE transaction_work(r.source, r.of))
                   \o <<<<"drop">>>>]
         /\ keeps' = IF alive /\ r.of = TheBlock THEN keeps \cup {w} ELSE keeps
         /\ mine' = IF alive /\ r.of # TheBlock THEN [mine EXCEPT ![w] = r.of] ELSE mine
  /\ UNCHANGED <<bworld, value, ready, mutex, calls, got, full_transactions, digest_of, cache,
                 is_in_cache, digests_to_delete, asleep, gone, running, interrupted>>

\* nothing to do: wait for work, or leave when the pool or the program stops
IdleWorker(w) ==
  /\ w \notin asleep \cup gone /\ calls[w] = <<>> /\ agenda[w] = <<>>
  /\ IF is_running THEN ~has_work /\ asleep' = asleep \cup {w} /\ UNCHANGED gone
     ELSE gone' = gone \cup {w} /\ UNCHANGED asleep
  /\ UNCHANGED <<bworld, value, ready, mutex, calls, agenda, got, objects, work_queues, running, interrupted>>

(***************************************************************************)
(* The threads                                                             *)
(***************************************************************************)
\* the next call of a thread's agenda
MakeCall(t, a) ==
  /\ a[1] \in {"compute", "get", "tx", "mine"}
  /\ calls' = [calls EXCEPT ![t] = <<CASE a[1] = "compute" -> Compute(a[2], a[3])
                                       [] a[1] = "get" -> Get(TheBlock, a[2])
                                       [] a[1] = "tx" -> Get(full_transactions[a[2]], a[3])
                                       [] a[1] = "mine" -> Get(mine[t], a[2])>>]
  /\ agenda' = [agenda EXCEPT ![t] = Tail(@)]
  /\ UNCHANGED <<bworld, value, ready, mutex, got, objects, pool>>

\* what the network thread does with a message: a block is queued for the workers, a
\* transaction is created and queued
as_block_message == <<<<"queue_block", "block_received_from_p2p">>>>
as_trx_message(e) == <<<<"create", e>>, <<"queue", "standalone_transaction">>>>

\* a transaction arrives on its own, as bytes; one with too many signatures is given up
CreateTransaction(t, a) ==
  LET c == add_to_cache(<<a[2]>>, TRUE)
      hashed == c.marked \X {"merkle_digest"}
  IN
  /\ a[1] = "create"
  /\ Created(c) /\ mine' = [mine EXCEPT ![t] = c.result[1]]
  /\ value' = [g \in Field |-> IF g \in hashed THEN "right" ELSE value[g]]
  /\ ready' = ready \cup hashed
  /\ agenda' = [agenda EXCEPT ![t] = IF a[2] \in bworld.oversigned THEN <<<<"drop">>>> ELSE Tail(@)]
  /\ UNCHANGED <<bworld, mutex, calls, got, keeps, full_transactions, pool>>

\* the last use of the block or transaction by this thread
Drop(t, a) ==
  /\ a[1] = "drop"
  /\ mine' = [mine EXCEPT ![t] = NoOne]
  /\ keeps' = keeps \ {t}
  /\ agenda' = [agenda EXCEPT ![t] = Tail(@)]
  /\ UNCHANGED <<bworld, value, ready, mutex, calls, got, full_transactions, digest_of, cache,
                 is_in_cache, digests_to_delete, pool>>

\* the requests of a block's transactions, of this thread's transaction, or of the block
requests(t, a) ==
  IF a[1] = "enqueue" THEN [i \in DOMAIN full_transactions |-> [of |-> full_transactions[i], source |-> a[2]]]
  ELSE <<[of |-> IF a[1] = "queue" THEN mine[t] ELSE TheBlock, source |-> a[2]]>>

allow_enqueue_work == is_running /\ bworld.workers # {}

push_then(t, a, notify) ==
  /\ a[1] \in {"enqueue", "queue", "queue_block"}
  /\ work_queues' = IF allow_enqueue_work THEN push_work(requests(t, a)) ELSE work_queues
  /\ agenda' = [agenda EXCEPT ![t] = (IF allow_enqueue_work THEN notify ELSE <<>>) \o Tail(@)]
  /\ UNCHANGED <<bworld, value, ready, mutex, calls, got, objects, asleep, gone, running, interrupted>>

\* Nobody told of the requests.
enqueue_silently(t, a) == push_then(t, a, <<>>)

\* enqueue_work: the requests are pushed under the mutex of the queues, the notification
\* follows without it: one worker for a single request, all of them for a block's transactions
enqueue_work(t, a) == push_then(t, a, <<<<IF a[1] = "enqueue" THEN "notify_all" ELSE "notify_one">>>>)

Notify(t, a) ==
  /\ a[1] \in {"notify_one", "notify_all"}
  /\ \/ a[1] = "notify_one" /\ asleep # {} /\ \E w \in asleep : asleep' = asleep \ {w}
     \/ (a[1] = "notify_all" \/ asleep = {}) /\ asleep' = {}
  /\ agenda' = [agenda EXCEPT ![t] = Tail(@)]
  /\ UNCHANGED <<bworld, value, ready, mutex, calls, got, objects, work_queues, gone, running, interrupted>>

\* the signal that asks the program to stop wakes nobody
Interrupt(t, a) ==
  /\ a[1] = "interrupt" /\ interrupted' = TRUE
  /\ agenda' = [agenda EXCEPT ![t] = Tail(@)]
  /\ UNCHANGED <<bworld, value, ready, mutex, calls, got, objects, work_queues, asleep, gone, running>>

\* shutdown: refuse, wake everyone, join
ShutdownPool(t, a) ==
  /\ a[1] = "shutdown" /\ running' = FALSE
  /\ agenda' = [agenda EXCEPT ![t] = <<<<"notify_all">>, <<"join">>>>]
  /\ UNCHANGED <<bworld, value, ready, mutex, calls, got, objects, work_queues, asleep, gone, interrupted>>

Join(t, a) ==
  /\ a[1] = "join" /\ gone = Workers
  /\ agenda' = [agenda EXCEPT ![t] = Tail(@)]
  /\ UNCHANGED <<bworld, value, ready, mutex, calls, got, objects, pool>>

AgendaStep(t) ==
  /\ calls[t] = <<>> /\ agenda[t] # <<>>
  /\ LET a == Head(agenda[t])
     IN  \/ MakeCall(t, a) \/ CreateTransaction(t, a) \/ Drop(t, a) \/ enqueue_work(t, a)
         \/ Notify(t, a) \/ Interrupt(t, a) \/ ShutdownPool(t, a) \/ Join(t, a)

\* create_from_compressed_block_data, create_from_uncompressed_block_data and
\* create_from_block_header_and_transactions: what each leaves computed
present(w) ==
  CASE w.form = "dict" -> {"compressed"}
    [] w.form = "plain" -> {"compressed", "alternate"}
    [] w.form = "raw" -> {"uncompressed"}
    [] w.form = "produced" -> {"uncompressed", "header", "id", "unpacked", "signing_key", "merkle_root"}

BlockInit ==
  /\ bworld \in BlockWorlds
  /\ ready = {TheBlock} \X (present(bworld) \cup (IF bworld.id_given THEN {"id"} ELSE {}))
  /\ value = [g \in Field |->
       IF g = <<TheBlock, "digest">> /\ bworld.form = "produced" THEN "right"
       ELSE IF g \notin ready \/ g[2] = "alternate" THEN "none"
       ELSE IF g[2] = "compressed" THEN bworld.form ELSE "right"]
  /\ mutex = [m \in Mutexes |-> NoOne]
  /\ calls = [t \in Thread |-> <<>>]
  /\ agenda = [t \in Thread |-> IF t \in DOMAIN bworld.agenda THEN bworld.agenda[t] ELSE <<>>]
  /\ got = {}
  /\ keeps = bworld.keeps
  /\ mine = [t \in Thread |-> NoOne]
  /\ full_transactions = <<>>
  /\ digest_of = <<>> /\ cache = <<>>
  /\ is_in_cache = {} /\ digests_to_delete = {}
  /\ work_queues = [p \in Priority |-> <<>>]
  /\ asleep = {} /\ gone = Workers \ bworld.workers
  /\ running = TRUE /\ interrupted = FALSE

BlockNext ==
  \/ \E t \in Thread : CallStep(t) \/ AgendaStep(t)
  \/ \E w \in Workers : dequeue_work(w) \/ IdleWorker(w)
  \/ \E o \in TxObject : Destroy(o)

--------------------
(***************************************************************************)
(* Properties                                                              *)
(***************************************************************************)
\* Whichever thread computes a field first, and whoever looks without the mutex, every getter
\* of a block or transaction hands out the field's one true value, or throws where it must:
\* never a value still missing, half computed, or compressed the wrong way.
ValuesRight == \A r \in got : r[3] = r[4]

\* The transaction cache never gives out two objects for the transactions it tracks: an object
\* in use and marked is_in_cache is the one its digest leads to; and an entry whose object is
\* gone has a deletion on its way, so entries do not pile up.
CacheExact ==
  /\ \A o \in is_in_cache : live_object(o) => digest_of[o] \in DOMAIN cache /\ cache[digest_of[o]] = o
  /\ \A e \in DOMAIN cache : live_object(cache[e]) \/ e \in digests_to_delete \/ cache[e] \in is_in_cache

\* The threads never wait for each other in a circle, and work is never left behind: when
\* nothing can move any more, every client has finished (a shutdown has joined the pool),
\* no mutex is held, and the queues are empty unless the program is stopping.
NothingStrands ==
  \/ ENABLED BlockNext
  \/ /\ \A t \in Thread : calls[t] = <<>> /\ agenda[t] = <<>>
     /\ \A m \in Mutexes : mutex[m] = NoOne
     /\ is_running => ~has_work

\* Sharing blocks and transactions among threads is sound: every getter hands out the one true
\* value, there is one object per transaction, and nobody is left waiting.  (full_block_type,
\* full_transaction_type and their cache)
SharingSound == ValuesRight /\ CacheExact /\ NothingStrands
=============================================================================
