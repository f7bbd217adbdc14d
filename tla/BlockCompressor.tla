--------------------------- MODULE BlockCompressor ----------------------------
(***************************************************************************)
(* The pipeline that rewrites a block log (programs/util/                  *)
(* compress_block_log.cpp): one thread reads blocks into pending_queue, a  *)
(* number of workers compress them, one thread appends them to the output  *)
(* log.  A worker puts the record of its block on completed_queue, under   *)
(* the same lock under which it takes the block, before it compresses it:  *)
(* that is what keeps the output in order, and the writer then waits for   *)
(* the promise in the record.                                              *)
(*                                                                         *)
(* The queues share one mutex and one condition variable; a thread that    *)
(* waits is asleep until somebody notifies.  An exception in any thread    *)
(* sets error_detected.  A job says what is asked for and what goes wrong; *)
(* the bytes of a block are left out, the form it is stored in is kept.    *)
(***************************************************************************)
EXTENDS Integers, Sequences, FiniteSets

CONSTANTS Jobs,                     \* what may be asked for
          Compressors,                  \* compress_jobs threads
          blocks_to_prefetch,
          max_completed_queue_size

VARIABLES job,           \* the options of the program and the state of its files
          fill,          \* fill_pending_queue: where it is
          current,       \* current_block_number of that thread
          pending_queue,
          completed_queue,
          compressed,    \* the forms of the blocks whose promise is set
          worker,        \* compress_blocks: where each is, and its block
          drain,         \* drain_completed_queue: where it is
          held,          \* the block the writer has taken off the queue
          output,        \* the blocks appended to the output log
          all_blocks_enqueued,
          error_detected,
          asleep         \* who waits on queue_condition_variable

cvars == <<job, fill, current, pending_queue, completed_queue, compressed, worker,
           drain, held, output, all_blocks_enqueued, error_detected, asleep>>

(* head: the last block of the input; start, stop: the blocks asked for,   *)
(* all of them if no count was given; used: the output log has blocks;     *)
(* zstd: compress, or decompress; larger: blocks that zstd makes larger;   *)
(* even: store those compressed too; fails: what goes wrong with a block.  *)
Job == [head : Nat, start : Nat \ {0}, count : Int, used : BOOLEAN, zstd : BOOLEAN,
        larger : SUBSET Nat, even : BOOLEAN,
        fails : SUBSET ({"read", "compress", "append"} \X Nat)]

ASSUME JobsAssumption == Jobs \subseteq Job
ASSUME QueuesAssumption == blocks_to_prefetch \in Nat \ {0} /\ max_completed_queue_size \in Nat \ {0}
ASSUME CompressorsAssumption == Compressors # {} /\ "fill" \notin Compressors /\ "drain" \notin Compressors

Everything == -1

stop_at_block == IF job.count = Everything THEN job.head ELSE job.start + job.count - 1

Fails(what, n) == <<what, n>> \in job.fails

CompressorInit ==
    /\ job \in Jobs
    /\ fill = "open" /\ current = 0
    /\ pending_queue = <<>> /\ completed_queue = <<>>
    /\ compressed = [n \in {} |-> "zstd"]
    /\ worker = [w \in Compressors |-> [at |-> "queue", block |-> 0]]
    /\ drain = "open" /\ held = 0 /\ output = <<>>
    /\ all_blocks_enqueued = FALSE /\ error_detected = FALSE
    /\ asleep = {}

--------------------
(* function_wrapper: an exception ends the thread and tells the others.    *)
Caught == error_detected' = TRUE /\ asleep' = {}

NotifyAll == asleep' = {} /\ UNCHANGED error_detected

AllQuiet == UNCHANGED <<asleep, error_detected>>

Sleep(t) == asleep' = asleep \union {t} /\ UNCHANGED error_detected

(* Opening the input; asking for more blocks than it has is an error.      *)
FillOpen ==
    /\ fill = "open"
    /\ IF job.head = 0 \/ job.count > job.head
       THEN fill' = "left" /\ Caught /\ UNCHANGED current
       ELSE fill' = "room" /\ current' = job.start /\ AllQuiet
    /\ UNCHANGED <<job, pending_queue, completed_queue, compressed, worker, drain, held,
                   output, all_blocks_enqueued>>

(* The loop's test, the wait for room in the queue, and the end.           *)
FillRoom ==
    /\ fill = "room" /\ "fill" \notin asleep
    /\ \/ /\ current <= stop_at_block /\ ~error_detected
          /\ IF Len(pending_queue) >= blocks_to_prefetch
             THEN fill' = "room" /\ Sleep("fill")
             ELSE fill' = "read" /\ AllQuiet
          /\ UNCHANGED all_blocks_enqueued
       \/ /\ error_detected
          /\ fill' = "left" /\ AllQuiet /\ UNCHANGED all_blocks_enqueued
       \/ /\ current > stop_at_block /\ ~error_detected
          /\ fill' = "last" /\ all_blocks_enqueued' = TRUE /\ AllQuiet
    /\ UNCHANGED <<job, current, pending_queue, completed_queue, compressed, worker, drain,
                   held, output>>

(* Reading the block happens outside the lock.                             *)
FillRead ==
    /\ fill = "read"
    /\ IF Fails("read", current) \/ current > job.head
       THEN fill' = "left" /\ Caught
       ELSE fill' = "push" /\ AllQuiet
    /\ UNCHANGED <<job, current, pending_queue, completed_queue, compressed, worker, drain,
                   held, output, all_blocks_enqueued>>

FillPush ==
    /\ fill = "push"
    /\ fill' = "notify"
    /\ pending_queue' = Append(pending_queue, current)
    /\ current' = current + 1
    /\ AllQuiet
    /\ UNCHANGED <<job, completed_queue, compressed, worker, drain, held, output,
                   all_blocks_enqueued>>

FillNotify ==
    /\ fill \in {"notify", "last"}
    /\ fill' = IF fill = "last" THEN "left" ELSE "room"
    /\ NotifyAll
    /\ UNCHANGED <<job, current, pending_queue, completed_queue, compressed, worker, drain,
                   held, output, all_blocks_enqueued>>

--------------------
(* A worker looks at the queues: it waits, leaves, or takes a block.       *)
compress_blocks(w) ==
    /\ worker[w].at = "queue" /\ w \notin asleep
    /\ LET nothing == pending_queue = <<>>
           full == Len(completed_queue) >= max_completed_queue_size
       IN  \/ /\ (nothing /\ ~all_blocks_enqueued) \/ full
              /\ ~error_detected
              /\ Sleep(w) /\ UNCHANGED <<worker, pending_queue, completed_queue>>
           \/ /\ \/ error_detected
                 \/ nothing /\ all_blocks_enqueued /\ ~full
              /\ worker' = [worker EXCEPT ![w].at = "left"]
              /\ AllQuiet /\ UNCHANGED <<pending_queue, completed_queue>>
           \/ /\ ~nothing /\ ~full /\ ~error_detected
              /\ worker' = [worker EXCEPT ![w] = [at |-> "notify", block |-> Head(pending_queue)]]
              /\ pending_queue' = Tail(pending_queue)
              /\ completed_queue' = Append(completed_queue, Head(pending_queue))
              /\ AllQuiet
    /\ UNCHANGED <<job, fill, current, compressed, drain, held, output, all_blocks_enqueued>>

WorkerNotify(w) ==
    /\ worker[w].at = "notify"
    /\ worker' = [worker EXCEPT ![w].at = "work"]
    /\ NotifyAll
    /\ UNCHANGED <<job, fill, current, pending_queue, completed_queue, compressed, drain,
                   held, output, all_blocks_enqueued>>

(* The best of the forms tried: zstd, unless it is off or does not pay.    *)
StoredForm(n) == IF job.zstd /\ (job.even \/ n \notin job.larger) THEN "zstd" ELSE "raw"

WorkerDone(w) ==
    /\ worker[w].at = "work"
    /\ LET n == worker[w].block
       IN  IF Fails("compress", n)
           THEN worker' = [worker EXCEPT ![w].at = "left"] /\ Caught /\ UNCHANGED compressed
           ELSE /\ worker' = [worker EXCEPT ![w].at = "queue"] /\ AllQuiet
                /\ compressed' = [m \in DOMAIN compressed \union {n} |->
                                     IF m = n THEN StoredForm(n) ELSE compressed[m]]
    /\ UNCHANGED <<job, fill, current, pending_queue, completed_queue, drain, held, output,
                   all_blocks_enqueued>>

--------------------
(* The output log must be empty.                                           *)
DrainOpen ==
    /\ drain = "open"
    /\ IF job.used THEN drain' = "left" /\ Caught ELSE drain' = "queue" /\ AllQuiet
    /\ UNCHANGED <<job, fill, current, pending_queue, completed_queue, compressed, worker,
                   held, output, all_blocks_enqueued>>

\* Mutant: the writer leaves as soon as it has nothing to write.
DrainedEarly == completed_queue = <<>> /\ all_blocks_enqueued

(* Nothing is left to write and nothing will be.                           *)
Drained == completed_queue = <<>> /\ pending_queue = <<>> /\ all_blocks_enqueued

(* The writer looks at the queues.  When blocks are pending and none is    *)
(* completed it looks again, without waiting.                              *)
drain_completed_queue ==
    /\ drain = "queue" /\ "drain" \notin asleep
    /\ \/ /\ pending_queue = <<>> /\ completed_queue = <<>>
          /\ ~all_blocks_enqueued /\ ~error_detected
          /\ Sleep("drain") /\ UNCHANGED <<drain, held, completed_queue>>
       \/ /\ error_detected
          /\ drain' = "left" /\ AllQuiet /\ UNCHANGED <<held, completed_queue>>
       \/ /\ completed_queue # <<>> /\ ~error_detected
          /\ held' = Head(completed_queue)
          /\ completed_queue' = Tail(completed_queue)
          /\ drain' = "promise" /\ NotifyAll
       \/ /\ Drained /\ ~error_detected
          /\ drain' = "closed" /\ AllQuiet /\ UNCHANGED <<held, completed_queue>>
    /\ UNCHANGED <<job, fill, current, pending_queue, compressed, worker, output,
                   all_blocks_enqueued>>

(* The promise is polled; an error elsewhere ends the wait.                *)
DrainPromise ==
    /\ drain = "promise"
    /\ \/ held \in DOMAIN compressed /\ drain' = "append"
       \/ held \notin DOMAIN compressed /\ error_detected /\ drain' = "left"
    /\ AllQuiet
    /\ UNCHANGED <<job, fill, current, pending_queue, completed_queue, compressed, worker,
                   held, output, all_blocks_enqueued>>

DrainAppend ==
    /\ drain = "append"
    /\ IF Fails("append", held)
       THEN drain' = "left" /\ Caught /\ UNCHANGED output
       ELSE /\ output' = Append(output, [num |-> held, form |-> compressed[held]])
            /\ drain' = "queue" /\ AllQuiet
    /\ UNCHANGED <<job, fill, current, pending_queue, completed_queue, compressed, worker,
                   held, all_blocks_enqueued>>

--------------------
(* do_job joins the threads; main then reports an error or the totals.     *)
Ended == fill = "left" /\ drain \in {"left", "closed"} /\ \A w \in Compressors : worker[w].at = "left"

FillNext == FillOpen \/ FillRoom \/ FillRead \/ FillPush \/ FillNotify
WorkerNext(w) == compress_blocks(w) \/ WorkerNotify(w) \/ WorkerDone(w)
DrainNext == DrainOpen \/ drain_completed_queue \/ DrainPromise \/ DrainAppend

CompressorNext == FillNext \/ DrainNext \/ \E w \in Compressors : WorkerNext(w)

CompressorSpec == CompressorInit /\ [][CompressorNext]_cvars

--------------------
(* Whatever the threads do and whatever fails, the output holds the blocks *)
(* asked for from the first on, in order, without a gap, each one in the   *)
(* form the options ask for; and a job that ends without an error has      *)
(* written all of them (compress_block_log.cpp:78-365).                    *)
OutputExact ==
    /\ \A i \in 1 .. Len(output) :
          /\ output[i].num = job.start + i - 1
          /\ output[i].form = StoredForm(output[i].num)
    /\ drain = "closed" => job.start + Len(output) > stop_at_block

(* The queues keep to their limits: the reader is at most                  *)
(* blocks_to_prefetch ahead, the records at most max_completed_queue_size. *)
QueuesBounded ==
    /\ Len(pending_queue) <= blocks_to_prefetch
    /\ Len(completed_queue) <= max_completed_queue_size

(* Some thread has a step to take.  The writer that looks at the queues    *)
(* again and again, or polls a promise nobody has set, has none.           *)
SomebodyGoesOn ==
    \/ fill # "left" /\ "fill" \notin asleep
    \/ \E w \in Compressors : worker[w].at # "left" /\ w \notin asleep
    \/ drain \in {"open", "append"}
    \/ /\ drain = "queue" /\ "drain" \notin asleep
       /\ completed_queue # <<>> \/ pending_queue = <<>> \/ error_detected
    \/ drain = "promise" /\ (held \in DOMAIN compressed \/ error_detected)

(* No notification is lost, and nobody waits for a thread that has left:   *)
(* until the program ends there is always a thread that goes on, although  *)
(* all of them wait on the same condition variable and any may fail        *)
(* (compress_block_log.cpp:92, 220, 307).                                  *)
NobodyStuck == Ended \/ SomebodyGoesOn

(* The output is exact, the queues are bounded and nobody is stuck, with   *)
(* any number of threads.                                                  *)
(* (fill_pending_queue, compress_blocks, drain_completed_queue)            *)
CompressionExact == OutputExact /\ QueuesBounded /\ NobodyStuck
===============================================================================
