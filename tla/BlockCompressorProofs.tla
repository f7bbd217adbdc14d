------------------------ MODULE BlockCompressorProofs -------------------------
(***************************************************************************)
(* The output of the compressing pipeline, for any number of workers and   *)
(* any size of the queues.  The inductive invariant says that output, the  *)
(* block the writer holds, completed_queue, pending_queue and the block    *)
(* being read are one run of consecutive numbers, until the writer leaves  *)
(* because of an error; and that a thread sleeps only while its reason to  *)
(* is there or a notification is on its way.                               *)
(***************************************************************************)
EXTENDS BlockCompressor, TLAPS

Holding == IF drain \in {"promise", "append"} THEN 1 ELSE 0

(* The number of the first block of each stretch.                          *)
Held == job.start + Len(output)
Completed == Held + Holding
Pending == Completed + Len(completed_queue)
Unread == Pending + Len(pending_queue)

Stored == [num : Int, form : {"zstd", "raw"}]

Types ==
    /\ job \in Job
    /\ fill \in {"open", "room", "read", "push", "notify", "last", "left"}
    /\ current \in Int
    /\ pending_queue \in Seq(Int)
    /\ completed_queue \in Seq(Int)
    /\ worker \in [Compressors -> [at : {"queue", "notify", "work", "left"}, block : Int]]
    /\ drain \in {"open", "queue", "promise", "append", "left", "closed"}
    /\ held \in Int
    /\ output \in Seq(Stored)

Consecutive ==
    /\ \A i \in 1 .. Len(output) : output[i].num = job.start + i - 1
    /\ Holding = 1 => held = Held
    /\ drain # "left" =>
          /\ \A i \in 1 .. Len(completed_queue) : completed_queue[i] = Completed + i - 1
          /\ \A i \in 1 .. Len(pending_queue) : pending_queue[i] = Pending + i - 1

Forms ==
    /\ \A n \in DOMAIN compressed : compressed[n] = StoredForm(n)
    /\ \A i \in 1 .. Len(output) : output[i].form = StoredForm(output[i].num)
    /\ drain = "append" => held \in DOMAIN compressed

Reading ==
    /\ fill = "open" => Len(output) = 0 /\ Holding = 0 /\ Len(completed_queue) = 0
                        /\ Len(pending_queue) = 0
    /\ drain # "left" /\ (fill \notin {"open", "left"} \/ all_blocks_enqueued) => current = Unread
    /\ fill \in {"read", "push"} => Len(pending_queue) < blocks_to_prefetch
    /\ all_blocks_enqueued => current > stop_at_block /\ fill \in {"last", "left"}

PipelineInv ==
    /\ Types /\ Consecutive /\ Forms /\ Reading /\ QueuesBounded
    /\ drain = "closed" => job.start + Len(output) > stop_at_block

--------------------
(* A run of consecutive numbers grows at its end and shrinks at its front. *)
RunFrom(q, c) == \A i \in 1 .. Len(q) : q[i] = c + i - 1

\* A block pushed at the end of a queue of consecutive numbers extends the run.
LEMMA RunGrows ==
    ASSUME NEW q \in Seq(Int), NEW c \in Int, RunFrom(q, c)
    PROVE  /\ Append(q, c + Len(q)) \in Seq(Int)
           /\ Len(Append(q, c + Len(q))) = Len(q) + 1
           /\ RunFrom(Append(q, c + Len(q)), c)
<1>1. Len(q) \in Nat /\ c + Len(q) \in Int
  OBVIOUS
<1> DEFINE r == Append(q, c + Len(q))
<1>2. r \in Seq(Int) /\ Len(r) = Len(q) + 1
  BY <1>1
<1>3. ASSUME NEW i \in 1 .. Len(r) PROVE r[i] = c + i - 1
  <2>1. CASE i = Len(q) + 1
    BY <1>1, <2>1
  <2>2. CASE i # Len(q) + 1
    BY <1>1, <1>2, <2>2 DEF RunFrom
  <2> QED
    BY <2>1, <2>2
<1> QED
  BY <1>2, <1>3 DEF RunFrom

\* A block popped from the front of such a queue leaves a run that starts one
\* later.
LEMMA RunShrinks ==
    ASSUME NEW q \in Seq(Int), NEW c \in Int, RunFrom(q, c), q # <<>>
    PROVE  /\ Head(q) = c /\ Tail(q) \in Seq(Int)
           /\ Len(q) \in Nat /\ Len(q) > 0
           /\ Len(Tail(q)) = Len(q) - 1
           /\ RunFrom(Tail(q), c + 1)
BY DEF RunFrom

\* The numbers a job is given are numbers.
LEMMA JobNumbers ==
    ASSUME job \in Job
    PROVE  job.start \in Nat \ {0} /\ job.head \in Nat /\ job.count \in Int /\ stop_at_block \in Int
BY DEF Job, stop_at_block, Everything

(* The pipeline starts empty.                                              *)
LEMMA PipelineInit == CompressorInit => PipelineInv
<1> SUFFICES ASSUME CompressorInit PROVE PipelineInv
  OBVIOUS
<1> USE DEF CompressorInit
<1>1. Types
  <2>1. job \in Job
    BY JobsAssumption
  <2>2. worker \in [Compressors -> [at : {"queue", "notify", "work", "left"}, block : Int]]
    OBVIOUS
  <2>3. pending_queue \in Seq(Int) /\ completed_queue \in Seq(Int) /\ output \in Seq(Stored)
    OBVIOUS
  <2> QED
    BY <2>1, <2>2, <2>3 DEF Types
<1>2. Consecutive /\ Reading /\ QueuesBounded
  BY QueuesAssumption DEF Consecutive, Reading, QueuesBounded, Holding
<1>3. Forms
  BY DEF Forms
<1> QED
  BY <1>1, <1>2, <1>3 DEF PipelineInv

\* The thread that reads the blocks keeps the run of numbers.
LEMMA FillKeeps == ASSUME PipelineInv, FillNext PROVE PipelineInv'
<1> USE DEF PipelineInv
<1>1. CASE FillOpen
  <2> USE <1>1 DEF FillOpen, Caught, AllQuiet
  <2>1. Types'
    BY JobNumbers DEF Types
  <2>2. Consecutive'
    BY DEF Consecutive, Holding, Held, Completed, Pending
  <2>3. Forms'
    BY DEF Forms, StoredForm
  <2>4. Reading'
    BY JobNumbers DEF Reading, Types, Holding, Held, Completed, Pending, Unread, stop_at_block
  <2>5. QueuesBounded' /\ (drain = "closed" => job.start + Len(output) > stop_at_block)'
    BY DEF QueuesBounded, stop_at_block
  <2> QED
    BY <2>1, <2>2, <2>3, <2>4, <2>5
<1>2. CASE FillRoom
  <2> USE <1>2 DEF FillRoom, Sleep, AllQuiet
  <2>1. Types'
    BY DEF Types
  <2>2. Consecutive'
    BY DEF Consecutive, Holding, Held, Completed, Pending
  <2>3. Forms'
    BY DEF Forms, StoredForm
  <2>4. Reading'
    BY QueuesAssumption DEF Reading, Types, Holding, Held, Completed, Pending, Unread, stop_at_block
  <2>5. QueuesBounded' /\ (drain = "closed" => job.start + Len(output) > stop_at_block)'
    BY DEF QueuesBounded, stop_at_block
  <2> QED
    BY <2>1, <2>2, <2>3, <2>4, <2>5
<1>3. CASE FillRead
  <2> USE <1>3 DEF FillRead, Caught, AllQuiet
  <2>1. Types'
    BY DEF Types
  <2>2. Consecutive'
    BY DEF Consecutive, Holding, Held, Completed, Pending
  <2>3. Forms'
    BY DEF Forms, StoredForm
  <2>4. Reading'
    BY DEF Reading, Holding, Held, Completed, Pending, Unread, stop_at_block
  <2>5. QueuesBounded' /\ (drain = "closed" => job.start + Len(output) > stop_at_block)'
    BY DEF QueuesBounded, stop_at_block
  <2> QED
    BY <2>1, <2>2, <2>3, <2>4, <2>5
<1>4. CASE FillPush
  <2> USE <1>4 DEF FillPush, AllQuiet
  <2>1. Types'
    BY DEF Types
  <2>2. Len(pending_queue') = Len(pending_queue) + 1 /\ Len(pending_queue) \in Nat
    BY DEF Types
  <2>3. Consecutive'
    <3>1. CASE drain = "left"
      BY <3>1 DEF Consecutive, Holding, Held
    <3>2. CASE drain # "left"
      <4>0. Pending \in Int
        BY JobNumbers DEF Types, Pending, Completed, Held, Holding
      <4>1. current = Pending + Len(pending_queue) /\ Pending \in Int
        BY <3>2, <4>0 DEF Reading, Unread
      <4>2. RunFrom(pending_queue', Pending)
        BY ZenonT(40), <3>2, <4>1, RunGrows DEF Consecutive, RunFrom, Types
      <4> QED
        BY <4>2 DEF Consecutive, RunFrom, Holding, Held, Completed, Pending
    <3> QED
      BY <3>1, <3>2
  <2>4. Forms'
    BY DEF Forms, StoredForm
  <2>5. Reading'
    <3>1. Pending \in Int /\ Pending' = Pending /\ stop_at_block' = stop_at_block
      BY JobNumbers DEF Types, Holding, Held, Completed, Pending, stop_at_block
    <3>2. drain # "left" => current' = Unread'
      BY <2>2, <3>1 DEF Reading, Unread, Types
    <3>3. ~all_blocks_enqueued /\ fill' = "notify"
      BY DEF Reading
    <3> QED
      BY <3>2, <3>3 DEF Reading
  <2>6. QueuesBounded' /\ (drain = "closed" => job.start + Len(output) > stop_at_block)'
    BY <2>2, QueuesAssumption DEF QueuesBounded, Reading, stop_at_block
  <2> QED
    BY <2>1, <2>3, <2>4, <2>5, <2>6
<1>5. CASE FillNotify
  <2> USE <1>5 DEF FillNotify, NotifyAll
  <2>1. Types'
    BY DEF Types
  <2>2. Consecutive'
    BY DEF Consecutive, Holding, Held, Completed, Pending
  <2>3. Forms'
    BY DEF Forms, StoredForm
  <2>4. Reading'
    BY DEF Reading, Holding, Held, Completed, Pending, Unread, stop_at_block
  <2>5. QueuesBounded' /\ (drain = "closed" => job.start + Len(output) > stop_at_block)'
    BY DEF QueuesBounded, stop_at_block
  <2> QED
    BY <2>1, <2>2, <2>3, <2>4, <2>5
<1> QED
  BY <1>1, <1>2, <1>3, <1>4, <1>5 DEF FillNext

\* A compressing thread moves one block from pending_queue to completed_queue
\* and keeps the run.
LEMMA WorkerKeeps == ASSUME PipelineInv, NEW w \in Compressors, WorkerNext(w) PROVE PipelineInv'
<1> USE DEF PipelineInv
<1>1. CASE compress_blocks(w) /\ UNCHANGED <<pending_queue, completed_queue>>
  <2> USE <1>1 DEF compress_blocks
  <2>0. worker' = worker \/ worker' = [worker EXCEPT ![w].at = "left"]
    BY DEF Sleep, AllQuiet
  <2>1. Types'
    <3>1. worker' \in [Compressors -> [at : {"queue", "notify", "work", "left"}, block : Int]]
      BY ZenonT(40), <2>0 DEF Types
    <3> QED
      BY <3>1 DEF Types
  <2>2. Consecutive'
    BY DEF Consecutive, Holding, Held, Completed, Pending
  <2>3. Forms'
    BY DEF Forms, StoredForm
  <2>4. Reading'
    BY DEF Reading, Holding, Held, Completed, Pending, Unread, stop_at_block
  <2>5. QueuesBounded' /\ (drain = "closed" => job.start + Len(output) > stop_at_block)'
    BY DEF QueuesBounded, stop_at_block
  <2> QED
    BY <2>1, <2>2, <2>3, <2>4, <2>5
<1>2. CASE compress_blocks(w) /\ ~UNCHANGED <<pending_queue, completed_queue>>
  <2>1. /\ pending_queue # <<>> /\ ~(Len(completed_queue) >= max_completed_queue_size)
        /\ worker' = [worker EXCEPT ![w] = [at |-> "notify", block |-> Head(pending_queue)]]
        /\ pending_queue' = Tail(pending_queue)
        /\ completed_queue' = Append(completed_queue, Head(pending_queue))
        /\ UNCHANGED <<job, fill, current, compressed, drain, held, output, all_blocks_enqueued>>
    BY <1>2 DEF compress_blocks
  <2> USE <2>1
  <2>2. /\ Len(pending_queue) \in Nat /\ Len(pending_queue') = Len(pending_queue) - 1
        /\ Len(completed_queue) \in Nat /\ Len(completed_queue') = Len(completed_queue) + 1
        /\ Head(pending_queue) \in Int /\ Tail(pending_queue) \in Seq(Int)
        /\ Len(pending_queue) > 0
    BY DEF Types
  <2>3. Types'
    <3>1. worker' \in [Compressors -> [at : {"queue", "notify", "work", "left"}, block : Int]]
      BY <2>2 DEF Types
    <3>2. completed_queue' \in Seq(Int) /\ pending_queue' \in Seq(Int)
      BY <2>2 DEF Types
    <3> QED
      BY <3>1, <3>2 DEF Types
  <2>4. Completed \in Int /\ Completed' = Completed /\ Pending \in Int /\ Pending' = Pending + 1
    <3>1. Held \in Int /\ Holding \in Int
      BY JobNumbers DEF Types, Held, Holding
    <3>2. Held' = Held /\ Holding' = Holding
      BY DEF Held, Holding
    <3> QED
      BY <2>2, <3>1, <3>2 DEF Pending, Completed
  <2>5. Consecutive'
    <3>1. CASE drain = "left"
      BY <3>1 DEF Consecutive, Holding, Held
    <3>2. CASE drain # "left"
      <4>1. RunFrom(completed_queue, Completed) /\ RunFrom(pending_queue, Pending)
        BY <3>2 DEF Consecutive, RunFrom
      <4>2. Head(pending_queue) = Pending /\ RunFrom(pending_queue', Pending + 1)
        BY Zenon, <4>1, <2>4, RunShrinks DEF Types
      <4>3. RunFrom(completed_queue', Completed)
        BY <4>1, <4>2, <2>4, RunGrows DEF Types, Pending
      <4> QED
        BY <4>2, <4>3, <2>4 DEF Consecutive, RunFrom, Holding, Held
    <3> QED
      BY <3>1, <3>2
  <2>6. Forms'
    BY DEF Forms, StoredForm
  <2>7. Unread' = Unread /\ stop_at_block' = stop_at_block
    BY <2>2, <2>4 DEF Unread, stop_at_block
  <2>8. fill # "open"
    BY <2>2 DEF Reading
  <2>9. Reading'
    BY <2>2, <2>7, <2>8, QueuesAssumption DEF Reading
  <2>10. QueuesBounded' /\ (drain = "closed" => job.start + Len(output) > stop_at_block)'
    BY <2>2, QueuesAssumption DEF QueuesBounded, stop_at_block
  <2> QED
    BY <2>3, <2>5, <2>6, <2>9, <2>10
<1>3. CASE WorkerNotify(w)
  <2> USE <1>3 DEF WorkerNotify
  <2>1. Types'
    BY Zenon DEF Types
  <2>2. Consecutive'
    BY DEF Consecutive, Holding, Held, Completed, Pending
  <2>3. Forms'
    BY DEF Forms, StoredForm
  <2>4. Reading'
    BY DEF Reading, Holding, Held, Completed, Pending, Unread, stop_at_block
  <2>5. QueuesBounded' /\ (drain = "closed" => job.start + Len(output) > stop_at_block)'
    BY DEF QueuesBounded, stop_at_block
  <2> QED
    BY <2>1, <2>2, <2>3, <2>4, <2>5
<1>4. CASE WorkerDone(w)
  <2> USE <1>4 DEF WorkerDone
  <2>1. Types'
    BY ZenonT(40) DEF Types
  <2>2. Consecutive'
    BY DEF Consecutive, Holding, Held, Completed, Pending
  <2>3. /\ \A n : StoredForm(n)' = StoredForm(n)
        /\ UNCHANGED <<drain, held, output>>
    BY DEF StoredForm
  <2>4. /\ \A n \in DOMAIN compressed' : compressed'[n] = StoredForm(n)
        /\ DOMAIN compressed \subseteq DOMAIN compressed'
    BY DEF Forms
  <2>5. Forms'
    BY <2>3, <2>4 DEF Forms
  <2>6. Reading'
    BY DEF Reading, Holding, Held, Completed, Pending, Unread, stop_at_block
  <2>7. QueuesBounded' /\ (drain = "closed" => job.start + Len(output) > stop_at_block)'
    BY DEF QueuesBounded, stop_at_block
  <2> QED
    BY <2>1, <2>2, <2>5, <2>6, <2>7
<1> QED
  BY <1>1, <1>2, <1>3, <1>4 DEF WorkerNext

\* The thread that appends to the output log keeps the run.
LEMMA DrainKeeps == ASSUME PipelineInv, DrainNext PROVE PipelineInv'
<1> USE DEF PipelineInv
<1>1. CASE DrainOpen
  <2> USE <1>1 DEF DrainOpen
  <2>1. Types'
    BY DEF Types
  <2>2. Consecutive'
    BY DEF Consecutive, Holding, Held, Completed, Pending
  <2>3. Forms'
    BY DEF Forms, StoredForm
  <2>4. Reading'
    BY DEF Reading, Holding, Held, Completed, Pending, Unread, stop_at_block
  <2>5. QueuesBounded' /\ (drain = "closed" => job.start + Len(output) > stop_at_block)'
    BY DEF QueuesBounded, stop_at_block
  <2> QED
    BY <2>1, <2>2, <2>3, <2>4, <2>5
<1>2. CASE drain_completed_queue /\ completed_queue' = completed_queue
  <2>1. /\ drain = "queue" /\ drain' \in {"queue", "left", "closed"}
        /\ UNCHANGED <<job, fill, current, pending_queue, completed_queue, compressed, worker,
                       held, output, all_blocks_enqueued>>
        /\ drain' = "closed" => completed_queue = <<>> /\ pending_queue = <<>> /\ all_blocks_enqueued
    <3>1. completed_queue # <<>> /\ completed_queue \in Seq(Int) => Tail(completed_queue) # completed_queue
      <4>1. completed_queue # <<>> /\ completed_queue \in Seq(Int)
              => Len(Tail(completed_queue)) = Len(completed_queue) - 1 /\ Len(completed_queue) \in Nat
        OBVIOUS
      <4> QED
        BY <4>1
    <3> QED
      BY <1>2, <3>1 DEF drain_completed_queue, Drained, Types
  <2> USE <2>1
  <2>2. Types'
    BY DEF Types
  <2>3. Consecutive'
    BY DEF Consecutive, Holding, Held, Completed, Pending
  <2>4. Forms'
    BY DEF Forms, StoredForm
  <2>5. Reading'
    BY DEF Reading, Holding, Held, Completed, Pending, Unread, stop_at_block
  <2>6. QueuesBounded'
    BY DEF QueuesBounded
  <2>7. ASSUME drain' = "closed" PROVE (job.start + Len(output) > stop_at_block)'
    <3>1. current = Unread /\ current > stop_at_block
      BY <2>7 DEF Reading
    <3>2. Unread = job.start + Len(output)
      BY <2>7, JobNumbers DEF Types, Unread, Pending, Completed, Held, Holding
    <3> QED
      BY <3>1, <3>2 DEF stop_at_block
  <2> QED
    BY <2>2, <2>3, <2>4, <2>5, <2>6, <2>7
<1>3. CASE drain_completed_queue /\ completed_queue' # completed_queue
  <2>1. /\ drain = "queue" /\ drain' = "promise" /\ completed_queue # <<>>
        /\ held' = Head(completed_queue) /\ completed_queue' = Tail(completed_queue)
        /\ UNCHANGED <<job, fill, current, pending_queue, compressed, worker, output,
                       all_blocks_enqueued>>
    BY <1>3 DEF drain_completed_queue, Drained
  <2> USE <2>1
  <2>2. /\ Len(completed_queue) \in Nat /\ Len(completed_queue') = Len(completed_queue) - 1
        /\ Head(completed_queue) \in Int /\ Tail(completed_queue) \in Seq(Int)
        /\ Len(completed_queue) > 0
    BY DEF Types
  <2>3. Types'
    BY <2>2 DEF Types
  <2>4. /\ Held \in Int /\ Held' = Held /\ Completed = Held /\ Completed' = Held + 1
        /\ Holding' = 1
    BY JobNumbers DEF Types, Completed, Held, Holding
  <2>5. Pending' = Pending
    BY <2>2, <2>4 DEF Pending
  <2>6. Consecutive'
    <3>1. RunFrom(completed_queue, Held)
      BY <2>4 DEF Consecutive, RunFrom
    <3>2. held' = Held /\ RunFrom(completed_queue', Held + 1)
      BY <3>1, <2>4, RunShrinks DEF Types
    <3> QED
      BY <3>2, <2>4, <2>5 DEF Consecutive, RunFrom
  <2>7. Forms'
    BY DEF Forms, StoredForm
  <2>8. Unread' = Unread /\ stop_at_block' = stop_at_block
    BY <2>5 DEF Unread, stop_at_block
  <2>9. Reading'
    BY <2>2, <2>8 DEF Reading
  <2>10. QueuesBounded'
    BY <2>2, QueuesAssumption DEF QueuesBounded
  <2> QED
    BY <2>3, <2>6, <2>7, <2>9, <2>10
<1>4. CASE DrainPromise
  <2> USE <1>4 DEF DrainPromise
  <2>1. Types'
    BY DEF Types
  <2>2. Consecutive'
    BY DEF Consecutive, Holding, Held, Completed, Pending
  <2>3. Forms'
    BY DEF Forms, StoredForm
  <2>4. Reading'
    BY DEF Reading, Holding, Held, Completed, Pending, Unread, stop_at_block
  <2>5. QueuesBounded' /\ (drain = "closed" => job.start + Len(output) > stop_at_block)'
    BY DEF QueuesBounded, stop_at_block
  <2> QED
    BY <2>1, <2>2, <2>3, <2>4, <2>5
<1>5. CASE DrainAppend /\ output' = output
  <2>1. drain = "append" /\ drain' \in {"left", "queue"}
        /\ UNCHANGED <<job, fill, current, pending_queue, completed_queue, compressed, worker,
                       held, output, all_blocks_enqueued>>
    BY <1>5 DEF DrainAppend
  <2>2. drain' = "left"
    <3>1. Len(Append(output, [num |-> held, form |-> compressed[held]])) = Len(output) + 1
            /\ Len(output) \in Nat
      BY DEF Types
    <3> QED
      BY <1>5, <3>1 DEF DrainAppend
  <2> USE <2>1, <2>2
  <2>3. Types'
    BY DEF Types
  <2>4. Consecutive'
    BY DEF Consecutive, Holding, Held
  <2>5. Forms'
    BY DEF Forms, StoredForm
  <2>6. Reading'
    BY DEF Reading, Holding, stop_at_block
  <2>7. QueuesBounded'
    BY DEF QueuesBounded
  <2> QED
    BY <2>3, <2>4, <2>5, <2>6, <2>7
<1>6. CASE DrainAppend /\ output' # output
  <2>1. /\ drain = "append" /\ drain' = "queue"
        /\ output' = Append(output, [num |-> held, form |-> compressed[held]])
        /\ UNCHANGED <<job, fill, current, pending_queue, completed_queue, compressed, worker,
                       held, all_blocks_enqueued>>
    BY <1>6 DEF DrainAppend
  <2> USE <2>1
  <2> DEFINE stored == [num |-> held, form |-> compressed[held]]
  <2>2. stored \in Stored /\ compressed[held] = StoredForm(held)
    BY DEF Types, Forms, Stored, StoredForm
  <2>3. /\ Len(output) \in Nat /\ Len(output') = Len(output) + 1 /\ output' \in Seq(Stored)
        /\ \A i \in 1 .. Len(output) : output'[i] = output[i]
        /\ output'[Len(output) + 1] = stored
    BY <2>2 DEF Types
  <2> HIDE DEF stored
  <2>4. Types'
    BY <2>3 DEF Types
  <2>5. /\ Held \in Int /\ held = Held /\ Held' = Held + 1 /\ Holding = 1 /\ Holding' = 0
        /\ Held = job.start + Len(output)
    BY <2>3, JobNumbers DEF Types, Consecutive, Held, Holding
  <2>6. Completed' = Completed /\ Pending' = Pending /\ Unread' = Unread
    <3>1. Completed' = Completed
      BY <2>5 DEF Completed
    <3> QED
      BY <3>1 DEF Pending, Unread
  <2>7. stored.num = held /\ stored.form = compressed[held]
    BY DEF stored
  <2>8. \A i \in 1 .. Len(output') : output'[i].num = job.start + i - 1
    <3> TAKE i \in 1 .. Len(output')
    <3>1. CASE i = Len(output) + 1
      BY <3>1, <2>3, <2>5, <2>7, JobNumbers DEF Types
    <3>2. CASE i # Len(output) + 1
      BY <3>2, <2>3 DEF Consecutive
    <3> QED
      BY <3>1, <3>2
  <2>9. Consecutive'
    BY <2>5, <2>6, <2>8 DEF Consecutive
  <2>10. \A n : StoredForm(n)' = StoredForm(n)
    BY DEF StoredForm
  <2>11. \A i \in 1 .. Len(output') : output'[i].form = StoredForm(output'[i].num)
    <3> TAKE i \in 1 .. Len(output')
    <3>1. CASE i = Len(output) + 1
      BY <3>1, <2>2, <2>3, <2>7
    <3>2. CASE i # Len(output) + 1
      BY <3>2, <2>3 DEF Forms
    <3> QED
      BY <3>1, <3>2
  <2>12. Forms'
    BY <2>10, <2>11 DEF Forms
  <2>13. Reading'
    BY <2>5, <2>6 DEF Reading, stop_at_block
  <2>14. QueuesBounded'
    BY DEF QueuesBounded
  <2> QED
    BY <2>4, <2>9, <2>12, <2>13, <2>14
<1> QED
  BY <1>1, <1>2, <1>3, <1>4, <1>5, <1>6 DEF DrainNext

--------------------
(* Who will notify the others.                                             *)
Coming == fill \in {"notify", "last"} \/ \E w \in Compressors : worker[w].at = "notify"

(* A thread sleeps for a reason that is there, or that somebody who has    *)
(* taken it away is about to tell.                                         *)
Sleeping ==
    /\ error_detected => asleep = {}
    /\ "fill" \in asleep =>
          fill = "room" /\ (Len(pending_queue) >= blocks_to_prefetch \/ Coming)
    /\ \A w \in Compressors : w \in asleep =>
          /\ worker[w].at = "queue"
          /\ \/ pending_queue = <<>> /\ ~all_blocks_enqueued
             \/ Len(completed_queue) >= max_completed_queue_size
             \/ Coming
    /\ "drain" \in asleep =>
          /\ drain = "queue"
          /\ \/ pending_queue = <<>> /\ completed_queue = <<>> /\ ~all_blocks_enqueued
             \/ Coming

(* A block whose record is on the queue is, or will be, compressed.        *)
Made(n) ==
    \/ n \in DOMAIN compressed
    \/ \E w \in Compressors : worker[w].at \in {"notify", "work"} /\ worker[w].block = n

(* Without an error a thread leaves only when its work is done.            *)
Leaving ==
    ~error_detected =>
      /\ fill \in {"last", "left"} => all_blocks_enqueued
      /\ \A w \in Compressors : worker[w].at = "left" => pending_queue = <<>> /\ all_blocks_enqueued
      /\ drain # "left"
      /\ drain = "closed" => Drained
      /\ \A i \in 1 .. Len(completed_queue) : Made(completed_queue[i])
      /\ drain = "promise" => Made(held)

WakeInv == Sleeping /\ Leaving

\* At the start nobody sleeps.
LEMMA WakeInit == CompressorInit => WakeInv
BY DEF CompressorInit, WakeInv, Sleeping, Leaving, Drained

\* The steps of the reading thread lose no wakeup.
LEMMA FillWakes == ASSUME PipelineInv, WakeInv, FillNext PROVE WakeInv'
<1> USE DEF WakeInv
<1>1. CASE FillOpen
  <2> USE <1>1 DEF FillOpen, Caught, AllQuiet
  <2>1. Sleeping'
    BY DEF Sleeping, Coming
  <2>2. Leaving'
    BY DEF Leaving, Made, Drained
  <2> QED
    BY Zenon, <2>1, <2>2
<1>2. CASE FillRoom
  <2> USE <1>2 DEF FillRoom, Sleep, AllQuiet
  <2>1. Sleeping'
    BY CompressorsAssumption DEF Sleeping, Coming
  <2>2. Leaving'
    BY DEF Leaving, Made, Drained
  <2> QED
    BY Zenon, <2>1, <2>2
<1>3. CASE FillRead
  <2> USE <1>3 DEF FillRead, Caught, AllQuiet
  <2>1. Sleeping'
    BY Zenon DEF Sleeping, Coming
  <2>2. Leaving'
    BY DEF Leaving, Made, Drained
  <2> QED
    BY Zenon, <2>1, <2>2
<1>4. CASE FillPush
  <2> USE <1>4 DEF FillPush, AllQuiet
  <2>1. Sleeping'
    BY DEF Sleeping, Coming
  <2>2. ~all_blocks_enqueued
    BY Zenon DEF PipelineInv, Reading
  <2>3. Leaving'
    BY <2>2 DEF Leaving, Made, Drained
  <2> QED
    BY Zenon, <2>1, <2>3
<1>5. CASE FillNotify
  <2> USE <1>5 DEF FillNotify, NotifyAll
  <2>1. Sleeping'
    BY Zenon DEF Sleeping, Coming
  <2>2. Leaving'
    BY DEF Leaving, Made, Drained
  <2> QED
    BY Zenon, <2>1, <2>2
<1> QED
  BY <1>1, <1>2, <1>3, <1>4, <1>5 DEF FillNext

\* The steps of a compressing thread lose no wakeup.
LEMMA WorkerWakes == ASSUME PipelineInv, WakeInv, NEW w \in Compressors, WorkerNext(w) PROVE WakeInv'
<1> USE DEF WakeInv
<1>0. /\ worker \in [Compressors -> [at : {"queue", "notify", "work", "left"}, block : Int]]
      /\ pending_queue \in Seq(Int) /\ completed_queue \in Seq(Int)
  BY DEF PipelineInv, Types
<1>1. CASE /\ compress_blocks(w) /\ Sleep(w) /\ UNCHANGED <<worker, pending_queue, completed_queue>>
           /\ ~error_detected
           /\ \/ pending_queue = <<>> /\ ~all_blocks_enqueued
              \/ Len(completed_queue) >= max_completed_queue_size
  <2>1. /\ worker[w].at = "queue" /\ asleep' = asleep \union {w} /\ ~error_detected'
        /\ UNCHANGED <<fill, drain, held, compressed, all_blocks_enqueued>>
    BY <1>1 DEF compress_blocks, Sleep
  <2>2. Coming' = Coming
    BY Zenon, <1>1, <2>1 DEF Coming
  <2>3. Sleeping'
    BY Zenon, <1>1, <2>1, <2>2, CompressorsAssumption DEF Sleeping
  <2>4. Leaving'
    BY <1>1, <2>1 DEF Leaving, Made, Drained
  <2> QED
    BY <2>3, <2>4
<1>2. CASE compress_blocks(w) /\ worker' = [worker EXCEPT ![w].at = "left"]
            /\ UNCHANGED <<pending_queue, completed_queue, asleep, error_detected>>
            /\ (error_detected \/ (pending_queue = <<>> /\ all_blocks_enqueued))
  <2> USE <1>2 DEF compress_blocks
  <2>1. \A v \in Compressors : v # w => worker'[v] = worker[v]
    BY <1>0
  <2>2. worker[w].at = "queue" /\ worker'[w].at = "left" /\ w \notin asleep
    BY <1>0
  <2>3. Coming' = Coming
    BY <2>1, <2>2 DEF Coming
  <2>4. Sleeping'
    BY <2>1, <2>2, <2>3 DEF Sleeping
  <2>5. \A n : Made(n) => Made(n)'
    BY <2>1, <2>2 DEF Made
  <2>6. Leaving'
    BY <2>1, <2>2, <2>5 DEF Leaving, Drained
  <2> QED
    BY <2>4, <2>6
<1>3. CASE /\ compress_blocks(w) /\ pending_queue # <<>> /\ ~error_detected
           /\ worker' = [worker EXCEPT ![w] = [at |-> "notify", block |-> Head(pending_queue)]]
           /\ completed_queue' = Append(completed_queue, Head(pending_queue))
           /\ pending_queue' = Tail(pending_queue)
           /\ UNCHANGED <<asleep, error_detected>>
  <2>0. /\ worker[w].at = "queue" /\ w \notin asleep
        /\ UNCHANGED <<fill, drain, held, compressed, all_blocks_enqueued>>
    BY Zenon, <1>3 DEF compress_blocks
  <2>1. \A v \in Compressors : v # w => worker'[v] = worker[v]
    BY <1>0, <1>3
  <2>2. worker'[w].at = "notify" /\ worker'[w].block = Head(pending_queue)
    BY <1>0, <1>3
  <2>3. Coming'
    BY <2>2 DEF Coming
  <2>4. Sleeping'
    BY Zenon, <1>3, <2>0, <2>1, <2>2, <2>3 DEF Sleeping
  <2>5. \A n : Made(n) => Made(n)'
    BY Zenon, <2>0, <2>1, <2>2 DEF Made
  <2>9. \A i \in 1 .. Len(completed_queue) : Made(completed_queue[i])
    BY <1>3, <2>0 DEF Leaving
  <2>6. (\A i \in 1 .. Len(completed_queue) : Made(completed_queue[i]))'
    <3>1. /\ Len(completed_queue) \in Nat /\ Len(completed_queue') = Len(completed_queue) + 1
          /\ \A i \in 1 .. Len(completed_queue) : completed_queue'[i] = completed_queue[i]
          /\ completed_queue'[Len(completed_queue) + 1] = Head(pending_queue)
      BY <1>0, <1>3
    <3> SUFFICES ASSUME NEW i \in 1 .. Len(completed_queue') PROVE Made(completed_queue[i])'
      OBVIOUS
    <3>2. CASE i = Len(completed_queue) + 1
      BY Zenon, <3>1, <3>2, <2>2 DEF Made
    <3>3. CASE i # Len(completed_queue) + 1
      <4>1. i \in 1 .. Len(completed_queue)
        BY <3>1, <3>3
      <4>2. completed_queue'[i] = completed_queue[i]
        BY <3>1, <4>1
      <4>3. Made(completed_queue[i])
        BY <2>9, <4>1
      <4>4. PICK n : n = completed_queue[i]
        OBVIOUS
      <4>5. Made(n)'
        BY Zenon, <4>3, <4>4, <2>5
      <4> QED
        BY Zenon, <4>2, <4>4, <4>5 DEF Made
    <3> QED
      BY Zenon, <3>2, <3>3
  <2>7. drain = "promise" => Made(held)'
    BY Zenon, <1>3, <2>0, <2>1, <2>2 DEF Leaving, Made
  <2>8. Leaving'
    BY <1>3, <2>0, <2>1, <2>2, <2>6, <2>7 DEF Leaving, Drained
  <2> QED
    BY <2>4, <2>8
<1>4. CASE WorkerNotify(w)
  <2> USE <1>4 DEF WorkerNotify, NotifyAll
  <2>1. \A v \in Compressors : v # w => worker'[v] = worker[v]
    BY <1>0
  <2>2. worker[w].at = "notify" /\ worker'[w].at = "work" /\ worker'[w].block = worker[w].block
    BY <1>0
  <2>3. Sleeping'
    BY DEF Sleeping
  <2>4. \A n : Made(n) => Made(n)'
    BY <2>1, <2>2 DEF Made
  <2>5. Leaving'
    BY <2>1, <2>2, <2>4 DEF Leaving, Drained
  <2> QED
    BY <2>3, <2>5
<1>5. CASE WorkerDone(w) /\ error_detected'
  BY Zenon, <1>5, <1>0 DEF WorkerDone, Caught, AllQuiet, Sleeping, Leaving
<1>6. CASE WorkerDone(w) /\ ~error_detected'
  <2> DEFINE n == worker[w].block
  <2>1. /\ worker[w].at = "work" /\ worker' = [worker EXCEPT ![w].at = "queue"]
        /\ DOMAIN compressed' = DOMAIN compressed \union {n}
        /\ UNCHANGED <<fill, pending_queue, completed_queue, drain, held, all_blocks_enqueued,
                       asleep, error_detected>>
    BY <1>6 DEF WorkerDone, Caught, AllQuiet
  <2>2. \A v \in Compressors : v # w => worker'[v] = worker[v]
    BY <1>0, <2>1
  <2>3. worker'[w].at = "queue"
    BY <1>0, <2>1
  <2>4. Coming' = Coming
    BY <2>1, <2>2, <2>3 DEF Coming
  <2>5. Sleeping'
    BY <2>1, <2>2, <2>3, <2>4 DEF Sleeping
  <2>6. \A m : Made(m) => Made(m)'
    BY <2>1, <2>2 DEF Made
  <2>7. Leaving'
    BY <1>6, <2>1, <2>2, <2>3, <2>6 DEF Leaving, Drained
  <2> QED
    BY <2>5, <2>7
<1>7. ASSUME compress_blocks(w) PROVE WakeInv'
  BY <1>7, <1>1, <1>2, <1>3 DEF compress_blocks, AllQuiet
<1> QED
  BY <1>4, <1>5, <1>6, <1>7 DEF WorkerNext

\* The steps of the appending thread lose no wakeup.
LEMMA DrainWakes == ASSUME PipelineInv, WakeInv, DrainNext PROVE WakeInv'
<1> USE DEF WakeInv
<1>0. completed_queue \in Seq(Int) /\ pending_queue \in Seq(Int)
  BY Zenon DEF PipelineInv, Types
<1>1. CASE DrainOpen
  BY <1>1 DEF DrainOpen, Caught, AllQuiet, Sleeping, Coming, Leaving, Made, Drained
<1>2. CASE drain_completed_queue /\ drain' = "queue" /\ completed_queue' = completed_queue
  <2>1. /\ pending_queue = <<>> /\ completed_queue = <<>> /\ ~all_blocks_enqueued /\ drain = "queue"
        /\ ~error_detected /\ Sleep("drain")
        /\ UNCHANGED <<fill, pending_queue, completed_queue, compressed, worker, held, all_blocks_enqueued>>
    BY Zenon, <1>2 DEF drain_completed_queue
  <2>2. Sleeping'
    BY Zenon, <1>2, <2>1, CompressorsAssumption DEF Sleeping, Coming, Sleep
  <2>3. Leaving'
    BY <1>2, <2>1 DEF Leaving, Made, Drained, Sleep
  <2> QED
    BY <2>2, <2>3
<1>3. CASE drain_completed_queue /\ drain' \in {"left", "closed"}
  <2>1. /\ drain = "queue" /\ "drain" \notin asleep
        /\ error_detected \/ (drain' = "closed" /\ Drained)
        /\ UNCHANGED <<fill, pending_queue, completed_queue, compressed, worker, held, all_blocks_enqueued,
                       asleep, error_detected>>
    BY Zenon, <1>3 DEF drain_completed_queue, AllQuiet
  <2>2. Sleeping'
    BY Zenon, <2>1 DEF Sleeping, Coming
  <2>3. Leaving'
    BY <1>3, <2>1 DEF Leaving, Made, Drained
  <2> QED
    BY <2>2, <2>3
<1>4. CASE drain_completed_queue /\ drain' = "promise"
  <2>1. /\ completed_queue # <<>> /\ ~error_detected /\ held' = Head(completed_queue)
        /\ completed_queue' = Tail(completed_queue) /\ asleep' = {} /\ drain = "queue"
        /\ UNCHANGED <<fill, pending_queue, compressed, worker, all_blocks_enqueued, error_detected>>
    BY Zenon, <1>4 DEF drain_completed_queue, NotifyAll
  <2>2. Sleeping'
    BY <2>1 DEF Sleeping
  <2>3. \A n : Made(n)' = Made(n)
    BY <2>1 DEF Made
  <2>4. /\ Len(completed_queue) \in Nat /\ Len(completed_queue) > 0
        /\ Len(completed_queue') = Len(completed_queue) - 1
        /\ held' = completed_queue[1]
        /\ \A i \in 1 .. Len(completed_queue') : completed_queue'[i] = completed_queue[i + 1]
    BY <1>0, <2>1
  <2>5. Made(held)'
    <3> DEFINE n == completed_queue[1]
    <3>1. Made(n) /\ n = held'
      BY <2>1, <2>4 DEF Leaving
    <3> HIDE DEF n
    <3> QED
      BY <2>1, <3>1 DEF Made
  <2>6. (\A i \in 1 .. Len(completed_queue) : Made(completed_queue[i]))'
    <3> SUFFICES ASSUME NEW i \in 1 .. Len(completed_queue') PROVE Made(completed_queue[i])'
      OBVIOUS
    <3> DEFINE n == completed_queue[i + 1]
    <3>1. i + 1 \in 1 .. Len(completed_queue) /\ n = completed_queue'[i]
      BY <2>4
    <3>2. Made(n)
      BY <2>1, <3>1 DEF Leaving
    <3> HIDE DEF n
    <3> QED
      BY <2>1, <3>1, <3>2 DEF Made
  <2>7. Leaving'
    BY Zenon, <1>4, <2>1, <2>5, <2>6 DEF Leaving
  <2> QED
    BY <2>2, <2>7
<1>5. CASE DrainPromise
  BY <1>5 DEF DrainPromise, AllQuiet, Sleeping, Coming, Leaving, Made, Drained
<1>6. CASE DrainAppend
  BY <1>6 DEF DrainAppend, Caught, AllQuiet, Sleeping, Coming, Leaving, Made, Drained
<1>7. ASSUME drain_completed_queue PROVE WakeInv'
  <2>1. drain' = "queue" => completed_queue' = completed_queue
    BY <1>7 DEF drain_completed_queue
  <2>2. drain' \in {"queue", "promise", "left", "closed"}
    BY <1>7 DEF drain_completed_queue
  <2> QED
    BY <1>2, <1>3, <1>4, <1>7, <2>1, <2>2
<1> QED
  BY <1>1, <1>5, <1>6, <1>7 DEF DrainNext

(* With the two invariants there is always somebody who goes on.           *)
LEMMA SomebodyAwake == ASSUME PipelineInv, WakeInv PROVE NobodyStuck
<1> SUFFICES ASSUME ~SomebodyGoesOn PROVE Ended
  BY DEF NobodyStuck
<1> USE DEF WakeInv
<1>0. /\ fill \in {"open", "room", "read", "push", "notify", "last", "left"}
      /\ drain \in {"open", "queue", "promise", "append", "left", "closed"}
      /\ \A w \in Compressors : worker[w].at \in {"queue", "notify", "work", "left"}
      /\ pending_queue \in Seq(Int) /\ completed_queue \in Seq(Int)
  BY DEF PipelineInv, Types
<1>1. /\ fill = "left" \/ "fill" \in asleep
      /\ \A w \in Compressors : worker[w].at = "left" \/ w \in asleep
      /\ drain \notin {"open", "append"}
  BY Zenon DEF SomebodyGoesOn
<1>2. CASE error_detected
  BY <1>0, <1>1, <1>2 DEF Sleeping, SomebodyGoesOn, Ended
<1>3. CASE ~error_detected
  <2>1. ~Coming
    BY Zenon, <1>1 DEF Coming, Sleeping
  <2>2. drain # "promise"
    BY <1>1, <1>3 DEF Leaving, Made, Sleeping, SomebodyGoesOn
  <2>3. (pending_queue = <<>> => Len(pending_queue) = 0) /\ (completed_queue = <<>> => Len(completed_queue) = 0)
    BY <1>0
  <2>4. CASE drain = "closed"
    <3>1. pending_queue = <<>> /\ completed_queue = <<>> /\ all_blocks_enqueued
      BY <1>3, <2>4 DEF Leaving, Drained
    <3>2. fill = "left"
      BY <1>1, <2>1, <2>3, <3>1, QueuesAssumption DEF Sleeping
    <3>3. \A w \in Compressors : worker[w].at = "left"
      BY <1>1, <2>1, <2>3, <3>1, QueuesAssumption DEF Sleeping
    <3> QED
      BY <2>4, <3>2, <3>3 DEF Ended
  <2>5. CASE drain = "queue" /\ "drain" \in asleep
    <3>1. pending_queue = <<>> /\ completed_queue = <<>> /\ ~all_blocks_enqueued
      BY <2>1, <2>5 DEF Sleeping
    <3>2. "fill" \notin asleep
      BY <2>1, <2>3, <3>1, QueuesAssumption DEF Sleeping
    <3> QED
      BY <1>1, <1>3, <3>1, <3>2 DEF Leaving
  <2>6. CASE drain = "queue" /\ "drain" \notin asleep
    <3>1. completed_queue = <<>> /\ pending_queue # <<>>
      BY <2>6 DEF SomebodyGoesOn
    <3>2. PICK w \in Compressors : TRUE
      BY CompressorsAssumption
    <3>3. w \notin asleep
      BY <2>1, <2>3, <3>1, QueuesAssumption DEF Sleeping
    <3> QED
      BY <1>1, <1>3, <3>1, <3>3 DEF Leaving
  <2> QED
    BY Zenon, <1>0, <1>1, <1>3, <2>2, <2>4, <2>5, <2>6 DEF Leaving
<1> QED
  BY <1>2, <1>3

(* Whatever the threads do and whatever fails, the output log holds the    *)
(* blocks asked for, in order and in the form asked for, and all of them   *)
(* when the writer closes it; the queues keep to their limits; and until   *)
(* the program ends some thread can go on.                                 *)
THEOREM CompressionIsExact == CompressorSpec => []CompressionExact
<1>1. CompressorInit => PipelineInv
  BY PipelineInit
<1>2. PipelineInv /\ [CompressorNext]_cvars => PipelineInv'
  <2> SUFFICES ASSUME PipelineInv, [CompressorNext]_cvars PROVE PipelineInv'
    OBVIOUS
  <2>1. CASE CompressorNext
    BY <2>1, FillKeeps, WorkerKeeps, DrainKeeps DEF CompressorNext
  <2>2. CASE UNCHANGED cvars
    <3> USE <2>2 DEF cvars, PipelineInv
    <3>1. Types'
      BY Zenon DEF Types
    <3>2. Consecutive'
      BY Zenon DEF Consecutive, Holding, Held, Completed, Pending
    <3>3. Forms'
      BY Zenon DEF Forms, StoredForm
    <3>4. Reading'
      BY DEF Reading, Holding, Held, Completed, Pending, Unread, stop_at_block
    <3>5. QueuesBounded' /\ (drain = "closed" => job.start + Len(output) > stop_at_block)'
      BY DEF QueuesBounded, stop_at_block
    <3> QED
      BY <3>1, <3>2, <3>3, <3>4, <3>5
  <2> QED
    BY <2>1, <2>2
<1>3. CompressorInit => WakeInv
  BY WakeInit
<1>4. PipelineInv /\ WakeInv /\ [CompressorNext]_cvars => WakeInv'
  <2> SUFFICES ASSUME PipelineInv, WakeInv, [CompressorNext]_cvars PROVE WakeInv'
    OBVIOUS
  <2>1. CASE CompressorNext
    BY ZenonT(40), <2>1, FillWakes, WorkerWakes, DrainWakes DEF CompressorNext
  <2>2. CASE UNCHANGED cvars
    BY <2>2 DEF cvars, WakeInv, Sleeping, Coming, Leaving, Made, Drained
  <2> QED
    BY <2>1, <2>2
<1>5. PipelineInv /\ WakeInv => CompressionExact
  <2>1. PipelineInv => OutputExact /\ QueuesBounded
    BY DEF PipelineInv, Consecutive, Forms, OutputExact
  <2> QED
    BY <2>1, SomebodyAwake DEF CompressionExact
<1> QED
  BY <1>1, <1>2, <1>3, <1>4, <1>5, PTL DEF CompressorSpec
===============================================================================
