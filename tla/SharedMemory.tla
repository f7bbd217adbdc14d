---- MODULE SharedMemory ----
(***************************************************************************)
(* The state file of a node and the process that maps it: the class        *)
(* chainbase::database (libraries/chainbase/src/chainbase.cpp and          *)
(* include/chainbase/chainbase.hpp) as hive::chain::database opens, uses,  *)
(* grows and closes it (libraries/chain/database.cpp, database_init.cpp).  *)
(*                                                                         *)
(* The file outlives the process: it is mapped, so whatever the process    *)
(* has written is there after a kill, at whatever statement the kill came. *)
(* The file holds one table per object type; a table has its contents, its *)
(* revision and its undo stack.  Contents are the blocks applied to it.    *)
(* Every call that goes through the list of tables goes one table at a     *)
(* step here, because a kill may come between two of them.                 *)
(*                                                                         *)
(* A life is one start of the node with its options; Lives are the starts  *)
(* of one data directory, in order.                                        *)
(***************************************************************************)
EXTENDS Naturals, Sequences, FiniteSets
LOCAL INSTANCE FiniteSetsExt

CONSTANTS
  Core,               \* the core object types, in the order they are added
  PluginType,         \* the object types plugins add
  StateBlocks,        \* the blocks applied
  MaxStateHead,       \* the longest chain
  Lives,              \* sequences of starts
  DiskSize,           \* what the file may grow to
  FullThreshold,      \* shared-file-full-threshold, in percent
  ScaleRate,          \* shared-file-scale-rate, in percent
  Callers             \* threads that read under the read lock

VARIABLES
  shm,                \* shared_memory.bin
  proc,               \* the running process
  lives,              \* the starts still to come
  spoiled,            \* tables a kill or a life without their plugin left behind
  past,               \* what befell the file since it was made
  caller              \* what each reading thread is at

memoryVars == <<shm, proc, lives, spoiled, past, caller>>

StateType == {Core[i] : i \in DOMAIN Core} \cup PluginType
NoTable == [revision |-> 0, value |-> <<>>, sessions |-> <<>>, there |-> FALSE]
NewTable == [NoTable EXCEPT !.there = TRUE]

\* environment_check: what the file says of the build that made it
environment_check(life) == [build |-> life.build, created_storage |-> TRUE, decoded |-> {}]

NoMemoryFile == [there |-> FALSE]
create_only(life) ==
  [there |-> TRUE, size |-> life.size, env |-> environment_check(life),
   table |-> [t \in StateType |-> NoTable], lib |-> 0, genesis |-> "none"]

ProcessDown == [pc |-> "down", life |-> [build |-> 0, defs |-> 0, plugins |-> <<>>, size |-> 0,
                                  wipe |-> FALSE],
         index_list |-> <<>>, i |-> 1, created_earlier |-> FALSE, created_now |-> FALSE,
         moved |-> FALSE, undo_on_destroy |-> FALSE, lib_to |-> 0, why |-> ""]

\* The file was left before its first start was over; was killed between the
\* irreversible number and the first commit; was opened by a second process.
Untouched == [unfinished |-> FALSE, torn |-> FALSE, disturbed |-> FALSE]

--------------------
(* One table *)

start_session(t) == [t EXCEPT !.revision = @ + 1,
                              !.sessions = Append(@, [old |-> t.value, at |-> t.revision + 1])]

undo_one(t) ==
  IF t.sessions = <<>> THEN t
  ELSE [t EXCEPT !.revision = @ - 1, !.value = t.sessions[Len(t.sessions)].old,
                 !.sessions = SubSeq(@, 1, Len(@) - 1)]

undo_every(t) ==
  IF t.sessions = <<>> THEN t
  ELSE [t EXCEPT !.revision = @ - Len(t.sessions), !.value = t.sessions[1].old,
                 !.sessions = <<>>]

\* Mutant: the session of the last irreversible block stays open.
commit_before(t, r) ==
  LET kept == {k \in DOMAIN t.sessions : t.sessions[k].at >= r} IN
  [t EXCEPT !.sessions = SubSeq(@, Len(@) - Cardinality(kept) + 1, Len(@))]

commit_upto(t, r) ==
  LET kept == {k \in DOMAIN t.sessions : t.sessions[k].at > r} IN
  [t EXCEPT !.sessions = SubSeq(@, Len(@) - Cardinality(kept) + 1, Len(@))]

--------------------
(* The process *)

Required(life) == Core \o life.plugins
Registered == {proc.index_list[k] : k \in DOMAIN proc.index_list}
Head0 == shm.table[Core[1]]
StateHead == Len(Head0.value)                     \* head_block_num(): the first core table
database_revision == Head0.revision               \* revision(): of _index_list[0]

Used(f) ==
  MapThenSumSet(LAMBDA t : 1 + Len(f.table[t].value), {t \in StateType : f.table[t].there})
FreeMemory(f) == f.size - Used(f)

\* A start that failed: FC_ASSERT or a thrown runtime_error ends the program.
Refuse(why) ==
  /\ proc' = [ProcessDown EXCEPT !.pc = "refused", !.life = proc.life, !.why = why]
  /\ UNCHANGED <<lives, spoiled, past, caller>>

\* The process moves on and the bookkeeping of the past stays.
To(pc) == proc' = [proc EXCEPT !.pc = pc, !.i = 1]
KeepPast == UNCHANGED <<lives, spoiled, past, caller>>

StartProcess ==
  /\ proc.pc \in {"down", "refused"}
  /\ lives # <<>>
  /\ proc' = [ProcessDown EXCEPT !.pc = IF lives[1].wipe THEN "wipe" ELSE "open", !.life = lives[1]]
  /\ lives' = Tail(lives)
  /\ UNCHANGED <<shm, spoiled, past, caller>>

\* database::wipe(): the file goes, and with it everything that was wrong with it.
WipeState ==
  /\ proc.pc = "wipe"
  /\ shm' = NoMemoryFile
  /\ To("open")
  /\ spoiled' = {}
  /\ past' = Untouched
  /\ UNCHANGED <<lives, caller>>

\* chainbase::database::open() of a file that is there: it may have to grow,
\* it must be of this build, and from now on it is not a new one.
OpenExisting ==
  /\ proc.pc = "open"
  /\ shm.there
  /\ LET size == IF proc.life.size > shm.size THEN proc.life.size ELSE shm.size IN
     IF size > DiskSize
     THEN shm' = shm /\ Refuse("no space")
     ELSE IF shm.env.build # proc.life.build
     THEN shm' = [shm EXCEPT !.size = size] /\ Refuse("other build")
     ELSE /\ shm' = [shm EXCEPT !.size = size, !.env.created_storage = FALSE]
          /\ To("add")
          /\ KeepPast

OpenNew ==
  /\ proc.pc = "open"
  /\ ~shm.there
  /\ IF proc.life.size > DiskSize
     THEN shm' = shm /\ Refuse("no space")
     ELSE /\ shm' = create_only(proc.life)
          /\ To("add")
          /\ KeepPast

\* The consistency checks of add_index_helper(): tables of the file and
\* tables made now do not go together.
Mixed(found) ==
  \/ found /\ proc.created_now
  \/ ~found /\ proc.created_earlier

\* add_index() of the next object type of the core, then of the plugins
AddIndex ==
  /\ proc.pc \in {"add", "add again"}
  /\ proc.i <= Len(Required(proc.life))
  /\ LET t == Required(proc.life)[proc.i]
         found == shm.table[t].there
     IN IF Mixed(found)
        THEN shm' = shm /\ Refuse("mixed tables")
        ELSE /\ shm' = IF found THEN shm ELSE [shm EXCEPT !.table[t] = NewTable]
             /\ proc' = [proc EXCEPT !.i = @ + 1, !.index_list = Append(@, t),
                                     !.created_earlier = @ \/ found,
                                     !.created_now = @ \/ ~found]
             /\ KeepPast

Definitions == {<<Required(proc.life)[k], proc.life.defs>> : k \in DOMAIN Required(proc.life)}

\* verify_match_of_state_objects_definitions_from_shm(): definitions the file
\* lacks, or has otherwise, stop the node; more in the file is only logged.
VerifyDefinitions ==
  /\ proc.pc = "add"
  /\ proc.i > Len(Required(proc.life))
  /\ IF shm.env.decoded = {}
     THEN IF shm.env.created_storage
          THEN shm' = [shm EXCEPT !.env.decoded = Definitions] /\ To("genesis") /\ KeepPast
          ELSE shm' = shm /\ Refuse("not new")
     ELSE /\ shm' = shm
          /\ IF Definitions \subseteq shm.env.decoded
             THEN To("genesis") /\ KeepPast
             ELSE Refuse("other definitions")

\* init_genesis() makes the accounts, then the global properties (whose
\* presence is what the next start looks for), then the rest.
InitGenesis ==
  /\ proc.pc = "genesis"
  /\ CASE shm.genesis \in {"most", "whole"} /\ proc.i = 1 ->
            shm' = shm /\ To("rewind") /\ KeepPast
       [] shm.genesis = "none" ->
            shm' = [shm EXCEPT !.genesis = "some"] /\ proc' = [proc EXCEPT !.i = 2] /\ KeepPast
       [] shm.genesis = "some" /\ proc.i = 1 ->
            shm' = shm /\ Refuse("half of genesis")
       [] shm.genesis = "some" /\ proc.i = 2 ->
            shm' = [shm EXCEPT !.genesis = "most"] /\ proc' = [proc EXCEPT !.i = 3] /\ KeepPast
       [] OTHER -> shm' = [shm EXCEPT !.genesis = "whole"] /\ To("rewind") /\ KeepPast

\* undo_all() in load_state_initial_data(), table by table
Rewind ==
  /\ proc.pc = "rewind"
  /\ proc.i <= Len(proc.index_list)
  /\ shm' = [shm EXCEPT !.table[proc.index_list[proc.i]] = undo_every(@)]
  /\ proc' = [proc EXCEPT !.i = @ + 1]
  /\ KeepPast

\* The assertions after the rewind
LoadState ==
  /\ proc.pc = "rewind"
  /\ proc.i > Len(proc.index_list)
  /\ shm' = shm
  /\ IF StateHead >= shm.lib /\ database_revision = StateHead
     THEN To("ready") /\ KeepPast
     ELSE Refuse("irreversible block lost")

--------------------
(* At work: one block at a time, under the write lock *)

Reading == {c \in Callers : caller[c] = "reading"}
WriteLocked == proc.pc \in {"session", "apply", "unwind", "commit", "pop", "resize", "add again"}
Resting == proc.pc = "ready"

\* with_write_lock() lets its callback in when nobody reads.  Memory that was
\* mapped again elsewhere leaves last_irreversible_object pointing nowhere,
\* and the block that looks at it next may end the process.
TakesWriteLock == Resting /\ Reading = {} /\ ~proc.moved

\* start_undo_session() of all tables, then the guard is made
BeginBlock ==
  /\ TakesWriteLock
  /\ StateHead < MaxStateHead
  /\ To("session")
  /\ UNCHANGED shm
  /\ KeepPast

OpenSession ==
  /\ proc.pc = "session"
  /\ IF proc.i <= Len(proc.index_list)
     THEN /\ shm' = [shm EXCEPT !.table[proc.index_list[proc.i]] = start_session(@)]
          /\ proc' = [proc EXCEPT !.i = @ + 1]
     ELSE /\ shm' = shm
          /\ proc' = [proc EXCEPT !.pc = "apply", !.i = 1, !.undo_on_destroy = TRUE]
  /\ KeepPast

\* The block changes the tables of the core and of the plugins of this life;
\* push() keeps the session.  A table whose plugin is away misses the block.
ApplyStateBlock(b) ==
  /\ proc.pc = "apply"
  /\ shm' = [shm EXCEPT !.table = [t \in StateType |->
                IF t \in Registered THEN [@[t] EXCEPT !.value = Append(@, b)] ELSE @[t]]]
  /\ proc' = [proc EXCEPT !.pc = "commit", !.i = 0, !.undo_on_destroy = FALSE]
  /\ spoiled' = spoiled \cup {t \in StateType \ Registered : shm.table[t].there}
  /\ UNCHANGED <<lives, past, caller>>

\* A block found invalid half way: the guard's destructor undoes the session.
FailStateBlock(b) ==
  /\ proc.pc = "apply"
  /\ proc.undo_on_destroy
  /\ \E seen \in SUBSET Registered :
       shm' = [shm EXCEPT !.table = [t \in StateType |->
                 IF t \in seen THEN [@[t] EXCEPT !.value = Append(@, b)] ELSE @[t]]]
  /\ To("unwind")
  /\ KeepPast

\* undo() of all tables, by the guard or by pop_block()
Unwind ==
  /\ proc.pc \in {"unwind", "pop"}
  /\ IF proc.i <= Len(proc.index_list)
     THEN /\ shm' = [shm EXCEPT !.table[proc.index_list[proc.i]] = undo_one(@)]
          /\ proc' = [proc EXCEPT !.i = @ + 1]
     ELSE shm' = shm /\ To("ready")
  /\ KeepPast

PopStateBlock ==
  /\ TakesWriteLock
  /\ StateHead > shm.lib
  /\ To("pop")
  /\ UNCHANGED shm
  /\ KeepPast

\* set_last_irreversible_block_num(), before anything is committed
MoveIrreversible(n) ==
  /\ proc.pc = "commit"
  /\ proc.i = 0
  /\ n \in shm.lib..StateHead
  /\ shm' = [shm EXCEPT !.lib = n]
  /\ proc' = [proc EXCEPT !.i = 1, !.lib_to = n]
  /\ KeepPast

\* commit() of all tables, then check_free_memory()
AlmostFull ==
  /\ FullThreshold # 0
  /\ ScaleRate # 0
  /\ FreeMemory(shm) * 100 < (100 - FullThreshold) * shm.size

CommitTables ==
  /\ proc.pc = "commit"
  /\ proc.i > 0
  /\ IF proc.i <= Len(proc.index_list)
     THEN /\ shm' = [shm EXCEPT !.table[proc.index_list[proc.i]] = commit_upto(@, proc.lib_to)]
          /\ proc' = [proc EXCEPT !.i = @ + 1]
     ELSE shm' = shm /\ To(IF AlmostFull THEN "resize" ELSE "ready")
  /\ KeepPast

\* resize(): unmapped, opened again larger, and every table added again.  A
\* file that cannot grow leaves the process with nothing mapped.
Resize ==
  /\ proc.pc = "resize"
  /\ LET size == shm.size + (shm.size * ScaleRate) \div 100 IN
     IF size > DiskSize
     THEN shm' = shm /\ proc' = ProcessDown
     ELSE /\ shm' = [shm EXCEPT !.size = size, !.env.created_storage = FALSE]
          /\ \E moved \in BOOLEAN :
               proc' = [proc EXCEPT !.pc = "add again", !.i = 1, !.index_list = <<>>,
                                    !.created_earlier = FALSE, !.created_now = FALSE,
                                    !.moved = moved]
  /\ KeepPast

AddedAgain ==
  /\ proc.pc = "add again"
  /\ proc.i > Len(Required(proc.life))
  /\ To("ready")
  /\ UNCHANGED shm
  /\ KeepPast

CloseDatabase ==
  /\ Resting
  /\ proc' = ProcessDown
  /\ caller' = [c \in Callers |-> "away"]
  /\ UNCHANGED <<shm, lives, spoiled, past>>

\* The process ends at any statement.  What is mapped stays as it was.
KillProcess ==
  /\ proc.pc \notin {"down", "refused"}
  /\ proc' = ProcessDown
  /\ past' = [past EXCEPT
       !.unfinished = @ \/ (shm.there /\ (shm.env.decoded = {} \/ shm.genesis # "whole")),
       !.torn = @ \/ (/\ proc.pc = "commit"
                     /\ proc.i = 1
                     /\ Head0 # commit_upto(Head0, proc.lib_to))]
  /\ spoiled' = spoiled \cup
       {t \in Registered : proc.pc = "commit" /\ proc.i > 1
                           /\ shm.table[t] # commit_upto(shm.table[t], proc.lib_to)}
  /\ caller' = [c \in Callers |-> "away"]
  /\ UNCHANGED <<shm, lives>>

\* open() of a second process on the same file fails at its lock, after it
\* has marked the file as not new.
SecondProcess ==
  /\ proc.pc \notin {"down", "refused", "wipe", "open"}
  /\ shm.env.created_storage
  /\ shm' = [shm EXCEPT !.env.created_storage = FALSE]
  /\ past' = [past EXCEPT !.disturbed = TRUE]
  /\ UNCHANGED <<proc, lives, spoiled, caller>>

\* with_read_lock(): wait, give up after the time allowed, or read.
CallerMoves(c, from, to) ==
  /\ Resting \/ WriteLocked
  /\ caller[c] = from
  /\ caller' = [caller EXCEPT ![c] = to]
  /\ UNCHANGED <<shm, proc, lives, spoiled, past>>

AskRead(c) == CallerMoves(c, "away", "waiting")
GetReadLock(c) == ~WriteLocked /\ CallerMoves(c, "waiting", "reading")
TimedOut(c) == WriteLocked /\ CallerMoves(c, "waiting", "away")
DoneReading(c) == CallerMoves(c, "reading", "away")

MemoryInit ==
  /\ shm = NoMemoryFile
  /\ proc = ProcessDown
  /\ lives \in Lives
  /\ spoiled = {}
  /\ past = Untouched
  /\ caller = [c \in Callers |-> "away"]

MemoryNext ==
  \/ StartProcess
  \/ WipeState
  \/ OpenExisting
  \/ OpenNew
  \/ AddIndex
  \/ VerifyDefinitions
  \/ InitGenesis
  \/ Rewind
  \/ LoadState
  \/ BeginBlock
  \/ OpenSession
  \/ \E b \in StateBlocks : ApplyStateBlock(b) \/ FailStateBlock(b)
  \/ Unwind
  \/ PopStateBlock
  \/ \E n \in 0..MaxStateHead : MoveIrreversible(n)
  \/ CommitTables
  \/ Resize
  \/ AddedAgain
  \/ CloseDatabase
  \/ KillProcess
  \/ SecondProcess
  \/ \E c \in Callers : AskRead(c) \/ GetReadLock(c) \/ TimedOut(c) \/ DoneReading(c)

MemorySpec == MemoryInit /\ [][MemoryNext]_memoryVars

--------------------
(* Properties *)

\* Between two blocks every table in use holds the same blocks, can undo the
\* same ones, is at the revision of the head, and keeps undo for exactly the
\* reversible blocks - after any kill, restart, growth and fork, except for
\* tables a life ran without or a kill caught inside commit()'s loop, which
\* nothing in open() looks for.
TablesAgree ==
  /\ \A t \in Registered \ spoiled : shm.table[t] = Head0
  /\ Head0.revision = StateHead
  /\ StateHead - Len(Head0.sessions) = shm.lib

StateWhole == Resting => TablesAgree

\* A caller that holds the read lock never sees a block half applied.
ReadsWhole == Reading # {} => TablesAgree /\ ~WriteLocked

\* A node at work has all its tables, also after the file was grown under it,
\* and a complete genesis unless the first start was cut short.
NothingMissing ==
  Resting => /\ proc.index_list = Required(proc.life)
             /\ shm.genesis = "whole" \/ past.unfinished

\* open() refuses a file for what is really wrong with it, and for nothing else.
SameTables == \A k \in DOMAIN proc.life.plugins : shm.table[proc.life.plugins[k]].there
RefusedOnly ==
  proc.pc = "refused" =>
    CASE proc.why = "mixed tables" -> past.unfinished \/ ~SameTables
      [] proc.why = "not new" -> past.unfinished \/ past.disturbed
      [] proc.why = "half of genesis" -> past.unfinished
      [] proc.why = "irreversible block lost" -> past.torn
      [] proc.why = "other definitions" ->
           \E d \in shm.env.decoded : d[2] # proc.life.defs
      [] OTHER -> TRUE

\* The state file serves every start that may use it, whole.
MemoryExact == StateWhole /\ ReadsWhole /\ NothingMissing /\ RefusedOnly
====
