----------------------------- MODULE GenericIndex -----------------------------
(***************************************************************************)
(* chainbase::generic_index (libraries/chainbase/include/chainbase/        *)
(* chainbase.hpp): a table of objects with a primary key and a unique      *)
(* secondary key, and the stack of undo states that lets the node take     *)
(* back a transaction, a block or a whole branch.                          *)
(*                                                                         *)
(* An object is a member of Values; what the table needs to know of it is  *)
(* its unique secondary key, Key(v).  A map from ids is a function that is *)
(* Missing where the map has no entry.  The variable snapshots is a        *)
(* history variable: the table as it was when each open session was        *)
(* started.  IndexAllocation adds the memory statistics of the table.      *)
(***************************************************************************)
EXTENDS Integers, Sequences

CONSTANTS
  Values,           \* the contents an object may have
  Missing,          \* no object
  Key(_),           \* the unique secondary key of an object
  KeysImmutable,    \* no modifier changes the unique key of an object
  MaxId,            \* bound: ids are 0..MaxId
  MaxDepth,         \* bound: open sessions
  MaxRevision       \* bound: revision numbers

Ids == 0..MaxId

ASSUME IndexAssumption ==
  /\ MaxId \in Nat
  /\ MaxDepth \in Nat
  /\ MaxRevision \in Nat
  /\ Missing \notin Values
  /\ KeysImmutable \in BOOLEAN

VARIABLES
  indices,    \* [Ids -> Values or Missing]
  next_id,    \* the id the next object gets
  stack,      \* undo states, the oldest first
  revision,
  unwinding,  \* inside the loop of undo_all
  failed,     \* an exception left undo() half way
  snapshots   \* history: the table at each session's start

vars == <<indices, next_id, stack, revision, unwinding, failed, snapshots>>

IdValueMap == [Ids -> Values \cup {Missing}]

UndoState == [old_values : IdValueMap, removed_values : IdValueMap,
              new_ids : SUBSET Ids, old_next_id : 0..(MaxId + 1),
              revision : 0..MaxRevision]

Snapshot == [indices : IdValueMap, next_id : 0..(MaxId + 1)]

TypeOK ==
  /\ indices \in IdValueMap
  /\ next_id \in 0..(MaxId + 1)
  /\ stack \in Seq(UndoState)
  /\ revision \in 0..MaxRevision
  /\ unwinding \in BOOLEAN
  /\ failed \in BOOLEAN
  /\ snapshots \in Seq(Snapshot)

NoValues == [id \in Ids |-> Missing]

Present(table, id) == table[id] # Missing

enabled == stack # <<>>

head == stack[Len(stack)]

\* Another object than id holds the unique key of v.
Collides(table, id, v) ==
  \E other \in Ids \ {id} : Present(table, other) /\ Key(table[other]) = Key(v)

\* The stack with its newest undo state replaced.
WithHead(st) == [stack EXCEPT ![Len(stack)] = st]

--------------------
(* What the three hooks record in the newest undo state. *)

on_create(st, id) == [st EXCEPT !.new_ids = @ \cup {id}]

on_modify(st, id, v) ==
  IF id \in st.new_ids \/ Present(st.old_values, id)
  THEN st
  ELSE [st EXCEPT !.old_values[id] = v]

on_remove(st, id, v) ==
  IF id \in st.new_ids
  THEN [st EXCEPT !.new_ids = @ \ {id}]
  ELSE IF Present(st.old_values, id)
  THEN [st EXCEPT !.removed_values[id] = st.old_values[id],
                  !.old_values[id] = Missing]
  ELSE IF Present(st.removed_values, id)
  THEN st
  ELSE [st EXCEPT !.removed_values[id] = v]

Recorded(st) == IF enabled THEN WithHead(st) ELSE stack

--------------------
(* undo(): the changed objects get their old contents back, the new ones   *)
(* are erased, the removed ones are put back, each map in order of id, and *)
(* the unique key is checked at every one of these writes.                 *)

Reverted(table, st) ==
  [id \in Ids |-> IF Present(st.removed_values, id) THEN st.removed_values[id]
                  ELSE IF id \in st.new_ids THEN Missing
                  ELSE IF Present(st.old_values, id) THEN st.old_values[id]
                  ELSE table[id]]

\* The table when the loop over old_values arrives at id.
OldRestoredBefore(table, st, id) ==
  [i \in Ids |-> IF i < id /\ Present(st.old_values, i)
                 THEN st.old_values[i] ELSE table[i]]

\* The table when the loop over removed_values arrives at id.
RemovedRestoredBefore(table, st, id) ==
  [i \in Ids |-> IF i < id /\ Present(st.removed_values, i) THEN st.removed_values[i]
                 ELSE IF i \in st.new_ids THEN Missing
                 ELSE IF Present(st.old_values, i) THEN st.old_values[i]
                 ELSE table[i]]

UndoThrows(table, st) ==
  \/ \E id \in Ids : /\ Present(st.old_values, id)
                     /\ Collides(OldRestoredBefore(table, st, id), id, st.old_values[id])
  \/ \E id \in st.new_ids : ~Present(table, id)
  \/ \E id \in Ids :
       LET before == RemovedRestoredBefore(table, st, id)
       IN  /\ Present(st.removed_values, id)
           /\ Present(before, id) \/ Collides(before, id, st.removed_values[id])

--------------------
(* squash(): merge the newest undo state b into the one below it, a. *)

\* Mutant: the newer of two recorded contents wins.
MergedOldNewest(a, b, id) ==
  IF Present(b.old_values, id) /\ id \notin a.new_ids
  THEN b.old_values[id]
  ELSE a.old_values[id]

MergedOld(a, b, id) ==
  IF Present(b.old_values, id) /\ id \notin a.new_ids /\ ~Present(a.old_values, id)
  THEN b.old_values[id]
  ELSE a.old_values[id]

Merged(a, b) ==
  LET new == a.new_ids \cup b.new_ids
      Del(id) == Present(b.removed_values, id)
  IN  [a EXCEPT
        !.new_ids = {id \in new : ~Del(id)},
        !.old_values = [id \in Ids |-> IF Del(id) /\ id \notin new
                                       THEN Missing ELSE MergedOld(a, b, id)],
        !.removed_values =
          [id \in Ids |-> IF Present(a.removed_values, id) \/ ~Del(id) \/ id \in new
                          THEN a.removed_values[id]
                          ELSE IF MergedOld(a, b, id) # Missing
                          THEN MergedOld(a, b, id)
                          ELSE b.removed_values[id]]]

Emptied(st) == [st EXCEPT !.old_values = NoValues, !.removed_values = NoValues,
                          !.new_ids = {}]

--------------------
Init ==
  /\ indices = NoValues
  /\ next_id = 0
  /\ stack = <<>>
  /\ revision = 0
  /\ unwinding = FALSE
  /\ failed = FALSE
  /\ snapshots = <<>>

Usable == ~failed /\ ~unwinding

\* emplace(); a unique key in use makes it throw before anything changed.
Emplace(v) ==
  /\ Usable
  /\ next_id <= MaxId
  /\ ~Collides(indices, next_id, v)
  /\ indices' = [indices EXCEPT ![next_id] = v]
  /\ next_id' = next_id + 1
  /\ stack' = Recorded(on_create(head, next_id))
  /\ UNCHANGED <<revision, unwinding, failed, snapshots>>

\* modify(): the old contents are recorded first.  A unique key in use makes
\* the container erase the object.
Modify(id, v) ==
  /\ Usable
  /\ Present(indices, id)
  /\ KeysImmutable => Key(v) = Key(indices[id])
  /\ indices' = [indices EXCEPT ![id] = IF Collides(indices, id, v) THEN Missing ELSE v]
  /\ stack' = Recorded(on_modify(head, id, indices[id]))
  /\ UNCHANGED <<next_id, revision, unwinding, failed, snapshots>>

RemoveObject(id) ==
  /\ Usable
  /\ Present(indices, id)
  /\ indices' = [indices EXCEPT ![id] = Missing]
  /\ stack' = Recorded(on_remove(head, id, indices[id]))
  /\ UNCHANGED <<next_id, revision, unwinding, failed, snapshots>>

Now == [indices |-> indices, next_id |-> next_id]

\* Mutant: the session takes its revision before the counter moves.
NewUndoStateStaleRevision ==
  [old_values |-> NoValues, removed_values |-> NoValues, new_ids |-> {},
   old_next_id |-> next_id, revision |-> revision]

NewUndoState ==
  [old_values |-> NoValues, removed_values |-> NoValues, new_ids |-> {},
   old_next_id |-> next_id, revision |-> revision + 1]

StartUndoSession ==
  /\ Usable
  /\ Len(stack) < MaxDepth
  /\ revision < MaxRevision
  /\ revision' = revision + 1
  /\ stack' = Append(stack, NewUndoState)
  /\ snapshots' = Append(snapshots, Now)
  /\ UNCHANGED <<indices, next_id, unwinding, failed>>

\* The part of undo() that unwinds the newest session; what has been restored
\* when it throws is not looked at again.
RevertHead ==
  IF UndoThrows(indices, head)
  THEN /\ failed' = TRUE
       /\ UNCHANGED <<indices, next_id>>
  ELSE /\ indices' = Reverted(indices, head)
       /\ next_id' = head.old_next_id
       /\ UNCHANGED failed

\* undo( keep_alive ), the last statement included: with keep_alive the
\* session stays open, empty.
Undo(keep_alive) ==
  /\ ~failed
  /\ unwinding => ~keep_alive
  /\ enabled
  /\ RevertHead
  /\ IF failed' THEN UNCHANGED <<stack, revision, snapshots>>
     ELSE IF keep_alive
     THEN /\ stack' = WithHead(Emptied(head))
          /\ UNCHANGED <<revision, snapshots>>
     ELSE /\ stack' = SubSeq(stack, 1, Len(stack) - 1)
          /\ revision' = revision - 1
          /\ snapshots' = SubSeq(snapshots, 1, Len(snapshots) - 1)
  /\ UNCHANGED unwinding

\* squash( keep_alive ) of the only session acts as a commit.
SquashOnly(keep_alive) ==
  /\ Usable
  /\ Len(stack) = 1
  /\ keep_alive => revision < MaxRevision
  /\ IF keep_alive
     THEN /\ revision' = revision + 1
          /\ stack' = <<[Emptied(head) EXCEPT !.old_next_id = next_id,
                                              !.revision = revision + 1]>>
          /\ snapshots' = <<Now>>
     ELSE /\ stack' = <<>>
          /\ snapshots' = <<>>
          /\ UNCHANGED revision
  /\ UNCHANGED <<indices, next_id, unwinding, failed>>

\* squash( keep_alive ) of a nested session merges it into the one below.
SquashNested(keep_alive) ==
  LET n == Len(stack) IN
  /\ Usable
  /\ n > 1
  /\ IF keep_alive
     THEN /\ stack' = [stack EXCEPT
                         ![n - 1] = Merged(stack[n - 1], stack[n]),
                         ![n] = [Emptied(stack[n]) EXCEPT !.old_next_id = next_id]]
          /\ snapshots' = [snapshots EXCEPT ![n] = Now]
          /\ UNCHANGED revision
     ELSE /\ stack' = [SubSeq(stack, 1, n - 1) EXCEPT
                         ![n - 1] = Merged(stack[n - 1], stack[n])]
          /\ snapshots' = SubSeq(snapshots, 1, n - 1)
          /\ revision' = revision - 1
  /\ UNCHANGED <<indices, next_id, unwinding, failed>>

\* commit( r ) drops undo states from the front while they are not newer than r.
Commit(r) ==
  /\ Usable
  /\ \E k \in 0..Len(stack) :
       /\ \A i \in 1..k : stack[i].revision <= r
       /\ k < Len(stack) => stack[k + 1].revision > r
       /\ stack' = SubSeq(stack, k + 1, Len(stack))
       /\ snapshots' = SubSeq(snapshots, k + 1, Len(snapshots))
  /\ UNCHANGED <<indices, next_id, revision, unwinding, failed>>

\* undo_all() calls undo() until no session is left; nothing else happens
\* to the table in between.
UndoAll ==
  /\ Usable
  /\ enabled
  /\ unwinding' = TRUE
  /\ UNCHANGED <<indices, next_id, stack, revision, failed, snapshots>>

UndoAllDone ==
  /\ unwinding
  /\ ~enabled
  /\ unwinding' = FALSE
  /\ UNCHANGED <<indices, next_id, stack, revision, failed, snapshots>>

SetRevision(r) ==
  /\ Usable
  /\ ~enabled
  /\ revision' = r
  /\ UNCHANGED <<indices, next_id, stack, unwinding, failed, snapshots>>

Next ==
  \/ \E v \in Values : Emplace(v)
  \/ \E id \in Ids, v \in Values : Modify(id, v)
  \/ \E id \in Ids : RemoveObject(id)
  \/ StartUndoSession
  \/ \E keep_alive \in BOOLEAN : Undo(keep_alive)
  \/ \E keep_alive \in BOOLEAN : SquashOnly(keep_alive)
  \/ \E keep_alive \in BOOLEAN : SquashNested(keep_alive)
  \/ \E r \in 0..MaxRevision : Commit(r)
  \/ UndoAll
  \/ UndoAllDone
  \/ \E r \in 0..MaxRevision : SetRevision(r)

Spec == Init /\ [][Next]_vars

--------------------
\* The table and the next id as they were when session i + 1 was started, or
\* as they are now when i is the newest session.
After(i) == IF i = Len(stack) THEN Now ELSE snapshots[i + 1]

\* undo() "restores the state to how it was prior to the current session":
\* for every open session, taking its undo state out of what came after it
\* gives back the table, and the next id, of the moment it was started, no
\* matter how sessions were nested, squashed, reused or committed since.
UndoRestoresSnapshot ==
  /\ Len(snapshots) = Len(stack)
  /\ \A i \in 1..Len(stack) :
       snapshots[i] = [indices |-> Reverted(After(i).indices, stack[i]),
                       next_id |-> stack[i].old_next_id]

\* No write of undo() meets a unique key that is still in use, and every
\* object it has to erase is there.
UndoNeverThrows == ~failed

\* The open sessions carry consecutive revisions that end in the table's own:
\* this is what lets commit( block number ) and undo() of a block meet.
RevisionsConsecutive ==
  \A i \in 1..Len(stack) : stack[i].revision = revision - (Len(stack) - i)

================================================================================
