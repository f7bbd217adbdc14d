---------------------------- MODULE IndexAllocation ----------------------------
(***************************************************************************)
(* generic_index::_item_additional_allocation: the running total of the    *)
(* memory that the objects of a table own beyond their nodes, kept by every*)
(* operation that changes the table instead of being scanned for.          *)
(***************************************************************************)
EXTENDS GenericIndex, FiniteSetsExt

CONSTANTS
  DynamicAlloc(_),  \* get_dynamic_alloc() of an object
  MaxThrows         \* bound: modifiers that throw after they changed the object

ASSUME AllocationAssumption == MaxThrows \in Nat

VARIABLES
  item_additional_allocation,
  thrown,     \* history: the calls of modify() that an exception left
  uncounted   \* history: the changes of size that those calls did not add

allVars == <<vars, item_additional_allocation, thrown, uncounted>>

Size(v) == IF v = Missing THEN 0 ELSE DynamicAlloc(v)

TotalSize(table) == MapThenSumSet(LAMBDA id : Size(table[id]), Ids)

AddAllocation(delta) ==
  item_additional_allocation' = item_additional_allocation + delta

InitAllocation == Init /\ item_additional_allocation = 0 /\ thrown = 0 /\ uncounted = 0

EmplaceCounted(v) == Emplace(v) /\ AddAllocation(Size(v)) /\ UNCHANGED <<thrown, uncounted>>

ModifyCounted(id, v) ==
  /\ Modify(id, v)
  /\ ~Collides(indices, id, v)
  /\ AddAllocation(Size(v) - Size(indices[id]))
  /\ UNCHANGED <<thrown, uncounted>>

\* A modifier that throws, and a unique key in use, make modify() leave with the
\* object changed, or erased, before it corrects the total.
ModifyThrows(id, v) ==
  /\ Modify(id, v)
  /\ thrown < MaxThrows
  /\ thrown' = thrown + 1
  /\ uncounted' = uncounted + Size(indices'[id]) - Size(indices[id])
  /\ UNCHANGED item_additional_allocation

RemoveCounted(id) ==
  RemoveObject(id) /\ AddAllocation(-Size(indices[id])) /\ UNCHANGED <<thrown, uncounted>>

\* What the loops of undo() over old_values, new_ids and removed_values add: the
\* new size less the size of what is in the table, which is nothing when the object
\* is not there; less the size of each object erased; the size of each put back.
RestoredOld(table, st) ==
  MapThenSumSet(LAMBDA id : Size(st.old_values[id]) - Size(table[id]),
                {id \in Ids : Present(st.old_values, id)})

ErasedNew(table, st) ==
  MapThenSumSet(LAMBDA id : Size(OldRestoredBefore(table, st, MaxId + 1)[id]), st.new_ids)

RestoredRemoved(st) ==
  MapThenSumSet(LAMBDA id : Size(st.removed_values[id]), {id \in Ids : Present(st.removed_values, id)})

\* Mutant: the objects that undo() erases stay in the total.
UndoKeepsNew(keep_alive) ==
  /\ Undo(keep_alive)
  /\ AddAllocation(IF failed' THEN 0 ELSE RestoredOld(indices, head) + RestoredRemoved(head))
  /\ UNCHANGED <<thrown, uncounted>>

UndoCounted(keep_alive) ==
  /\ Undo(keep_alive)
  /\ AddAllocation(IF failed' THEN 0
                   ELSE RestoredOld(indices, head) - ErasedNew(indices, head) + RestoredRemoved(head))
  /\ UNCHANGED <<thrown, uncounted>>

\* Neither squash() nor commit() nor a new session touches the table.
SessionStep ==
  /\ \/ StartUndoSession
     \/ \E keep_alive \in BOOLEAN : SquashOnly(keep_alive)
     \/ \E keep_alive \in BOOLEAN : SquashNested(keep_alive)
     \/ \E r \in 0..MaxRevision : Commit(r)
     \/ UndoAll
     \/ UndoAllDone
     \/ \E r \in 0..MaxRevision : SetRevision(r)
  /\ UNCHANGED <<item_additional_allocation, thrown, uncounted>>

NextAllocation ==
  \/ \E v \in Values : EmplaceCounted(v)
  \/ \E id \in Ids, v \in Values : ModifyCounted(id, v) \/ ModifyThrows(id, v)
  \/ \E id \in Ids : RemoveCounted(id)
  \/ \E keep_alive \in BOOLEAN : UndoCounted(keep_alive)
  \/ SessionStep

SpecAllocation == InitAllocation /\ [][NextAllocation]_allVars

\* The running total is off a scan of the table, the comparison that
\* get_statistics() makes "for testing", by exactly the changes of size that the
\* calls of modify() left by an exception did not add: the undo of those changes
\* subtracts what was never added and does not heal the total, and no nesting,
\* squash or undo of sessions moves it any further.
AllocationExact == item_additional_allocation + uncounted = TotalSize(indices)

\* What the table does besides restoring: no exception, an exact total.
IndexSound == UndoNeverThrows /\ AllocationExact
===============================================================================
