-------------------------- MODULE GenericIndexProofs --------------------------
(***************************************************************************)
(* Proofs about generic_index: whatever sequence of creations, changes,    *)
(* removals, nested sessions, squashes and commits a node runs, each undo  *)
(* state takes the table back to where its session was started, and undo() *)
(* does so without meeting a unique key in use.                            *)
(*                                                                         *)
(* The invariant is one relation per open session, between the table after *)
(* it, the table before it and its undo state (Layer).  An operation       *)
(* touches the newest layer only, and squash() composes two layers.        *)
(***************************************************************************)
EXTENDS GenericIndex, SequenceTheorems, TLAPS

\* No two objects have the same unique key.
OneOwner(table) ==
  \A i, j \in Ids : Present(table, i) /\ Present(table, j) /\ Key(table[i]) = Key(table[j])
                     => i = j

\* What keeps undo() from throwing: it puts contents back only where the object
\* still is, under the key it still has, and erases only objects that are there.
KeysKept(st, after, before) ==
  /\ OneOwner(before.indices)
  /\ \A id \in Ids : Present(st.old_values, id) =>
       Present(after.indices, id) /\ Key(st.old_values[id]) = Key(after.indices[id])
  /\ \A id \in st.new_ids : Present(after.indices, id)

\* The undo state st leads from the table after back to the table before.
Layer(st, after, before) ==
  /\ before = [indices |-> Reverted(after.indices, st), next_id |-> st.old_next_id]
  /\ st.old_next_id <= after.next_id
  /\ \A id \in Ids : id >= after.next_id => after.indices[id] = Missing
  /\ \A id \in Ids : id >= st.old_next_id => before.indices[id] = Missing
  /\ \A id \in st.new_ids : st.old_next_id <= id /\ id < after.next_id
  /\ \A id \in Ids :
       /\ Present(st.old_values, id) \/ Present(st.removed_values, id)
            => id < st.old_next_id
       /\ ~(Present(st.old_values, id) /\ Present(st.removed_values, id))
       /\ Present(st.removed_values, id) => after.indices[id] = Missing
  /\ KeysImmutable => KeysKept(st, after, before)

\* No object has an id that has not been given out.
FreshIds == \A id \in Ids : id >= next_id => indices[id] = Missing

\* As long as no modifier changes a key: keys are unique and undo() never failed.
Sound == KeysImmutable => OneOwner(indices) /\ ~failed

IndexInv ==
  /\ TypeOK
  /\ FreshIds
  /\ Sound
  /\ Len(snapshots) = Len(stack)
  /\ \A i \in 1..Len(stack) : Layer(stack[i], After(i), snapshots[i])
  /\ \A i \in 1..Len(stack) :
       /\ stack[i].revision = revision - (Len(stack) - i)
       /\ stack[i].revision >= 1

--------------------
(* What one operation does to one layer. *)

\* emplace() keeps the newest layer.
LEMMA CreateLayer ==
  ASSUME NEW st \in UndoState, NEW after \in Snapshot, NEW before \in Snapshot,
         Layer(st, after, before), after.next_id \in Ids, NEW v \in Values
  PROVE  LET id == after.next_id
             new == [indices |-> [after.indices EXCEPT ![id] = v], next_id |-> id + 1]
         IN  Layer(on_create(st, id), new, before)
<1> DEFINE id == after.next_id
           new == [indices |-> [after.indices EXCEPT ![id] = v], next_id |-> id + 1]
           nst == on_create(st, id)
<1>1. /\ nst = [st EXCEPT !.new_ids = st.new_ids \cup {id}]
      /\ nst.old_next_id = st.old_next_id
      /\ nst.old_values = st.old_values
      /\ nst.removed_values = st.removed_values
      /\ nst.new_ids = st.new_ids \cup {id}
  BY DEF on_create, UndoState
<1>2. /\ new.next_id = id + 1
      /\ new.indices = [after.indices EXCEPT ![id] = v]
  OBVIOUS
<1>3. /\ after.indices \in IdValueMap
      /\ st.old_values \in IdValueMap
      /\ st.removed_values \in IdValueMap
      /\ st.new_ids \subseteq Ids
      /\ st.old_next_id \in Int
      /\ id \in Int
  BY IndexAssumption DEF UndoState, Snapshot, Ids
<1>4. Reverted(new.indices, nst) = Reverted(after.indices, st)
  <2>1. \A i \in Ids : Reverted(new.indices, nst)[i] = Reverted(after.indices, st)[i]
    BY <1>1, <1>2, <1>3 DEF Layer, Reverted, Present, IdValueMap, Ids
  <2> QED BY <2>1 DEF Reverted
<1>5. KeysImmutable => KeysKept(nst, new, before)
  <2>1. new.indices[id] = v /\ v # Missing /\ \A i \in Ids \ {id} : new.indices[i] = after.indices[i]
    BY <1>2, <1>3, IndexAssumption DEF IdValueMap
  <2>2. \A i \in Ids : Present(st.old_values, i) => i # id
    BY <1>3 DEF Layer, Ids
  <2> HIDE DEF new, nst
  <2> QED BY <1>1, <1>3, <2>1, <2>2 DEF Layer, KeysKept, Present
<1> QED
  BY <1>1, <1>2, <1>3, <1>4, <1>5 DEF Layer, Present, IdValueMap, Ids

\* modify() keeps the newest layer, also when the container erases the object.
LEMMA ModifyLayer ==
  ASSUME NEW st \in UndoState, NEW after \in Snapshot, NEW before \in Snapshot,
         Layer(st, after, before), NEW id \in Ids, Present(after.indices, id),
         NEW w \in Values \cup {Missing},
         KeysImmutable => w # Missing /\ Key(w) = Key(after.indices[id])
  PROVE  Layer(on_modify(st, id, after.indices[id]),
               [after EXCEPT !.indices = [after.indices EXCEPT ![id] = w]], before)
<1> DEFINE new == [after EXCEPT !.indices = [after.indices EXCEPT ![id] = w]]
           nst == on_modify(st, id, after.indices[id])
<1>1. /\ nst.old_next_id = st.old_next_id
      /\ nst.removed_values = st.removed_values
      /\ nst.new_ids = st.new_ids
      /\ nst.old_values = IF id \in st.new_ids \/ Present(st.old_values, id)
                          THEN st.old_values
                          ELSE [st.old_values EXCEPT ![id] = after.indices[id]]
  BY DEF on_modify, UndoState
<1>2. /\ new.next_id = after.next_id
      /\ new.indices = [after.indices EXCEPT ![id] = w]
  BY DEF Snapshot
<1>3. /\ after.indices \in IdValueMap
      /\ st.old_values \in IdValueMap
      /\ st.removed_values \in IdValueMap
      /\ st.new_ids \subseteq Ids
      /\ st.old_next_id \in Int
      /\ after.next_id \in Int
      /\ id < after.next_id
  BY IndexAssumption DEF UndoState, Snapshot, Ids, Layer, Present
<1>4. ~Present(st.removed_values, id)
  BY DEF Layer, Present
<1>5. Present(st.old_values, id) \/ id \in st.new_ids \/ id < st.old_next_id
  <2>1. SUFFICES ASSUME ~Present(st.old_values, id), id \notin st.new_ids
                 PROVE  id < st.old_next_id
    OBVIOUS
  <2>2. before.indices[id] = after.indices[id]
    BY <1>3, <1>4, <2>1 DEF Layer, Reverted, Present
  <2> QED BY <1>3, <2>2 DEF Layer, Present, Ids
<1>6. Reverted(new.indices, nst) = Reverted(after.indices, st)
  <2>1. \A i \in Ids : Reverted(new.indices, nst)[i] = Reverted(after.indices, st)[i]
    BY <1>1, <1>2, <1>3, <1>4 DEF Reverted, Present, IdValueMap, Ids
  <2> QED BY <2>1 DEF Reverted
<1>7. KeysImmutable => KeysKept(nst, new, before)
  <2>1. new.indices[id] = w /\ \A i \in Ids \ {id} : new.indices[i] = after.indices[i]
    BY <1>2, <1>3 DEF IdValueMap
  <2>2. \A i \in Ids : nst.old_values[i] = IF i = id /\ id \notin st.new_ids /\ ~Present(st.old_values, id)
                                           THEN after.indices[id] ELSE st.old_values[i]
    BY <1>1, <1>3 DEF IdValueMap
  <2> HIDE DEF new, nst
  <2> QED BY <1>1, <1>3, <2>1, <2>2 DEF Layer, KeysKept, Present
<1> QED
  BY <1>1, <1>2, <1>3, <1>4, <1>5, <1>6, <1>7 DEF Layer, Present, IdValueMap, Ids

\* remove() keeps the newest layer.
LEMMA RemoveLayer ==
  ASSUME NEW st \in UndoState, NEW after \in Snapshot, NEW before \in Snapshot,
         Layer(st, after, before), NEW id \in Ids, Present(after.indices, id)
  PROVE  Layer(on_remove(st, id, after.indices[id]),
               [after EXCEPT !.indices = [after.indices EXCEPT ![id] = Missing]],
               before)
<1> DEFINE new == [after EXCEPT !.indices = [after.indices EXCEPT ![id] = Missing]]
           nst == on_remove(st, id, after.indices[id])
<1>1. /\ new.next_id = after.next_id
      /\ new.indices = [after.indices EXCEPT ![id] = Missing]
  BY DEF Snapshot
<1>2. /\ after.indices \in IdValueMap
      /\ st.old_values \in IdValueMap
      /\ st.removed_values \in IdValueMap
      /\ st.new_ids \subseteq Ids
      /\ st.old_next_id \in Int
      /\ after.next_id \in Int
      /\ id < after.next_id
  BY IndexAssumption DEF UndoState, Snapshot, Ids, Layer, Present
<1>3. ~Present(st.removed_values, id)
  BY DEF Layer, Present
<1>a. \A i \in Ids \ {id} : new.indices[i] = after.indices[i]
  BY <1>1, <1>2 DEF IdValueMap
<1>4. CASE id \in st.new_ids
  <2>1. /\ nst.old_next_id = st.old_next_id
        /\ nst.removed_values = st.removed_values
        /\ nst.new_ids = st.new_ids \ {id}
        /\ nst.old_values = st.old_values
    BY <1>4 DEF on_remove, UndoState
  <2>2. ~Present(st.old_values, id)
    BY <1>2, <1>4 DEF Layer, Present, Ids
  <2>3. \A i \in Ids : Reverted(new.indices, nst)[i] = Reverted(after.indices, st)[i]
    <3> HIDE DEF nst, new
    <3> QED BY <1>1, <1>2, <1>3, <1>4, <2>1, <2>2, ZenonT(40) DEF Reverted, Present, IdValueMap, Ids
  <2>4. Reverted(new.indices, nst) = Reverted(after.indices, st)
    BY <2>3 DEF Reverted
  <2>5. KeysImmutable => KeysKept(nst, new, before)
    <3> HIDE DEF nst, new
    <3> QED BY <1>2, <1>a, <1>4, <2>2, <2>1 DEF Layer, KeysKept, Present, IdValueMap
  <2> QED BY <1>1, <1>2, <1>3, <2>1, <2>4, <2>5 DEF Layer, Present, IdValueMap, Ids
<1>5. CASE id \notin st.new_ids /\ Present(st.old_values, id)
  <2>1. /\ nst.old_next_id = st.old_next_id
        /\ nst.removed_values = [st.removed_values EXCEPT ![id] = st.old_values[id]]
        /\ nst.new_ids = st.new_ids
        /\ nst.old_values = [st.old_values EXCEPT ![id] = Missing]
    BY <1>5 DEF on_remove, UndoState
  <2>3. \A i \in Ids : Reverted(new.indices, nst)[i] = Reverted(after.indices, st)[i]
    BY <1>1, <1>2, <1>3, <1>5, <2>1 DEF Reverted, Present, IdValueMap, Ids
  <2>4. Reverted(new.indices, nst) = Reverted(after.indices, st)
    BY <2>3 DEF Reverted
  <2>5. KeysImmutable => KeysKept(nst, new, before)
    <3> HIDE DEF nst, new
    <3> QED BY <1>2, <1>a, <1>5, <2>1 DEF Layer, KeysKept, Present, IdValueMap
  <2> QED BY <1>1, <1>2, <1>3, <1>5, <2>1, <2>4, <2>5 DEF Layer, Present, IdValueMap, Ids
<1>6. CASE id \notin st.new_ids /\ ~Present(st.old_values, id)
  <2>1. /\ nst.old_next_id = st.old_next_id
        /\ nst.removed_values = [st.removed_values EXCEPT ![id] = after.indices[id]]
        /\ nst.new_ids = st.new_ids
        /\ nst.old_values = st.old_values
    BY <1>3, <1>6 DEF on_remove, UndoState
  <2>2. id < st.old_next_id
    <3>1. before.indices[id] = after.indices[id]
      BY <1>2, <1>3, <1>6 DEF Layer, Reverted, Present
    <3> QED BY <1>2, <3>1 DEF Layer, Present, Ids
  <2>3. \A i \in Ids : Reverted(new.indices, nst)[i] = Reverted(after.indices, st)[i]
    BY <1>1, <1>2, <1>3, <1>6, <2>1 DEF Reverted, Present, IdValueMap, Ids
  <2>4. Reverted(new.indices, nst) = Reverted(after.indices, st)
    BY <2>3 DEF Reverted
  <2>5. KeysImmutable => KeysKept(nst, new, before)
    <3> HIDE DEF nst, new
    <3> QED BY <1>2, <1>a, <1>6, <2>1 DEF Layer, KeysKept, Present, IdValueMap
  <2> QED BY <1>1, <1>2, <1>3, <1>6, <2>1, <2>2, <2>4, <2>5 DEF Layer, Present, IdValueMap, Ids
<1> QED BY <1>4, <1>5, <1>6

\* A session with nothing recorded leads from a table to itself.
LEMMA EmptyLayer ==
  ASSUME NEW st \in UndoState, NEW t \in Snapshot,
         \A id \in Ids : id >= t.next_id => t.indices[id] = Missing,
         st.old_values = NoValues, st.removed_values = NoValues, st.new_ids = {},
         st.old_next_id = t.next_id, KeysImmutable => OneOwner(t.indices)
  PROVE  Layer(st, t, t)
<1>1. Reverted(t.indices, st) = t.indices
  BY DEF Reverted, Present, NoValues, Snapshot, IdValueMap
<1>2. t = [indices |-> t.indices, next_id |-> t.next_id]
  BY DEF Snapshot
<1>3. KeysImmutable => KeysKept(st, t, t)
  BY DEF KeysKept, Present, NoValues
<1> QED BY <1>1, <1>2, <1>3, IndexAssumption DEF Layer, Present, NoValues, Snapshot

\* squash(): the merged undo state leads back over both sessions.
LEMMA MergeLayers ==
  ASSUME NEW a \in UndoState, NEW b \in UndoState,
         NEW after \in Snapshot, NEW mid \in Snapshot, NEW before \in Snapshot,
         Layer(b, after, mid), Layer(a, mid, before)
  PROVE  Merged(a, b) \in UndoState /\ Layer(Merged(a, b), after, before)
<1> DEFINE m == Merged(a, b)
<1>1. /\ a.old_values \in IdValueMap /\ b.old_values \in IdValueMap
      /\ a.removed_values \in IdValueMap /\ b.removed_values \in IdValueMap
      /\ a.new_ids \subseteq Ids /\ b.new_ids \subseteq Ids
      /\ a.old_next_id \in Int /\ b.old_next_id \in Int
      /\ after.next_id \in Int /\ mid.next_id \in Int /\ before.next_id \in Int
      /\ after.indices \in IdValueMap /\ mid.indices \in IdValueMap
  BY IndexAssumption DEF UndoState, Snapshot
<1>2. /\ m.old_next_id = a.old_next_id
      /\ m.revision = a.revision
      /\ m.new_ids = {id \in a.new_ids \cup b.new_ids : ~Present(b.removed_values, id)}
      /\ m.old_values =
           [id \in Ids |-> IF Present(b.removed_values, id)
                              /\ id \notin a.new_ids \cup b.new_ids
                           THEN Missing ELSE MergedOld(a, b, id)]
      /\ m.removed_values =
           [id \in Ids |-> IF Present(a.removed_values, id) \/ ~Present(b.removed_values, id)
                              \/ id \in a.new_ids \cup b.new_ids
                           THEN a.removed_values[id]
                           ELSE IF MergedOld(a, b, id) # Missing
                           THEN MergedOld(a, b, id)
                           ELSE b.removed_values[id]]
  BY DEF Merged, UndoState
<1>3. \A id \in Ids : MergedOld(a, b, id) \in Values \cup {Missing}
  BY Zenon, <1>1 DEF MergedOld, IdValueMap
<1>4. m \in UndoState
  <2>1. m.old_values \in IdValueMap /\ m.removed_values \in IdValueMap
    BY <1>1, <1>2, <1>3 DEF IdValueMap
  <2>2. m.new_ids \subseteq Ids
    BY <1>1, <1>2
  <2> QED BY Zenon, <2>1, <2>2, <1>2 DEF UndoState, Merged
<1>5. mid.indices = Reverted(after.indices, b) /\ mid.next_id = b.old_next_id
  BY DEF Layer
<1>6. before.indices = Reverted(mid.indices, a) /\ before.next_id = a.old_next_id
  BY DEF Layer
<1>7. \A id \in Ids : Reverted(after.indices, m)[id] = before.indices[id]
  <2> TAKE id \in Ids
  <2>1. /\ mid.indices[id] = IF Present(b.removed_values, id) THEN b.removed_values[id]
                             ELSE IF id \in b.new_ids THEN Missing
                             ELSE IF Present(b.old_values, id) THEN b.old_values[id]
                             ELSE after.indices[id]
        /\ before.indices[id] = IF Present(a.removed_values, id) THEN a.removed_values[id]
                                ELSE IF id \in a.new_ids THEN Missing
                                ELSE IF Present(a.old_values, id) THEN a.old_values[id]
                                ELSE mid.indices[id]
        /\ Reverted(after.indices, m)[id] =
                                IF Present(m.removed_values, id) THEN m.removed_values[id]
                                ELSE IF id \in m.new_ids THEN Missing
                                ELSE IF Present(m.old_values, id) THEN m.old_values[id]
                                ELSE after.indices[id]
    BY <1>5, <1>6 DEF Reverted
  <2>2. /\ Present(a.removed_values, id) => mid.indices[id] = Missing
        /\ Present(b.removed_values, id) => after.indices[id] = Missing
        /\ Present(b.old_values, id) => ~Present(b.removed_values, id)
        /\ Present(a.old_values, id) => ~Present(a.removed_values, id)
        /\ Present(a.old_values, id) \/ Present(a.removed_values, id) => id \notin a.new_ids
        /\ Present(b.old_values, id) \/ Present(b.removed_values, id) => id \notin b.new_ids
        /\ Present(a.old_values, id) \/ Present(a.removed_values, id) => id \notin b.new_ids
    BY <1>1, <1>5 DEF Layer, Ids
  <2>3. /\ m.old_values[id] = IF Present(b.removed_values, id)
                                 /\ id \notin a.new_ids \cup b.new_ids
                              THEN Missing ELSE MergedOld(a, b, id)
        /\ m.removed_values[id] =
             IF Present(a.removed_values, id) \/ ~Present(b.removed_values, id)
                \/ id \in a.new_ids \cup b.new_ids
             THEN a.removed_values[id]
             ELSE IF MergedOld(a, b, id) # Missing THEN MergedOld(a, b, id)
             ELSE b.removed_values[id]
        /\ id \in m.new_ids <=>
             id \in a.new_ids \cup b.new_ids /\ ~Present(b.removed_values, id)
    BY Zenon, <1>2
  <2> HIDE DEF m
  <2>4. CASE Present(b.removed_values, id)
    BY Zenon, <2>1, <2>2, <2>3, <2>4 DEF Present, MergedOld
  <2>5. CASE ~Present(b.removed_values, id) /\ id \in a.new_ids \cup b.new_ids
    BY Zenon, <2>1, <2>2, <2>3, <2>5 DEF Present, MergedOld
  <2>6. CASE ~Present(b.removed_values, id) /\ id \notin a.new_ids \cup b.new_ids
    BY <2>1, <2>2, <2>3, <2>6 DEF Present, MergedOld
  <2> QED BY <2>4, <2>5, <2>6
<1>8. before.indices = Reverted(after.indices, m)
  BY Zenon, <1>6, <1>7 DEF Reverted
<1>9. \A id \in m.new_ids : m.old_next_id <= id /\ id < after.next_id
  BY <1>1, <1>2, <1>5 DEF Layer, Ids
<1>10. \A id \in Ids :
         /\ Present(m.old_values, id) \/ Present(m.removed_values, id)
              => id < m.old_next_id
         /\ ~(Present(m.old_values, id) /\ Present(m.removed_values, id))
         /\ Present(m.removed_values, id) => after.indices[id] = Missing
  <2>1. \A id \in Ids : Present(b.old_values, id) \/ Present(b.removed_values, id)
                          => mid.indices[id] # Missing
    BY SMTT(30), <1>1, <1>5 DEF Layer, Reverted, Present, Ids
  <2>2. \A id \in Ids : mid.indices[id] # Missing /\ id \notin a.new_ids
                          => id < a.old_next_id
    BY SMTT(30), <1>1, <1>6 DEF Layer, Reverted, Present, Ids
  <2>3. \A id \in Ids : mid.indices[id] = Missing /\ id < b.old_next_id
                          => after.indices[id] = Missing
    BY <1>1, <1>5 DEF Layer, Reverted, Present, Ids
  <2> QED BY SMTT(30), <1>1, <1>2, <1>5, <2>1, <2>2, <2>3 DEF Layer, Present, MergedOld, Ids
<1>11. \A id \in Ids : id >= m.old_next_id => before.indices[id] = Missing
  BY <1>2 DEF Layer
<1>12. before = [indices |-> Reverted(after.indices, m), next_id |-> m.old_next_id]
  BY Zenon, <1>2, <1>6, <1>8 DEF Snapshot
<1>13. m.old_next_id <= after.next_id
  BY <1>1, <1>2, <1>5 DEF Layer
<1>14. \A id \in Ids : id >= after.next_id => after.indices[id] = Missing
  BY DEF Layer
<1>15. ASSUME KeysImmutable PROVE KeysKept(m, after, before)
  <2>1. KeysKept(b, after, mid) /\ KeysKept(a, mid, before)
    BY <1>15 DEF Layer
  <2>2. \A id \in Ids :
          mid.indices[id] = IF Present(b.removed_values, id) THEN b.removed_values[id]
                            ELSE IF id \in b.new_ids THEN Missing
                            ELSE IF Present(b.old_values, id) THEN b.old_values[id]
                            ELSE after.indices[id]
    BY Zenon, <1>5 DEF Reverted
  <2>3. \A id \in Ids : Present(a.old_values, id) => id \notin a.new_ids \cup b.new_ids
    BY <1>1, <1>5 DEF Layer, Ids
  <2>4. \A id \in Ids : Present(b.old_values, id) => ~Present(b.removed_values, id)
    BY DEF Layer
  <2>5. /\ m.new_ids = {id \in a.new_ids \cup b.new_ids : ~Present(b.removed_values, id)}
        /\ \A id \in Ids : m.old_values[id] = IF Present(b.removed_values, id)
                                                  /\ id \notin a.new_ids \cup b.new_ids
                                               THEN Missing ELSE MergedOld(a, b, id)
    BY <1>2
  <2> HIDE DEF m
  <2>6. ASSUME NEW id \in Ids, Present(m.old_values, id)
        PROVE  Present(after.indices, id) /\ Key(m.old_values[id]) = Key(after.indices[id])
    <3>1. CASE Present(b.removed_values, id)
      BY Zenon, <2>3, <2>4, <2>5, <2>6, <3>1 DEF MergedOld, Present
    <3>2. CASE ~Present(b.removed_values, id) /\ ~Present(a.old_values, id)
      BY Zenon, <2>1, <2>5, <2>6, <3>2 DEF MergedOld, Present, KeysKept
    <3>3. CASE ~Present(b.removed_values, id) /\ Present(a.old_values, id)
      <4>1. m.old_values[id] = a.old_values[id] /\ id \notin b.new_ids
        BY Zenon, <2>3, <2>5, <3>3 DEF MergedOld
      <4>2. Present(mid.indices, id) /\ Key(a.old_values[id]) = Key(mid.indices[id])
        BY Zenon, <2>1, <3>3 DEF KeysKept
      <4>3. CASE Present(b.old_values, id)
        BY Zenon, <2>1, <2>2, <3>3, <4>1, <4>2, <4>3 DEF KeysKept
      <4>4. CASE ~Present(b.old_values, id)
        BY <2>2, <3>3, <4>1, <4>2, <4>4 DEF Present
      <4> QED BY <4>3, <4>4
    <3> QED BY <3>1, <3>2, <3>3
  <2>7. ASSUME NEW id \in m.new_ids PROVE Present(after.indices, id)
    <3>1. CASE id \in b.new_ids
      BY <2>1, <3>1 DEF KeysKept
    <3>2. CASE id \in a.new_ids /\ id \notin b.new_ids
      <4>1. id \in Ids /\ ~Present(b.removed_values, id) /\ Present(mid.indices, id)
        BY <1>1, <2>1, <2>5, <3>2 DEF KeysKept
      <4> QED BY Zenon, <2>1, <2>2, <3>2, <4>1 DEF KeysKept, Present
    <3> QED BY <2>5, <3>1, <3>2
  <2> QED BY Zenon, <2>1, <2>6, <2>7 DEF KeysKept
<1>16. KeysImmutable => KeysKept(m, after, before)
  BY <1>15
<1> HIDE DEF m
<1> QED BY <1>4, <1>9, <1>10, <1>11, <1>12, <1>13, <1>14, <1>16 DEF Layer, m

\* undo() of a layer never throws: every table it passes through has at most one
\* object under each key.
LEMMA UndoPasses ==
  ASSUME NEW st \in UndoState, NEW after \in Snapshot, NEW before \in Snapshot,
         Layer(st, after, before), OneOwner(after.indices), KeysImmutable
  PROVE  ~UndoThrows(after.indices, st)
<1> DEFINE table == after.indices
<1>1. KeysKept(st, after, before)
  BY DEF Layer
<1>2. ASSUME NEW id \in Ids, Present(st.old_values, id)
      PROVE  ~Collides(OldRestoredBefore(table, st, id), id, st.old_values[id])
  <2>1. \A i \in Ids : OldRestoredBefore(table, st, id)[i] = IF i < id /\ Present(st.old_values, i)
                                                              THEN st.old_values[i] ELSE table[i]
    BY DEF OldRestoredBefore
  <2>2. \A i \in Ids : Present(OldRestoredBefore(table, st, id), i)
          => Present(table, i) /\ Key(OldRestoredBefore(table, st, id)[i]) = Key(table[i])
    BY <1>1, <2>1 DEF KeysKept, Present
  <2>3. Present(table, id) /\ Key(st.old_values[id]) = Key(table[id])
    BY <1>1, <1>2 DEF KeysKept
  <2> QED BY <2>2, <2>3 DEF Collides, OneOwner
<1>3. \A id \in st.new_ids : Present(table, id)
  BY <1>1 DEF KeysKept
<1>4. ASSUME NEW id \in Ids, Present(st.removed_values, id)
      PROVE  LET passed == RemovedRestoredBefore(table, st, id)
             IN  ~Present(passed, id) /\ ~Collides(passed, id, st.removed_values[id])
  <2> DEFINE passed == RemovedRestoredBefore(table, st, id)
  <2>1. \A i \in Ids : passed[i] = IF i < id /\ Present(st.removed_values, i) THEN st.removed_values[i]
                                   ELSE IF i \in st.new_ids THEN Missing
                                   ELSE IF Present(st.old_values, i) THEN st.old_values[i]
                                   ELSE table[i]
    BY DEF RemovedRestoredBefore
  <2>2. \A i \in Ids : before.indices[i] = IF Present(st.removed_values, i) THEN st.removed_values[i]
                                           ELSE IF i \in st.new_ids THEN Missing
                                           ELSE IF Present(st.old_values, i) THEN st.old_values[i]
                                           ELSE table[i]
    BY DEF Layer, Reverted
  <2>3. \A i \in Ids : Present(st.removed_values, i) => ~Present(st.old_values, i) /\ table[i] = Missing
    BY DEF Layer
  <2>4. ~(id < id)
    BY DEF Ids
  <2> HIDE DEF passed
  <2>5. ~Present(passed, id)
    BY Zenon, <1>4, <2>1, <2>3, <2>4 DEF Present
  <2>6. \A i \in Ids : Present(passed, i) => passed[i] = before.indices[i]
    BY <2>1, <2>2, <2>3 DEF Present
  <2>7. before.indices[id] = st.removed_values[id] /\ OneOwner(before.indices)
    BY <1>1, <1>4, <2>2 DEF KeysKept
  <2>8. ~Collides(passed, id, st.removed_values[id])
    BY <1>4, <2>6, <2>7 DEF Collides, OneOwner, Present
  <2> QED BY <2>5, <2>8 DEF passed
<1> QED BY <1>2, <1>3, <1>4 DEF UndoThrows

--------------------
(* The invariant is inductive. *)

\* The current table has the type of a snapshot.
LEMMA NowIsSnapshot == IndexInv => Now \in Snapshot
BY DEF IndexInv, TypeOK, Now, Snapshot

\* A new, empty table satisfies the invariant.
LEMMA InitInv == Init => IndexInv
<1> SUFFICES ASSUME Init PROVE IndexInv
  OBVIOUS
<1>1. NoValues \in IdValueMap
  BY DEF NoValues, IdValueMap
<1>2. TypeOK
  <2>1. unwinding \in BOOLEAN /\ failed \in BOOLEAN
    BY Zenon DEF Init
  <2>2. 0 \in 0..(MaxId + 1) /\ 0 \in 0..MaxRevision
    BY IndexAssumption
  <2> QED BY <1>1, <2>1, <2>2, EmptySeq DEF Init, TypeOK
<1>3. FreshIds
  BY DEF Init, FreshIds, NoValues
<1>4. Sound
  BY DEF Init, Sound, OneOwner, NoValues, Present
<1> QED BY <1>2, <1>3, <1>4 DEF IndexInv, Init

\* A step that changes the table and the newest undo state only.
LEMMA HeadStep ==
  ASSUME IndexInv, TypeOK', FreshIds', Sound', UNCHANGED <<revision, snapshots>>,
         IF enabled
         THEN \E st \in UndoState : /\ stack' = WithHead(st)
                                    /\ st.revision = head.revision
                                    /\ Layer(st, Now', snapshots[Len(stack)])
         ELSE stack' = stack
  PROVE  IndexInv'
<1> DEFINE n == Len(stack)
<1>0. stack \in Seq(UndoState) /\ n \in Nat /\ Len(snapshots) = n
  BY DEF IndexInv, TypeOK
<1>1. CASE ~enabled
  <2>1. n = 0 /\ stack' = stack
    BY <1>0, <1>1 DEF enabled
  <2> QED BY <2>1, <1>0 DEF IndexInv
<1>2. CASE enabled
  <2>1. n > 0
    BY <1>0, <1>2, EmptySeq DEF enabled
  <2>2. PICK st \in UndoState : /\ stack' = [stack EXCEPT ![n] = st]
                                /\ st.revision = stack[n].revision
                                /\ Layer(st, Now', snapshots[n])
    BY <1>2 DEF WithHead, head
  <2>3. /\ Len(stack') = n
        /\ \A i \in 1..n : stack'[i] = IF i = n THEN st ELSE stack[i]
    BY <1>0, <2>1, <2>2, ExceptSeq
  <2>4. \A i \in 1..n : Layer(stack'[i], After(i)', snapshots'[i])
    <3> SUFFICES ASSUME NEW i \in 1..n PROVE Layer(stack'[i], After(i)', snapshots'[i])
      OBVIOUS
    <3>1. CASE i = n
      BY <3>1, <2>2, <2>3 DEF After
    <3>2. CASE i # n
      <4>1. After(i)' = After(i)
        BY Zenon, <3>2, <2>3 DEF After
      <4> QED BY <3>2, <4>1, <2>3 DEF IndexInv
    <3> QED BY <3>1, <3>2
  <2>5. \A i \in 1..n : stack'[i].revision = stack[i].revision
    BY Zenon, <2>2, <2>3
  <2> QED BY <1>0, <2>3, <2>4, <2>5 DEF IndexInv
<1> QED BY <1>1, <1>2

\* A step that leaves the table alone.
LEMMA SameSound ==
  ASSUME IndexInv, UNCHANGED <<indices, failed>>
  PROVE  Sound'
BY DEF IndexInv, Sound, OneOwner, Present

\* emplace() keeps the invariant.
LEMMA EmplaceInv ==
  ASSUME IndexInv, NEW v \in Values, Emplace(v)
  PROVE  IndexInv'
<1>1. /\ next_id \in Ids /\ indices \in IdValueMap /\ next_id \in Int
      /\ Now = [indices |-> indices, next_id |-> next_id]
      /\ Now' = [indices |-> [indices EXCEPT ![next_id] = v], next_id |-> next_id + 1]
      /\ stack \in Seq(UndoState) /\ snapshots \in Seq(Snapshot)
      /\ Len(snapshots) = Len(stack)
  BY IndexAssumption DEF IndexInv, TypeOK, Emplace, Ids, Now
<1>2. FreshIds'
  BY <1>1 DEF IndexInv, FreshIds, Emplace, IdValueMap, Ids
<1>a. Sound'
  <2>1. \A other \in Ids \ {next_id} : Present(indices, other) => Key(indices[other]) # Key(v)
    BY DEF Emplace, Collides
  <2>2. failed' = failed /\ indices'[next_id] = v /\ \A i \in Ids \ {next_id} : indices'[i] = indices[i]
    BY <1>1 DEF Emplace, IdValueMap
  <2>3. KeysImmutable /\ OneOwner(indices) => OneOwner(indices)'
    BY Zenon, <2>1, <2>2 DEF OneOwner, Present
  <2> QED BY <2>2, <2>3 DEF IndexInv, Sound
<1>3. CASE ~enabled
  <2>1. stack' = stack
    BY Zenon, <1>3 DEF Emplace, Recorded
  <2>2. TypeOK'
    BY <1>1, <2>1, IndexAssumption DEF IndexInv, TypeOK, Emplace, IdValueMap, Ids
  <2> QED BY <1>2, <1>a, <1>3, <2>1, <2>2, HeadStep DEF Emplace
<1>4. CASE enabled
  <2> DEFINE n == Len(stack)
             st == on_create(head, next_id)
  <2>1. n \in Nat \ {0}
    BY <1>1, <1>4, EmptySeq DEF enabled
  <2>2. head \in UndoState /\ snapshots[n] \in Snapshot
    BY <1>1, <2>1, ElementOfSeq DEF head
  <2>3. Layer(head, Now, snapshots[n])
    BY <2>1 DEF IndexInv, After, head
  <2>4. Layer(st, Now', snapshots[n])
    BY Zenon, <1>1, <2>2, <2>3, NowIsSnapshot, CreateLayer
  <2>5. st \in UndoState /\ st.revision = head.revision
    BY Zenon, <1>1, <2>2 DEF on_create, UndoState
  <2>6. stack' = WithHead(st)
    BY <1>4 DEF Emplace, Recorded
  <2>7. stack' \in Seq(UndoState)
    BY <1>1, <2>1, <2>5, <2>6, ExceptSeq DEF WithHead
  <2>8. TypeOK'
    BY <1>1, <2>7, IndexAssumption DEF IndexInv, TypeOK, Emplace, IdValueMap, Ids
  <2> QED BY <1>2, <1>a, <1>4, <2>4, <2>5, <2>6, <2>8, HeadStep DEF Emplace
<1> QED BY Zenon, <1>3, <1>4

\* modify() keeps the invariant.
LEMMA ModifyInv ==
  ASSUME IndexInv, NEW id \in Ids, NEW v \in Values, Modify(id, v)
  PROVE  IndexInv'
<1>0. PICK w \in Values \cup {Missing} :
        /\ indices' = [indices EXCEPT ![id] = w]
        /\ KeysImmutable => w # Missing /\ Key(w) = Key(indices[id])
  <2> DEFINE w == IF Collides(indices, id, v) THEN Missing ELSE v
  <2>1. w \in Values \cup {Missing} /\ indices' = [indices EXCEPT ![id] = w]
    BY DEF Modify
  <2>2. KeysImmutable => Key(v) = Key(indices[id]) /\ OneOwner(indices)
    BY DEF Modify, IndexInv, Sound
  <2>3. KeysImmutable => ~Collides(indices, id, v)
    BY <2>2 DEF Modify, OneOwner, Collides
  <2>4. KeysImmutable => w # Missing /\ Key(w) = Key(indices[id])
    BY <2>2, <2>3, IndexAssumption
  <2> HIDE DEF w
  <2> QED BY Zenon, <2>1, <2>4
<1>1. /\ indices \in IdValueMap /\ next_id \in Int /\ Present(indices, id)
      /\ indices' = [indices EXCEPT ![id] = w] /\ next_id' = next_id
      /\ stack \in Seq(UndoState) /\ snapshots \in Seq(Snapshot)
      /\ Len(snapshots) = Len(stack)
  <2>1. Present(indices, id) /\ next_id' = next_id
    BY DEF Modify
  <2> QED BY <1>0, <2>1, IndexAssumption DEF IndexInv, TypeOK
<1>a. Now' = [Now EXCEPT !.indices = [Now.indices EXCEPT ![id] = w]]
  <2>1. Now' = [indices |-> [indices EXCEPT ![id] = w], next_id |-> next_id]
    BY <1>1 DEF Now
  <2> QED BY <2>1 DEF Now
<1>2. FreshIds'
  BY <1>1 DEF IndexInv, FreshIds, Present, IdValueMap
<1>b. Sound'
  <2>1. failed' = failed /\ indices'[id] = w /\ \A i \in Ids \ {id} : indices'[i] = indices[i]
    BY <1>1 DEF Modify, IdValueMap
  <2>2. KeysImmutable /\ OneOwner(indices) => OneOwner(indices)'
    BY <1>0, <1>1, <2>1 DEF OneOwner, Present
  <2> QED BY <2>1, <2>2 DEF IndexInv, Sound
<1>3. CASE ~enabled
  <2>1. stack' = stack
    BY Zenon, <1>3 DEF Modify, Recorded
  <2>2. TypeOK'
    BY <1>1, <2>1 DEF IndexInv, TypeOK, Modify, IdValueMap
  <2> QED BY <1>2, <1>b, <1>3, <2>1, <2>2, HeadStep DEF Modify
<1>4. CASE enabled
  <2> DEFINE n == Len(stack)
             st == on_modify(head, id, indices[id])
  <2>1. n \in Nat \ {0}
    BY <1>1, <1>4, EmptySeq DEF enabled
  <2>2. head \in UndoState /\ snapshots[n] \in Snapshot
    BY <1>1, <2>1, ElementOfSeq DEF head
  <2>3. Layer(head, Now, snapshots[n])
    BY <2>1 DEF IndexInv, After, head
  <2>4. Layer(st, Now', snapshots[n])
    <3>1. Now.indices = indices
      BY DEF Now
    <3> QED BY Zenon, <1>0, <1>1, <1>a, <2>2, <2>3, <3>1, NowIsSnapshot, ModifyLayer
  <2>5. st \in UndoState /\ st.revision = head.revision
    BY Zenon, <1>1, <2>2 DEF on_modify, UndoState, IdValueMap
  <2>6. stack' = WithHead(st)
    BY <1>4 DEF Modify, Recorded
  <2>7. stack' \in Seq(UndoState)
    BY <1>1, <2>1, <2>5, <2>6, ExceptSeq DEF WithHead
  <2>8. TypeOK'
    BY <1>1, <2>7 DEF IndexInv, TypeOK, Modify, IdValueMap
  <2> QED BY <1>2, <1>b, <1>4, <2>4, <2>5, <2>6, <2>8, HeadStep DEF Modify
<1> QED BY <1>3, <1>4

\* remove() keeps the invariant.
LEMMA RemoveInv ==
  ASSUME IndexInv, NEW id \in Ids, RemoveObject(id)
  PROVE  IndexInv'
<1>1. /\ indices \in IdValueMap /\ next_id \in Int /\ Present(indices, id)
      /\ indices' = [indices EXCEPT ![id] = Missing] /\ next_id' = next_id
      /\ stack \in Seq(UndoState) /\ snapshots \in Seq(Snapshot)
      /\ Len(snapshots) = Len(stack)
  BY IndexAssumption DEF IndexInv, TypeOK, RemoveObject
<1>a. Now' = [Now EXCEPT !.indices = [Now.indices EXCEPT ![id] = Missing]]
  <2> DEFINE table == [indices EXCEPT ![id] = Missing]
  <2>1. indices' = table /\ next_id' = next_id
    BY <1>1
  <2> HIDE DEF table
  <2>2. Now' = [Now EXCEPT !.indices = table]
    BY <2>1 DEF Now
  <2>3. Now.indices = indices
    BY Zenon DEF Now
  <2> QED BY <2>2, <2>3 DEF table
<1>2. FreshIds'
  BY <1>1 DEF IndexInv, FreshIds, Present, IdValueMap
<1>b. Sound'
  <2>1. failed' = failed /\ indices'[id] = Missing /\ \A i \in Ids \ {id} : indices'[i] = indices[i]
    BY <1>1 DEF RemoveObject, IdValueMap
  <2>2. OneOwner(indices) => OneOwner(indices)'
    BY Zenon, <2>1 DEF OneOwner, Present
  <2> QED BY <2>1, <2>2 DEF IndexInv, Sound
<1>3. CASE ~enabled
  <2>1. stack' = stack
    BY Zenon, <1>3 DEF RemoveObject, Recorded
  <2>2. TypeOK'
    BY Zenon, <1>1, <2>1 DEF IndexInv, TypeOK, RemoveObject, IdValueMap
  <2> QED BY <1>2, <1>b, <1>3, <2>1, <2>2, HeadStep DEF RemoveObject
<1>4. CASE enabled
  <2> DEFINE n == Len(stack)
             st == on_remove(head, id, indices[id])
  <2>1. n \in Nat \ {0}
    BY <1>1, <1>4, EmptySeq DEF enabled
  <2>2. head \in UndoState /\ snapshots[n] \in Snapshot
    BY <1>1, <2>1, ElementOfSeq DEF head
  <2>3. Layer(head, Now, snapshots[n])
    BY <2>1 DEF IndexInv, After, head
  <2>4. Layer(st, Now', snapshots[n])
    <3>1. Now.indices = indices
      BY DEF Now
    <3> QED BY Zenon, <1>1, <1>a, <2>2, <2>3, <3>1, NowIsSnapshot, RemoveLayer
  <2>5. st \in UndoState /\ st.revision = head.revision
    BY Zenon, <1>1, <2>2 DEF on_remove, UndoState, IdValueMap
  <2>6. stack' = WithHead(st)
    BY <1>4 DEF RemoveObject, Recorded
  <2>7. stack' \in Seq(UndoState)
    BY <1>1, <2>1, <2>5, <2>6, ExceptSeq DEF WithHead
  <2>8. TypeOK'
    BY Zenon, <1>1, <2>7 DEF IndexInv, TypeOK, RemoveObject, IdValueMap
  <2> QED BY <1>2, <1>b, <1>4, <2>4, <2>5, <2>6, <2>8, HeadStep DEF RemoveObject
<1> QED BY Zenon, <1>3, <1>4

\* start_undo_session() adds an empty layer and keeps the invariant.
LEMMA StartInv ==
  ASSUME IndexInv, StartUndoSession
  PROVE  IndexInv'
<1> DEFINE n == Len(stack)
           st == NewUndoState
<1>1. /\ stack \in Seq(UndoState) /\ snapshots \in Seq(Snapshot)
      /\ n \in Nat /\ Len(snapshots) = n
      /\ revision \in 0..MaxRevision /\ revision < MaxRevision
      /\ next_id \in 0..(MaxId + 1) /\ indices \in IdValueMap
      /\ indices' = indices /\ next_id' = next_id /\ revision' = revision + 1
      /\ stack' = Append(stack, st) /\ snapshots' = Append(snapshots, Now)
      /\ Now' = Now
  BY DEF IndexInv, TypeOK, StartUndoSession, Now
<1>2. st \in UndoState
  <2>1. NoValues \in IdValueMap
    BY DEF NoValues, IdValueMap
  <2>2. revision + 1 \in 0..MaxRevision
    BY <1>1, IndexAssumption
  <2> QED BY <1>1, <2>1, <2>2 DEF NewUndoState, UndoState
<1>3. Now \in Snapshot
  BY NowIsSnapshot
<1>4. /\ stack' \in Seq(UndoState) /\ snapshots' \in Seq(Snapshot)
      /\ Len(stack') = n + 1 /\ Len(snapshots') = n + 1
      /\ \A i \in 1..n : stack'[i] = stack[i] /\ snapshots'[i] = snapshots[i]
      /\ stack'[n + 1] = st /\ snapshots'[n + 1] = Now
  BY <1>1, <1>2, <1>3, AppendProperties
<1>5. TypeOK'
  BY <1>1, <1>4, IndexAssumption DEF IndexInv, TypeOK, StartUndoSession
<1>6. FreshIds'
  BY <1>1 DEF IndexInv, FreshIds
<1>a. Sound'
  BY <1>1, SameSound DEF StartUndoSession
<1>7. \A i \in 1..(n + 1) : Layer(stack'[i], After(i)', snapshots'[i])
  <2> SUFFICES ASSUME NEW i \in 1..(n + 1)
               PROVE  Layer(stack'[i], After(i)', snapshots'[i])
    OBVIOUS
  <2>1. CASE i = n + 1
    <3>1. After(i)' = Now
      BY SMTT(30), <1>1, <1>4, <2>1 DEF After
    <3>2. Layer(st, Now, Now)
      BY <1>2, <1>3, EmptyLayer DEF IndexInv, FreshIds, Sound, Now, NewUndoState
    <3> QED BY <1>4, <2>1, <3>1, <3>2
  <2>2. CASE i = n
    <3>1. After(i)' = After(i)
      BY <1>1, <1>4, <2>2 DEF After
    <3> QED BY <1>1, <1>4, <2>2, <3>1 DEF IndexInv
  <2>3. CASE i < n
    <3>1. After(i)' = After(i)
      BY <1>1, <1>4, <2>3 DEF After
    <3> QED BY <1>1, <1>4, <2>3, <3>1 DEF IndexInv
  <2> QED BY <1>1, <2>1, <2>2, <2>3
<1>8. \A i \in 1..(n + 1) : /\ stack'[i].revision = revision' - (n + 1 - i)
                            /\ stack'[i].revision >= 1
  <2> SUFFICES ASSUME NEW i \in 1..(n + 1)
               PROVE  /\ stack'[i].revision = revision' - (n + 1 - i)
                      /\ stack'[i].revision >= 1
    OBVIOUS
  <2>1. CASE i = n + 1
    BY <1>1, <1>4, <2>1 DEF NewUndoState
  <2>2. CASE i # n + 1
    BY <1>1, <1>4, <2>2 DEF IndexInv
  <2> QED BY <2>1, <2>2
<1> QED BY <1>4, <1>5, <1>6, <1>a, <1>7, <1>8 DEF IndexInv

\* Dropping the newest layer, or a number of the oldest ones.
LEMMA PopInv ==
  ASSUME IndexInv, enabled, revision' = revision - 1,
         stack' = SubSeq(stack, 1, Len(stack) - 1),
         snapshots' = SubSeq(snapshots, 1, Len(stack) - 1),
         Now' = snapshots[Len(stack)],
         UNCHANGED unwinding, failed' \in BOOLEAN, ~failed'
  PROVE  IndexInv'
<1> DEFINE n == Len(stack)
<1>1. /\ stack \in Seq(UndoState) /\ snapshots \in Seq(Snapshot)
      /\ n \in Nat \ {0} /\ Len(snapshots) = n
      /\ revision \in 0..MaxRevision
  BY EmptySeq DEF IndexInv, TypeOK, enabled
<1>2. /\ stack' \in Seq(UndoState) /\ snapshots' \in Seq(Snapshot)
      /\ Len(stack') = n - 1 /\ Len(snapshots') = n - 1
      /\ \A i \in 1..(n - 1) : stack'[i] = stack[i] /\ snapshots'[i] = snapshots[i]
  <2>1. \A i \in 1..(n - 1) : stack[i] \in UndoState /\ snapshots[i] \in Snapshot
    BY <1>1, ElementOfSeq
  <2> QED BY <1>1, <2>1, SubSeqProperties
<1>3. snapshots[n] \in Snapshot
  BY <1>1, ElementOfSeq
<1>4. Layer(stack[n], Now, snapshots[n])
  BY <1>1 DEF IndexInv, After
<1>5. /\ indices' = snapshots[n].indices /\ next_id' = snapshots[n].next_id
      /\ indices' \in IdValueMap /\ next_id' \in 0..(MaxId + 1)
  <2>1. /\ indices' = Now'.indices
        /\ next_id' = Now'.next_id
    BY DEF Now
  <2> QED BY <1>3, <2>1 DEF Snapshot
<1>6. FreshIds'
  <2>1. snapshots[n].next_id = stack[n].old_next_id
    BY <1>4 DEF Layer
  <2> QED BY <1>4, <1>5, <2>1 DEF Layer, FreshIds
<1>a. Sound'
  BY Zenon, <1>4, <1>5 DEF Layer, KeysKept, Sound, OneOwner
<1>7. revision - 1 \in 0..MaxRevision
  BY <1>1, IndexAssumption DEF IndexInv
<1>8. TypeOK'
  <2>1. unwinding' \in BOOLEAN
    BY Zenon DEF IndexInv, TypeOK
  <2> QED BY Zenon, <1>2, <1>5, <1>7, <2>1 DEF TypeOK
<1>9. \A i \in 1..(n - 1) : Layer(stack'[i], After(i)', snapshots'[i])
  <2> SUFFICES ASSUME NEW i \in 1..(n - 1)
               PROVE  Layer(stack'[i], After(i)', snapshots'[i])
    OBVIOUS
  <2>1. After(i)' = After(i)
    <3>1. CASE i = n - 1
      BY <1>1, <1>2, <3>1 DEF After
    <3>2. CASE i # n - 1
      BY <1>1, <1>2, <3>2 DEF After
    <3> QED BY Zenon, <3>1, <3>2
  <2> QED BY <1>1, <1>2, <2>1 DEF IndexInv
<1>10. \A i \in 1..(n - 1) : /\ stack'[i].revision = revision' - (n - 1 - i)
                             /\ stack'[i].revision >= 1
  BY <1>1, <1>2 DEF IndexInv
<1> QED BY Zenon, <1>2, <1>6, <1>a, <1>8, <1>9, <1>10 DEF IndexInv

\* undo() gives back exactly the snapshot of the newest session.
LEMMA RevertHeadRestores ==
  ASSUME IndexInv, enabled, RevertHead, ~failed, ~failed'
  PROVE  Now' = snapshots[Len(stack)]
<1>1. Len(stack) \in Nat \ {0}
  BY EmptySeq DEF IndexInv, TypeOK, enabled
<1>2. Layer(head, Now, snapshots[Len(stack)])
  BY <1>1 DEF IndexInv, After, head
<1>3. indices' = Reverted(indices, head) /\ next_id' = head.old_next_id
  BY DEF RevertHead
<1> QED BY <1>2, <1>3 DEF Layer, Now

\* undo() keeps the invariant, whether or not the session stays open.
LEMMA UndoInv ==
  ASSUME IndexInv, NEW keep_alive \in BOOLEAN, Undo(keep_alive)
  PROVE  IndexInv'
<1> DEFINE n == Len(stack)
<1>1. /\ stack \in Seq(UndoState) /\ snapshots \in Seq(Snapshot)
      /\ n \in Nat \ {0} /\ Len(snapshots) = n /\ enabled
  BY Zenon, EmptySeq DEF IndexInv, TypeOK, enabled, Undo
<1>2. CASE UndoThrows(indices, head)
  <2>1. failed' = TRUE /\ UNCHANGED <<indices, next_id, stack, revision, snapshots, unwinding>>
    BY Zenon, <1>2 DEF Undo, RevertHead
  <2>2. TypeOK'
    <3>1. failed' \in BOOLEAN
      BY Zenon, <2>1
    <3> QED BY <2>1, <3>1 DEF IndexInv, TypeOK
  <2>3. \A i : After(i)' = After(i)
    BY Zenon, <2>1 DEF After, Now
  <2>4. FreshIds'
    BY Zenon, <2>1 DEF IndexInv, FreshIds
  <2>5. \A i \in 1..Len(stack') : Layer(stack'[i], After(i)', snapshots'[i])
    BY <2>1, <2>3 DEF IndexInv
  <2>6. Sound'
    <3>1. head \in UndoState /\ snapshots[n] \in Snapshot /\ Now \in Snapshot /\ Now.indices = indices
      BY SMTT(30), <1>1, ElementOfSeq, NowIsSnapshot DEF head, Now
    <3>2. Layer(head, Now, snapshots[n])
      BY <1>1 DEF IndexInv, After, head
    <3>3. ~KeysImmutable
      BY <1>2, <3>1, <3>2, UndoPasses DEF IndexInv, Sound
    <3> QED BY <3>3 DEF Sound
  <2> QED BY Zenon, <2>1, <2>2, <2>4, <2>5, <2>6 DEF IndexInv
<1>3. CASE ~UndoThrows(indices, head)
  <2>1. failed' = failed /\ ~failed /\ ~failed' /\ RevertHead /\ failed' \in BOOLEAN
    <3>1. failed' = failed /\ ~failed /\ RevertHead
      BY Zenon, <1>3 DEF Undo, RevertHead
    <3>2. failed \in BOOLEAN
      BY DEF IndexInv, TypeOK
    <3> QED BY <3>1, <3>2
  <2>2. Now' = snapshots[n]
    BY <1>1, <2>1, RevertHeadRestores
  <2>3. CASE ~keep_alive
    <3>1. /\ stack' = SubSeq(stack, 1, n - 1)
          /\ revision' = revision - 1
          /\ snapshots' = SubSeq(snapshots, 1, Len(snapshots) - 1)
          /\ unwinding' = unwinding
      BY Zenon, <2>1, <2>3 DEF Undo
    <3> QED BY <1>1, <2>1, <2>2, <3>1, PopInv
  <2>4. CASE keep_alive
    <3> DEFINE st == Emptied(head)
    <3>1. stack' = WithHead(st) /\ UNCHANGED <<revision, snapshots, unwinding>>
      BY <2>1, <2>4 DEF Undo
    <3>2. head \in UndoState /\ snapshots[n] \in Snapshot
      BY <1>1, ElementOfSeq DEF head
    <3>3. /\ st \in UndoState /\ st.revision = head.revision
          /\ st.old_values = NoValues /\ st.removed_values = NoValues
          /\ st.new_ids = {} /\ st.old_next_id = head.old_next_id
      <4>1. NoValues \in IdValueMap
        BY DEF NoValues, IdValueMap
      <4> QED BY Zenon, <3>2, <4>1 DEF Emptied, UndoState
    <3>4. Layer(head, Now, snapshots[n])
      BY <1>1 DEF IndexInv, After, head
    <3>5. Layer(st, snapshots[n], snapshots[n])
      <4>1. /\ snapshots[n].next_id = head.old_next_id
            /\ \A id \in Ids : id >= head.old_next_id => snapshots[n].indices[id] = Missing
        BY <3>4 DEF Layer
      <4>2. KeysImmutable => OneOwner(snapshots[n].indices)
        BY <3>4 DEF Layer, KeysKept
      <4> QED BY <3>2, <3>3, <4>1, <4>2, EmptyLayer
    <3>6. /\ indices' = snapshots[n].indices /\ next_id' = snapshots[n].next_id
      <4>1. indices' = Now'.indices /\ next_id' = Now'.next_id
        BY Zenon DEF Now
      <4> QED BY <2>2, <4>1
    <3>7. FreshIds'
      BY <3>4, <3>6 DEF Layer, FreshIds
    <3>a. Sound'
      BY ZenonT(40), <2>1, <3>4, <3>6 DEF Layer, KeysKept, Sound, OneOwner
    <3>8. stack' \in Seq(UndoState)
      BY <1>1, <3>1, <3>3, ExceptSeq DEF WithHead
    <3>9. TypeOK'
      <4>1. unwinding' \in BOOLEAN
        BY Zenon, <3>1 DEF IndexInv, TypeOK
      <4>2. indices' \in IdValueMap /\ next_id' \in 0..(MaxId + 1)
        BY <3>2, <3>6 DEF Snapshot
      <4> QED BY Zenon, <2>1, <3>1, <3>8, <4>1, <4>2 DEF IndexInv, TypeOK
    <3>10. Layer(st, Now', snapshots[n])
      BY <2>2, <3>5
    <3> QED BY Zenon, <1>1, <3>1, <3>3, <3>7, <3>a, <3>9, <3>10, HeadStep
  <2> QED BY <2>3, <2>4
<1> QED BY Zenon, <1>2, <1>3

\* squash() of the only open session keeps the invariant.
LEMMA SquashOnlyInv ==
  ASSUME IndexInv, NEW keep_alive \in BOOLEAN, SquashOnly(keep_alive)
  PROVE  IndexInv'
<1>1. /\ stack \in Seq(UndoState) /\ snapshots \in Seq(Snapshot)
      /\ Len(stack) = 1 /\ Len(snapshots) = 1
      /\ UNCHANGED <<indices, next_id, unwinding, failed>>
  BY Zenon DEF IndexInv, TypeOK, SquashOnly
<1>2. FreshIds' /\ Now' = Now /\ Now \in Snapshot
  BY <1>1, NowIsSnapshot DEF IndexInv, FreshIds, Now
<1>a. Sound'
  BY Zenon, <1>1, SameSound
<1>3. CASE ~keep_alive
  <2>1. stack' = <<>> /\ snapshots' = <<>> /\ revision' = revision
    BY Zenon, <1>3 DEF SquashOnly
  <2>2. TypeOK'
    BY <1>1, <2>1, EmptySeq DEF IndexInv, TypeOK
  <2> QED BY <1>2, <1>a, <2>1, <2>2 DEF IndexInv
<1>4. CASE keep_alive
  <2> DEFINE st == [Emptied(head) EXCEPT !.old_next_id = next_id, !.revision = revision + 1]
  <2>1. /\ stack' = <<st>> /\ snapshots' = <<Now>> /\ revision' = revision + 1
        /\ revision < MaxRevision
    BY Zenon, <1>4 DEF SquashOnly
  <2>2. revision \in 0..MaxRevision /\ next_id \in 0..(MaxId + 1)
    BY DEF IndexInv, TypeOK
  <2>3. revision + 1 \in 0..MaxRevision /\ revision + 1 >= 1
    BY <2>1, <2>2, IndexAssumption
  <2>4. head \in UndoState
    <3>1. head = stack[1] /\ 1 \in 1..Len(stack)
      BY <1>1 DEF head
    <3> QED BY <1>1, <3>1, ElementOfSeq
  <2>5. /\ st \in UndoState /\ st.revision = revision + 1
        /\ st.old_values = NoValues /\ st.removed_values = NoValues
        /\ st.new_ids = {} /\ st.old_next_id = next_id
    <3>1. NoValues \in IdValueMap
      BY DEF NoValues, IdValueMap
    <3> QED BY Zenon, <2>2, <2>3, <2>4, <3>1 DEF Emptied, UndoState
  <2>6. /\ stack' \in Seq(UndoState) /\ Len(stack') = 1 /\ stack'[1] = st
        /\ snapshots' \in Seq(Snapshot) /\ Len(snapshots') = 1 /\ snapshots'[1] = Now
    <3> HIDE DEF st
    <3> QED BY <1>2, <2>1, <2>5
  <2>7. TypeOK'
    BY <1>1, <2>1, <2>3, <2>6 DEF IndexInv, TypeOK
  <2>8. Layer(st, Now, Now)
    <3> HIDE DEF st
    <3>1. Now.next_id = next_id /\ Now.indices = indices
      BY DEF Now
    <3> QED BY <1>2, <2>5, <3>1, EmptyLayer DEF IndexInv, FreshIds, Sound
  <2>9. After(1)' = Now
    BY <1>2, <2>6 DEF After
  <2>10. \A i \in 1..Len(stack') : i = 1
    BY <2>6
  <2>11. \A i \in 1..Len(stack') : Layer(stack'[i], After(i)', snapshots'[i])
    BY <2>6, <2>8, <2>9, <2>10
  <2>12. \A i \in 1..Len(stack') : /\ stack'[i].revision = revision' - (Len(stack') - i)
                                   /\ stack'[i].revision >= 1
    <3> HIDE DEF st
    <3> QED BY <2>1, <2>2, <2>3, <2>5, <2>6, <2>10
  <2> QED BY <1>2, <1>a, <2>6, <2>7, <2>11, <2>12 DEF IndexInv
<1> QED BY <1>3, <1>4

\* squash() of a nested session keeps the invariant.
LEMMA SquashNestedInv ==
  ASSUME IndexInv, NEW keep_alive \in BOOLEAN, SquashNested(keep_alive)
  PROVE  IndexInv'
<1> DEFINE n == Len(stack)
           m == Merged(stack[n - 1], stack[n])
<1>1. /\ stack \in Seq(UndoState) /\ snapshots \in Seq(Snapshot)
      /\ n \in Nat /\ n > 1 /\ Len(snapshots) = n
      /\ UNCHANGED <<indices, next_id, unwinding, failed>>
      /\ revision \in 0..MaxRevision
  BY DEF IndexInv, TypeOK, SquashNested
<1>2. FreshIds' /\ Now' = Now /\ Now \in Snapshot
  BY <1>1, NowIsSnapshot DEF IndexInv, FreshIds, Now
<1>a. Sound'
  BY <1>1, SameSound
<1>3. \A i \in 1..n : stack[i] \in UndoState /\ snapshots[i] \in Snapshot
  BY <1>1, ElementOfSeq
<1>4. n \in 1..n /\ n - 1 \in 1..n
  BY <1>1
<1>5. m \in UndoState /\ Layer(m, Now, snapshots[n - 1])
  <2>1. Layer(stack[n], Now, snapshots[n]) /\ Layer(stack[n - 1], snapshots[n], snapshots[n - 1])
    <3>1. /\ Layer(stack[n], After(n), snapshots[n])
          /\ Layer(stack[n - 1], After(n - 1), snapshots[n - 1])
      BY Zenon, <1>4 DEF IndexInv
    <3>2. After(n) = Now /\ After(n - 1) = snapshots[n]
      <4>1. n - 1 # n /\ n - 1 + 1 = n
        BY <1>1
      <4> QED BY Zenon, <4>1 DEF After
    <3> QED BY Zenon, <3>1, <3>2
  <2> QED BY Zenon, <1>2, <1>3, <1>4, <2>1, MergeLayers
<1>6. m.revision = stack[n - 1].revision
  BY Zenon, <1>3, <1>4 DEF Merged, UndoState
<1> HIDE DEF m
<1>7. CASE ~keep_alive
  <2>1. /\ stack' = [SubSeq(stack, 1, n - 1) EXCEPT ![n - 1] = m]
        /\ snapshots' = SubSeq(snapshots, 1, n - 1) /\ revision' = revision - 1
    BY Zenon, <1>7 DEF SquashNested, m
  <2>2. /\ SubSeq(stack, 1, n - 1) \in Seq(UndoState)
        /\ Len(SubSeq(stack, 1, n - 1)) = n - 1
        /\ \A i \in 1..(n - 1) : SubSeq(stack, 1, n - 1)[i] = stack[i]
    BY <1>1, <1>3, SubSeqProperties
  <2>3. /\ snapshots' \in Seq(Snapshot) /\ Len(snapshots') = n - 1
        /\ \A i \in 1..(n - 1) : snapshots'[i] = snapshots[i]
    BY <1>1, <1>3, <2>1, SubSeqProperties
  <2>4. /\ stack' \in Seq(UndoState) /\ Len(stack') = n - 1
        /\ \A i \in 1..(n - 1) : stack'[i] = IF i = n - 1 THEN m ELSE stack[i]
    <3> DEFINE base == SubSeq(stack, 1, n - 1)
    <3>1. base \in Seq(UndoState) /\ n - 1 \in 1..Len(base) /\ stack' = [base EXCEPT ![n - 1] = m]
      BY <1>1, <2>1, <2>2
    <3>2. Len(base) = n - 1 /\ \A i \in 1..(n - 1) : base[i] = stack[i]
      BY Zenon, <2>2
    <3> HIDE DEF base
    <3>3. /\ stack' \in Seq(UndoState) /\ Len(stack') = Len(base)
          /\ \A i \in 1..Len(base) : stack'[i] = IF i = n - 1 THEN m ELSE base[i]
      BY <1>5, <3>1, ExceptSeq
    <3> QED BY Zenon, <3>2, <3>3
  <2>5. revision - 1 \in 0..MaxRevision
    BY <1>1, <1>4, IndexAssumption DEF IndexInv
  <2>6. TypeOK'
    BY Zenon, <1>1, <2>1, <2>3, <2>4, <2>5 DEF IndexInv, TypeOK
  <2>7. \A i \in 1..(n - 1) : Layer(stack'[i], After(i)', snapshots'[i])
    <3> SUFFICES ASSUME NEW i \in 1..(n - 1)
                 PROVE  Layer(stack'[i], After(i)', snapshots'[i])
      OBVIOUS
    <3>1. CASE i = n - 1
      <4>1. After(i)' = Now
        BY Zenon, <1>2, <2>4, <3>1 DEF After
      <4> QED BY Zenon, <1>5, <2>3, <2>4, <3>1, <4>1
    <3>2. CASE i # n - 1
      <4>1. i \in 1..n /\ i # n /\ i + 1 \in 1..(n - 1)
        BY <1>1, <3>2
      <4>2. After(i)' = snapshots'[i + 1] /\ After(i) = snapshots[i + 1]
        BY Zenon, <2>4, <3>2, <4>1 DEF After
      <4>3. After(i)' = After(i) /\ stack'[i] = stack[i] /\ snapshots'[i] = snapshots[i]
        BY Zenon, <2>3, <2>4, <3>2, <4>1, <4>2
      <4> QED BY Zenon, <4>1, <4>3 DEF IndexInv
    <3> QED BY <3>1, <3>2
  <2>8. \A i \in 1..(n - 1) : /\ stack'[i].revision = revision' - (n - 1 - i)
                              /\ stack'[i].revision >= 1
    <3>1. \A i \in 1..(n - 1) : stack'[i].revision = stack[i].revision
      BY <1>6, <2>4
    <3>2. \A i \in 1..n : stack[i].revision = revision - (n - i) /\ stack[i].revision >= 1
      BY DEF IndexInv
    <3>3. revision' = revision - 1 /\ revision \in Int /\ n \in Int
      BY <1>1, <2>1
    <3>4. \A i \in 1..(n - 1) : i \in 1..n /\ revision - 1 - (n - 1 - i) = revision - (n - i)
      BY <3>3
    <3> QED BY Zenon, <3>1, <3>2, <3>3, <3>4
  <2> QED BY Zenon, <1>2, <1>a, <2>3, <2>4, <2>6, <2>7, <2>8 DEF IndexInv
<1>8. CASE keep_alive
  <2> DEFINE st == [Emptied(stack[n]) EXCEPT !.old_next_id = next_id]
             mid == [stack EXCEPT ![n - 1] = m]
  <2>1. /\ stack' = [stack EXCEPT ![n - 1] = m, ![n] = st]
        /\ snapshots' = [snapshots EXCEPT ![n] = Now] /\ revision' = revision
    BY <1>8 DEF SquashNested, m
  <2>2. /\ st \in UndoState /\ st.revision = stack[n].revision
        /\ st.old_values = NoValues /\ st.removed_values = NoValues
        /\ st.new_ids = {} /\ st.old_next_id = next_id
    <3>1. NoValues \in IdValueMap
      BY DEF NoValues, IdValueMap
    <3>2. next_id \in 0..(MaxId + 1)
      BY DEF IndexInv, TypeOK
    <3> QED BY Zenon, <1>3, <1>4, <3>1, <3>2 DEF Emptied, UndoState
  <2> HIDE DEF st
  <2>3. /\ mid \in Seq(UndoState) /\ Len(mid) = n
        /\ \A i \in 1..n : mid[i] = IF i = n - 1 THEN m ELSE stack[i]
    BY <1>1, <1>4, <1>5, ExceptSeq
  <2>4. stack' = [mid EXCEPT ![n] = st]
    BY Zenon, <2>1
  <2> HIDE DEF mid
  <2>5. /\ stack' \in Seq(UndoState) /\ Len(stack') = n
        /\ \A i \in 1..n : stack'[i] = IF i = n THEN st ELSE mid[i]
    BY <1>4, <2>2, <2>3, <2>4, ExceptSeq
  <2>6. /\ snapshots' \in Seq(Snapshot) /\ Len(snapshots') = n
        /\ \A i \in 1..n : snapshots'[i] = IF i = n THEN Now ELSE snapshots[i]
    BY <1>1, <1>2, <1>4, <2>1, ExceptSeq
  <2>7. TypeOK'
    BY Zenon, <1>1, <2>1, <2>5, <2>6 DEF IndexInv, TypeOK
  <2>8. Layer(st, Now, Now)
    <3>1. Now.next_id = next_id /\ Now.indices = indices
      BY DEF Now
    <3> QED BY Zenon, <1>2, <2>2, <3>1, EmptyLayer DEF IndexInv, FreshIds, Sound
  <2>9. \A i \in 1..n : Layer(stack'[i], After(i)', snapshots'[i])
    <3> SUFFICES ASSUME NEW i \in 1..n
                 PROVE  Layer(stack'[i], After(i)', snapshots'[i])
      BY Zenon
    <3>1. CASE i = n
      BY Zenon, <1>2, <2>5, <2>6, <2>8, <3>1 DEF After
    <3>2. CASE i = n - 1
      <4>1. After(i)' = Now
        BY <1>1, <2>5, <2>6, <3>2 DEF After
      <4> QED BY SMTT(30), <1>1, <1>5, <2>3, <2>5, <2>6, <3>2, <4>1
    <3>3. CASE i < n - 1
      <4>1. After(i)' = After(i)
        BY <1>1, <2>5, <2>6, <3>3 DEF After
      <4>2. i # n /\ i # n - 1
        BY <1>1, <3>3
      <4>3. stack'[i] = stack[i] /\ snapshots'[i] = snapshots[i]
        BY Zenon, <2>3, <2>5, <2>6, <4>2
      <4>4. Layer(stack[i], After(i), snapshots[i])
        BY Zenon DEF IndexInv
      <4> QED BY Zenon, <4>1, <4>3, <4>4
    <3> QED BY <1>1, <3>1, <3>2, <3>3
  <2>10. \A i \in 1..n : stack'[i].revision = stack[i].revision
    BY Zenon, <1>1, <1>6, <2>2, <2>3, <2>5
  <2> QED BY Zenon, <1>2, <1>a, <2>1, <2>5, <2>6, <2>7, <2>9, <2>10 DEF IndexInv
<1> QED BY <1>7, <1>8

\* commit() drops the oldest layers and keeps the invariant.
LEMMA CommitInv ==
  ASSUME IndexInv, NEW r \in 0..MaxRevision, Commit(r)
  PROVE  IndexInv'
<1> DEFINE n == Len(stack)
<1>1. /\ stack \in Seq(UndoState) /\ snapshots \in Seq(Snapshot)
      /\ n \in Nat /\ Len(snapshots) = n
      /\ UNCHANGED <<indices, next_id, revision, unwinding, failed>>
      /\ revision \in 0..MaxRevision
  BY DEF IndexInv, TypeOK, Commit
<1>2. PICK k \in 0..n : /\ stack' = SubSeq(stack, k + 1, n)
                        /\ snapshots' = SubSeq(snapshots, k + 1, n)
  BY Zenon, <1>1 DEF Commit
<1>3. FreshIds' /\ Now' = Now
  BY <1>1 DEF IndexInv, FreshIds, Now
<1>a. Sound'
  BY <1>1, SameSound
<1>4. /\ stack' \in Seq(UndoState) /\ Len(stack') = n - k
      /\ \A i \in 1..(n - k) : stack'[i] = stack[k + i]
      /\ snapshots' \in Seq(Snapshot) /\ Len(snapshots') = n - k
      /\ \A i \in 1..(n - k) : snapshots'[i] = snapshots[k + i]
  <2>1. \A i \in (k + 1)..n : stack[i] \in UndoState /\ snapshots[i] \in Snapshot
    BY <1>1, ElementOfSeq
  <2>2. k + 1 \in Int /\ n \in Int /\ k \in Int /\ k <= n
    BY <1>1
  <2>3. /\ SubSeq(stack, k + 1, n) \in Seq(UndoState)
        /\ Len(SubSeq(stack, k + 1, n)) = IF k + 1 <= n THEN n - (k + 1) + 1 ELSE 0
        /\ \A i \in 1..(n - (k + 1) + 1) : SubSeq(stack, k + 1, n)[i] = stack[k + 1 + i - 1]
    BY <2>1, <2>2, SubSeqProperties
  <2>4. /\ SubSeq(snapshots, k + 1, n) \in Seq(Snapshot)
        /\ Len(SubSeq(snapshots, k + 1, n)) = IF k + 1 <= n THEN n - (k + 1) + 1 ELSE 0
        /\ \A i \in 1..(n - (k + 1) + 1) :
             SubSeq(snapshots, k + 1, n)[i] = snapshots[k + 1 + i - 1]
    BY <2>1, <2>2, SubSeqProperties
  <2>5. (IF k + 1 <= n THEN n - (k + 1) + 1 ELSE 0) = n - k
    BY <2>2
  <2>6. \A i \in 1..(n - k) : stack'[i] = stack[k + i] /\ snapshots'[i] = snapshots[k + i]
    <3> TAKE i \in 1..(n - k)
    <3>1. i \in 1..(n - (k + 1) + 1) /\ k + 1 + i - 1 = k + i
      BY <2>2
    <3>2. stack'[i] = stack[k + 1 + i - 1] /\ snapshots'[i] = snapshots[k + 1 + i - 1]
      BY Zenon, <1>2, <2>3, <2>4, <3>1
    <3> QED BY Zenon, <3>1, <3>2
  <2> QED BY SMTT(30), <1>2, <2>3, <2>4, <2>5, <2>6
<1>5. TypeOK'
  BY Zenon, <1>1, <1>4 DEF IndexInv, TypeOK
<1>6. \A i \in 1..(n - k) : Layer(stack'[i], After(i)', snapshots'[i])
  <2> SUFFICES ASSUME NEW i \in 1..(n - k)
               PROVE  Layer(stack'[i], After(i)', snapshots'[i])
    OBVIOUS
  <2>1. k + i \in 1..n
    BY <1>1
  <2>2. After(i)' = After(k + i)
    <3>1. CASE i = n - k
      BY <1>1, <1>3, <1>4, <3>1 DEF After
    <3>2. CASE i # n - k
      <4>1. i + 1 \in 1..(n - k) /\ k + i # n /\ k + (i + 1) = (k + i) + 1
        BY <1>1, <3>2
      <4> QED BY <1>1, <1>4, <3>2, <4>1 DEF After
    <3> QED BY <3>1, <3>2
  <2> QED BY Zenon, <1>1, <1>4, <2>1, <2>2 DEF IndexInv
<1>7. \A i \in 1..(n - k) : /\ stack'[i].revision = revision' - (n - k - i)
                            /\ stack'[i].revision >= 1
  <2> SUFFICES ASSUME NEW i \in 1..(n - k)
               PROVE  /\ stack'[i].revision = revision' - (n - k - i)
                      /\ stack'[i].revision >= 1
    OBVIOUS
  <2>1. k + i \in 1..n /\ n - (k + i) = n - k - i
    BY <1>1
  <2>2. stack[k + i].revision = revision - (n - (k + i)) /\ stack[k + i].revision >= 1
    BY Zenon, <2>1 DEF IndexInv
  <2> QED BY Zenon, <1>1, <1>4, <2>1, <2>2
<1> QED BY <1>3, <1>a, <1>4, <1>5, <1>6, <1>7 DEF IndexInv

\* Steps that leave the table and every undo state alone.
LEMMA OtherInv ==
  ASSUME IndexInv, UNCHANGED <<indices, next_id, stack, snapshots>>,
         unwinding' \in BOOLEAN, failed' = failed,
         revision' = revision \/ (~enabled /\ revision' \in 0..MaxRevision)
  PROVE  IndexInv'
<1>1. TypeOK' /\ FreshIds' /\ Sound'
  BY SameSound DEF IndexInv, TypeOK, FreshIds
<1>2. \A i : After(i)' = After(i)
  BY Zenon DEF After, Now
<1>3. \A i \in 1..Len(stack') : Layer(stack'[i], After(i)', snapshots'[i])
  BY Zenon, <1>2 DEF IndexInv
<1>4. CASE revision' = revision
  BY ZenonT(40), <1>1, <1>3, <1>4 DEF IndexInv
<1>5. CASE ~enabled
  <2>1. Len(stack') = 0
    BY Zenon, <1>5 DEF enabled
  <2> QED BY <1>1, <1>3, <2>1 DEF IndexInv
<1> QED BY <1>4, <1>5

\* Every step of the table keeps the invariant.
LEMMA NextInv == IndexInv /\ [Next]_vars => IndexInv'
<1> SUFFICES ASSUME IndexInv, [Next]_vars PROVE IndexInv'
  OBVIOUS
<1>1. CASE \E v \in Values : Emplace(v)
  BY <1>1, EmplaceInv
<1>2. CASE \E id \in Ids, v \in Values : Modify(id, v)
  BY <1>2, ModifyInv
<1>3. CASE \E id \in Ids : RemoveObject(id)
  BY <1>3, RemoveInv
<1>4. CASE StartUndoSession
  BY <1>4, StartInv
<1>5. CASE \E keep_alive \in BOOLEAN : Undo(keep_alive)
  BY <1>5, UndoInv
<1>6. CASE \E keep_alive \in BOOLEAN : SquashOnly(keep_alive)
  BY <1>6, SquashOnlyInv
<1>7. CASE \E keep_alive \in BOOLEAN : SquashNested(keep_alive)
  BY <1>7, SquashNestedInv
<1>8. CASE \E r \in 0..MaxRevision : Commit(r)
  BY <1>8, CommitInv
<1>9. CASE UndoAll \/ UndoAllDone
  <2>1. unwinding' \in BOOLEAN
    BY Zenon, <1>9 DEF UndoAll, UndoAllDone
  <2> QED BY <1>9, <2>1, OtherInv DEF UndoAll, UndoAllDone
<1>10. CASE \E r \in 0..MaxRevision : SetRevision(r)
  <2>1. unwinding' \in BOOLEAN
    BY <1>10 DEF SetRevision, IndexInv, TypeOK
  <2> QED BY <1>10, <2>1, OtherInv DEF SetRevision
<1>11. CASE UNCHANGED vars
  <2>1. unwinding' \in BOOLEAN
    BY <1>11 DEF vars, IndexInv, TypeOK
  <2> QED BY <1>11, <2>1, OtherInv DEF vars
<1> QED
  BY Zenon, <1>1, <1>2, <1>3, <1>4, <1>5, <1>6, <1>7, <1>8, <1>9, <1>10, <1>11 DEF Next

--------------------
(* Theorems *)

\* The invariant holds in every state that the operations of generic_index
\* reach: each open session is one layer over the table it was started on.
THEOREM IndexInvariant == Spec => []IndexInv
BY InitInv, NextInv, PTL DEF Spec

\* Type correctness of the table, its undo stack and its snapshots.
THEOREM TypeCorrect == Spec => []TypeOK
<1>1. IndexInv => TypeOK
  BY DEF IndexInv
<1> QED BY <1>1, IndexInvariant, PTL

\* For tables of any size and sessions nested to any depth, the undo state of
\* every open session leads back to the table its session was started on.
THEOREM UndoRestores == Spec => []UndoRestoresSnapshot
<1>1. IndexInv => UndoRestoresSnapshot
  BY Zenon DEF IndexInv, UndoRestoresSnapshot, Layer
<1> QED BY <1>1, IndexInvariant, PTL

\* The revisions of the open sessions are consecutive and end in the table's.
THEOREM Revisions == Spec => []RevisionsConsecutive
<1>1. IndexInv => RevisionsConsecutive
  BY DEF IndexInv, RevisionsConsecutive
<1> QED BY <1>1, IndexInvariant, PTL

\* undo() never throws half way, for tables of any size, sessions nested to any
\* depth and any choice of keys, as long as no modifier changes the unique key
\* of an object: no write of its three loops meets a key in use.
THEOREM UndoSucceeds ==
  ASSUME KeysImmutable
  PROVE  Spec => []UndoNeverThrows
<1>1. IndexInv => UndoNeverThrows
  BY DEF IndexInv, Sound, UndoNeverThrows
<1> QED BY <1>1, IndexInvariant, PTL

====
