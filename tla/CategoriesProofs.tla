--------------------------- MODULE CategoriesProofs ---------------------------
(* Proofs about Categories, for any names, calls and number of failures.    *)
EXTENDS Categories, SequenceTheorems, TLAPS

-----------------------------------------------------------------------------
(* What the steps do to the table.                                         *)

LEMMA Table ==
    ASSUME TypeOK
    PROVE  /\ categories \in Seq(Rows) /\ Len(categories) \in Nat
           /\ DOMAIN categories = 1..Len(categories)
           /\ 0 \notin DOMAIN categories /\ DOMAIN categories \subseteq Nat
           /\ \A k \in DOMAIN categories :
                  /\ categories[k] \in Rows
                  /\ categories[k].parent_id \in {0} \cup DOMAIN categories
BY LenProperties DEF TypeOK

\* The rows that are there stay, and what is deleted stays as it is.
Kept ==
    /\ DOMAIN categories \subseteq DOMAIN categories'
    /\ \A k \in DOMAIN categories :
           categories[k].deleted => categories'[k] = categories[k]

\* The table is one after the step, too.
TableOK ==
    /\ categories \in Seq(Rows)
    /\ \A k \in DOMAIN categories :
           categories[k].parent_id \in {0} \cup DOMAIN categories

LEMMA RowReplaced ==
    ASSUME TypeOK, NEW k \in DOMAIN categories, NEW new \in Rows,
           new.parent_id \in {0} \cup DOMAIN categories,
           categories' = [categories EXCEPT ![k] = new]
    PROVE  /\ TableOK'
           /\ DOMAIN categories' = DOMAIN categories
           /\ categories'[k] = new
           /\ \A j \in DOMAIN categories : j # k => categories'[j] = categories[j]
<1>1. /\ DOMAIN categories' = DOMAIN categories
      /\ categories'[k] = new
      /\ \A j \in DOMAIN categories : j # k => categories'[j] = categories[j]
  BY Table
<1>2. categories' \in [1..Len(categories) -> Rows]
  BY Table, <1>1
<1>3. categories' \in Seq(Rows)
  BY Table, <1>2, IsASeq
<1> QED BY Table, <1>1, <1>3 DEF TableOK

LEMMA RowAdded ==
    ASSUME TypeOK, NEW new \in Rows,
           new.parent_id \in {0} \cup DOMAIN categories,
           categories' = Append(categories, new)
    PROVE  /\ TableOK' /\ Kept
           /\ DOMAIN categories' = DOMAIN categories \cup {Len(categories) + 1}
           /\ Len(categories) + 1 \notin {0} \cup DOMAIN categories
           /\ categories'[Len(categories) + 1] = new
           /\ \A j \in DOMAIN categories : categories'[j] = categories[j]
<1>1. /\ categories' \in Seq(Rows)
      /\ Len(categories') = Len(categories) + 1
      /\ \A i \in 1..Len(categories) : categories'[i] = categories[i]
      /\ categories'[Len(categories) + 1] = new
  BY Table, AppendProperties
<1>2. DOMAIN categories' = 1..(Len(categories) + 1)
  BY <1>1, LenProperties
<1>3. /\ DOMAIN categories' = DOMAIN categories \cup {Len(categories) + 1}
      /\ Len(categories) + 1 \notin {0} \cup DOMAIN categories
  BY Table, <1>2
<1>4. \A j \in DOMAIN categories : categories'[j] = categories[j]
  BY Table, <1>1
<1>5. TableOK'
  <2> SUFFICES ASSUME NEW j \in DOMAIN categories'
               PROVE  categories'[j].parent_id \in {0} \cup DOMAIN categories'
    BY <1>1 DEF TableOK
  <2>1. CASE j = Len(categories) + 1
    BY <1>1, <1>3, <2>1
  <2>2. CASE j \in DOMAIN categories
    BY Table, <1>3, <1>4, <2>2
  <2> QED BY <1>3, <2>1, <2>2
<1> QED BY <1>1, <1>3, <1>4, <1>5 DEF Kept

\* Only the actor's own place and category change.
LEMMA GotoMoves ==
    ASSUME TypeOK, NEW p \in Calls, NEW k \in {0} \cup DOMAIN categories,
           NEW point \in {"idle", "update", "countPets", "delete", "done"},
           Goto(p, point, k)
    PROVE  /\ pc' \in [Calls -> {"idle", "update", "countPets", "delete", "done"}]
           /\ id' \in [Calls -> {0} \cup DOMAIN categories]
           /\ pc'[p] = point /\ id'[p] = k
           /\ \A q \in Calls : q # p => pc'[q] = pc[q] /\ id'[q] = id[q]
BY DEF Goto, TypeOK

LEMMA FailureTyped ==
    ASSUME TypeOK, UNCHANGED failures \/ Failure
    PROVE  /\ failures' \in 0..MaxFailures
           /\ failures' = 0 => failures = 0 /\ UNCHANGED failures
           /\ Failure => failures' # 0
BY CategoriesAssumption DEF TypeOK, Failure

LEMMA ParentsExist ==
    ASSUME TypeOK
    PROVE  /\ Parents \subseteq {0} \cup DOMAIN categories
           /\ Parents \subseteq Nat
           /\ serial => \A k \in Parents : k \in DOMAIN categories =>
                            ~categories[k].deleted
BY Table DEF Parents, Live

-----------------------------------------------------------------------------
(* The steps.                                                              *)

Inv == TypeOK /\ CallInv /\ NoOrphans

LEMMA StepCreate ==
    ASSUME Inv, NEW name \in Names, NEW parent \in Parents, Create(name, parent)
    PROVE  Inv' /\ Kept
<1> DEFINE new == [name |-> name, parent_id |-> parent, deleted |-> FALSE]
<1> USE DEF Inv
<1>1. /\ categories' = Append(categories, new)
      /\ UNCHANGED <<pets, pc, id, failures, serial>>
      /\ Alone
  BY DEF Create
<1>2. new \in Rows /\ new.parent_id \in {0} \cup DOMAIN categories /\ ~new.deleted
  BY ParentsExist DEF Rows
<1> HIDE DEF new
<1>3. /\ TableOK' /\ Kept
      /\ DOMAIN categories' = DOMAIN categories \cup {Len(categories) + 1}
      /\ Len(categories) + 1 \notin {0} \cup DOMAIN categories
      /\ categories'[Len(categories) + 1] = new
      /\ \A j \in DOMAIN categories : categories'[j] = categories[j]
  BY <1>1, <1>2, RowAdded
<1>4. TypeOK'
  BY <1>1, <1>3 DEF TypeOK, TableOK
<1>5. CallInv'
  <2>1. serial => \A p \in Calls : pc[p] \in {"idle", "done"}
    BY <1>1 DEF Alone, Quiet
  <2>2. \A p \in Calls : pc'[p] \notin {"idle", "done"} => id'[p] \in DOMAIN categories'
    BY <1>1, <1>3 DEF CallInv
  <2> QED BY <1>1, <2>1, <2>2 DEF CallInv, Calls
<1>6. NoOrphans'
  <2> SUFFICES ASSUME serial, failures = 0, NEW k \in DOMAIN categories',
                      categories'[k].deleted
               PROVE  ChildrenOf(k)' = {} /\ k \notin pets'
    BY <1>1 DEF NoOrphans
  <2>1. k \in DOMAIN categories /\ categories[k].deleted
    BY <1>2, <1>3
  <2>2. ChildrenOf(k) = {} /\ k \notin pets
    BY <2>1 DEF NoOrphans
  <2>3. new.parent_id # k
    BY <2>1, Table, ParentsExist DEF new
  <2>4. ASSUME NEW c \in DOMAIN categories', ~categories'[c].deleted,
               categories'[c].parent_id = k
        PROVE  FALSE
    <3>1. c \in DOMAIN categories
      BY <1>3, <2>3, <2>4
    <3>2. categories'[c] = categories[c]
      BY <1>3, <3>1
    <3> QED BY <2>2, <2>4, <3>1, <3>2 DEF ChildrenOf, Live
  <2> QED BY <1>1, <2>2, <2>4 DEF ChildrenOf, Live
<1> QED BY <1>3, <1>4, <1>5, <1>6

\* A call that reads, or fails, leaves the table alone and may go on.
LEMMA StepRead ==
    ASSUME Inv, NEW p \in Calls, NEW k \in {0} \cup DOMAIN categories,
           NEW point \in {"idle", "update", "countPets", "delete", "done"},
           Goto(p, point, k),
           UNCHANGED <<categories, pets, serial>>,
           UNCHANGED failures \/ Failure,
           point # "done" => k \in DOMAIN categories,
           serial => \A q \in Calls : q = p \/ pc[q] \in {"idle", "done"},
           serial /\ failures' = 0 =>
               /\ point \in {"countPets", "delete"} => ChildrenOf(k) = {}
               /\ point = "delete" => k \notin pets
    PROVE  Inv' /\ Kept
<1> USE DEF Inv
<1>1. /\ pc' \in [Calls -> {"idle", "update", "countPets", "delete", "done"}]
      /\ id' \in [Calls -> {0} \cup DOMAIN categories]
      /\ pc'[p] = point /\ id'[p] = k
      /\ \A q \in Calls : q # p => pc'[q] = pc[q] /\ id'[q] = id[q]
  BY GotoMoves
<1>2. /\ failures' \in 0..MaxFailures
      /\ failures' = 0 => failures = 0 /\ UNCHANGED failures
  BY FailureTyped
<1>3. TypeOK'
  BY <1>1, <1>2 DEF TypeOK
<1>4. \A j : ChildrenOf(j)' = ChildrenOf(j)
  BY DEF ChildrenOf, Live
<1>5. CallInv'
  <2>1. \A q \in Calls : pc'[q] \notin {"idle", "done"} => id'[q] \in DOMAIN categories'
    BY <1>1 DEF CallInv
  <2>2. serial' => \A q, r \in Calls : q = r \/ pc'[q] \in {"idle", "done"}
                                             \/ pc'[r] \in {"idle", "done"}
    BY <1>1
  <2>3. ASSUME serial', failures' = 0, NEW q \in Deletes
        PROVE  /\ (pc[q] \in {"countPets", "delete"} => ChildrenOf(id[q]) = {})'
               /\ (pc[q] = "delete" => id[q] \notin pets)'
    <3>1. q \in Calls
      BY DEF Calls
    <3>2. ChildrenOf(id[q])' = ChildrenOf(id'[q])
      BY DEF ChildrenOf, Live
    <3>3. CASE q = p
      BY <1>1, <2>3, <3>2, <3>3
    <3>4. CASE q # p
      BY <1>1, <2>3, <3>1, <3>2, <3>4
    <3> QED BY <3>3, <3>4
  <2> QED BY <2>1, <2>2, <2>3 DEF CallInv
<1>6. NoOrphans'
  BY <1>2, <1>4 DEF NoOrphans
<1> QED BY <1>3, <1>5, <1>6 DEF Kept

\* What a call at work may rely on: its category exists and nobody else of
\* one administrator is at work.
LEMMA AtWork ==
    ASSUME Inv, NEW p \in Calls, pc[p] \notin {"idle", "done"}
    PROVE  /\ id[p] \in DOMAIN categories
           /\ serial => \A q \in Calls : q = p \/ pc[q] \in {"idle", "done"}
BY DEF Inv, CallInv

LEMMA QuietIsAlone ==
    ASSUME Alone
    PROVE  serial => \A q \in Calls : pc[q] \in {"idle", "done"}
BY DEF Alone, Quiet

LEMMA StepReadForUpdate ==
    ASSUME Inv, NEW p \in Updates, ReadForUpdate(p)
    PROVE  Inv' /\ Kept
<1>1. p \in Calls /\ Alone
  BY DEF Calls, ReadForUpdate
<1>2. PICK k \in Live : Goto(p, "update", k)
  BY DEF ReadForUpdate
<1>3. k \in DOMAIN categories /\ UNCHANGED <<categories, pets, failures, serial>>
  BY <1>2 DEF Live, ReadForUpdate
<1> QED BY <1>1, <1>2, <1>3, QuietIsAlone, StepRead

LEMMA StepCountChildren ==
    ASSUME Inv, NEW p \in Deletes, CountChildren(p)
    PROVE  Inv' /\ Kept
<1>1. /\ p \in Calls
      /\ Alone /\ UNCHANGED <<categories, pets, serial>>
  BY DEF Calls, CountChildren
<1>2. PICK k \in DOMAIN categories :
           \/ CountedChildren(k) = {} /\ Goto(p, "countPets", k) /\ UNCHANGED failures
           \/ CountedChildren(k) # {} /\ Goto(p, "done", k) /\ UNCHANGED failures
           \/ Failure /\ Goto(p, "countPets", k)
  BY DEF CountChildren
<1>3. serial => \A q \in Calls : q = p \/ pc[q] \in {"idle", "done"}
  BY <1>1, QuietIsAlone
<1>4. CASE ChildrenOf(k) = {} /\ Goto(p, "countPets", k) /\ UNCHANGED failures
  BY <1>1, <1>3, <1>4, StepRead
<1>5. CASE Goto(p, "done", k) /\ UNCHANGED failures
  BY <1>1, <1>3, <1>5, StepRead
<1>6. CASE Failure /\ Goto(p, "countPets", k)
  BY <1>1, <1>3, <1>6, FailureTyped, StepRead DEF Inv
<1> QED BY <1>2, <1>4, <1>5, <1>6 DEF CountedChildren

LEMMA StepCountPets ==
    ASSUME Inv, NEW p \in Deletes, CountPets(p)
    PROVE  Inv' /\ Kept
<1>1. p \in Calls /\ pc[p] = "countPets" /\ UNCHANGED <<categories, pets, serial>>
  BY DEF Calls, CountPets
<1>2. /\ id[p] \in DOMAIN categories
      /\ serial => \A q \in Calls : q = p \/ pc[q] \in {"idle", "done"}
  BY <1>1, AtWork
<1>3. serial /\ failures = 0 => ChildrenOf(id[p]) = {}
  BY <1>1 DEF Inv, CallInv
<1>4. CASE id[p] \notin pets /\ Goto(p, "delete", id[p]) /\ UNCHANGED failures
  BY <1>1, <1>2, <1>3, <1>4, StepRead
<1>5. CASE Goto(p, "done", id[p]) /\ UNCHANGED failures
  BY <1>1, <1>2, <1>5, StepRead
<1>6. CASE Failure /\ Goto(p, "delete", id[p])
  BY <1>1, <1>2, <1>6, FailureTyped, StepRead DEF Inv
<1> QED BY <1>4, <1>5, <1>6 DEF CountPets

\* A call that ends with a change of one row that was live, or with none.
LEMMA StepWrite ==
    ASSUME Inv, NEW p \in Calls, NEW new \in Rows,
           pc[p] \notin {"idle", "done"},
           Goto(p, "done", id[p]),
           UNCHANGED <<pets, serial>>,
           UNCHANGED failures \/ Failure,
           new.parent_id \in {0} \cup DOMAIN categories,
           categories' = [categories EXCEPT ![id[p]] = new],
           categories[id[p]].deleted => new = categories[id[p]],
           serial /\ failures' = 0 =>
               /\ new.deleted => ChildrenOf(id[p]) = {} /\ id[p] \notin pets
               /\ ~new.deleted =>
                      \/ new.parent_id \in {0} \cup Live
                      \/ new.parent_id = categories[id[p]].parent_id
    PROVE  Inv' /\ Kept
<1> USE DEF Inv
<1> DEFINE k == id[p]
<1>1. /\ k \in DOMAIN categories
      /\ serial => \A q \in Calls : q = p \/ pc[q] \in {"idle", "done"}
  BY AtWork
<1>2. /\ TableOK'
      /\ DOMAIN categories' = DOMAIN categories
      /\ categories'[k] = new
      /\ \A j \in DOMAIN categories : j # k => categories'[j] = categories[j]
  BY <1>1, RowReplaced
<1>3. Kept
  BY <1>2 DEF Kept
<1>4. /\ pc' \in [Calls -> {"idle", "update", "countPets", "delete", "done"}]
      /\ id' \in [Calls -> {0} \cup DOMAIN categories]
      /\ pc'[p] = "done" /\ id'[p] = k
      /\ \A q \in Calls : q # p => pc'[q] = pc[q] /\ id'[q] = id[q]
  BY <1>1, GotoMoves
<1>5. /\ failures' \in 0..MaxFailures
      /\ failures' = 0 => failures = 0
  BY FailureTyped
<1> HIDE DEF k
<1>6. TypeOK'
  BY <1>2, <1>4, <1>5 DEF TypeOK, TableOK
<1>7. serial => \A q \in Calls : pc'[q] \in {"idle", "done"}
  BY <1>1, <1>4
<1>8. CallInv'
  <2>1. \A q \in Calls : pc'[q] \notin {"idle", "done"} => id'[q] \in DOMAIN categories'
    BY <1>2, <1>4 DEF CallInv
  <2> QED BY <1>7, <2>1 DEF CallInv, Calls
<1>9. NoOrphans'
  <2> SUFFICES ASSUME serial, failures' = 0, NEW j \in DOMAIN categories',
                      categories'[j].deleted
               PROVE  ChildrenOf(j)' = {} /\ j \notin pets'
    BY DEF NoOrphans
  <2>1. ChildrenOf(j) = {} /\ j \notin pets
    <3>1. CASE j = k
      BY <1>2, <3>1 DEF k
    <3>2. CASE j # k
      BY <1>2, <1>5, <3>2 DEF NoOrphans
    <3> QED BY <3>1, <3>2
  <2>2. ASSUME NEW c \in DOMAIN categories', ~categories'[c].deleted,
               categories'[c].parent_id = j
        PROVE  FALSE
    <3>1. CASE c # k
      BY <1>2, <2>1, <2>2, <3>1 DEF ChildrenOf, Live
    <3>2. CASE c = k
      <4>1. ~new.deleted /\ new.parent_id = j
        BY <1>2, <2>2, <3>2
      <4>2. ~categories[k].deleted
        BY <4>1 DEF k
      <4>3. CASE new.parent_id = categories[k].parent_id
        BY <1>1, <2>1, <4>1, <4>2, <4>3 DEF ChildrenOf, Live
      <4>4. CASE j \in {0} \cup Live
        <5>1. j \in DOMAIN categories /\ ~categories[j].deleted
          BY <1>2, <4>4, Table DEF Live
        <5> QED BY <1>2, <4>1, <5>1
      <4> QED BY <4>1, <4>3, <4>4 DEF k
    <3> QED BY <3>1, <3>2
  <2> QED BY <2>1, <2>2 DEF ChildrenOf, Live
<1> QED BY <1>3, <1>6, <1>8, <1>9

LEMMA StepUpdate ==
    ASSUME Inv, NEW p \in Updates, Update(p)
    PROVE  Inv' /\ Kept
<1> DEFINE k == id[p]
<1>1. /\ p \in Calls /\ pc[p] \notin {"idle", "done"}
      /\ Goto(p, "done", k) /\ UNCHANGED <<pets, serial>>
  BY DEF Calls, Update
<1>2. /\ k \in DOMAIN categories /\ TypeOK
      /\ serial => \A q \in Calls : q = p \/ pc[q] \in {"idle", "done"}
  BY <1>1, AtWork DEF Inv
<1>3. UNCHANGED failures \/ Failure
  BY Zenon DEF Update
<1>4. CASE UNCHANGED categories
  BY <1>1, <1>2, <1>3, <1>4, StepRead
<1>5. CASE ~UNCHANGED categories
  <2>1. PICK name \in Names, parent \in Parents : UpdateRow(k, name, parent)
    BY <1>5 DEF Update
  <2> DEFINE new == [categories[k] EXCEPT !.name = name, !.parent_id = parent]
  <2>2. ~categories[k].deleted
    BY <1>5, <2>1 DEF UpdateRow
  <2>3. new \in Rows /\ new.parent_id = parent /\ ~new.deleted
    <3>1. categories[k] \in Rows /\ parent \in Nat
      BY <1>2, Table, ParentsExist
    <3> QED BY <2>2, <3>1 DEF Rows
  <2>4. categories' = [categories EXCEPT ![k] = new]
    BY <1>2, <2>1, <2>2, Table DEF UpdateRow, Rows
  <2>5. parent \in {0} \cup DOMAIN categories /\ (serial => parent \in {0} \cup Live)
    BY <1>2, ParentsExist DEF Parents
  <2> HIDE DEF new
  <2> QED BY <1>1, <1>3, <2>2, <2>3, <2>4, <2>5, StepWrite
<1> QED BY <1>4, <1>5

LEMMA StepDelete ==
    ASSUME Inv, NEW p \in Deletes, Delete(p)
    PROVE  Inv' /\ Kept
<1> DEFINE k == id[p]
<1>1. /\ p \in Calls /\ pc[p] = "delete"
      /\ Goto(p, "done", k) /\ UNCHANGED <<pets, serial>>
  BY DEF Calls, Delete
<1>2. /\ k \in DOMAIN categories /\ TypeOK
      /\ serial => \A q \in Calls : q = p \/ pc[q] \in {"idle", "done"}
  BY <1>1, AtWork DEF Inv
<1>3. CASE Failure /\ UNCHANGED categories
  BY <1>1, <1>2, <1>3, StepRead
<1>4. CASE /\ categories' = [categories EXCEPT ![k].deleted = TRUE]
           /\ UNCHANGED failures
  <2> DEFINE new == [categories[k] EXCEPT !.deleted = TRUE]
  <2>1. /\ new \in Rows /\ new.deleted
        /\ new.parent_id \in {0} \cup DOMAIN categories
        /\ categories[k].deleted => new = categories[k]
    <3>1. /\ categories[k] \in Rows
          /\ categories[k].parent_id \in {0} \cup DOMAIN categories
      BY <1>2, Table
    <3>2. new \in Rows /\ new.deleted /\ new.parent_id = categories[k].parent_id
      BY <3>1 DEF Rows
    <3>3. categories[k].deleted => new = categories[k]
      BY <3>1 DEF Rows
    <3> QED BY <3>1, <3>2, <3>3
  <2>2. categories' = [categories EXCEPT ![k] = new]
    BY <1>4
  <2>3. serial /\ failures = 0 => ChildrenOf(k) = {} /\ k \notin pets
    BY <1>1 DEF Inv, CallInv
  <2> HIDE DEF new
  <2> QED BY <1>1, <1>4, <2>1, <2>2, <2>3, StepWrite
<1> QED BY <1>3, <1>4 DEF Delete

LEMMA StepAddPet ==
    ASSUME Inv, NEW k \in Live, AddPet(k)
    PROVE  Inv' /\ Kept
<1> USE DEF Inv
<1>1. /\ pets' = pets \cup {k} /\ Alone
      /\ UNCHANGED <<categories, pc, id, failures, serial>>
  BY DEF AddPet
<1>2. k \in DOMAIN categories /\ ~categories[k].deleted
  BY DEF Live
<1>3. \A j : ChildrenOf(j)' = ChildrenOf(j)
  BY <1>1 DEF ChildrenOf, Live
<1>4. TypeOK'
  BY <1>1, <1>2 DEF TypeOK
<1>5. CallInv'
  <2>1. serial => \A p \in Calls : pc[p] \in {"idle", "done"}
    BY <1>1, QuietIsAlone
  <2> QED BY <1>1, <2>1 DEF CallInv, Calls
<1>6. NoOrphans'
  BY <1>1, <1>2, <1>3 DEF NoOrphans
<1> QED BY <1>1, <1>4, <1>5, <1>6 DEF Kept

-----------------------------------------------------------------------------
LEMMA InvInit == Init => Inv
<1> SUFFICES ASSUME Init PROVE Inv
  OBVIOUS
<1>1. categories \in Seq(Rows) /\ DOMAIN categories = {}
  BY EmptySeq DEF Init
<1> QED BY <1>1, CategoriesAssumption
    DEF Init, Inv, TypeOK, CallInv, NoOrphans, Calls

LEMMA InvNext == Inv /\ [Next]_vars => Inv' /\ Kept
<1> SUFFICES ASSUME Inv, [Next]_vars PROVE Inv' /\ Kept
  OBVIOUS
<1>1. CASE UNCHANGED vars
  <2>1. \A k : ChildrenOf(k)' = ChildrenOf(k)
    BY <1>1 DEF vars, ChildrenOf, Live
  <2> QED BY <1>1, <2>1 DEF vars, Inv, TypeOK, CallInv, NoOrphans, Kept, ChildrenOf, Live
<1>2. CASE \E name \in Names, parent \in Parents : Create(name, parent)
  BY <1>2, StepCreate
<1>3. CASE \E p \in Updates : ReadForUpdate(p) \/ Update(p)
  BY <1>3, StepReadForUpdate, StepUpdate
<1>4. CASE \E p \in Deletes : CountChildren(p) \/ CountPets(p) \/ Delete(p)
  BY <1>4, StepCountChildren, StepCountPets, StepDelete
<1>5. CASE \E k \in Live : AddPet(k)
  BY <1>5, StepAddPet
<1> QED BY <1>1, <1>2, <1>3, <1>4, <1>5 DEF Next

\* The table stays a table: every parent_id is a category or none.
THEOREM CategoriesTyped == Spec => []TypeOK
<1>1. Inv => TypeOK
  BY DEF Inv
<1> QED BY <1>1, InvInit, InvNext, PTL DEF Spec

\* Calls made one at a time, with statements that do not fail, leave no live
\* category and no pet below a deleted category (category_handler.go:211-229),
\* for any number of categories, calls and moves in the tree.
THEOREM DeletionsLeaveNoOrphans == Spec => []NoOrphans
<1>1. Inv => NoOrphans
  BY DEF Inv
<1> QED BY <1>1, InvInit, InvNext, PTL DEF Spec

\* A deleted category is never altered or brought back, not even by an update
\* that read it before (category_handler.go:186), however calls interleave and
\* whichever statements fail.
THEOREM DeletedStaysDeleted == Spec => DeletedIsFinal
<1>1. Inv /\ [Next]_vars =>
          [\A k \in DOMAIN categories :
               categories[k].deleted => categories'[k] = categories[k]]_vars
  BY InvNext DEF Kept
<1> QED BY <1>1, InvInit, InvNext, PTL DEF Spec, DeletedIsFinal
=============================================================================
