------------------------------ MODULE Categories ------------------------------
(***************************************************************************)
(* handlers/category_handler.go: the tree of pet categories.               *)
(*                                                                         *)
(* Update reads a category and updates it, delete counts children and pets *)
(* and deletes, each statement on its own, without a transaction.  Deleted *)
(* rows stay in the table (models/products.go: DeletedAt), where the       *)
(* unique index on name and the foreign key on parent_id still see them,   *)
(* so the table is a sequence indexed by the primary key.                  *)
(***************************************************************************)
EXTENDS Naturals, Sequences

CONSTANTS
    Names,          \* category names
    Updates,        \* calls of UpdateCategory
    Deletes,        \* calls of DeleteCategory
    MaxFailures     \* bound: failing statements

ASSUME CategoriesAssumption ==
    /\ Updates \cap Deletes = {}
    /\ MaxFailures \in Nat

VARIABLES
    categories, \* table pet_categories; parent_id 0 is NULL
    pets,       \* the categories that have a pet
    pc,         \* where each update or delete is
    id,         \* the category it is about
    failures,
    serial      \* never changes: the administrator makes one call at a time,
                \* and picks parents from the list of live categories

vars == <<categories, pets, pc, id, failures, serial>>

Calls == Updates \cup Deletes
Rows  == [name : Names, parent_id : Nat, deleted : BOOLEAN]

TypeOK ==
    /\ categories \in Seq(Rows)
    /\ \A k \in DOMAIN categories :
           categories[k].parent_id \in {0} \cup DOMAIN categories
    /\ pets \subseteq DOMAIN categories
    /\ pc \in [Calls -> {"idle", "update", "countPets", "delete", "done"}]
    /\ id \in [Calls -> {0} \cup DOMAIN categories]
    /\ failures \in 0..MaxFailures
    /\ serial \in BOOLEAN

Init ==
    /\ categories = <<>> /\ pets = {} /\ failures = 0
    /\ serial \in BOOLEAN
    /\ pc = [p \in Calls |-> "idle"]
    /\ id = [p \in Calls |-> 0]

Live == {k \in DOMAIN categories : ~categories[k].deleted}

\* Slip: parent_id has no foreign key.
AnyParents == 0..(Len(categories) + 1)

\* The values of parent_id that the foreign key accepts.
Parents == IF serial THEN {0} \cup Live ELSE {0} \cup DOMAIN categories

Quiet == \A p \in Calls : pc[p] \in {"idle", "done"}
Alone == serial => Quiet

NameTaken(name, others) == \E k \in others : categories[k].name = name

Goto(p, point, k) ==
    /\ pc' = [pc EXCEPT ![p] = point]
    /\ id' = [id EXCEPT ![p] = k]

Failure == failures < MaxFailures /\ failures' = failures + 1

-----------------------------------------------------------------------------
(* CreateCategory: one INSERT, nothing if the name is taken.               *)

Create(name, parent) ==
    /\ Alone
    /\ ~NameTaken(name, DOMAIN categories)
    /\ categories' = Append(categories, [name |-> name, parent_id |-> parent,
                                         deleted |-> FALSE])
    /\ UNCHANGED <<pets, pc, id, failures, serial>>

-----------------------------------------------------------------------------
(* UpdateCategory.                                                         *)

\* First(&category, id) finds live categories only.
ReadForUpdate(p) ==
    /\ pc[p] = "idle"
    /\ Alone
    /\ \E k \in Live : Goto(p, "update", k)
    /\ UNCHANGED <<categories, pets, failures, serial>>

\* Slip: the row that was read is saved as a whole.
SaveRow(k, name, parent) ==
    categories' = [categories EXCEPT ![k] = [name |-> name, parent_id |-> parent,
                                             deleted |-> FALSE]]

\* UPDATE ... WHERE id = ? AND deleted_at IS NULL, of the columns in the map:
\* a category deleted meanwhile is left alone, and the call succeeds.
UpdateRow(k, name, parent) ==
    categories' = IF categories[k].deleted THEN categories
                  ELSE [categories EXCEPT ![k].name = name, ![k].parent_id = parent]

\* An absent name or parent_id is not updated, so parent_id never becomes
\* NULL again.  Any existing category is accepted as a parent, the category
\* itself and its descendants included.
Update(p) ==
    LET k == id[p] IN
    /\ pc[p] = "update"
    /\ \/ \E name \in Names, parent \in Parents :
              /\ ~NameTaken(name, DOMAIN categories \ {k})
              /\ parent = 0 => categories[k].parent_id = 0
              /\ UpdateRow(k, name, parent)
              /\ UNCHANGED failures
       \/ Failure /\ UNCHANGED categories
    /\ Goto(p, "done", k)
    /\ UNCHANGED <<pets, serial>>

-----------------------------------------------------------------------------
(* DeleteCategory.                                                         *)

ChildrenOf(k) == {c \in Live : categories[c].parent_id = k}

\* Slip: a category is not asked for its children.
NoChildren(k) == {}

\* The children that Count sees.
CountedChildren(k) == ChildrenOf(k)

\* The first count; its error is ignored and reads as 0.
CountChildren(p) ==
    /\ pc[p] = "idle"
    /\ Alone
    /\ \E k \in DOMAIN categories :
           \/ CountedChildren(k) = {} /\ Goto(p, "countPets", k) /\ UNCHANGED failures
           \/ CountedChildren(k) # {} /\ Goto(p, "done", k) /\ UNCHANGED failures
           \/ Failure /\ Goto(p, "countPets", k)
    /\ UNCHANGED <<categories, pets, serial>>

\* The second count, of pets; its error is ignored too.
CountPets(p) ==
    /\ pc[p] = "countPets"
    /\ \/ id[p] \notin pets /\ Goto(p, "delete", id[p]) /\ UNCHANGED failures
       \/ id[p] \in pets /\ Goto(p, "done", id[p]) /\ UNCHANGED failures
       \/ Failure /\ Goto(p, "delete", id[p])
    /\ UNCHANGED <<categories, pets, serial>>

\* The soft delete.
Delete(p) ==
    /\ pc[p] = "delete"
    /\ \/ /\ categories' = [categories EXCEPT ![id[p]].deleted = TRUE]
          /\ UNCHANGED failures
       \/ Failure /\ UNCHANGED categories
    /\ Goto(p, "done", id[p])
    /\ UNCHANGED <<pets, serial>>

-----------------------------------------------------------------------------
\* A merchant puts a pet in a category it sees (no code of this repository).
AddPet(k) ==
    /\ Alone
    /\ pets' = pets \cup {k}
    /\ UNCHANGED <<categories, pc, id, failures, serial>>

Next ==
    \/ \E name \in Names, parent \in Parents : Create(name, parent)
    \/ \E p \in Updates : ReadForUpdate(p) \/ Update(p)
    \/ \E p \in Deletes : CountChildren(p) \/ CountPets(p) \/ Delete(p)
    \/ \E k \in Live : AddPet(k)

Spec == Init /\ [][Next]_vars

-----------------------------------------------------------------------------
(* Properties.                                                             *)

\* A deleted category stays as it was when it was deleted, even if an update
\* (line 186) had read it before: it does not come back.
DeletedIsFinal ==
    [][\A k \in DOMAIN categories :
           categories[k].deleted => categories'[k] = categories[k]]_vars

\* No live category is below a deleted one, and no pet is in one: the checks
\* of DeleteCategory (lines 211-229) still hold when the row is deleted, if
\* calls come one at a time and no statement fails, whatever was renamed,
\* moved and deleted before.
NoOrphans ==
    serial /\ failures = 0 =>
        \A k \in DOMAIN categories :
            categories[k].deleted => ChildrenOf(k) = {} /\ k \notin pets

(* Inductive strengthening, for the proofs of CategoriesProofs.            *)

\* A call at work has a category; one administrator has at most one call at
\* work, and what a deletion has counted is still so.
CallInv ==
    /\ \A p \in Calls : pc[p] \notin {"idle", "done"} => id[p] \in DOMAIN categories
    /\ serial => \A p, q \in Calls : p = q \/ pc[p] \in {"idle", "done"}
                                           \/ pc[q] \in {"idle", "done"}
    /\ serial /\ failures = 0 => \A p \in Deletes :
           /\ pc[p] \in {"countPets", "delete"} => ChildrenOf(id[p]) = {}
           /\ pc[p] = "delete" => id[p] \notin pets
=============================================================================
