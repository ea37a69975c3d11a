----------------------------- MODULE MCLending -----------------------------
(***************************************************************************)
(* School property and music for TLC: InventoryService and LibraryLoans    *)
(* share no row, so they are explored side by side and not in every        *)
(* combination.  Keys of assets and assignments are interchangeable; so    *)
(* are the periods a rollover may still create.                            *)
(***************************************************************************)
EXTENDS InventoryService, LibraryLoans, TLC

VARIABLE part

MCInit == Init /\ LibraryInit /\ part \in {"property", "music"}

MCNext ==
  /\ \/ part = "property" /\ Next /\ UNCHANGED libraryVars
     \/ part = "music" /\ LibraryNext /\ UNCHANGED vars
  /\ UNCHANGED part

MCSpec == MCInit /\ [][MCNext]_<<vars, libraryVars, part>>

\* Loans and issues are never deleted; taking their keys in order stands for any order.
InOrder(rows) == \A r \in rows : r.id = 1 \/ \E q \in rows : q.id = r.id - 1
KeysInOrder == InOrder(loans) /\ InOrder(notes)

Symmetry == Permutations(Assets) \cup Permutations(AssignmentIds)
              \cup Permutations(Periods \ {FirstPeriod})
=============================================================================
