---------------------------- MODULE LibraryLoans ----------------------------
(***************************************************************************)
(* Loans of complete music sets and the issues recorded on their parts     *)
(* (src/lib/library-service.ts, called from src/app/library-actions.ts).   *)
(*                                                                         *)
(* LibraryItem.status is a stored column that every handler adjusts by     *)
(* hand, each for its own case: addLibraryComponentNote touches it only    *)
(* when the set is AVAILABLE, resolveLibraryComponentNote only when it is  *)
(* INCOMPLETE, closeLibraryLoan always.  The properties say that these     *)
(* cases together keep the column true.  Each action is one transaction.   *)
(***************************************************************************)
EXTENDS Naturals

CONSTANTS Items,    \* whole-set records the program may create
          LoanIds,  \* primary keys of LibraryLoan (bounds the history)
          NoteIds   \* primary keys of LibraryComponentNote (bounds the history)

VARIABLES itemStatus,  \* LibraryItem.status, "ABSENT" before creation
          loans,       \* the rows of LibraryLoan
          notes        \* the rows of LibraryComponentNote

libraryVars == <<itemStatus, loans, notes>>

ItemStatus == {"ABSENT", "AVAILABLE", "ON_LOAN", "INCOMPLETE", "MISSING", "ARCHIVED"}
LoanStatus == {"CHECKED_OUT", "RETURNED", "LOST"}
Loan == [id: LoanIds, item: Items, status: LoanStatus]
\* unresolved: MISSING or DAMAGED; otherwise REPLACED with its date.
Note == [id: NoteIds, item: Items, unresolved: BOOLEAN]

Catalogued(x) == itemStatus[x] # "ABSENT"
OnLoan(x, rows) == \E l \in rows : l.item = x /\ l.status = "CHECKED_OUT"
HasIssue(x, rows) == \E n \in rows : n.item = x /\ n.unresolved

\* Mistake: a returned set goes back on the shelf whatever its parts.
ShelvedStatus(x, noteRows) == "AVAILABLE"

availableStatus(x, noteRows) ==
  IF HasIssue(x, noteRows) THEN "INCOMPLETE" ELSE "AVAILABLE"

LibraryInit ==
  /\ itemStatus = [x \in Items |-> "ABSENT"]
  /\ loans = {}
  /\ notes = {}

-----------------------------------------------------------------------------
\* createLibraryItemAction and the rows of the CutTime library import.
CreateItem(x) ==
  /\ ~Catalogued(x)
  /\ itemStatus' = [itemStatus EXCEPT ![x] = "AVAILABLE"]
  /\ UNCHANGED <<loans, notes>>

\* Mistake: a set that is out may be archived.
ArchiveUncounted(x) == Catalogued(x)

MayArchive(x) == Catalogued(x) /\ ~OnLoan(x, loans)

ArchiveItem(x) ==
  /\ MayArchive(x)
  /\ itemStatus' = [itemStatus EXCEPT ![x] = "ARCHIVED"]
  /\ UNCHANGED <<loans, notes>>

AddNote(id, x) ==
  /\ Catalogued(x)
  /\ itemStatus[x] # "ARCHIVED"
  /\ \A n \in notes : n.id # id
  /\ notes' = notes \cup {[id |-> id, item |-> x, unresolved |-> TRUE]}
  /\ itemStatus' = [itemStatus EXCEPT ![x] = IF @ = "AVAILABLE" THEN "INCOMPLETE" ELSE @]
  /\ UNCHANGED loans

\* Mistake: the set stays INCOMPLETE until somebody notices.
ResolvedLater(x, noteRows) == itemStatus[x]

\* Mistake: a set out of circulation is given its status anew as well.
ResolvedAnyway(x, noteRows) == availableStatus(x, noteRows)

\* Only an INCOMPLETE set is given its status anew.
ResolvedStatus(x, noteRows) ==
  IF itemStatus[x] = "INCOMPLETE" THEN availableStatus(x, noteRows) ELSE itemStatus[x]

ResolveNote(n) ==
  /\ n.unresolved
  /\ notes' = (notes \ {n}) \cup {[n EXCEPT !.unresolved = FALSE]}
  /\ itemStatus' = [itemStatus EXCEPT ![n.item] = ResolvedStatus(n.item, notes')]
  /\ UNCHANGED loans

CheckoutItem(id, x) ==
  /\ itemStatus[x] = "AVAILABLE"
  /\ ~OnLoan(x, loans)
  /\ \A l \in loans : l.id # id
  /\ loans' = loans \cup {[id |-> id, item |-> x, status |-> "CHECKED_OUT"]}
  /\ itemStatus' = [itemStatus EXCEPT ![x] = "ON_LOAN"]
  /\ UNCHANGED notes

ClosedStatus(x, outcome) ==
  IF outcome = "LOST" THEN "MISSING" ELSE availableStatus(x, notes)

\* Mistake: a loan closed before may be closed again.
AnyLoan(l) == TRUE

OpenLoan(l) == l.status = "CHECKED_OUT"

\* The item's status is overwritten whatever it is.
CloseLoan(l, outcome) ==
  /\ OpenLoan(l)
  /\ loans' = (loans \ {l}) \cup {[l EXCEPT !.status = outcome]}
  /\ itemStatus' = [itemStatus EXCEPT ![l.item] = ClosedStatus(l.item, outcome)]
  /\ UNCHANGED notes

LibraryNext ==
  \/ \E x \in Items : CreateItem(x)
  \/ \E x \in Items : ArchiveItem(x)
  \/ \E id \in NoteIds, x \in Items : AddNote(id, x)
  \/ \E n \in notes : ResolveNote(n)
  \/ \E id \in LoanIds, x \in Items : CheckoutItem(id, x)
  \/ \E l \in loans, outcome \in {"RETURNED", "LOST"} : CloseLoan(l, outcome)

LibrarySpec == LibraryInit /\ [][LibraryNext]_libraryVars

-----------------------------------------------------------------------------
\* Properties.

\* Type invariant of the three tables.
LibraryTypeOK ==
  /\ itemStatus \in [Items -> ItemStatus]
  /\ loans \subseteq Loan
  /\ notes \subseteq Note

\* The catalogue tells where a set is: ON_LOAN exactly while one loan, and only
\* one, is open.
LoanMatchesStatus ==
  /\ \A x \in Items : itemStatus[x] = "ON_LOAN" <=> OnLoan(x, loans)
  /\ \A l, m \in loans : /\ l.status = "CHECKED_OUT"
                         /\ m.status = "CHECKED_OUT"
                         /\ l.item = m.item
                         => l = m

\* The shelf holds complete sets: AVAILABLE, the only status that can be lent,
\* means that no part is missing or damaged, also when the issue was noted while
\* the set was out.
ShelfIsComplete ==
  \A x \in Items : itemStatus[x] = "AVAILABLE" => ~HasIssue(x, notes)

\* No set is stuck: INCOMPLETE has an unresolved issue, since resolving the last
\* one is the only way back to AVAILABLE.
IncompleteCanClear ==
  \A x \in Items : itemStatus[x] = "INCOMPLETE" => HasIssue(x, notes)

\* The catalogue is true of every set, lent, complete or not, although each handler
\* adjusts the column for its own case only.
ShelfInv == LoanMatchesStatus /\ ShelfIsComplete /\ IncompleteCanClear

\* ARCHIVED is final and a lost set never returns to circulation, although
\* closeLibraryLoan overwrites the status without looking at it.
WithdrawnForGood ==
  [][\A x \in Items :
       /\ itemStatus[x] = "ARCHIVED" => itemStatus'[x] = "ARCHIVED"
       /\ itemStatus[x] = "MISSING" => itemStatus'[x] \in {"MISSING", "ARCHIVED"}]_libraryVars

\* A loan ends once: its outcome, returned or lost, never changes afterwards.
OutcomesAreFinal ==
  [][\A l \in loans : l.status # "CHECKED_OUT" => l \in loans']_libraryVars

\* What was settled stays settled, for the loan and for the set.
SettledForGood == WithdrawnForGood /\ OutcomesAreFinal
=============================================================================
