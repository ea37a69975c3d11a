---------------------------- MODULE LedgerProofs ----------------------------
(***************************************************************************)
(* Proofs about FinancialLedger and the directory it reads, for any number *)
(* of people, groups, entries and batches and any amounts, and about the   *)
(* imports of CutTimeImport, which write to both, for any export files,    *)
(* any number of requests and any order of their transactions.             *)
(*                                                                         *)
(* LInv is inductive.  What it adds to the types is what the refinement    *)
(* needs: an id names one entry, a reversal names an entry that is not a   *)
(* reversal, and no two reversals name the same.                           *)
(*                                                                         *)
(* StatementInv is inductive too: with it the sums of the reports are what *)
(* they say, which lemmas about sums over finite sets show state by state. *)
(*                                                                         *)
(* ImportInv is inductive.  What it adds to the checked invariants is what *)
(* makes a unique key and a remembered run mean something: that imported   *)
(* rows have their reference, that references lead to people, and that     *)
(* what a request read before its transaction is still so in it.           *)
(***************************************************************************)
EXTENDS CutTimeImport, FiniteSetTheorems, WellFoundedInduction, TLAPS

\* Primary keys.
IdsNameEntries == \A e, f \in entries : e.id = f.id => e = f

\* A reversal takes back the whole of an entry of the same student.
ReversalsRefer ==
  \A r \in entries : r.type = "REVERSAL" =>
    \E e \in entries : /\ e.id = r.reversalOf /\ e.type # "REVERSAL"
                       /\ e.person = r.person /\ e.amount = -r.amount

ReversedOnce ==
  \A r, s \in entries :
    r.type = "REVERSAL" /\ s.type = "REVERSAL" /\ r.reversalOf = s.reversalOf => r = s

\* Statements list student profiles, and none is ever taken away.
EntriesOfStudents == \A e \in entries : e.person \in students

LInv ==
  /\ DirectoryTypeOK /\ LedgerTypeOK
  /\ IdsNameEntries /\ ReversalsRefer /\ ReversedOnce
  /\ EntriesOfStudents

LedgerStep ==
  \/ DirectoryNext /\ UNCHANGED ledgerVars
  \/ LedgerNext /\ UNCHANGED directoryVars

\* The empty program of first-run set-up.
LEMMA InitLInv == DirectoryInit /\ LedgerInit => LInv
BY DEF DirectoryInit, LedgerInit, LInv, DirectoryTypeOK, LedgerTypeOK, RecordStatus,
       IdsNameEntries, ReversalsRefer, ReversedOnce, EntriesOfStudents

-----------------------------------------------------------------------------
\* The directory.

\* Every handler on people, groups and families keeps links between records that
\* exist, and no profile of a student is taken away.
LEMMA DirectoryStep ==
  ASSUME DirectoryTypeOK, DirectoryNext
  PROVE  DirectoryTypeOK' /\ students \subseteq students'
<1> USE DEF DirectoryTypeOK, RecordStatus, Person, Group
<1>1. ASSUME NEW p \in People, NEW student \in BOOLEAN, NEW groups \in SUBSET Groups,
             CreatePerson(p, student, groups)
      PROVE  DirectoryTypeOK' /\ students \subseteq students'
  <2>1. personStatus' \in [People -> RecordStatus]
    BY <1>1 DEF CreatePerson
  <2>2. \A q \in People : Person(q) => personStatus'[q] # "ABSENT"
    BY <1>1 DEF CreatePerson
  <2>3. personStatus'[p] # "ABSENT"
    BY <1>1 DEF CreatePerson
  <2> QED
    BY <1>1, <2>1, <2>2, <2>3 DEF CreatePerson
<1>2. ASSUME NEW p \in People, NEW status \in {"ACTIVE", "INACTIVE"},
             NEW student \in BOOLEAN,
             UpdatePerson(p, status, student)
      PROVE  DirectoryTypeOK' /\ students \subseteq students'
  <2>1. personStatus' \in [People -> RecordStatus]
    BY <1>2 DEF UpdatePerson
  <2>2. \A q \in People : Person(q) => personStatus'[q] # "ABSENT"
    BY <1>2 DEF UpdatePerson
  <2> QED
    BY <1>2, <2>1, <2>2 DEF UpdatePerson
<1>3. ASSUME NEW p \in People, ClassifyStudent(p)
      PROVE  DirectoryTypeOK' /\ students \subseteq students'
  BY <1>3 DEF ClassifyStudent
<1>4. ASSUME NEW g \in Groups, CreateGroup(g)
      PROVE  DirectoryTypeOK' /\ students \subseteq students'
  <2>1. groupStatus' \in [Groups -> RecordStatus]
    BY <1>4 DEF CreateGroup
  <2>2. \A h \in Groups : Group(h) => groupStatus'[h] # "ABSENT"
    BY <1>4 DEF CreateGroup
  <2> QED
    BY <1>4, <2>1, <2>2 DEF CreateGroup
<1>5. ASSUME NEW g \in Groups, NEW active \in BOOLEAN, UpdateGroup(g, active)
      PROVE  DirectoryTypeOK' /\ students \subseteq students'
  <2>1. groupStatus' \in [Groups -> RecordStatus]
    BY <1>5 DEF UpdateGroup
  <2>2. \A h \in Groups : Group(h) => groupStatus'[h] # "ABSENT"
    BY <1>5 DEF UpdateGroup
  <2> QED
    BY <1>5, <2>1, <2>2 DEF UpdateGroup
<1>6. ASSUME NEW g \in Groups, NEW p \in People,
             AddGroupMembership(g, p) \/ EndGroupMembership(g, p)
      PROVE  DirectoryTypeOK' /\ students \subseteq students'
  BY <1>6 DEF AddGroupMembership, EndGroupMembership
<1>7. ASSUME NEW g \in People, NEW s \in People,
             LinkGuardianStudent(g, s) \/ UnlinkGuardianStudent(g, s)
      PROVE  DirectoryTypeOK' /\ students \subseteq students'
  BY <1>7 DEF LinkGuardianStudent, MayLink, UnlinkGuardianStudent
<1>8. ASSUME NEW g \in People, NEW s \in People, CreateGuardianAndLinkStudent(g, s)
      PROVE  DirectoryTypeOK' /\ students \subseteq students'
  <2>1. personStatus' \in [People -> RecordStatus]
    BY <1>8 DEF CreateGuardianAndLinkStudent
  <2>2. \A q \in People : Person(q) => personStatus'[q] # "ABSENT"
    BY <1>8 DEF CreateGuardianAndLinkStudent
  <2>3. personStatus'[g] # "ABSENT"
    BY <1>8 DEF CreateGuardianAndLinkStudent
  <2> QED
    BY <1>8, <2>1, <2>2, <2>3 DEF CreateGuardianAndLinkStudent
<1> QED
  BY <1>1, <1>2, <1>3, <1>4, <1>5, <1>6, <1>7, <1>8
     DEF DirectoryNext, PersonNext, GroupNext, FamilyNext

-----------------------------------------------------------------------------
\* The ledger.

\* What a posting and every row of an assessment have in common.
Posting(e) ==
  /\ e \in Entry
  /\ e.type # "REVERSAL" /\ e.reversalOf = NoId
  /\ e.type = "CHARGE" => e.amount > 0
  /\ e.type \in {"PAYMENT", "CREDIT"} => e.amount < 0

\* A transaction that leaves the directory alone leaves it well formed.
LEMMA DirectoryAlone ==
  ASSUME DirectoryTypeOK, UNCHANGED directoryVars
  PROVE  DirectoryTypeOK' /\ students' = students
BY DEF DirectoryTypeOK, directoryVars, Person, Group

\* New postings with unused ids, about students, keep the invariant.
LEMMA PostingsKeepLInv ==
  ASSUME LInv, NEW new, entries' = entries \cup new,
         DirectoryTypeOK', students \subseteq students',
         \A e \in new : Posting(e) /\ e.person \in students',
         \A e \in new, f \in entries : e.id # f.id,
         \A e, f \in new : e.id = f.id => e = f,
         batches' \subseteq Batch
  PROVE  LInv'
<1> USE DEF LInv, Posting
<1>2. LedgerTypeOK'
  BY DEF LedgerTypeOK
<1>3. IdsNameEntries'
  BY DEF IdsNameEntries
<1>4. ReversalsRefer'
  BY DEF ReversalsRefer
<1>5. ReversedOnce'
  BY DEF ReversedOnce
<1>6. EntriesOfStudents'
  BY DEF EntriesOfStudents
<1> QED
  BY <1>2, <1>3, <1>4, <1>5, <1>6

\* What NewEntry makes of the amounts a form may submit.
LEMMA NewPosting ==
  ASSUME NEW id \in EntryIds, NEW p \in People, NEW type \in EntryType \ {"REVERSAL"},
         NEW amount \in Int, amount > 0
  PROVE  Posting(NewEntry(id, p, type, Signed(type, amount)))
BY DEF Posting, NewEntry, Signed, Entry, EntryType

LEMMA PostKeepsLInv ==
  ASSUME LInv, NEW id \in UnusedIds(EntryIds, entries), NEW amount \in Submitted,
         NEW p \in People, NEW type \in EntryType \ {"REVERSAL"}, NEW g \in Groups \cup {NoId},
         PostFinancialEntry(id, p, type, amount, g), UNCHANGED directoryVars
  PROVE  LInv'
<1> DEFINE e == NewEntry(id, p, type, Signed(type, amount))
           new == {e}
<1>1. Posting(e)
  BY NewPosting, LedgerAssumption DEF PostFinancialEntry, positiveMoney, UnusedIds
<1>2. e.person \in students /\ e.id = id
  BY DEF PostFinancialEntry, verifyStudent, NewEntry
<1>3. \A f \in entries : e.id # f.id
  BY <1>2 DEF UnusedIds
<1>4. entries' = entries \cup new
  BY DEF PostFinancialEntry
<1>5. batches' \subseteq Batch
  BY DEF PostFinancialEntry, LInv, LedgerTypeOK
<1>6. /\ \A x \in new : Posting(x) /\ x.person \in students
      /\ \A x \in new, f \in entries : x.id # f.id
      /\ \A x, y \in new : x.id = y.id => x = y
  <2> HIDE DEF e
  <2> QED
    BY <1>1, <1>2, <1>3
<1>7. DirectoryTypeOK' /\ students' = students
  BY DirectoryAlone DEF LInv
<1> HIDE DEF e, new
<1> QED
  BY <1>4, <1>5, <1>6, <1>7, PostingsKeepLInv

\* The rows of an assessment: one for each student, with the batch.
Assessed(b, amount, idOf) ==
  {[NewEntry(idOf[p], p, "CHARGE", amount) EXCEPT !.batch = b] : p \in DOMAIN idOf}

LEMMA AssessedRows ==
  ASSUME LInv, NEW b \in BatchIds, NEW g \in Groups, NEW amount \in Submitted,
         amount > 0,
         NEW idOf \in [AssessedStudents(g) -> UnusedIds(EntryIds, entries)],
         \A p, q \in DOMAIN idOf : idOf[p] = idOf[q] => p = q
  PROVE  /\ \A e \in Assessed(b, amount, idOf) : Posting(e) /\ e.person \in students
         /\ \A e \in Assessed(b, amount, idOf), f \in entries : e.id # f.id
         /\ \A e, f \in Assessed(b, amount, idOf) : e.id = f.id => e = f
<1>1. AssessedStudents(g) \subseteq students /\ students \subseteq People
  BY DEF AssessedStudents, ActiveStudentsOf, ActiveStudents, LInv, DirectoryTypeOK
<1>2. ASSUME NEW p \in AssessedStudents(g)
      PROVE  [NewEntry(idOf[p], p, "CHARGE", amount) EXCEPT !.batch = b]
             = [id |-> idOf[p], person |-> p, type |-> "CHARGE", amount |-> amount,
                batch |-> b, reversalOf |-> NoId]
  BY DEF NewEntry
<1>3. \A e \in Assessed(b, amount, idOf) : \E p \in AssessedStudents(g) :
        e = [id |-> idOf[p], person |-> p, type |-> "CHARGE", amount |-> amount,
             batch |-> b, reversalOf |-> NoId]
  BY <1>2 DEF Assessed
<1>4. \A p \in AssessedStudents(g) : idOf[p] \in EntryIds /\ \A f \in entries : f.id # idOf[p]
  BY DEF UnusedIds
<1>5. \A e \in Assessed(b, amount, idOf) : Posting(e) /\ e.person \in students
  BY <1>1, <1>3, <1>4, LedgerAssumption DEF Posting, Entry, EntryType
<1>6. \A e \in Assessed(b, amount, idOf), f \in entries : e.id # f.id
  BY <1>3, <1>4
<1>7. \A e, f \in Assessed(b, amount, idOf) : e.id = f.id => e = f
  BY <1>3
<1> QED
  BY <1>5, <1>6, <1>7

LEMMA AssessKeepsLInv ==
  ASSUME LInv, NEW b \in UnusedIds(BatchIds, batches), NEW g \in Groups,
         NEW amount \in Submitted,
         NEW idOf \in [AssessedStudents(g) -> UnusedIds(EntryIds, entries)],
         \A p, q \in DOMAIN idOf : idOf[p] = idOf[q] => p = q,
         PostGroupAssessment(b, g, amount, idOf), UNCHANGED directoryVars
  PROVE  LInv'
<1> DEFINE new == Assessed(b, amount, idOf)
<1>1. b \in BatchIds /\ amount > 0 /\ amount \in Int
  BY LedgerAssumption DEF UnusedIds, PostGroupAssessment, positiveMoney
<1>2. /\ \A e \in new : Posting(e) /\ e.person \in students
      /\ \A e \in new, f \in entries : e.id # f.id
      /\ \A e, f \in new : e.id = f.id => e = f
  BY <1>1, AssessedRows
<1>3. entries' = entries \cup new
  BY DEF PostGroupAssessment, Assessed
<1>4. batches' \subseteq Batch
  BY <1>1 DEF PostGroupAssessment, LInv, LedgerTypeOK, Batch
<1>5. DirectoryTypeOK' /\ students' = students
  BY DirectoryAlone DEF LInv
<1> HIDE DEF new
<1> QED
  BY <1>2, <1>3, <1>4, <1>5, PostingsKeepLInv

LEMMA ReverseKeepsLInv ==
  ASSUME LInv, NEW id \in UnusedIds(EntryIds, entries), NEW e \in entries,
         ReverseFinancialEntry(id, e), UNCHANGED directoryVars
  PROVE  LInv'
<1> DEFINE r == [id |-> id, person |-> e.person, type |-> "REVERSAL",
amount |-> -e.amount,
                 batch |-> NoId, reversalOf |-> e.id]
<1>1. e \in Entry /\ e.type # "REVERSAL" /\ \A s \in entries : s.reversalOf # e.id
  BY DEF LInv, LedgerTypeOK, ReverseFinancialEntry, MayReverse
<1>2. entries' = entries \cup {r} /\ batches' = batches
  BY DEF ReverseFinancialEntry, NewEntry, ReversalAmount
<1>3. id \in EntryIds /\ \A f \in entries : f.id # id
  BY DEF UnusedIds
<1>4. r \in Entry /\ e.id \in EntryIds /\ e.id # NoId
  BY <1>1, <1>3, LedgerAssumption DEF Entry, EntryType
<1> USE DEF LInv
<1>5. DirectoryTypeOK' /\ students' = students
  BY DEF DirectoryTypeOK, directoryVars, Person, Group
<1>6. LedgerTypeOK'
  BY <1>2, <1>4 DEF LedgerTypeOK
<1>7. IdsNameEntries'
  BY <1>2, <1>3 DEF IdsNameEntries
<1>8. ReversalsRefer'
  <2>1. /\ e \in entries' /\ e.id = r.reversalOf /\ e.type # "REVERSAL"
        /\ e.person = r.person /\ e.amount = -r.amount
    BY <1>1, <1>2 DEF Entry
  <2>2. ASSUME NEW s \in entries', s.type = "REVERSAL"
        PROVE  \E f \in entries' : /\ f.id = s.reversalOf /\ f.type # "REVERSAL"
                                   /\ f.person = s.person /\ f.amount = -s.amount
    BY <1>2, <2>1, <2>2 DEF ReversalsRefer
  <2> QED
    BY <2>2 DEF ReversalsRefer
<1>9. ReversedOnce'
  BY <1>1, <1>2 DEF ReversedOnce
<1>10. EntriesOfStudents'
  BY <1>2, <1>5 DEF EntriesOfStudents
<1> QED
  BY <1>5, <1>6, <1>7, <1>8, <1>9, <1>10

\* Every transaction of the directory and of the ledger keeps the invariant.
LEMMA StepLInv == LInv /\ [LedgerStep]_<<directoryVars, ledgerVars>> => LInv'
<1> SUFFICES ASSUME LInv, [LedgerStep]_<<directoryVars, ledgerVars>> PROVE LInv'
  OBVIOUS
<1>1. CASE DirectoryNext /\ UNCHANGED ledgerVars
  <2>1. DirectoryTypeOK' /\ students \subseteq students'
    BY <1>1, DirectoryStep DEF LInv
  <2>2. entries' = entries /\ batches' = batches
    BY <1>1 DEF ledgerVars
  <2> QED
    BY <2>1, <2>2 DEF LInv, LedgerTypeOK, IdsNameEntries, ReversalsRefer, ReversedOnce,
                      EntriesOfStudents
<1>2. CASE LedgerNext /\ UNCHANGED directoryVars
  BY <1>2, PostKeepsLInv, AssessKeepsLInv, ReverseKeepsLInv DEF LedgerNext
<1>3. CASE UNCHANGED <<directoryVars, ledgerVars>>
  BY <1>3
     DEF directoryVars, ledgerVars, LInv, DirectoryTypeOK, Person, Group, LedgerTypeOK,
              IdsNameEntries, ReversalsRefer, ReversedOnce, EntriesOfStudents
<1> QED
  BY <1>1, <1>2, <1>3 DEF LedgerStep

\* The inductive invariant holds in every reachable state.
THEOREM LedgerInvariant == LedgerSpec => []LInv
<1>1. LedgerSpec => DirectoryInit /\ LedgerInit /\ [][LedgerStep]_<<directoryVars, ledgerVars>>
  BY DEF LedgerSpec, LedgerStep
<1> QED
  BY <1>1, InitLInv, StepLInv, PTL

\* Memberships and family links lead to existing records.
THEOREM DirectoryCorrect == LedgerSpec => []DirectoryTypeOK
<1>1. LInv => DirectoryTypeOK
  BY DEF LInv
<1> QED
  BY <1>1, LedgerInvariant, PTL

\* Entries and batches keep their types, and the sign of an amount tells its type.
THEOREM LedgerCorrect == LedgerSpec => []LedgerTypeOK
<1>1. LInv => LedgerTypeOK
  BY DEF LInv
<1> QED
  BY <1>1, LedgerInvariant, PTL

-----------------------------------------------------------------------------
\* The refinement of AccountBook.

\* The rows a statement counts, and the corrections of them.
Posted == {[id |-> e.id, account |-> e.person, amount |-> e.amount] :
             e \in {f \in entries : f.type # "REVERSAL"}}
Corrections == {<<e.id, e.reversalOf>> : e \in {f \in entries : f.type = "REVERSAL"}}

\* New postings are a Post of the account book.
LEMMA PostingsArePosted ==
  ASSUME LInv, LInv', NEW new, new # {}, entries' = entries \cup new,
         \A e \in new : Posting(e),
         \A e \in new, f \in entries : e.id # f.id
  PROVE  Book!Post
<1> DEFINE row(e) == [id |-> e.id, account |-> e.person, amount |-> e.amount]
<1>1. Posted \subseteq Posted'
  BY DEF Posted
<1>2. Posted' # Posted
  <2>1. PICK e \in new : TRUE
    OBVIOUS
  <2>2. row(e) \in Posted'
    BY DEF Posted, Posting
  <2>3. row(e) \notin Posted
    BY DEF Posted
  <2> QED
    BY <2>2, <2>3
<1>3. Posted' \subseteq [id: EntryIds, account: People, amount: Int]
  BY DEF Posted, LInv, LedgerTypeOK, Entry
<1>4. \A x, y \in Posted' : x.id = y.id => x = y
  BY DEF Posted, LInv, IdsNameEntries
<1>5. Corrections' = Corrections
  BY DEF Corrections, Posting
<1> QED
  BY <1>1, <1>2, <1>3, <1>4, <1>5 DEF Book!Post, Book!Posting, Posted, Corrections

\* A reversal is an Undo.
LEMMA ReversalIsUndo ==
  ASSUME LInv, NEW id \in UnusedIds(EntryIds, entries), NEW e \in entries,
         ReverseFinancialEntry(id, e)
  PROVE  \E x \in Posted : Book!Undo(id, x)
<1> DEFINE x == [id |-> e.id, account |-> e.person, amount |-> e.amount]
           r == [id |-> id, person |-> e.person, type |-> "REVERSAL", amount |-> -e.amount,
                 batch |-> NoId, reversalOf |-> e.id]
<1>1. e.type # "REVERSAL" /\ \A s \in entries : s.reversalOf # e.id
  BY DEF ReverseFinancialEntry, MayReverse
<1>2. entries' = entries \cup {r}
  BY DEF ReverseFinancialEntry, NewEntry, ReversalAmount
<1>3. x \in Posted
  BY <1>1 DEF Posted
<1>4. ~\E u \in Corrections : u[2] = x.id
  BY <1>1 DEF Corrections
<1>5. Corrections' = Corrections \cup {<<id, x.id>>}
  <2>1. r.type = "REVERSAL" /\ <<r.id, r.reversalOf>> = <<id, x.id>>
    OBVIOUS
  <2> HIDE DEF r
  <2> QED
    BY <1>2, <2>1 DEF Corrections
<1>6. Posted' = Posted
  BY <1>2 DEF Posted
<1>7. Book!Undo(id, x)
  BY <1>3, <1>4, <1>5, <1>6 DEF Book!Undo, Book!Undone, Posted, Corrections
<1> QED
  BY <1>3, <1>7

\* Every step of the ledger is a step of the account book or leaves it alone.
LEMMA StepRefines ==
  LInv /\ LInv' /\ [LedgerStep]_<<directoryVars, ledgerVars>>
    => [Book!BookNext]_<<Posted, Corrections>>
<1> SUFFICES ASSUME LInv, LInv', [LedgerStep]_<<directoryVars, ledgerVars>>
             PROVE  [Book!BookNext]_<<Posted, Corrections>>
  OBVIOUS
<1>1. ASSUME NEW id \in UnusedIds(EntryIds, entries), NEW amount \in Submitted,
             NEW p \in People, NEW type \in EntryType \ {"REVERSAL"},
             NEW g \in Groups \cup {NoId}, PostFinancialEntry(id, p, type, amount, g)
      PROVE  Book!Post
  <2> DEFINE e == NewEntry(id, p, type, Signed(type, amount))
  <2>1. Posting(e)
    BY <1>1, NewPosting, LedgerAssumption
       DEF PostFinancialEntry, positiveMoney, UnusedIds
  <2>2. entries' = entries \cup {e} /\ \A f \in entries : e.id # f.id
    BY <1>1 DEF PostFinancialEntry, UnusedIds, NewEntry
  <2> HIDE DEF e
  <2>3. /\ {e} # {}
        /\ \A x \in {e} : Posting(x)
        /\ \A x \in {e}, f \in entries : x.id # f.id
    BY <2>1, <2>2
  <2> QED
    BY <2>2, <2>3, PostingsArePosted
<1>2. ASSUME NEW b \in UnusedIds(BatchIds, batches), NEW g \in Groups,
             NEW amount \in Submitted,
             NEW idOf \in [AssessedStudents(g) -> UnusedIds(EntryIds, entries)],
             \A p, q \in DOMAIN idOf : idOf[p] = idOf[q] => p = q,
             PostGroupAssessment(b, g, amount, idOf)
      PROVE  Book!Post
  <2> DEFINE new == Assessed(b, amount, idOf)
  <2>1. b \in BatchIds /\ amount > 0
    BY <1>2 DEF UnusedIds, PostGroupAssessment, positiveMoney
  <2>2. /\ \A e \in new : Posting(e)
        /\ \A e \in new, f \in entries : e.id # f.id
    BY <1>2, <2>1, AssessedRows
  <2>3. entries' = entries \cup new
    BY <1>2 DEF PostGroupAssessment, Assessed
  <2>4. new # {}
    <3>1. PICK p \in DOMAIN idOf : TRUE
      BY <1>2 DEF PostGroupAssessment, MayAssess
    <3>2. [NewEntry(idOf[p], p, "CHARGE", amount) EXCEPT !.batch = b] \in new
      BY <3>1 DEF Assessed
    <3> QED
      BY <3>2
  <2> HIDE DEF new
  <2> QED
    BY <2>2, <2>3, <2>4, PostingsArePosted
<1>3. CASE LedgerNext
  <2>1. CASE \E id \in UnusedIds(EntryIds, entries), e \in entries :
               ReverseFinancialEntry(id, e)
    <3>1. PICK id \in UnusedIds(EntryIds, entries), e \in entries :
            ReverseFinancialEntry(id, e)
      BY <2>1
    <3>2. id \in EntryIds
      BY DEF UnusedIds
    <3> QED
      BY <3>1, <3>2, ReversalIsUndo DEF Book!BookNext, Posted
  <2>2. CASE Book!Post
    BY <2>2 DEF Book!BookNext
  <2> QED
    BY <1>1, <1>2, <1>3, <2>1, <2>2 DEF LedgerNext
<1>4. CASE UNCHANGED ledgerVars
  BY <1>4 DEF ledgerVars, Posted, Corrections
<1> QED
  BY <1>3, <1>4 DEF LedgerStep

\* The ledger implements the account book: amounts are posted, a posting is undone at
\* most once and as a whole, and nothing else ever happens to it.
THEOREM LedgerImplementsAccountBook == LedgerSpec => ImplementsAccountBook
<1>1. LedgerSpec => DirectoryInit /\ LedgerInit /\ [][LedgerStep]_<<directoryVars, ledgerVars>>
  BY DEF LedgerSpec, LedgerStep
<1>2. LedgerInit => Posted = {} /\ Corrections = {}
  BY DEF LedgerInit, Posted, Corrections
<1> QED
  BY <1>1, <1>2, LedgerInvariant, StepRefines, PTL
     DEF ImplementsAccountBook, Book!BookSpec, Book!BookInit, Posted, Corrections

\* No money is off the statements: every entry belongs to a student, and keeps doing so.
THEOREM EveryEntryListed == LedgerSpec => []EntriesOfStudents
<1>1. LInv => EntriesOfStudents
  BY DEF LInv
<1> QED
  BY <1>1, LedgerInvariant, PTL

-----------------------------------------------------------------------------
\* The imports.

\* What is imported under a unique key has its row among the references.
Referred ==
  /\ {x.key : x \in assets} \subseteq Keys("Asset")
  /\ {x.source : x \in library} \subseteq Keys("LibraryItem")

\* A reference leads to the student or person it was written with, and no two
\* CutTime ids to one student.
KeysNamePeople ==
  /\ \A x \in references : x.kind = "Student" => x.entity \in students
  /\ \A x \in references : x.kind = "Guardian" => x.entity \in People /\ Person(x.entity)
  /\ \A x, y \in references :
       x.kind = "Student" /\ y.kind = "Student" /\ x.entity = y.entity => x = y
  /\ \A p \in People : contact[p] # NoId => Person(p)

\* An opening balance is a row of the ledger, and its run is remembered.
OpeningsPosted ==
  /\ \A x \in openings : \E e \in entries : e.id = x.entry
  /\ balanceRuns = {} => openings = {}

\* Two ids of one student are its CutTime id and its school id.
TwoIds(named) ==
  \A k, l \in DOMAIN named : named[k] = named[l] /\ k # l => schoolId[named[k]] \in {k, l}

\* What a request has read that is still so when it opens its transaction.
ImporterInv(i) ==
  /\ i.pc \in {"idle", "migrate", "guardians", "balances", "library"}
  /\ i.pc = "migrate" => i.file \in MigrationFiles /\ MigrationReadable(i.file)
  /\ i.pc = "guardians" =>
       /\ i.file \in GuardianFiles
       /\ i.student \in [{g.student : g \in i.file} -> students]
       /\ i.known \in [{g.key : g \in i.file} -> SUBSET {p \in People : Person(p)}]
  /\ i.pc = "balances" =>
       /\ i.sheet \in BalanceSheets /\ SheetReadable(i.sheet)
       /\ i.student \in [SheetStudents(i.sheet) -> students]
       /\ TwoIds(i.student)
  /\ i.pc = "library" => LibraryReadable(i.rows)

ImportersInv ==
  /\ DOMAIN importer = Importers
  /\ \A r \in Importers : ImporterInv(importer[r])

ImportInv ==
  /\ LInv
  /\ ImportTypeOK /\ ImportedCustodyTrue
  /\ NothingImportedTwice /\ Referred
  /\ KeysNamePeople
  /\ OpeningPostedOnce /\ OpeningsPosted
  /\ ImportersInv

\* The rows a sheet is posted as.
LEMMA SheetRowsPosted ==
  ASSUME LInv, NEW sheet, SheetReadable(sheet), Range(sheet) \subseteq SheetRows,
         NEW D, NEW T, T \subseteq People, SheetStudents(sheet) \subseteq D,
         NEW studentOf \in [D -> T], NEW idOf \in ImportIds(sheet), NEW run
  PROVE  /\ \A e \in OpeningEntries(sheet, studentOf, idOf) :
              /\ Posting(e)
              /\ \E k \in SheetStudents(sheet) : e.id = idOf[k] /\ e.person = studentOf[k]
         /\ \A e \in OpeningEntries(sheet, studentOf, idOf), f \in entries : e.id # f.id
         /\ \A e, f \in OpeningEntries(sheet, studentOf, idOf) : e.id = f.id => e = f
         /\ \A x \in Openings(sheet, idOf, run) :
              /\ x = [student |-> x.student, entry |-> idOf[x.student], run |-> run]
              /\ x.student \in SheetStudents(sheet) /\ x.student \in StudentKeys
              /\ x.entry \in EntryIds
              /\ \E e \in OpeningEntries(sheet, studentOf, idOf) : e.id = x.entry
<1> DEFINE type(row) == IF row.amount > 0 THEN "CHARGE" ELSE "CREDIT"
           entry(row) == NewEntry(idOf[row.student], studentOf[row.student], type(row), row.amount)
<1>1. /\ idOf \in [SheetStudents(sheet) -> UnusedIds(EntryIds, entries)]
      /\ \A k, l \in SheetStudents(sheet) : idOf[k] = idOf[l] => k = l
  BY DEF ImportIds, OneToOne
<1>2. \A row \in Nonzero(sheet) :
        /\ row.student \in SheetStudents(sheet) /\ row.student \in StudentKeys
        /\ row.amount \in Int /\ row.amount # 0
  BY DEF Nonzero, SheetStudents, SheetRows
<1>3. \A row, other \in Nonzero(sheet) : row.student = other.student => row = other
  BY DEF Nonzero, SheetReadable, Range
<1>4. OpeningEntries(sheet, studentOf, idOf) = {entry(row) : row \in Nonzero(sheet)}
  BY DEF OpeningEntries
<1>5. \A row \in Nonzero(sheet) :
        /\ entry(row) = [id |-> idOf[row.student], person |-> studentOf[row.student],
                         type |-> type(row), amount |-> row.amount, batch |-> NoId,
                         reversalOf |-> NoId]
        /\ idOf[row.student] \in EntryIds
        /\ studentOf[row.student] \in People
        /\ \A f \in entries : f.id # idOf[row.student]
  BY <1>1, <1>2 DEF NewEntry, UnusedIds
<1>6. \A row \in Nonzero(sheet) :
        /\ Posting(entry(row))
        /\ entry(row).id = idOf[row.student] /\ entry(row).person = studentOf[row.student]
  <2> SUFFICES ASSUME NEW row \in Nonzero(sheet)
               PROVE  /\ Posting(entry(row))
                      /\ entry(row).id = idOf[row.student]
                      /\ entry(row).person = studentOf[row.student]
    OBVIOUS
  <2>1. /\ type(row) \in {"CHARGE", "CREDIT"}
        /\ type(row) = "CHARGE" => row.amount > 0
        /\ type(row) = "CREDIT" => row.amount < 0
    BY <1>2
  <2>2. entry(row) = [id |-> idOf[row.student], person |-> studentOf[row.student],
                      type |-> type(row), amount |-> row.amount, batch |-> NoId,
                      reversalOf |-> NoId]
    BY <1>5
  <2> HIDE DEF entry, type
  <2>3. entry(row) \in Entry
    BY <1>2, <1>5, <2>1, <2>2 DEF Entry, EntryType
  <2> QED
    BY <2>1, <2>2, <2>3 DEF Posting
<1> HIDE DEF entry
<1>7. ASSUME NEW e \in OpeningEntries(sheet, studentOf, idOf)
      PROVE  \E row \in Nonzero(sheet) : e = entry(row)
  BY <1>4
<1>8. \A e \in OpeningEntries(sheet, studentOf, idOf) :
        /\ Posting(e)
        /\ \E k \in SheetStudents(sheet) : e.id = idOf[k] /\ e.person = studentOf[k]
  BY <1>2, <1>6, <1>7
<1>9. \A e \in OpeningEntries(sheet, studentOf, idOf), f \in entries : e.id # f.id
  BY <1>5, <1>6, <1>7
<1>10. \A e, f \in OpeningEntries(sheet, studentOf, idOf) : e.id = f.id => e = f
  BY <1>1, <1>2, <1>3, <1>6, <1>7
<1>11. ASSUME NEW x \in Openings(sheet, idOf, run)
       PROVE  /\ x = [student |-> x.student, entry |-> idOf[x.student], run |-> run]
              /\ x.student \in SheetStudents(sheet) /\ x.student \in StudentKeys
              /\ x.entry \in EntryIds
              /\ \E e \in OpeningEntries(sheet, studentOf, idOf) : e.id = x.entry
  <2>1. PICK row \in Nonzero(sheet) :
          x = [student |-> row.student, entry |-> idOf[row.student], run |-> run]
    BY DEF Openings
  <2>2. entry(row) \in OpeningEntries(sheet, studentOf, idOf)
    BY <1>4
  <2> QED
    BY <1>2, <1>5, <1>6, <2>1, <2>2
<1> QED
  BY <1>8, <1>9, <1>10, <1>11

-----------------------------------------------------------------------------
\* A step that leaves the money alone.
LEMMA MoneyUntouched ==
  ASSUME ImportInv, UNCHANGED <<entries, openings, balanceRuns>>,
         \A p \in students : schoolId'[p] = schoolId[p]
  PROVE  OpeningPostedOnce' /\ OpeningsPosted'
<1>1. \A e \in entries : e.person \in students
  BY DEF ImportInv, LInv, EntriesOfStudents
<1>2. OpeningPostedOnce'
  BY <1>1 DEF ImportInv, OpeningPostedOnce
<1> QED
  BY <1>2 DEF ImportInv, OpeningsPosted

\* What the other requests know stays so while students and people stay what they are.
LEMMA OthersKeep ==
  ASSUME ImportInv, NEW i, ImporterInv(i), students \subseteq students',
         \A p \in People : Person(p) => Person(p)',
         \A p \in students : schoolId'[p] = schoolId[p]
  PROVE  ImporterInv(i)'
<1>1. ASSUME i.pc = "guardians"
      PROVE  /\ i.student \in [{g.student : g \in i.file} -> students']
             /\ i.known \in [{g.key : g \in i.file} -> SUBSET {p \in People : Person(p)'}]
  <2>1. {p \in People : Person(p)} \subseteq {p \in People : Person(p)'}
    OBVIOUS
  <2> DEFINE P == {p \in People : Person(p)}
             Q == {p \in People : Person(p)'}
  <2>2. P \subseteq Q
    BY <2>1
  <2>3. /\ i.student \in [{g.student : g \in i.file} -> students]
        /\ i.known \in [{g.key : g \in i.file} -> SUBSET P]
    BY <1>1 DEF ImporterInv
  <2> HIDE DEF P, Q
  <2>4. /\ i.student \in [{g.student : g \in i.file} -> students']
        /\ i.known \in [{g.key : g \in i.file} -> SUBSET Q]
    BY <2>2, <2>3
  <2> QED
    BY <2>4 DEF Q
<1>2. ASSUME i.pc = "balances"
      PROVE  /\ i.student \in [SheetStudents(i.sheet) -> students']
             /\ TwoIds(i.student)'
  BY <1>2 DEF ImporterInv, TwoIds
<1> QED
  BY <1>1, <1>2 DEF ImporterInv

\* A request that leaves, or one that stays where it is.
LEMMA ImporterLeaves ==
  ASSUME ImportInv, NEW r \in Importers, Leave(r), students \subseteq students',
         \A p \in People : Person(p) => Person(p)',
         \A p \in students : schoolId'[p] = schoolId[p]
  PROVE  ImportersInv'
<1>1. \A q \in Importers \ {r} : importer'[q] = importer[q]
  BY DEF Leave, ImportInv, ImportersInv
<1>2. importer'[r] = Idle /\ DOMAIN importer' = Importers
  BY DEF Leave, ImportInv, ImportersInv
<1>3. \A q \in Importers : ImporterInv(importer[q])
  BY DEF ImportInv, ImportersInv
<1>4. ASSUME NEW q \in Importers PROVE ImporterInv(importer[q])'
  <2>1. CASE q = r
    BY <1>2, <2>1 DEF ImporterInv, Idle
  <2>2. CASE q # r
    <3>1. PICK i : i = importer[q]
      OBVIOUS
    <3>2. ImporterInv(i)
      BY <1>3, <3>1
    <3>3. ImporterInv(i)'
      BY <3>2, OthersKeep
    <3>4. importer'[q] = i
      BY <1>1, <2>2, <3>1
    <3> QED
      BY <3>3, <3>4 DEF ImporterInv, TwoIds
  <2> QED
    BY <2>1, <2>2
<1> QED
  BY <1>2, <1>4 DEF ImportersInv

-----------------------------------------------------------------------------
\* The migration.

GuardianKeysOf(f) == {g.key : g \in f.guardians}

\* The transaction of a migration that fits.
Migrates(r, f, personOf, idOf) ==
  /\ importer[r].pc = "migrate" /\ f = importer[r].file
  /\ MigrationFits(f)
  /\ personOf \in [FileStudents(f) \cup GuardianKeysOf(f) -> FreshPeople]
  /\ idOf \in ImportIds(f.balances)
  /\ OneToOne(personOf)
  /\ WriteMigration(r, f, personOf, idOf)
  /\ Leave(r)

\* Every row of the file gets a person of its own whom the program did not have.
LEMMA MigrationFacts ==
  ASSUME ImportInv, NEW r \in Importers, NEW f, NEW personOf, NEW idOf,
         Migrates(r, f, personOf, idOf)
  PROVE  /\ f \in MigrationFiles /\ MigrationReadable(f)
         /\ FileStudents(f) \subseteq StudentKeys /\ GuardianKeysOf(f) \subseteq GuardianKeys
         /\ FileStudents(f) \cap GuardianKeysOf(f) = {}
         /\ \A k \in FileStudents(f) \cup GuardianKeysOf(f) :
              personOf[k] \in People /\ ~Person(personOf[k])
         /\ \A k, l \in FileStudents(f) \cup GuardianKeysOf(f) :
              personOf[k] = personOf[l] => k = l
         /\ students \subseteq People /\ \A p \in students : Person(p)
<1>1. f \in MigrationFiles /\ MigrationReadable(f)
  BY DEF ImportInv, ImportersInv, ImporterInv, Migrates
<1>2. FileStudents(f) \subseteq StudentKeys /\ GuardianKeysOf(f) \subseteq GuardianKeys
  BY <1>1, ImportAssumption DEF FileStudents, GuardianKeysOf
<1>3. \A k \in FileStudents(f) \cup GuardianKeysOf(f) :
        personOf[k] \in People /\ ~Person(personOf[k])
  BY DEF Migrates, FreshPeople
<1>4. \A k, l \in FileStudents(f) \cup GuardianKeysOf(f) : personOf[k] = personOf[l] => k = l
  BY DEF Migrates, OneToOne
<1>5. students \subseteq People /\ \A p \in students : Person(p)
  BY DEF ImportInv, LInv, DirectoryTypeOK
<1> QED
  BY <1>1, <1>2, <1>3, <1>4, <1>5, ImportAssumption

\* People, groups and families after a migration.
LEMMA MigrationKeepsDirectory ==
  ASSUME ImportInv, NEW r \in Importers, NEW f, NEW personOf, NEW idOf,
         Migrates(r, f, personOf, idOf)
  PROVE  /\ DirectoryTypeOK' /\ students \subseteq students'
         /\ \A k \in FileStudents(f) : personOf[k] \in students'
         /\ \A p \in People : Person(p) => Person(p)'
         /\ \A k \in FileStudents(f) \cup GuardianKeysOf(f) : Person(personOf[k])'
<1> DEFINE keys == FileStudents(f) \cup GuardianKeysOf(f)
<1>1. /\ MigrationReadable(f)
      /\ \A k \in keys : personOf[k] \in People /\ ~Person(personOf[k])
  BY MigrationFacts
<1>2. /\ DirectoryTypeOK
      /\ personOf \in [keys -> FreshPeople]
      /\ WriteMigration(r, f, personOf, idOf)
  BY DEF ImportInv, LInv, Migrates
<1>3. personStatus' = [p \in People |-> IF p \in Range(personOf) THEN "ACTIVE" ELSE personStatus[p]]
  BY <1>2 DEF WriteMigration
<1>4. personStatus' \in [People -> RecordStatus]
  BY <1>2, <1>3 DEF DirectoryTypeOK, RecordStatus
<1>5. \A p \in People : Person(p) => Person(p)'
  BY <1>3 DEF Person
<1>6. \A k \in keys : Person(personOf[k])'
  BY <1>1, <1>2, <1>3 DEF Person, Range
<1>7. students' = students \cup {personOf[k] : k \in FileStudents(f)}
  BY <1>2 DEF WriteMigration
<1>8. students' \subseteq {p \in People : Person(p)'}
  BY <1>1, <1>2, <1>5, <1>6, <1>7 DEF DirectoryTypeOK
<1>9. groupStatus' = [g \in Groups |-> IF g \in FileGroups(f) THEN "ACTIVE" ELSE groupStatus[g]]
  BY <1>2 DEF WriteMigration
<1>10. /\ groupStatus' \in [Groups -> RecordStatus]
       /\ \A g \in Groups : Group(g) \/ g \in FileGroups(f) => Group(g)'
  BY <1>2, <1>9 DEF DirectoryTypeOK, RecordStatus, Group
<1>11. members' \subseteq {g \in Groups : Group(g)'} \X {p \in People : Person(p)'}
  <2>1. ASSUME NEW s \in f.students
        PROVE  s.groups \X {personOf[s.key]}
                 \subseteq {g \in Groups : Group(g)'} \X {p \in People : Person(p)'}
    <3>1. s.key \in keys /\ s.groups \subseteq FileGroups(f)
      BY DEF FileStudents, FileGroups
    <3>2. s.groups \subseteq Groups
      BY MigrationFacts, ImportAssumption
    <3> QED
      BY <1>1, <1>6, <1>10, <3>1, <3>2
  <2>2. ASSUME NEW m \in f.memberships
        PROVE  <<m.group, personOf[m.student]>>
                 \in {g \in Groups : Group(g)'} \X {p \in People : Person(p)'}
    <3>1. m.student \in keys /\ m.group \in FileGroups(f)
      BY <1>1 DEF MigrationReadable, FileGroups
    <3>2. m.group \in Groups
      BY MigrationFacts, ImportAssumption
    <3> QED
      BY <1>1, <1>6, <1>10, <3>1, <3>2
  <2>3. members \subseteq {g \in Groups : Group(g)'} \X {p \in People : Person(p)'}
    BY <1>2, <1>5, <1>10 DEF DirectoryTypeOK
  <2>4. members' = members \cup (UNION {s.groups \X {personOf[s.key]} : s \in f.students})
                           \cup {<<m.group, personOf[m.student]>> : m \in f.memberships}
    BY <1>2 DEF WriteMigration
  <2> QED
    BY <2>1, <2>2, <2>3, <2>4
<1>12. guardianOf' \subseteq {p \in People : Person(p)'} \X students'
  <2>1. ASSUME NEW g \in f.guardians
        PROVE  <<personOf[g.key], personOf[g.student]>> \in {p \in People : Person(p)'} \X students'
    <3>1. g.key \in keys /\ g.student \in FileStudents(f)
      BY <1>1 DEF MigrationReadable, GuardianKeysOf
    <3> QED
      BY <1>1, <1>6, <1>7, <3>1
  <2>2. guardianOf \subseteq {p \in People : Person(p)'} \X students'
    BY <1>2, <1>5, <1>7 DEF DirectoryTypeOK
  <2>3. guardianOf' = guardianOf \cup {<<personOf[g.key], personOf[g.student]>> : g \in f.guardians}
    BY <1>2 DEF WriteMigration
  <2> QED
    BY <2>1, <2>2, <2>3
<1>13. DirectoryTypeOK'
  BY <1>4, <1>8, <1>10, <1>11, <1>12 DEF DirectoryTypeOK
<1> QED
  BY <1>5, <1>6, <1>7, <1>13

\* Whoever the program had before keeps its school id and its contact.
LEMMA MigrationKeepsNames ==
  ASSUME ImportInv, NEW r \in Importers, NEW f, NEW personOf, NEW idOf,
         Migrates(r, f, personOf, idOf)
  PROVE  /\ schoolId' \in [People -> StudentKeys \cup {NoId}]
         /\ contact' \in [People -> GuardianKeys \cup {NoId}]
         /\ \A p \in People : Person(p) => schoolId'[p] = schoolId[p] /\ contact'[p] = contact[p]
         /\ \A p \in People : contact'[p] # NoId => Person(p)'
<1>1. /\ \A s \in f.students : s.key \in FileStudents(f) /\ s.school \in StudentKeys
      /\ \A g \in f.guardians : g.key \in GuardianKeysOf(f) /\ g.key \in GuardianKeys
  BY MigrationFacts, ImportAssumption DEF FileStudents, GuardianKeysOf
<1>2. /\ schoolId' = [p \in People |->
                    IF \E s \in f.students : personOf[s.key] = p
                    THEN (CHOOSE s \in f.students : personOf[s.key] = p).school
                    ELSE schoolId[p]]
      /\ contact' = [p \in People |->
                   IF \E g \in f.guardians : personOf[g.key] = p
                   THEN (CHOOSE g \in f.guardians : personOf[g.key] = p).key
                   ELSE contact[p]]
  BY DEF Migrates, WriteMigration
<1>3. /\ schoolId \in [People -> StudentKeys \cup {NoId}]
      /\ contact \in [People -> GuardianKeys \cup {NoId}]
      /\ \A p \in People : contact[p] # NoId => Person(p)
  BY DEF ImportInv, ImportTypeOK, KeysNamePeople
<1>4. ASSUME NEW p \in People
      PROVE  /\ schoolId'[p] \in StudentKeys \cup {NoId}
             /\ contact'[p] \in GuardianKeys \cup {NoId}
             /\ Person(p) => schoolId'[p] = schoolId[p] /\ contact'[p] = contact[p]
             /\ contact'[p] # NoId => Person(p)'
  <2>1. /\ \A s \in f.students : personOf[s.key] = p => ~Person(p)
        /\ \A g \in f.guardians : personOf[g.key] = p => ~Person(p) /\ Person(p)'
        /\ Person(p) => Person(p)'
    BY <1>1, MigrationFacts, MigrationKeepsDirectory
  <2> QED
    BY <1>1, <1>2, <1>3, <2>1
<1> QED
  BY <1>2, <1>4

\* Library sets that fit keep the sources and the catalog numbers apart.
LEMMA LibrarySetsApart ==
  ASSUME NothingImportedTwice, Referred, NEW rows, NEW run, LibraryReadable(rows),
         LibraryFree(rows), library' = library \cup LibrarySets(rows, run)
  PROVE  /\ \A x, y \in library' : x.source = y.source => x = y
         /\ \A x, y \in library' : x.catalog = y.catalog /\ x.catalog # NoId => x = y
<1> DEFINE set(i) == [source |-> LibrarySource(rows, i),
catalog |-> CatalogNumber(rows, i),
                      run |-> run]
<1>1. \A x \in LibrarySets(rows, run) : \E i \in DOMAIN rows :
        x = set(i) /\ x.source = LibrarySource(rows, i) /\ x.catalog = CatalogNumber(rows, i)
  BY DEF LibrarySets
<1>2. \A i, j \in DOMAIN rows : LibrarySource(rows, i) = LibrarySource(rows, j) => i = j
  BY DEF LibraryReadable
<1>3. \A i \in DOMAIN rows, x \in library :
        /\ LibrarySource(rows, i) # x.source
        /\ CatalogNumber(rows, i) # NoId => x.catalog # CatalogNumber(rows, i)
  BY DEF LibraryFree, Referred
<1>4. \A i, j \in DOMAIN rows :
        CatalogNumber(rows, i) # NoId /\ CatalogNumber(rows, i) = CatalogNumber(rows, j) => i = j
  <2> SUFFICES ASSUME NEW i \in DOMAIN rows, NEW j \in DOMAIN rows, CatalogNumber(rows, i) # NoId,
                      CatalogNumber(rows, i) = CatalogNumber(rows, j), i # j
               PROVE  FALSE
    OBVIOUS
  <2> DEFINE y == [source |-> LibrarySource(rows, j), catalog |-> CatalogNumber(rows,
  j),
                   run |-> NoId]
  <2>1. y \in {z \in LibrarySets(rows, NoId) : z.source # LibrarySource(rows, i)}
    BY <1>2 DEF LibrarySets
  <2>2. y.catalog # CatalogNumber(rows, i)
    BY <2>1 DEF LibraryFree
  <2> QED
    BY <2>2
<1>5. /\ \A x, y \in library : x.source = y.source => x = y
      /\ \A x, y \in library : x.catalog = y.catalog /\ x.catalog # NoId => x = y
  BY DEF NothingImportedTwice
<1> HIDE DEF set
<1>6. \A x \in LibrarySets(rows, run), y \in library :
        x.source # y.source /\ (x.catalog = y.catalog => x.catalog = NoId)
  BY <1>1, <1>3
<1>7. \A x, y \in LibrarySets(rows, run) :
        x.source = y.source \/ (x.catalog = y.catalog /\ x.catalog # NoId) => x = y
  BY <1>1, <1>2, <1>4
<1> QED
  BY <1>5, <1>6, <1>7

\* New references under keys that were free.
LEMMA ReferencesApart ==
  ASSUME NEW new, references' = references \cup new,
         \A x, y \in references : x.kind = y.kind /\ x.key = y.key => x = y,
         \A x \in new : x.key \notin Keys(x.kind),
         \A x, y \in new : x.kind = y.kind /\ x.key = y.key => x = y
  PROVE  \A x, y \in references' : x.kind = y.kind /\ x.key = y.key => x = y
BY DEF Keys

\* What a migration writes under a unique key.
MigrationReferences(f, personOf) ==
  {Reference("Student", k, personOf[k]) : k \in FileStudents(f)}
    \cup {Reference("Guardian", g.key, personOf[g.key]) : g \in f.guardians}
    \cup {Reference("Asset", a.key, NoId) : a \in f.assets}
    \cup LibraryReferences(f.library)

LEMMA MigrationReferencesFit ==
  ASSUME ImportInv, NEW r \in Importers, NEW f, NEW personOf, NEW idOf,
         Migrates(r, f, personOf, idOf)
  PROVE  /\ references' = references \cup MigrationReferences(f, personOf)
         /\ \A x \in MigrationReferences(f, personOf) :
              /\ x.key \notin Keys(x.kind)
              /\ x.kind = "Student" => x.key \in FileStudents(f) /\ x.entity = personOf[x.key]
              /\ x.kind = "Guardian" => x.key \in GuardianKeysOf(f) /\ x.entity = personOf[x.key]
              /\ x.kind \notin {"Student", "Guardian"} => x.entity = NoId
         /\ \A x, y \in MigrationReferences(f, personOf) :
              x.kind = y.kind /\ x.key = y.key => x = y
<1>1. ASSUME NEW x \in MigrationReferences(f, personOf)
      PROVE  /\ x = [kind |-> x.kind, key |-> x.key, entity |-> x.entity]
             /\ x.key \notin Keys(x.kind)
             /\ x.kind = "Student" => x.key \in FileStudents(f) /\ x.entity = personOf[x.key]
             /\ x.kind = "Guardian" => x.key \in GuardianKeysOf(f) /\ x.entity = personOf[x.key]
             /\ x.kind \notin {"Student", "Guardian"} => x.entity = NoId
  <2> USE DEF Reference
  <2>0. MigrationFits(f)
    BY DEF Migrates
  <2>1. ASSUME NEW k \in FileStudents(f), x = Reference("Student", k, personOf[k])
        PROVE  x.kind = "Student" /\ x.key = k /\ x.entity = personOf[k] /\ k \notin Keys("Student")
    BY <2>0, <2>1 DEF MigrationFits
  <2>2. ASSUME NEW g \in f.guardians, x = Reference("Guardian", g.key, personOf[g.key])
        PROVE  /\ x.kind = "Guardian" /\ x.key = g.key /\ x.entity = personOf[g.key]
               /\ x.key \in GuardianKeysOf(f) /\ x.key \notin Keys("Guardian")
    BY <2>0, <2>2 DEF MigrationFits, GuardianKeysOf
  <2>3. ASSUME NEW a \in f.assets, x = Reference("Asset", a.key, NoId)
        PROVE  x.kind = "Asset" /\ x.entity = NoId /\ x.key \notin Keys("Asset")
    BY <2>0, <2>3 DEF MigrationFits
  <2>4. ASSUME NEW i \in DOMAIN f.library,
               x = Reference("LibraryItem", LibrarySource(f.library, i), NoId)
        PROVE  x.kind = "LibraryItem" /\ x.entity = NoId /\ x.key \notin Keys("LibraryItem")
    BY <2>0, <2>4 DEF MigrationFits, LibraryFree
  <2>5. x = [kind |-> x.kind, key |-> x.key, entity |-> x.entity]
    BY DEF MigrationReferences, LibraryReferences
  <2> QED
    BY <2>1, <2>2, <2>3, <2>4, <2>5 DEF MigrationReferences, LibraryReferences
<1>2. references' = references \cup MigrationReferences(f, personOf)
  BY DEF Migrates, WriteMigration, MigrationReferences
<1>3. \A x, y \in MigrationReferences(f, personOf) : x.kind = y.kind /\ x.key = y.key => x = y
  BY <1>1
<1> QED
  BY <1>1, <1>2, <1>3

\* The instruments of a file: one row of each key, held by a student it lists.
LEMMA MigrationAssets ==
  ASSUME ImportInv, NEW r \in Importers, NEW f, NEW personOf, NEW idOf,
         Migrates(r, f, personOf, idOf)
  PROVE  /\ assets' = assets \cup {ImportedAsset(a, personOf, r) : a \in f.assets}
         /\ \A a \in f.assets :
              LET x == ImportedAsset(a, personOf, r) IN
              /\ x.key = a.key /\ a.key \notin Keys("Asset")
              /\ x.status \in AssetStatus /\ x.holder \in students' \cup {NoId}
              /\ x.status = "ASSIGNED" <=> x.holder # NoId
              /\ x.status = "IN_REPAIR" <=> x.inRepair
         /\ \A a, b \in f.assets : a.key = b.key => a = b
<1>1. assets' = assets \cup {ImportedAsset(a, personOf, r) : a \in f.assets}
  BY DEF Migrates, WriteMigration
<1>2. MigrationReadable(f) /\ f \in MigrationFiles /\ MigrationFits(f)
  BY MigrationFacts DEF Migrates
<1>3. \A a, b \in f.assets : a.key = b.key => a = b
  BY <1>2 DEF MigrationReadable
<1>4. ASSUME NEW a \in f.assets
      PROVE  LET x == ImportedAsset(a, personOf, r) IN
              /\ x.key = a.key /\ a.key \notin Keys("Asset")
              /\ x.status \in AssetStatus /\ x.holder \in students' \cup {NoId}
              /\ x.status = "ASSIGNED" <=> x.holder # NoId
              /\ x.status = "IN_REPAIR" <=> x.inRepair
  <2>1. a.key \notin Keys("Asset")
    BY <1>2 DEF MigrationFits
  <2>2. /\ a.status \in AssetStatus
        /\ a.holder # NoId => a.holder \in FileStudents(f)
    BY <1>2, ImportAssumption DEF MigrationReadable
  <2>3. a.holder # NoId => personOf[a.holder] \in students' /\ personOf[a.holder] # NoId
    BY <2>2, MigrationFacts, MigrationKeepsDirectory, ImportAssumption
  <2> QED
    BY <2>1, <2>2, <2>3 DEF ImportedAsset, ImportedHolder, ImportedStatus, AssetStatus
<1> QED
  BY <1>1, <1>3, <1>4

\* The money a migration brings.
LEMMA MigrationMoney ==
  ASSUME ImportInv, NEW r \in Importers, NEW f, NEW personOf, NEW idOf,
         Migrates(r, f, personOf, idOf)
  PROVE  /\ LInv' /\ OpeningPostedOnce' /\ OpeningsPosted'
         /\ openings' \subseteq [student: StudentKeys, entry: EntryIds, run: Importers]
         /\ balanceRuns' \subseteq Importers
<1> DEFINE keys == FileStudents(f) \cup GuardianKeysOf(f)
           new == OpeningEntries(f.balances, personOf, idOf)
           opened == Openings(f.balances, idOf, r)
<1>1. /\ f \in MigrationFiles /\ MigrationReadable(f)
      /\ SheetReadable(f.balances) /\ SheetStudents(f.balances) \subseteq FileStudents(f)
      /\ Range(f.balances) \subseteq SheetRows
  BY MigrationFacts, ImportAssumption DEF MigrationReadable
<1>2. /\ LInv /\ idOf \in ImportIds(f.balances)
      /\ personOf \in [keys -> People]
  BY DEF ImportInv, Migrates, FreshPeople
<1>3. /\ entries' = entries \cup new
      /\ openings' = openings \cup opened
      /\ balanceRuns' = IF f.balances = <<>> THEN balanceRuns ELSE balanceRuns \cup {r}
      /\ batches' = batches
  BY DEF Migrates, WriteMigration
<1>4. /\ \A e \in new : /\ Posting(e)
                        /\ \E k \in SheetStudents(f.balances) :
                             e.id = idOf[k] /\ e.person = personOf[k]
      /\ \A e \in new, g \in entries : e.id # g.id
      /\ \A e, g \in new : e.id = g.id => e = g
      /\ \A x \in opened :
           /\ x = [student |-> x.student, entry |-> idOf[x.student], run |-> r]
           /\ x.student \in SheetStudents(f.balances) /\ x.student \in StudentKeys
           /\ x.entry \in EntryIds
           /\ \E e \in new : e.id = x.entry
  BY <1>1, <1>2, SheetRowsPosted
<1>5. /\ DirectoryTypeOK' /\ students \subseteq students'
      /\ \A k \in FileStudents(f) : personOf[k] \in students'
  BY MigrationKeepsDirectory
<1>6. /\ \A k \in FileStudents(f) : personOf[k] \notin students
      /\ \A k, l \in FileStudents(f) : personOf[k] = personOf[l] => k = l
      /\ \A p \in students : schoolId'[p] = schoolId[p]
  BY MigrationFacts, MigrationKeepsNames
<1> HIDE DEF new, opened
<1>7. LInv'
  <2>1. \A e \in new : Posting(e) /\ e.person \in students'
    BY <1>1, <1>4, <1>5
  <2>2. batches' \subseteq Batch
    BY <1>2, <1>3 DEF LInv, LedgerTypeOK
  <2> QED
    BY <1>2, <1>3, <1>4, <1>5, <2>1, <2>2, PostingsKeepLInv
<1>8. OpeningsPosted'
  <2>1. \A x \in openings' : \E e \in entries' : e.id = x.entry
    BY <1>3, <1>4 DEF ImportInv, OpeningsPosted
  <2>2. f.balances = <<>> => opened = {}
    <3>1. f.balances = <<>> => DOMAIN f.balances = {}
      OBVIOUS
    <3> QED
      BY <3>1 DEF opened, Openings, Nonzero, Range
  <2>3. balanceRuns' = {} => balanceRuns = {} /\ opened = {}
    BY <1>3, <2>2
  <2> QED
    BY <1>3, <2>1, <2>3 DEF ImportInv, OpeningsPosted
<1>9. OpeningPostedOnce'
  <2>1. /\ \A x \in openings : \E e \in entries : e.id = x.entry
        /\ \A e \in entries : e.person \in students
        /\ IdsNameEntries'
    BY <1>7 DEF ImportInv, OpeningsPosted, LInv, EntriesOfStudents
  <2>2. \A x \in openings, e \in entries' : e.id = x.entry => e \in entries
    BY <1>3, <1>4, <2>1
  <2>3. \A x \in opened, e \in entries' : e.id = x.entry =>
          e \in new /\ x.student \in FileStudents(f) /\ e.person = personOf[x.student]
    <3> SUFFICES ASSUME NEW x \in opened, NEW e \in entries', e.id = x.entry
                 PROVE  e \in new /\ x.student \in FileStudents(f) /\ e.person = personOf[x.student]
      OBVIOUS
    <3>1. e \in new
      BY <1>3, <1>4
    <3>2. PICK k \in SheetStudents(f.balances) : e.id = idOf[k] /\ e.person = personOf[k]
      BY <1>4, <3>1
    <3>3. x.entry = idOf[x.student] /\ x.student \in SheetStudents(f.balances)
      BY <1>4
    <3>4. k = x.student
      BY <1>2, <3>2, <3>3 DEF ImportIds, OneToOne
    <3> QED
      BY <1>1, <3>1, <3>2, <3>3, <3>4
  <2>4. \A x, y \in opened : x.student = y.student => x = y
    BY <1>4
  <2> SUFFICES ASSUME NEW x \in openings', NEW y \in openings', NEW e \in entries',
                      NEW g \in entries', e.id = x.entry, g.id = y.entry, e.person = g.person,
                      x # y
               PROVE  x.run = y.run /\ x.student # y.student
                      /\ schoolId'[e.person] \in {x.student, y.student}
    BY DEF OpeningPostedOnce
  <2>5. CASE x \in openings /\ y \in openings
    BY <1>6, <2>1, <2>2, <2>5 DEF ImportInv, OpeningPostedOnce
  <2>6. CASE x \in opened /\ y \in opened
    BY <1>6, <2>3, <2>4, <2>6
  <2>7. CASE x \in opened /\ y \in openings
    BY <1>6, <2>1, <2>2, <2>3, <2>7
  <2>8. CASE x \in openings /\ y \in opened
    BY <1>6, <2>1, <2>2, <2>3, <2>8
  <2> QED
    BY <1>3, <2>5, <2>6, <2>7, <2>8
<1>10. openings' \subseteq [student: StudentKeys, entry: EntryIds, run: Importers]
  BY <1>3, <1>4 DEF ImportInv, ImportTypeOK
<1>11. balanceRuns' \subseteq Importers
  BY <1>3 DEF ImportInv, ImportTypeOK
<1> QED
  BY <1>7, <1>8, <1>9, <1>10, <1>11

\* A migration keeps the invariant.
LEMMA MigrationKeepsInv ==
  ASSUME ImportInv, NEW r \in Importers, NEW f, NEW personOf, NEW idOf,
         Migrates(r, f, personOf, idOf)
  PROVE  ImportInv'
<1>1. /\ LInv' /\ OpeningPostedOnce' /\ OpeningsPosted'
      /\ openings' \subseteq [student: StudentKeys, entry: EntryIds, run: Importers]
      /\ balanceRuns' \subseteq Importers
  BY MigrationMoney
<1>2. /\ students \subseteq students'
      /\ \A k \in FileStudents(f) : personOf[k] \in students'
      /\ \A p \in People : Person(p) => Person(p)'
      /\ \A k \in FileStudents(f) \cup GuardianKeysOf(f) : Person(personOf[k])'
  BY MigrationKeepsDirectory
<1>3. /\ schoolId' \in [People -> StudentKeys \cup {NoId}]
      /\ contact' \in [People -> GuardianKeys \cup {NoId}]
      /\ \A p \in People : Person(p) => schoolId'[p] = schoolId[p] /\ contact'[p] = contact[p]
      /\ \A p \in People : contact'[p] # NoId => Person(p)'
  BY MigrationKeepsNames
<1>4. /\ \A k \in FileStudents(f) \cup GuardianKeysOf(f) :
           personOf[k] \in People /\ personOf[k] \notin students
      /\ \A k, l \in FileStudents(f) \cup GuardianKeysOf(f) : personOf[k] = personOf[l] => k = l
      /\ students \subseteq People /\ \A p \in students : Person(p)
  BY MigrationFacts
<1>5. /\ references' = references \cup MigrationReferences(f, personOf)
      /\ \A x \in MigrationReferences(f, personOf) :
           /\ x.key \notin Keys(x.kind)
           /\ x.kind = "Student" => x.key \in FileStudents(f) /\ x.entity = personOf[x.key]
           /\ x.kind = "Guardian" => x.key \in GuardianKeysOf(f) /\ x.entity = personOf[x.key]
      /\ \A x, y \in MigrationReferences(f, personOf) : x.kind = y.kind /\ x.key = y.key => x = y
  BY MigrationReferencesFit
<1>6. /\ assets' = assets \cup {ImportedAsset(a, personOf, r) : a \in f.assets}
      /\ \A a \in f.assets :
              LET x == ImportedAsset(a, personOf, r) IN
              /\ x.key = a.key /\ a.key \notin Keys("Asset")
              /\ x.status \in AssetStatus /\ x.holder \in students' \cup {NoId}
              /\ x.status = "ASSIGNED" <=> x.holder # NoId
              /\ x.status = "IN_REPAIR" <=> x.inRepair
      /\ \A a, b \in f.assets : a.key = b.key => a = b
  BY MigrationAssets
<1>7. ImportTypeOK'
  <2>1. \A x \in assets' : x.status \in AssetStatus /\ x.holder \in students' \cup {NoId}
    BY <1>2, <1>6 DEF ImportInv, ImportTypeOK
  <2> QED
    BY <1>1, <1>3, <2>1 DEF ImportTypeOK
<1>8. ImportedCustodyTrue'
  BY <1>6 DEF ImportInv, ImportedCustodyTrue
<1>9. NothingImportedTwice'
  <2>1. \A x, y \in references' : x.kind = y.kind /\ x.key = y.key => x = y
    BY <1>5, ReferencesApart DEF ImportInv, NothingImportedTwice
  <2>2. \A x, y \in assets' : x.key = y.key => x = y
    <3>1. \A x \in assets : x.key \in Keys("Asset")
      BY DEF ImportInv, Referred
    <3> QED
      BY <1>6, <3>1 DEF ImportInv, NothingImportedTwice
  <2>3. /\ \A x, y \in library' : x.source = y.source => x = y
        /\ \A x, y \in library' : x.catalog = y.catalog /\ x.catalog # NoId => x = y
    <3>1. LibraryReadable(f.library) /\ LibraryFree(f.library)
      BY MigrationFacts DEF Migrates, MigrationFits, MigrationReadable
    <3>2. library' = library \cup LibrarySets(f.library, r)
      BY DEF Migrates, WriteMigration
    <3> QED
      BY <3>1, <3>2, LibrarySetsApart DEF ImportInv
  <2> QED
    BY <2>1, <2>2, <2>3 DEF NothingImportedTwice
<1>10. Referred'
  <2>1. ASSUME NEW x \in assets' PROVE x.key \in Keys("Asset")'
    <3>1. CASE x \in assets
      BY <1>5, <3>1 DEF ImportInv, Referred, Keys
    <3>2. ASSUME NEW a \in f.assets, x = ImportedAsset(a, personOf, r)
          PROVE  x.key \in Keys("Asset")'
      <4>1. Reference("Asset", a.key, NoId) \in references'
        BY <1>5 DEF MigrationReferences
      <4> QED
        BY <1>6, <3>2, <4>1 DEF Keys, Reference
    <3> QED
      BY <1>6, <3>1, <3>2
  <2>2. ASSUME NEW x \in library' PROVE x.source \in Keys("LibraryItem")'
    <3>1. library' = library \cup LibrarySets(f.library, r)
      BY DEF Migrates, WriteMigration
    <3>2. CASE x \in library
      BY <1>5, <3>2 DEF ImportInv, Referred, Keys
    <3>3. ASSUME NEW i \in DOMAIN f.library, x.source = LibrarySource(f.library, i)
          PROVE  x.source \in Keys("LibraryItem")'
      <4>1. Reference("LibraryItem", x.source, NoId) \in references'
        BY <1>5, <3>3 DEF MigrationReferences, LibraryReferences
      <4> QED
        BY <4>1 DEF Keys, Reference
    <3> QED
      BY <3>1, <3>2, <3>3 DEF LibrarySets
  <2> QED
    BY <2>1, <2>2 DEF Referred
<1>11. KeysNamePeople'
  <2>1. /\ \A x \in references : x.kind = "Student" => x.entity \in students
        /\ \A x \in references : x.kind = "Guardian" => x.entity \in People /\ Person(x.entity)
        /\ \A x, y \in references :
             x.kind = "Student" /\ y.kind = "Student" /\ x.entity = y.entity => x = y
    BY DEF ImportInv, KeysNamePeople
  <2>2. \A x \in references' : x.kind = "Student" => x.entity \in students'
    BY <1>2, <1>5, <2>1
  <2>3. \A x \in references' : x.kind = "Guardian" => x.entity \in People /\ Person(x.entity)'
    BY <1>2, <1>4, <1>5, <2>1
  <2>4. \A x, y \in references' :
          x.kind = "Student" /\ y.kind = "Student" /\ x.entity = y.entity => x = y
    BY <1>4, <1>5, <2>1
  <2> QED
    BY <1>3, <2>2, <2>3, <2>4 DEF KeysNamePeople, Person
<1>12. ImportersInv'
  BY <1>2, <1>3, <1>4, ImporterLeaves DEF Migrates
<1> QED
  BY <1>1, <1>7, <1>8, <1>9, <1>10, <1>11, <1>12 DEF ImportInv

-----------------------------------------------------------------------------
\* The other transactions, and what staff enter by hand.

\* What a step leaves alone keeps its part of the invariant.
LEMMA ImportsUntouched ==
  ASSUME ImportInv, UNCHANGED <<references, assets, library>>,
         students \subseteq students'
  PROVE  /\ ImportedCustodyTrue' /\ NothingImportedTwice' /\ Referred'
         /\ \A x \in assets' : x.status \in AssetStatus /\ x.holder \in students' \cup {NoId}
         /\ \A x \in references' : x.kind = "Student" => x.entity \in students'
<1> USE DEF ImportInv
<1>1. ImportedCustodyTrue'
  BY DEF ImportedCustodyTrue
<1>2. NothingImportedTwice'
  BY DEF NothingImportedTwice
<1>3. Referred'
  BY DEF Referred, Keys
<1>4. \A x \in assets' : x.status \in AssetStatus /\ x.holder \in students' \cup {NoId}
  BY DEF ImportTypeOK
<1>5. \A x \in references' : x.kind = "Student" => x.entity \in students'
  BY DEF KeysNamePeople
<1> QED
  BY <1>1, <1>2, <1>3, <1>4, <1>5

\* A request that has read and decided.
LEMMA PlanKeepsInv ==
  ASSUME ImportInv, NEW r \in Importers, NEW i, ImporterInv(i),
         importer' = [importer EXCEPT ![r] = i],
         UNCHANGED <<directoryVars, ledgerVars, recordVars>>
  PROVE  ImportInv'
<1> USE DEF directoryVars, ledgerVars, recordVars
<1>1. LInv'
  BY DEF ImportInv, LInv, DirectoryTypeOK, Person, Group, LedgerTypeOK, IdsNameEntries,
         ReversalsRefer, ReversedOnce, EntriesOfStudents
<1>2. ImportTypeOK' /\ KeysNamePeople'
  BY DEF ImportInv, ImportTypeOK, KeysNamePeople, Person
<1>3. ImportedCustodyTrue' /\ NothingImportedTwice' /\ Referred'
  BY ImportsUntouched
<1>4. OpeningPostedOnce' /\ OpeningsPosted'
  BY MoneyUntouched
<1>5. ImportersInv'
  <2>1. /\ DOMAIN importer' = Importers /\ importer'[r] = i
        /\ \A q \in Importers \ {r} : importer'[q] = importer[q]
        /\ \A q \in Importers : ImporterInv(importer[q])
    BY DEF ImportInv, ImportersInv
  <2>2. ASSUME NEW q \in Importers PROVE ImporterInv(importer[q])'
    <3>1. PICK j : j = importer'[q] /\ ImporterInv(j)
      BY <2>1
    <3>2. ImporterInv(j)'
      BY <3>1, OthersKeep DEF Person
    <3> QED
      BY <3>1, <3>2 DEF ImporterInv, TwoIds
  <2> QED
    BY <2>1, <2>2 DEF ImportersInv
<1> QED
  BY <1>1, <1>2, <1>3, <1>4, <1>5 DEF ImportInv

LEMMA CheckKeepsInv ==
  ASSUME ImportInv, NEW r \in Importers, NEW f \in MigrationFiles, CheckDestination(r,
         f)
  PROVE  ImportInv'
<1>1. ImporterInv([pc |-> "migrate", file |-> f])
  BY DEF ImporterInv, CheckDestination
<1> QED
  BY <1>1, PlanKeepsInv DEF CheckDestination

LEMMA PlanGuardiansKeepsInv ==
  ASSUME ImportInv, NEW r \in Importers, NEW f \in GuardianFiles, PlanGuardians(r, f)
  PROVE  ImportInv'
<1> DEFINE named == [k \in {g.student : g \in f} |-> CHOOSE s \in StudentsUnder(k) : TRUE]
           known == [k \in {g.key : g \in f} |-> GuardiansUnder(k)]
           i == [pc |-> "guardians", file |-> f, links |-> guardianOf, student |-> named,
                 known |-> known]
<1>1. \A k : StudentsUnder(k) \subseteq students
  BY DEF StudentsUnder, ImportInv, KeysNamePeople
<1>2. named \in [{g.student : g \in f} -> students]
  BY <1>1 DEF PlanGuardians
<1>3. \A k \in GuardianKeys : GuardiansUnder(k) \subseteq {p \in People : Person(p)}
  BY ImportAssumption DEF GuardiansUnder, ImportInv, KeysNamePeople
<1>4. \A g \in f : g.key \in GuardianKeys
  BY ImportAssumption
<1>5. known \in [{g.key : g \in f} -> SUBSET {p \in People : Person(p)}]
  BY <1>3, <1>4
<1> HIDE DEF named, known
<1>6. ImporterInv(i)
  BY <1>2, <1>5 DEF ImporterInv
<1>7. importer' = [importer EXCEPT ![r] = i]
  BY DEF PlanGuardians, named, known
<1> HIDE DEF i
<1> QED
  BY <1>6, <1>7, PlanKeepsInv DEF PlanGuardians

\* A sheet that means one student by two ids does so by its CutTime id and its
\* school id: references are of different students, and so are school ids asked for.
LEMMA PlanBalancesKeepsInv ==
  ASSUME ImportInv, NEW r \in Importers, NEW sheet \in BalanceSheets, PlanBalances(r,
         sheet)
  PROVE  ImportInv'
<1> DEFINE named == [k \in SheetStudents(sheet) |-> CHOOSE s \in StudentsUnder(k) : TRUE]
           i == [pc |-> "balances", sheet |-> sheet, student |-> named]
<1>1. /\ \A k : StudentsUnder(k) \subseteq students
      /\ \A x, y \in references :
           x.kind = "Student" /\ y.kind = "Student" /\ x.entity = y.entity => x = y
  BY DEF StudentsUnder, ImportInv, KeysNamePeople
<1>2. \A k \in SheetStudents(sheet) : named[k] \in StudentsUnder(k)
  BY DEF PlanBalances
<1>3. named \in [SheetStudents(sheet) -> students]
  BY <1>1, <1>2
<1>4. \A k \in SheetStudents(sheet) :
        \/ \E x \in references : x.kind = "Student" /\ x.key = k /\ x.entity = named[k]
        \/ schoolId[named[k]] = k
  BY <1>2 DEF StudentsUnder
<1>5. TwoIds(named)
  <2> HIDE DEF named
  <2>1. DOMAIN named = SheetStudents(sheet)
    BY <1>3
  <2> QED
    BY <1>1, <1>4, <2>1 DEF TwoIds
<1> HIDE DEF named
<1>6. ImporterInv(i)
  BY <1>3, <1>5 DEF ImporterInv, PlanBalances
<1>7. importer' = [importer EXCEPT ![r] = i]
  BY DEF PlanBalances, named
<1> HIDE DEF i
<1> QED
  BY <1>6, <1>7, PlanKeepsInv DEF PlanBalances

LEMMA PlanLibraryKeepsInv ==
  ASSUME ImportInv, NEW r \in Importers, NEW rows, PlanLibrary(r, rows)
  PROVE  ImportInv'
<1>1. ImporterInv([pc |-> "library", rows |-> rows])
  BY DEF ImporterInv, PlanLibrary
<1> QED
  BY <1>1, PlanKeepsInv DEF PlanLibrary

\* A migration that does not fit is rolled back.
LEMMA CommitMigrationKeepsInv ==
  ASSUME ImportInv, NEW r \in Importers, CommitMigration(r)
  PROVE  ImportInv'
<1>1. CASE MigrationFits(importer[r].file)
  <2>1. PICK f : f = importer[r].file
    OBVIOUS
  <2>2. PICK personOf \in [FileStudents(f) \cup {g.key : g \in f.guardians} -> FreshPeople],
             idOf \in ImportIds(f.balances) :
               OneToOne(personOf) /\ WriteMigration(r, f, personOf, idOf)
    BY <1>1, <2>1 DEF CommitMigration
  <2>3. Migrates(r, f, personOf, idOf)
    BY <1>1, <2>1, <2>2 DEF CommitMigration, Migrates, GuardianKeysOf
  <2> QED
    BY <2>3, MigrationKeepsInv
<1>2. CASE ~MigrationFits(importer[r].file)
  <2>1. UNCHANGED <<directoryVars, ledgerVars, recordVars>> /\ Leave(r)
    BY <1>2 DEF CommitMigration
  <2>2. ImporterInv(Idle)
    BY DEF ImporterInv, Idle
  <2> QED
    BY <2>1, <2>2, PlanKeepsInv DEF Leave
<1> QED
  BY <1>1, <1>2

\* A step that posts nothing, takes no student and no person away and leaves school ids
\* of students alone.
LEMMA NothingPosted ==
  ASSUME ImportInv, UNCHANGED <<ledgerVars, openings, balanceRuns>>,
         DirectoryTypeOK', students \subseteq students',
         \A p \in students : schoolId'[p] = schoolId[p]
  PROVE  LInv' /\ OpeningPostedOnce' /\ OpeningsPosted'
<1>1. LInv'
  BY DEF ImportInv, LInv, ledgerVars, LedgerTypeOK, IdsNameEntries, ReversalsRefer,
     ReversedOnce,
         EntriesOfStudents
<1>2. OpeningPostedOnce' /\ OpeningsPosted'
  BY MoneyUntouched DEF ledgerVars
<1> QED
  BY <1>1, <1>2

LEMMA CommitGuardiansKeepsInv ==
  ASSUME ImportInv, NEW r \in Importers, CommitGuardians(r)
  PROVE  ImportInv'
<1>0. /\ UNCHANGED <<students, groupStatus, members, ledgerVars, schoolId, assets, library,
                     openings, balanceRuns>>
      /\ Leave(r)
  BY DEF CommitGuardians
<1>1. CASE UNCHANGED <<personStatus, contact, guardianOf, references>>
  <2>1. UNCHANGED <<directoryVars, ledgerVars, recordVars>>
    BY <1>0, <1>1 DEF directoryVars, recordVars
  <2>2. ImporterInv(Idle)
    BY DEF ImporterInv, Idle
  <2> QED
    BY <1>0, <2>1, <2>2, PlanKeepsInv DEF Leave
<1>2. ASSUME NEW personOf \in [NewGuardians(r) -> FreshPeople],
             OneToOne(personOf), GuardiansFit(r),
             personStatus' = [p \in People |->
                                IF p \in Range(personOf) THEN "ACTIVE" ELSE personStatus[p]],
             contact' = [p \in People |->
                           IF p \in Range(personOf)
                           THEN CHOOSE k \in NewGuardians(r) : personOf[k] = p ELSE contact[p]],
             guardianOf' = guardianOf \cup GuardianLinks(r, personOf),
             references' = references \cup
               {Reference("Guardian", k, personOf[k]) : k \in NewGuardians(r)}
      PROVE  ImportInv'
  <2> DEFINE file == importer[r].file
             known == importer[r].known
             named == importer[r].student
             new == {Reference("Guardian", k, personOf[k]) : k \in NewGuardians(r)}
  <2>1. /\ file \in GuardianFiles
        /\ named \in [{g.student : g \in file} -> students]
        /\ known \in [{g.key : g \in file} -> SUBSET {p \in People : Person(p)}]
    BY DEF CommitGuardians, ImportInv, ImportersInv, ImporterInv
  <2>2. NewGuardians(r) \subseteq GuardianKeys
    BY <2>1, ImportAssumption DEF NewGuardians
  <2>3. /\ DirectoryTypeOK
        /\ \A k \in NewGuardians(r) : personOf[k] \in People /\ ~Person(personOf[k])
        /\ \A k \in NewGuardians(r) : personOf[k] \in Range(personOf)
        /\ \A p \in Range(personOf) : \E k \in NewGuardians(r) : personOf[k] = p
    BY DEF ImportInv, LInv, FreshPeople, Range
  <2>4. /\ \A p \in People : Person(p) => Person(p)'
        /\ \A k \in NewGuardians(r) : Person(personOf[k])'
    BY <1>2, <2>3 DEF Person
  <2>5. personStatus' \in [People -> RecordStatus]
    BY <1>2, <2>3 DEF DirectoryTypeOK, RecordStatus
  <2>6. GuardianLinks(r, personOf) \subseteq {p \in People : Person(p)'} \X students
    <3>1. ASSUME NEW g \in file, g.key \notin NewGuardians(r)
          PROVE  <<CHOOSE p \in known[g.key] : TRUE, named[g.student]>>
                   \in {p \in People : Person(p)'} \X students
      <4>1. known[g.key] # {} /\ known[g.key] \subseteq {p \in People : Person(p)}
        BY <2>1, <3>1 DEF NewGuardians
      <4> QED
        BY <2>1, <2>4, <4>1
    <3>2. ASSUME NEW g \in file, g.key \in NewGuardians(r)
          PROVE  <<personOf[g.key], named[g.student]>> \in {p \in People : Person(p)'} \X students
      BY <2>1, <2>3, <2>4, <3>2
    <3> QED
      BY <3>1, <3>2 DEF GuardianLinks, KnownLinks
  <2>7. DirectoryTypeOK'
    <3>1. students' \subseteq {p \in People : Person(p)'}
      BY <1>0, <2>3, <2>4 DEF DirectoryTypeOK
    <3>2. groupStatus' \in [Groups -> RecordStatus]
      BY <1>0, <2>3 DEF DirectoryTypeOK
    <3>3. members' \subseteq {g \in Groups : Group(g)'} \X {p \in People : Person(p)'}
      BY <1>0, <2>3, <2>4 DEF DirectoryTypeOK, Group
    <3>4. guardianOf' \subseteq {p \in People : Person(p)'} \X students'
      BY <1>0, <1>2, <2>3, <2>4, <2>6 DEF DirectoryTypeOK
    <3> QED
      BY <2>5, <3>1, <3>2, <3>3, <3>4 DEF DirectoryTypeOK
  <2>8. LInv' /\ OpeningPostedOnce' /\ OpeningsPosted'
    BY <1>0, <2>7, NothingPosted
  <2>9. /\ contact' \in [People -> GuardianKeys \cup {NoId}]
        /\ \A p \in People : contact'[p] # NoId => Person(p)'
    <3>1. ASSUME NEW p \in People
          PROVE  contact'[p] \in GuardianKeys \cup {NoId} /\ (contact'[p] # NoId => Person(p)')
      <4>1. CASE p \in Range(personOf)
        BY <1>2, <2>2, <2>3, <2>4, <4>1
      <4>2. CASE p \notin Range(personOf)
        BY <1>2, <2>4, <4>2 DEF ImportInv, ImportTypeOK, KeysNamePeople
      <4> QED
        BY <4>1, <4>2
    <3> QED
      BY <1>2, <3>1
  <2>10. ImportTypeOK'
    BY <1>0, <2>9 DEF ImportInv, ImportTypeOK
  <2>11. ImportedCustodyTrue'
    BY <1>0 DEF ImportInv, ImportedCustodyTrue
  <2>12. \A x \in new : /\ x.kind = "Guardian" /\ x.key \in NewGuardians(r)
                        /\ x = Reference("Guardian", x.key, personOf[x.key])
                        /\ x.entity = personOf[x.key]
                        /\ x.key \notin Keys(x.kind)
    BY <1>2 DEF Reference, GuardiansFit
  <2> HIDE DEF new
  <2>13. references' = references \cup new
    BY <1>2 DEF new
  <2>14. NothingImportedTwice'
    <3>1. \A x, y \in references' : x.kind = y.kind /\ x.key = y.key => x = y
      BY <2>12, <2>13, ReferencesApart DEF ImportInv, NothingImportedTwice
    <3> QED
      BY <1>0, <3>1 DEF ImportInv, NothingImportedTwice
  <2>15. Referred'
    BY <1>0, <2>13 DEF ImportInv, Referred, Keys
  <2>16. KeysNamePeople'
    <3>1. /\ \A x \in references' : x.kind = "Student" => x.entity \in students'
          /\ \A x, y \in references' :
               x.kind = "Student" /\ y.kind = "Student" /\ x.entity = y.entity => x = y
      BY <1>0, <2>12, <2>13 DEF ImportInv, KeysNamePeople
    <3>2. \A x \in references' : x.kind = "Guardian" => x.entity \in People /\ Person(x.entity)'
      BY <2>3, <2>4, <2>12, <2>13 DEF ImportInv, KeysNamePeople
    <3> QED
      BY <2>9, <3>1, <3>2 DEF KeysNamePeople, Person
  <2>17. ImportersInv'
    BY <1>0, <2>4, ImporterLeaves
  <2> QED
    BY <2>8, <2>10, <2>11, <2>14, <2>15, <2>16, <2>17 DEF ImportInv
<1> QED
  BY <1>1, <1>2 DEF CommitGuardians

LEMMA CommitBalancesKeepsInv ==
  ASSUME ImportInv, NEW r \in Importers, CommitBalances(r)
  PROVE  ImportInv'
<1> USE DEF directoryVars
<1>0. /\ UNCHANGED <<directoryVars, batches, schoolId, contact, references, assets, library>>
      /\ Leave(r)
  BY DEF CommitBalances
<1>1. CASE ~FirstBalances(importer[r].sheet)
  <2>1. UNCHANGED <<directoryVars, ledgerVars, recordVars>>
    BY <1>0, <1>1 DEF CommitBalances, ledgerVars, recordVars
  <2>2. ImporterInv(Idle)
    BY DEF ImporterInv, Idle
  <2> QED
    BY <1>0, <2>1, <2>2, PlanKeepsInv DEF Leave
<1>2. CASE FirstBalances(importer[r].sheet)
  <2>1. PICK sheet, named : sheet = importer[r].sheet /\ named = importer[r].student
    OBVIOUS
  <2> DEFINE opened(idOf) == Openings(sheet, idOf, r)
  <2>2. PICK idOf \in ImportIds(sheet) :
          /\ entries' = entries \cup OpeningEntries(sheet, named, idOf)
          /\ openings' = openings \cup Openings(sheet, idOf, r)
          /\ balanceRuns' = balanceRuns \cup {r}
    BY <1>2, <2>1 DEF CommitBalances
  <2>3. /\ sheet \in BalanceSheets /\ SheetReadable(sheet)
        /\ named \in [SheetStudents(sheet) -> students]
        /\ TwoIds(named)
    BY <2>1 DEF CommitBalances, ImportInv, ImportersInv, ImporterInv
  <2>4. LInv /\ students \subseteq People /\ \A p \in students : Person(p)
    BY DEF ImportInv, LInv, DirectoryTypeOK
  <2>5. /\ \A e \in OpeningEntries(sheet, named, idOf) :
             /\ Posting(e)
             /\ \E k \in SheetStudents(sheet) : e.id = idOf[k] /\ e.person = named[k]
        /\ \A e \in OpeningEntries(sheet, named, idOf), f \in entries : e.id # f.id
        /\ \A e, f \in OpeningEntries(sheet, named, idOf) : e.id = f.id => e = f
        /\ \A x \in Openings(sheet, idOf, r) :
             /\ x = [student |-> x.student, entry |-> idOf[x.student], run |-> r]
             /\ x.student \in SheetStudents(sheet) /\ x.student \in StudentKeys
             /\ x.entry \in EntryIds
             /\ \E e \in OpeningEntries(sheet, named, idOf) : e.id = x.entry
    <3>1. Range(sheet) \subseteq SheetRows
      BY <2>3, ImportAssumption
    <3> QED
      BY <2>2, <2>3, <2>4, <3>1, SheetRowsPosted
  <2>6. LInv'
    <3>1. \A e \in OpeningEntries(sheet, named, idOf) : Posting(e) /\ e.person \in students
      BY <2>3, <2>5
    <3>2. DirectoryTypeOK' /\ students' = students
      BY <1>0, <2>4, DirectoryAlone DEF LInv
    <3>3. batches' \subseteq Batch
      BY <1>0, <2>4 DEF LInv, LedgerTypeOK
    <3> QED
      BY <2>2, <2>4, <2>5, <3>1, <3>2, <3>3, PostingsKeepLInv
  <2>7. openings = {}
    BY <1>2 DEF FirstBalances, ImportInv, OpeningsPosted
  <2>8. OpeningsPosted'
    BY <2>2, <2>5, <2>7 DEF OpeningsPosted
  <2>9. OpeningPostedOnce'
    <3> SUFFICES ASSUME NEW x \in openings', NEW y \in openings', NEW e \in entries',
                        NEW f \in entries', e.id = x.entry, f.id = y.entry, e.person = f.person,
                        x # y
                 PROVE  x.run = y.run /\ x.student # y.student
                        /\ schoolId'[e.person] \in {x.student, y.student}
      BY DEF OpeningPostedOnce
    <3>1. x \in Openings(sheet, idOf, r) /\ y \in Openings(sheet, idOf, r)
      BY <2>2, <2>7
    <3>2. e \in OpeningEntries(sheet, named, idOf) /\ f \in OpeningEntries(sheet, named, idOf)
      BY <2>2, <2>5, <3>1
    <3>3. PICK k, l \in SheetStudents(sheet) :
            e.id = idOf[k] /\ e.person = named[k] /\ f.id = idOf[l] /\ f.person = named[l]
      BY <2>5, <3>2
    <3>4. /\ x = [student |-> x.student, entry |-> idOf[x.student], run |-> r]
          /\ y = [student |-> y.student, entry |-> idOf[y.student], run |-> r]
          /\ x.student \in SheetStudents(sheet) /\ y.student \in SheetStudents(sheet)
      BY <2>5, <3>1
    <3>5. k = x.student /\ l = y.student
      <4>1. x.entry = idOf[x.student] /\ y.entry = idOf[y.student]
        BY <3>4
      <4>2. \A m, n \in SheetStudents(sheet) : idOf[m] = idOf[n] => m = n
        BY <2>2 DEF ImportIds, OneToOne
      <4> QED
        BY <3>3, <3>4, <4>1, <4>2
    <3>6. x.run = y.run /\ x.student # y.student
      BY <3>4
    <3>7. schoolId[named[k]] \in {k, l}
      BY <2>3, <3>3, <3>5, <3>6 DEF TwoIds
    <3> QED
      BY <1>0, <3>3, <3>5, <3>6, <3>7
  <2>10. ImportTypeOK'
    BY <1>0, <2>2, <2>5 DEF ImportInv, ImportTypeOK
  <2>11. KeysNamePeople'
    BY <1>0 DEF ImportInv, KeysNamePeople, Person
  <2>12. ImportedCustodyTrue' /\ NothingImportedTwice' /\ Referred'
    BY <1>0, ImportsUntouched
  <2>13. ImportersInv'
    BY <1>0, ImporterLeaves DEF Person
  <2> QED
    BY <2>6, <2>8, <2>9, <2>10, <2>11, <2>12, <2>13 DEF ImportInv
<1> QED
  BY <1>1, <1>2

LEMMA CommitLibraryKeepsInv ==
  ASSUME ImportInv, NEW r \in Importers, CommitLibrary(r)
  PROVE  ImportInv'
<1> USE DEF directoryVars, ledgerVars
<1>0. /\ UNCHANGED <<directoryVars, ledgerVars, schoolId, contact, assets, openings, balanceRuns>>
      /\ Leave(r)
  BY DEF CommitLibrary
<1>1. PICK rows : rows = importer[r].rows
  OBVIOUS
<1>2. CASE ~LibraryFree(rows)
  <2>1. UNCHANGED <<directoryVars, ledgerVars, recordVars>>
    BY <1>0, <1>1, <1>2 DEF CommitLibrary, recordVars
  <2>2. ImporterInv(Idle)
    BY DEF ImporterInv, Idle
  <2> QED
    BY <1>0, <2>1, <2>2, PlanKeepsInv DEF Leave
<1>3. CASE LibraryFree(rows)
  <2>1. /\ library' = library \cup LibrarySets(rows, r)
        /\ references' = references \cup LibraryReferences(rows)
    BY <1>1, <1>3 DEF CommitLibrary
  <2>2. LibraryReadable(rows)
    BY <1>1 DEF CommitLibrary, ImportInv, ImportersInv, ImporterInv
  <2>3. \A x \in LibraryReferences(rows) :
          /\ x = Reference("LibraryItem", x.key, NoId)
          /\ x.kind = "LibraryItem" /\ x.key \notin Keys("LibraryItem")
    BY <1>3 DEF LibraryReferences, Reference, LibraryFree
  <2>4. LInv' /\ OpeningPostedOnce' /\ OpeningsPosted'
    BY <1>0, DirectoryAlone, NothingPosted DEF ImportInv, LInv
  <2>5. ImportTypeOK' /\ ImportedCustodyTrue'
    BY <1>0 DEF ImportInv, ImportTypeOK, ImportedCustodyTrue
  <2>6. NothingImportedTwice'
    <3>1. \A x, y \in references' : x.kind = y.kind /\ x.key = y.key => x = y
      <4>1. /\ \A x \in LibraryReferences(rows) : x.key \notin Keys(x.kind)
            /\ \A x, y \in LibraryReferences(rows) : x.kind = y.kind /\ x.key = y.key => x = y
        BY <2>3
      <4>2. \A x, y \in references : x.kind = y.kind /\ x.key = y.key => x = y
        BY DEF ImportInv, NothingImportedTwice
      <4> QED
        BY <2>1, <4>1, <4>2, ReferencesApart
    <3>2. /\ \A x, y \in library' : x.source = y.source => x = y
          /\ \A x, y \in library' : x.catalog = y.catalog /\ x.catalog # NoId => x = y
      BY <1>3, <2>1, <2>2, LibrarySetsApart DEF ImportInv
    <3> QED
      BY <1>0, <3>1, <3>2 DEF ImportInv, NothingImportedTwice
  <2>7. Referred'
    <3>1. ASSUME NEW x \in library' PROVE x.source \in Keys("LibraryItem")'
      <4>1. CASE x \in library
        BY <2>1, <4>1 DEF ImportInv, Referred, Keys
      <4>2. ASSUME NEW i \in DOMAIN rows, x.source = LibrarySource(rows, i)
            PROVE  x.source \in Keys("LibraryItem")'
        <5>1. Reference("LibraryItem", x.source, NoId) \in references'
          BY <2>1, <4>2 DEF LibraryReferences
        <5> QED
          BY <5>1 DEF Keys, Reference
      <4> QED
        BY <2>1, <4>1, <4>2 DEF LibrarySets
    <3>2. \A x \in assets' : x.key \in Keys("Asset")'
      BY <1>0, <2>1 DEF ImportInv, Referred, Keys
    <3> QED
      BY <3>1, <3>2 DEF Referred
  <2>8. KeysNamePeople'
    BY <1>0, <2>1, <2>3 DEF ImportInv, KeysNamePeople, Person
  <2>9. ImportersInv'
    BY <1>0, ImporterLeaves DEF Person
  <2> QED
    BY <2>4, <2>5, <2>6, <2>7, <2>8, <2>9 DEF ImportInv
<1> QED
  BY <1>2, <1>3

\* Nobody plans or commits.
LEMMA ImportersStay ==
  ASSUME ImportInv, UNCHANGED importer, students \subseteq students',
         \A p \in People : Person(p) => Person(p)',
         \A p \in students : schoolId'[p] = schoolId[p]
  PROVE  ImportersInv'
<1>1. ASSUME NEW q \in Importers PROVE ImporterInv(importer[q])'
  <2>1. PICK i : i = importer[q] /\ ImporterInv(i)
    BY DEF ImportInv, ImportersInv
  <2>2. ImporterInv(i)'
    BY <2>1, OthersKeep
  <2> QED
    BY <2>1, <2>2 DEF ImporterInv, TwoIds
<1> QED
  BY <1>1 DEF ImportInv, ImportersInv

\* What staff enter by hand about people.
LEMMA EntryKeepsInv ==
  ASSUME ImportInv, DirectoryTypeOK', students \subseteq students',
         UNCHANGED <<ledgerVars, references, assets, library, openings, balanceRuns, importer>>,
         schoolId' \in [People -> StudentKeys \cup {NoId}],
         contact' \in [People -> GuardianKeys \cup {NoId}],
         \A p \in People : Person(p) => Person(p)',
         \A p \in students : schoolId'[p] = schoolId[p],
         \A p \in People : contact'[p] # NoId => Person(p)'
  PROVE  ImportInv'
<1>1. LInv' /\ OpeningPostedOnce' /\ OpeningsPosted'
  BY NothingPosted
<1>2. /\ ImportedCustodyTrue' /\ NothingImportedTwice' /\ Referred'
      /\ \A x \in assets' : x.status \in AssetStatus /\ x.holder \in students' \cup {NoId}
      /\ \A x \in references' : x.kind = "Student" => x.entity \in students'
  BY ImportsUntouched
<1>3. ImportTypeOK'
  BY <1>2 DEF ImportInv, ImportTypeOK
<1>4. KeysNamePeople'
  BY <1>2 DEF ImportInv, KeysNamePeople, Person
<1>5. ImportersInv'
  BY ImportersStay
<1> QED
  BY <1>1, <1>2, <1>3, <1>4, <1>5 DEF ImportInv

LEMMA EnterStudentKeepsInv ==
  ASSUME ImportInv, NEW p \in People, NEW key \in StudentKeys, EnterStudent(p, key)
  PROVE  ImportInv'
<1>1. CreatePerson(p, TRUE, {}) /\ ~Person(p)
  BY DEF EnterStudent, CreatePerson
<1>2. DirectoryTypeOK /\ DirectoryNext
  BY <1>1 DEF ImportInv, LInv, DirectoryNext, PersonNext
<1>3. DirectoryTypeOK' /\ students \subseteq students'
  BY <1>2, DirectoryStep
<1>4. \A q \in People : Person(q) => Person(q)'
  BY <1>1, <1>2 DEF CreatePerson, Person, DirectoryTypeOK
<1>5. schoolId' \in [People -> StudentKeys \cup {NoId}]
  BY DEF EnterStudent, ImportInv, ImportTypeOK
<1>6. \A q \in students : schoolId'[q] = schoolId[q]
  BY <1>1, <1>2 DEF EnterStudent, ImportInv, ImportTypeOK, DirectoryTypeOK
<1>7. /\ contact' \in [People -> GuardianKeys \cup {NoId}]
      /\ \A q \in People : contact'[q] # NoId => Person(q)'
  BY <1>4 DEF EnterStudent, ImportInv, ImportTypeOK, KeysNamePeople
<1> QED
  BY <1>3, <1>4, <1>5, <1>6, <1>7, EntryKeepsInv DEF EnterStudent

LEMMA EnterGuardianKeepsInv ==
  ASSUME ImportInv, NEW p \in People, NEW s \in People, NEW key \in GuardianKeys,
         EnterGuardian(p, key, s)
  PROVE  ImportInv'
<1>1. CreateGuardianAndLinkStudent(p, s)
  BY DEF EnterGuardian
<1>2. DirectoryTypeOK /\ DirectoryNext
  BY <1>1 DEF ImportInv, LInv, DirectoryNext, FamilyNext
<1>3. DirectoryTypeOK' /\ students \subseteq students'
  BY <1>2, DirectoryStep
<1>4. Person(p)' /\ \A q \in People : Person(q) => Person(q)'
  BY <1>1, <1>2 DEF CreateGuardianAndLinkStudent, Person, DirectoryTypeOK
<1>5. contact' \in [People -> GuardianKeys \cup {NoId}]
  BY DEF EnterGuardian, ImportInv, ImportTypeOK
<1>6. \A q \in People : contact'[q] # NoId => Person(q)'
  BY <1>4 DEF EnterGuardian, ImportInv, ImportTypeOK, KeysNamePeople
<1>7. schoolId' \in [People -> StudentKeys \cup {NoId}] /\ schoolId' = schoolId
  BY DEF EnterGuardian, ImportInv, ImportTypeOK
<1> QED
  BY <1>3, <1>4, <1>5, <1>6, <1>7, EntryKeepsInv DEF EnterGuardian

LEMMA RemoveLinkKeepsInv ==
  ASSUME ImportInv, NEW g \in People, NEW s \in People, RemoveLink(g, s)
  PROVE  ImportInv'
<1>1. UnlinkGuardianStudent(g, s) /\ UNCHANGED importVars
  BY DEF RemoveLink
<1>2. DirectoryTypeOK /\ DirectoryNext
  BY <1>1 DEF ImportInv, LInv, DirectoryNext, FamilyNext
<1>3. DirectoryTypeOK' /\ students \subseteq students'
  BY <1>2, DirectoryStep
<1>4. personStatus' = personStatus
  BY <1>1 DEF UnlinkGuardianStudent
<1>5. /\ schoolId' \in [People -> StudentKeys \cup {NoId}]
      /\ contact' \in [People -> GuardianKeys \cup {NoId}]
      /\ schoolId' = schoolId /\ contact' = contact
      /\ \A q \in People : contact[q] # NoId => Person(q)
  BY <1>1 DEF ImportInv, ImportTypeOK, KeysNamePeople, importVars
<1> QED
  BY <1>1, <1>3, <1>4, <1>5, EntryKeepsInv DEF RemoveLink, importVars, Person

\* A reversal posts a row of its own, which is the opening of nothing.
LEMMA ReverseOpeningKeepsInv ==
  ASSUME ImportInv, NEW id \in UnusedIds(EntryIds, entries), NEW e \in entries,
         ReverseOpening(id, e)
  PROVE  ImportInv'
<1>1. ReverseFinancialEntry(id, e) /\ UNCHANGED <<directoryVars, importVars>>
  BY DEF ReverseOpening
<1>2. LInv'
  BY <1>1, ReverseKeepsLInv DEF ImportInv
<1>3. PICK new : entries' = entries \cup {new} /\ new.id = id
  <2> DEFINE new == [NewEntry(id, e.person, "REVERSAL", ReversalAmount(e))
                       EXCEPT !.reversalOf = e.id]
  <2>1. entries' = entries \cup {new}
    BY <1>1 DEF ReverseFinancialEntry
  <2>2. new.id = id
    BY DEF NewEntry
  <2> QED
    BY <2>1, <2>2
<1>4. \A x \in openings : \E f \in entries : f.id = x.entry
  BY DEF ImportInv, OpeningsPosted
<1>5. \A x \in openings : x.entry # id
  BY <1>4 DEF UnusedIds
<1>6. OpeningPostedOnce'
  BY <1>1, <1>3, <1>5 DEF ImportInv, OpeningPostedOnce, importVars
<1>7. OpeningsPosted'
  BY <1>1, <1>3 DEF ImportInv, OpeningsPosted, importVars
<1>8. ImportTypeOK' /\ KeysNamePeople'
  BY <1>1 DEF ImportInv, ImportTypeOK, KeysNamePeople, importVars, directoryVars, Person
<1>9. ImportedCustodyTrue' /\ NothingImportedTwice' /\ Referred'
  BY <1>1, ImportsUntouched DEF importVars, directoryVars
<1>10. ImportersInv'
  BY <1>1, ImportersStay DEF importVars, directoryVars, Person
<1> QED
  BY <1>2, <1>6, <1>7, <1>8, <1>9, <1>10 DEF ImportInv

\* The empty program, in which nobody imports.
LEMMA ImportInitInv == ImportInit => ImportInv
<1> SUFFICES ASSUME ImportInit PROVE ImportInv
  OBVIOUS
<1>1. LInv
  BY InitLInv DEF ImportInit
<1>2. ImportTypeOK /\ ImportedCustodyTrue /\ NothingImportedTwice
  BY DEF ImportInit, ImportTypeOK, ImportedCustodyTrue, NothingImportedTwice
<1>3. Referred /\ KeysNamePeople
  BY DEF ImportInit, Referred, KeysNamePeople
<1>4. OpeningPostedOnce /\ OpeningsPosted
  BY DEF ImportInit, OpeningPostedOnce, OpeningsPosted
<1>5. ImportersInv
  BY DEF ImportInit, ImportersInv, ImporterInv, Idle
<1> QED
  BY <1>1, <1>2, <1>3, <1>4, <1>5 DEF ImportInv

LEMMA ImportStepInv ==
  ImportInv /\ [ImportNext]_<<directoryVars, ledgerVars, importVars>> => ImportInv'
<1> SUFFICES ASSUME ImportInv, [ImportNext]_<<directoryVars, ledgerVars, importVars>>
             PROVE  ImportInv'
  OBVIOUS
<1>1. ASSUME NEW r \in Importers, NEW f \in MigrationFiles, CheckDestination(r, f)
      PROVE  ImportInv'
  BY <1>1, CheckKeepsInv
<1>2. ASSUME NEW r \in Importers, CommitMigration(r) PROVE ImportInv'
  BY <1>2, CommitMigrationKeepsInv
<1>3. ASSUME NEW r \in Importers, NEW f \in GuardianFiles, PlanGuardians(r,
             f) PROVE ImportInv'
  BY <1>3, PlanGuardiansKeepsInv
<1>4. ASSUME NEW r \in Importers, CommitGuardians(r) PROVE ImportInv'
  BY <1>4, CommitGuardiansKeepsInv
<1>5. ASSUME NEW r \in Importers, NEW sheet \in BalanceSheets, PlanBalances(r, sheet)
      PROVE  ImportInv'
  BY <1>5, PlanBalancesKeepsInv
<1>6. ASSUME NEW r \in Importers, CommitBalances(r) PROVE ImportInv'
  BY <1>6, CommitBalancesKeepsInv
<1>7. ASSUME NEW r \in Importers, NEW rows \in LibraryFiles, PlanLibrary(r,
             rows) PROVE ImportInv'
  BY <1>7, PlanLibraryKeepsInv
<1>8. ASSUME NEW r \in Importers, CommitLibrary(r) PROVE ImportInv'
  BY <1>8, CommitLibraryKeepsInv
<1>9. ASSUME NEW p \in People, NEW key \in StudentKeys, EnterStudent(p,
             key) PROVE ImportInv'
  BY <1>9, EnterStudentKeepsInv
<1>10. ASSUME NEW p \in People, NEW s \in People, NEW key \in GuardianKeys,
              EnterGuardian(p, key, s)
       PROVE  ImportInv'
  BY <1>10, EnterGuardianKeepsInv
<1>11. ASSUME NEW g \in People, NEW s \in People, RemoveLink(g, s) PROVE ImportInv'
  BY <1>11, RemoveLinkKeepsInv
<1>12. ASSUME NEW id \in UnusedIds(EntryIds, entries), NEW e \in entries,
              ReverseOpening(id, e)
       PROVE  ImportInv'
  BY <1>12, ReverseOpeningKeepsInv
<1>13. CASE UNCHANGED <<directoryVars, ledgerVars, importVars>>
  <2>1. DirectoryTypeOK' /\ students' = students
    BY <1>13, DirectoryAlone DEF ImportInv, LInv
  <2>2. \A p \in People : Person(p)' <=> Person(p)
    BY <1>13 DEF directoryVars, Person
  <2>3. UNCHANGED <<ledgerVars, importVars>>
    BY <1>13
  <2> QED
    BY <2>1, <2>2, <2>3, EntryKeepsInv
       DEF importVars, ImportInv, ImportTypeOK, KeysNamePeople
<1> QED
  BY <1>1, <1>2, <1>3, <1>4, <1>5, <1>6, <1>7, <1>8, <1>9, <1>10, <1>11, <1>12, <1>13
     DEF ImportNext

\* The inductive invariant of the imports.
THEOREM ImportInvariant == ImportSpec => []ImportInv
<1> QED
  BY ImportInitInv, ImportStepInv, PTL DEF ImportSpec

\* However often a form is submitted, by whomever and meanwhile whatever staff enter, no
\* student, guardian, instrument or library set is imported twice, and nobody's opening
\* balance is posted twice but by a sheet that names a student by both of its ids.
THEOREM NothingTwice == ImportSpec => []ImportedOnce
<1>1. ImportInv => ImportedOnce
  BY DEF ImportInv, ImportedOnce
<1> QED
  BY <1>1, ImportInvariant, PTL

\* The imported rows are well formed, and the status of an imported instrument tells
\* whether it is assigned and whether it is in repair.
THEOREM ImportsWellFormed == ImportSpec => []ImportedRecordsTrue
<1>1. ImportInv => ImportedRecordsTrue
  BY DEF ImportInv, ImportedRecordsTrue
<1> QED
  BY <1>1, ImportInvariant, PTL

\* The imports keep the ledger and the directory they write to as their own handlers do.
THEOREM ImportsKeepTheLedger == ImportSpec => []LInv
<1>1. ImportInv => LInv
  BY DEF ImportInv
<1> QED
  BY <1>1, ImportInvariant, PTL

-----------------------------------------------------------------------------
\* Sums over finite sets.

Picked(s) == CHOOSE x \in s : TRUE

\* g adds up f over every subset of S.
Adds(g, f, S) ==
  g = [s \in SUBSET S |-> IF s = {} THEN 0 ELSE f[Picked(s)] + g[s \ {Picked(s)}]]

LEMMA SumIsChosen ==
  ASSUME NEW f, NEW S
  PROVE  SumFunctionOnSet(f, S) = (CHOOSE g : Adds(g, f, S))[S]
BY DEF SumFunctionOnSet, FoldFunctionOnSet, MapThenFoldSet, Adds, Picked

\* Induction on the subsets of a finite set.
LEMMA SubsetInduction ==
  ASSUME NEW S, IsFiniteSet(S), NEW Q,
         \A T \in SUBSET S : (\A U \in SUBSET T : U # T => U \in Q) => T \in Q
  PROVE  S \in Q
<1>1. IsWellFoundedOn(StrictSubsetOrdering(S), SUBSET S)
  BY FS_StrictSubsetOrderingWellFounded, FS_FiniteSubsetsOfFinite
<1>2. SUFFICES ASSUME S \notin Q PROVE FALSE
  OBVIOUS
<1>3. PICK T \in SUBSET S :
        T \notin Q /\ \A U \in SUBSET S : U \notin Q => <<U, T>> \notin StrictSubsetOrdering(S)
  <2> DEFINE B == {T \in SUBSET S : T \notin Q}
  <2>1. B \subseteq SUBSET S /\ B # {}
    BY <1>2
  <2>2. \E T \in B : \A U \in B : ~(<<U, T>> \in StrictSubsetOrdering(S))
    <3> HIDE DEF B
    <3> QED BY <1>1, <2>1, WFMin
  <2> QED
    BY <2>2
<1>4. \A U \in SUBSET T : U # T => U \in Q
  BY <1>3 DEF StrictSubsetOrdering
<1> QED
  BY <1>3, <1>4

\* Two functions that add up f agree wherever both do.
LEMMA AddsAgree ==
  ASSUME NEW f, NEW S, IsFiniteSet(S), NEW T, NEW g, NEW h, Adds(g, f, S), Adds(h, f, T)
  PROVE  \A s \in (SUBSET S) \cap (SUBSET T) : g[s] = h[s]
<1> DEFINE Q == {s \in SUBSET S : s \subseteq T => g[s] = h[s]}
<1>1. ASSUME NEW U \in SUBSET S, IsFiniteSet(U) PROVE U \in Q
  <2>1. ASSUME NEW V \in SUBSET U, \A W \in SUBSET V : W # V => W \in Q
        PROVE  V \in Q
    <3> SUFFICES ASSUME V \subseteq T PROVE g[V] = h[V]
      OBVIOUS
    <3>1. CASE V = {}
      BY <3>1 DEF Adds
    <3>2. CASE V # {}
      <4>1. Picked(V) \in V
        BY <3>2 DEF Picked
      <4>2. V \ {Picked(V)} \in Q
        BY <2>1, <4>1
      <4>3. g[V \ {Picked(V)}] = h[V \ {Picked(V)}]
        BY <4>2
      <4>4. /\ g[V] = f[Picked(V)] + g[V \ {Picked(V)}]
            /\ h[V] = f[Picked(V)] + h[V \ {Picked(V)}]
        BY <3>2 DEF Adds
      <4> QED
        BY <4>3, <4>4
    <3> QED
      BY <3>1, <3>2
  <2> HIDE DEF Q
  <2> QED
    BY <1>1, <2>1, SubsetInduction
<1> QED
  BY <1>1, FS_Subset

\* There is a function that adds up f over the subsets of a finite set.
LEMMA AddsExists ==
  ASSUME NEW f, NEW S, IsFiniteSet(S)
  PROVE  \E g : Adds(g, f, S)
<1> DEFINE Q == {T \in SUBSET S : \E g : Adds(g, f, T)}
           G(T) == CHOOSE g : Adds(g, f, T)
<1>1. ASSUME NEW T \in SUBSET S, \A U \in SUBSET T : U # T => U \in Q
      PROVE  T \in Q
  <2>1. \A U \in SUBSET T : U # T => Adds(G(U), f, U)
    BY <1>1
  <2> DEFINE p == Picked(T)
             h == [s \in SUBSET T |->
                     IF s = {} THEN 0
                     ELSE IF s = T THEN f[p] + G(T \ {p})[T \ {p}] ELSE G(s)[s]]
  <2> HIDE DEF G, Q
  <2>2. ASSUME NEW s \in SUBSET T
        PROVE  h[s] = IF s = {} THEN 0 ELSE f[Picked(s)] + h[s \ {Picked(s)}]
    <3>1. CASE s = {}
      BY <3>1
    <3>2. CASE s # {} /\ s = T
      <4>1. p \in T
        BY <3>2 DEF Picked
      <4>2. CASE T \ {p} = {}
        <5>1. Adds(G({}), f, {})
          BY <2>1, <3>2
        <5>2. G({})[{}] = 0
          BY <5>1 DEF Adds
        <5> QED
          BY <3>2, <4>2, <5>2
      <4>3. CASE T \ {p} # {}
        <5>1. h[T \ {p}] = G(T \ {p})[T \ {p}]
          BY <4>1, <4>3
        <5> QED
          BY <3>2, <5>1
      <4> QED
        BY <4>2, <4>3
    <3>3. CASE s # {} /\ s # T
      <4> DEFINE q == Picked(s)
                 r == s \ {q}
      <4>1. q \in s
        BY <3>3 DEF Picked
      <4>2. Adds(G(s), f, s) /\ Adds(G(r), f, r)
        BY <2>1, <3>3, <4>1
      <4>3. h[s] = f[q] + G(s)[r]
        <5>1. G(s)[s] = f[q] + G(s)[r]
          BY <3>3, <4>2 DEF Adds
        <5> QED
          BY <3>3, <5>1
      <4>4. IsFiniteSet(s) /\ r \in (SUBSET s) \cap (SUBSET r)
        BY FS_Subset
      <4>5. G(s)[r] = G(r)[r]
        <5> HIDE DEF r
        <5> QED
          BY <4>2, <4>4, AddsAgree
      <4>6. h[r] = G(r)[r]
        <5>1. CASE r = {}
          BY <4>2, <5>1 DEF Adds
        <5>2. CASE r # {}
          BY <4>1, <5>2
        <5> QED
          BY <5>1, <5>2
      <4> QED
        BY <3>3, <4>3, <4>5, <4>6
    <3> QED
      BY <3>1, <3>2, <3>3
  <2>3. Adds(h, f, T)
    <3> DEFINE rhs == [s \in SUBSET T |-> IF s = {} THEN 0
                                          ELSE f[Picked(s)] + h[s \ {Picked(s)}]]
    <3>1. h = [s \in SUBSET T |-> h[s]]
      OBVIOUS
    <3> HIDE DEF h
    <3>2. h = rhs
      BY <2>2, <3>1
    <3> QED
      BY <3>2 DEF Adds
  <2> QED
    BY <2>3 DEF Q
<1> HIDE DEF Q
<1>2. S \in Q
  BY <1>1, SubsetInduction
<1> QED
  BY <1>2 DEF Q

\* What the sum of a finite set is: nothing, or a first element and the sum of the rest.
LEMMA SumOfPicked ==
  ASSUME NEW f, NEW S, IsFiniteSet(S)
  PROVE  /\ S = {} => SumFunctionOnSet(f, S) = 0
         /\ S # {} => /\ Picked(S) \in S
                      /\ SumFunctionOnSet(f, S) =
                           f[Picked(S)] + SumFunctionOnSet(f, S \ {Picked(S)})
<1> DEFINE R == S \ {Picked(S)}
           g == CHOOSE g : Adds(g, f, S)
           h == CHOOSE h : Adds(h, f, R)
<1>1. IsFiniteSet(R)
  BY FS_Subset
<1>2. Adds(g, f, S) /\ Adds(h, f, R)
  BY <1>1, AddsExists
<1>3. SumFunctionOnSet(f, S) = g[S] /\ SumFunctionOnSet(f, R) = h[R]
  BY SumIsChosen
<1> HIDE DEF g, h
<1>4. S = {} => g[S] = 0
  BY <1>2 DEF Adds
<1>5. S # {} => Picked(S) \in S /\ g[S] = f[Picked(S)] + g[R]
  BY <1>2 DEF Adds, Picked
<1>6. g[R] = h[R]
  <2>1. R \in (SUBSET S) \cap (SUBSET R)
    OBVIOUS
  <2> HIDE DEF R
  <2> QED
    BY <1>2, <2>1, AddsAgree
<1> QED
  BY <1>3, <1>4, <1>5, <1>6

\* The sum is an integer, whichever element is taken out first.
LEMMA SumRemove ==
  ASSUME NEW f, NEW S, IsFiniteSet(S), \A x \in S : f[x] \in Int
  PROVE  /\ SumFunctionOnSet(f, S) \in Int
         /\ \A x \in S : SumFunctionOnSet(f, S) = f[x] + SumFunctionOnSet(f, S \ {x})
<1> DEFINE sum(T) == SumFunctionOnSet(f, T)
           Q == {T \in SUBSET S : /\ sum(T) \in Int
                                  /\ \A x \in T : sum(T) = f[x] + sum(T \ {x})}
<1>1. ASSUME NEW T \in SUBSET S, \A U \in SUBSET T : U # T => U \in Q
      PROVE  T \in Q
  <2> DEFINE p == Picked(T)
  <2>1. /\ IsFiniteSet(T)
        /\ T = {} => sum(T) = 0
        /\ T # {} => p \in T /\ sum(T) = f[p] + sum(T \ {p})
    BY FS_Subset, SumOfPicked
  <2> HIDE DEF sum, p
  <2>2. CASE T = {}
    BY <2>1, <2>2
  <2>3. CASE T # {}
    <3>1. /\ T \ {p} \in Q /\ p \in T /\ f[p] \in Int
          /\ sum(T) = f[p] + sum(T \ {p})
      BY <1>1, <2>1, <2>3
    <3>2. sum(T) \in Int
      BY <3>1
    <3>3. ASSUME NEW x \in T PROVE sum(T) = f[x] + sum(T \ {x})
      <4>1. CASE x = p
        BY <3>1, <4>1
      <4>2. CASE x # p
        <5>1. /\ T \ {x} \in Q /\ T \ {p} \in Q /\ (T \ {p}) \ {x} \in Q
              /\ p \in T \ {x} /\ x \in T \ {p}
          <6>1. /\ T \ {x} \in SUBSET T /\ T \ {x} # T
                /\ (T \ {p}) \ {x} \in SUBSET T /\ (T \ {p}) \ {x} # T
            BY <3>1
          <6> QED
            BY <1>1, <3>1, <4>2, <6>1
        <5>2. (T \ {x}) \ {p} = (T \ {p}) \ {x}
          OBVIOUS
        <5>3. sum(T \ {p}) = f[x] + sum((T \ {p}) \ {x})
          BY <5>1
        <5>4. sum(T \ {x}) = f[p] + sum((T \ {p}) \ {x})
          <6>1. sum(T \ {x}) = f[p] + sum((T \ {x}) \ {p})
            BY <5>1
          <6> QED
            BY <5>2, <6>1
        <5>5. sum((T \ {p}) \ {x}) \in Int /\ f[x] \in Int /\ f[p] \in Int
          BY <3>1, <5>1
        <5> QED
          BY <3>1, <5>3, <5>4, <5>5
      <4> QED
        BY <4>1, <4>2
    <3> QED
      BY <3>2, <3>3
  <2> QED
    BY <2>2, <2>3
<1> HIDE DEF Q
<1>2. S \in Q
  BY <1>1, SubsetInduction
<1> QED
  BY <1>2 DEF Q

LEMMA SumEmpty == \A f : SumFunctionOnSet(f, {}) = 0
BY SumOfPicked, FS_EmptySet

LEMMA SumAdd ==
  ASSUME NEW f, NEW S, IsFiniteSet(S), NEW x, x \notin S,
         \A y \in S \cup {x} : f[y] \in Int
  PROVE  SumFunctionOnSet(f, S \cup {x}) = f[x] + SumFunctionOnSet(f, S)
<1>1. IsFiniteSet(S \cup {x})
  BY FS_AddElement
<1>2. (S \cup {x}) \ {x} = S
  OBVIOUS
<1>3. SumFunctionOnSet(f, S \cup {x}) = f[x] + SumFunctionOnSet(f, (S \cup {x}) \ {x})
  BY <1>1, SumRemove
<1> QED
  BY <1>2, <1>3

\* Induction by adding one element, as a fact about a set of subsets.
LEMMA AddInduction ==
  ASSUME NEW S, IsFiniteSet(S), NEW Q, {} \in Q,
         \A T \in SUBSET S, x \in S : T \in Q /\ x \notin T => T \cup {x} \in Q
  PROVE  S \in Q
<1>1. ASSUME NEW T \in SUBSET S, \A U \in SUBSET T : U # T => U \in Q
      PROVE  T \in Q
  <2>1. CASE T = {}
    BY <2>1
  <2>2. CASE T # {}
    <3>1. PICK x \in T : TRUE
      BY <2>2
    <3>2. T \ {x} \in Q /\ (T \ {x}) \cup {x} = T /\ T \ {x} \in SUBSET S
      BY <1>1, <3>1
    <3> DEFINE U == T \ {x}
    <3>3. U \in Q /\ U \cup {x} = T /\ U \in SUBSET S /\ x \in S /\ x \notin U
      BY <3>1, <3>2
    <3> HIDE DEF U
    <3> QED
      BY <3>3
  <2> QED
    BY <2>1, <2>2
<1> QED
  BY <1>1, SubsetInduction

\* A sum looks at the elements it adds and nowhere else; elements may be renamed.
LEMMA SumRenamed ==
  ASSUME NEW S, IsFiniteSet(S), NEW f, NEW g, NEW b,
         \A x, y \in S : b[x] = b[y] => x = y,
         \A x \in S : f[x] \in Int /\ g[b[x]] = f[x]
  PROVE  SumFunctionOnSet(g, {b[x] : x \in S}) = SumFunctionOnSet(f, S)
<1> DEFINE image(T) == {b[x] : x \in T}
           Q == {T \in SUBSET S :
                   /\ IsFiniteSet(image(T))
                   /\ SumFunctionOnSet(g, image(T)) = SumFunctionOnSet(f, T)}
<1>1. {} \in Q
  <2>1. image({}) = {}
    OBVIOUS
  <2> HIDE DEF image
  <2> QED
    BY <2>1, SumEmpty, FS_EmptySet
<1>2. ASSUME NEW T \in SUBSET S, NEW x \in S, T \in Q, x \notin T PROVE T \cup {x} \in Q
  <2>1. image(T \cup {x}) = image(T) \cup {b[x]}
    OBVIOUS
  <2>2. b[x] \notin image(T) /\ \A y \in image(T) \cup {b[x]} : g[y] \in Int
    BY <1>2
  <2>3. IsFiniteSet(T) /\ \A y \in T \cup {x} : f[y] \in Int
    BY FS_Subset
  <2>4. SumFunctionOnSet(f, T \cup {x}) = f[x] + SumFunctionOnSet(f, T)
    BY <1>2, <2>3, SumAdd
  <2>5. IsFiniteSet(image(T)) /\ SumFunctionOnSet(g, image(T)) = SumFunctionOnSet(f, T)
    BY <1>2
  <2> HIDE DEF image
  <2>6. /\ IsFiniteSet(image(T) \cup {b[x]})
        /\ SumFunctionOnSet(g, image(T) \cup {b[x]}) = g[b[x]] + SumFunctionOnSet(g, image(T))
    BY <2>2, <2>5, SumAdd, FS_AddElement
  <2> QED
    BY <2>1, <2>4, <2>5, <2>6
<1> HIDE DEF Q
<1>3. S \in Q
  BY <1>1, <1>2, AddInduction
<1> QED
  BY <1>3 DEF Q

LEMMA SumSame ==
  ASSUME NEW S, IsFiniteSet(S), NEW f, NEW g, \A x \in S : f[x] \in Int /\ g[x] = f[x]
  PROVE  SumFunctionOnSet(g, S) = SumFunctionOnSet(f, S)
<1> DEFINE b == [x \in S |-> x]
<1>1. {b[x] : x \in S} = S
  OBVIOUS
<1>2. /\ \A x, y \in S : b[x] = b[y] => x = y
      /\ \A x \in S : f[x] \in Int /\ g[b[x]] = f[x]
  OBVIOUS
<1> HIDE DEF b
<1> QED
  BY <1>1, <1>2, SumRenamed

\* The sums of two functions differ by the sum of what they differ by.
LEMMA SumPlus ==
  ASSUME NEW S, IsFiniteSet(S), NEW f, NEW g, NEW h,
         \A x \in S : f[x] \in Int /\ g[x] \in Int /\ h[x] = f[x] + g[x]
  PROVE  SumFunctionOnSet(h, S) = SumFunctionOnSet(f, S) + SumFunctionOnSet(g, S)
<1> DEFINE Q == {T \in SUBSET S :
                   SumFunctionOnSet(h, T) = SumFunctionOnSet(f, T) + SumFunctionOnSet(g, T)}
<1>1. {} \in Q
  BY SumEmpty
<1>2. ASSUME NEW T \in SUBSET S, NEW x \in S, T \in Q, x \notin T PROVE T \cup {x} \in Q
  <2>1. /\ IsFiniteSet(T)
        /\ \A y \in T \cup {x} : f[y] \in Int /\ g[y] \in Int /\ h[y] \in Int
        /\ h[x] = f[x] + g[x]
    BY FS_Subset
  <2>2. /\ SumFunctionOnSet(f, T \cup {x}) = f[x] + SumFunctionOnSet(f, T)
        /\ SumFunctionOnSet(g, T \cup {x}) = g[x] + SumFunctionOnSet(g, T)
        /\ SumFunctionOnSet(h, T \cup {x}) = h[x] + SumFunctionOnSet(h, T)
    BY <1>2, <2>1, SumAdd
  <2>3. SumFunctionOnSet(f, T) \in Int /\ SumFunctionOnSet(g, T) \in Int
    BY <2>1, SumRemove
  <2> QED
    BY <1>2, <2>1, <2>2, <2>3
<1> HIDE DEF Q
<1>3. S \in Q
  BY <1>1, <1>2, AddInduction
<1> QED
  BY <1>3 DEF Q

\* The sum of two sets apart.
LEMMA SumApart ==
  ASSUME NEW S, IsFiniteSet(S), NEW R, IsFiniteSet(R), R \cap S = {}, NEW f,
         \A x \in R \cup S : f[x] \in Int
  PROVE  SumFunctionOnSet(f, R \cup S) = SumFunctionOnSet(f, R) + SumFunctionOnSet(f, S)
<1> DEFINE Q == {T \in SUBSET S :
                   SumFunctionOnSet(f, R \cup T) = SumFunctionOnSet(f, R) + SumFunctionOnSet(f, T)}
<1>0. SumFunctionOnSet(f, R) \in Int
  BY SumRemove
<1>1. {} \in Q
  <2>1. R \cup {} = R
    OBVIOUS
  <2> QED
    BY <1>0, <2>1, SumEmpty
<1>2. ASSUME NEW T \in SUBSET S, NEW x \in S, T \in Q, x \notin T PROVE T \cup {x} \in Q
  <2>1. /\ IsFiniteSet(T) /\ IsFiniteSet(R \cup T)
        /\ \A y \in R \cup T \cup {x} : f[y] \in Int
        /\ x \notin R \cup T
        /\ R \cup (T \cup {x}) = (R \cup T) \cup {x}
    BY <1>2, FS_Subset, FS_Union
  <2>2. SumFunctionOnSet(f, (R \cup T) \cup {x}) = f[x] + SumFunctionOnSet(f, R \cup T)
    BY <2>1, SumAdd
  <2>3. SumFunctionOnSet(f, T \cup {x}) = f[x] + SumFunctionOnSet(f, T)
    BY <1>2, <2>1, SumAdd
  <2>4. SumFunctionOnSet(f, T) \in Int /\ f[x] \in Int
    BY <2>1, SumRemove
  <2>5. SumFunctionOnSet(f, R \cup T) = SumFunctionOnSet(f, R) + SumFunctionOnSet(f, T)
    BY <1>2
  <2>6. SumFunctionOnSet(f, R \cup (T \cup {x})) = f[x] + SumFunctionOnSet(f, R \cup T)
    BY <2>1, <2>2
  <2>7. SumFunctionOnSet(f, R \cup (T \cup {x}))
          = SumFunctionOnSet(f, R) + SumFunctionOnSet(f, T \cup {x})
    BY <1>0, <2>3, <2>4, <2>5, <2>6
  <2>8. T \cup {x} \in SUBSET S
    OBVIOUS
  <2> QED
    BY <2>7, <2>8
<1> HIDE DEF Q
<1>3. S \in Q
  BY <1>1, <1>2, AddInduction
<1> QED
  BY <1>3 DEF Q

\* The sum of a constant.
LEMMA SumConstant ==
  ASSUME NEW S, IsFiniteSet(S), NEW f, NEW c \in Int, \A x \in S : f[x] = c
  PROVE  SumFunctionOnSet(f, S) = Cardinality(S) * c
<1> DEFINE Q == {T \in SUBSET S : SumFunctionOnSet(f, T) = Cardinality(T) * c}
<1>1. {} \in Q
  BY SumEmpty, FS_EmptySet
<1>2. ASSUME NEW T \in SUBSET S, NEW x \in S, T \in Q, x \notin T PROVE T \cup {x} \in Q
  <2>1. IsFiniteSet(T) /\ \A y \in T \cup {x} : f[y] \in Int
    BY FS_Subset
  <2>2. SumFunctionOnSet(f, T \cup {x}) = f[x] + SumFunctionOnSet(f, T)
    BY <1>2, <2>1, SumAdd
  <2>3. Cardinality(T \cup {x}) = Cardinality(T) + 1 /\ Cardinality(T) \in Nat
    BY <1>2, <2>1, FS_AddElement, FS_CardinalityType
  <2>4. (Cardinality(T) + 1) * c = c + Cardinality(T) * c
    BY <2>3
  <2> QED
    BY <1>2, <2>2, <2>3, <2>4
<1> HIDE DEF Q
<1>3. S \in Q
  BY <1>1, <1>2, AddInduction
<1> QED
  BY <1>3 DEF Q

-----------------------------------------------------------------------------
\* The statements.

\* The ledger of a program has finitely many students and entries.
FiniteLedger == IsFiniteSet(students) /\ IsFiniteSet(entries)

\* The rows of an assessment came with their batch and carry its amount.
BatchesKept ==
  /\ \A b, c \in batches : b.id = c.id => b = c
  /\ \A e \in entries : e.batch # NoId =>
       \E b \in batches : b.id = e.batch /\ e.amount = b.amount
  /\ \A b \in batches :
       /\ OfBatch(b) # {}
       /\ \A e, f \in OfBatch(b) : e.person = f.person => e = f

StatementInv == LInv /\ FiniteLedger /\ BatchesKept

\* The totals of sets of entries.
LEMMA TotalType ==
  ASSUME LedgerTypeOK, IsFiniteSet(entries), NEW rows \in SUBSET entries
  PROVE  Total(rows) \in Int /\ IsFiniteSet(rows)
<1> DEFINE f == [e \in rows |-> e.amount]
<1>1. IsFiniteSet(rows) /\ \A e \in rows : f[e] \in Int
  BY FS_Subset DEF LedgerTypeOK, Entry
<1> HIDE DEF f
<1>2. SumFunctionOnSet(f, rows) \in Int
  BY <1>1, SumRemove
<1> QED
  BY <1>1, <1>2 DEF Total, f

LEMMA TotalApart ==
  ASSUME LedgerTypeOK, IsFiniteSet(entries), NEW R \in SUBSET entries,
         NEW S \in SUBSET entries,
         R \cap S = {}
  PROVE  Total(R \cup S) = Total(R) + Total(S)
<1> DEFINE f == [e \in R \cup S |-> e.amount]
           g == [e \in R |-> e.amount]
           h == [e \in S |-> e.amount]
<1>1. /\ IsFiniteSet(R) /\ IsFiniteSet(S)
      /\ \A e \in R \cup S : f[e] \in Int
      /\ \A e \in R : f[e] \in Int /\ g[e] = f[e]
      /\ \A e \in S : f[e] \in Int /\ h[e] = f[e]
  BY FS_Subset DEF LedgerTypeOK, Entry
<1> HIDE DEF f, g, h
<1>2. SumFunctionOnSet(f, R \cup S) = SumFunctionOnSet(f, R) + SumFunctionOnSet(f, S)
  BY <1>1, SumApart
<1>3. SumFunctionOnSet(g, R) = SumFunctionOnSet(f, R)
  BY <1>1, SumSame
<1>4. SumFunctionOnSet(h, S) = SumFunctionOnSet(f, S)
  BY <1>1, SumSame
<1> QED
  BY <1>2, <1>3, <1>4 DEF Total, f, g, h

\* The columns of a statement, each a sum of its own, add up to its balance.
LEMMA ColumnsOfBalance == LedgerTypeOK /\ IsFiniteSet(entries) => ColumnsAddUp
<1> SUFFICES ASSUME LedgerTypeOK, IsFiniteSet(entries), NEW p \in People
             PROVE  Balance(p) = ChargeTotal(p) - PaidTotal(p) + ReversalNet(p)
  BY DEF ColumnsAddUp
<1> DEFINE C == OfType(p, "CHARGE")
           D == OfType(p, "PAYMENT")
           K == OfType(p, "CREDIT")
           R == OfType(p, "REVERSAL")
           E == {e \in entries : e.person = p}
<1>1. /\ E = ((C \cup D) \cup K) \cup R
      /\ C \cap D = {} /\ (C \cup D) \cap K = {} /\ ((C \cup D) \cup K) \cap R = {}
      /\ C \in SUBSET entries /\ D \in SUBSET entries
      /\ K \in SUBSET entries /\ R \in SUBSET entries
      /\ C \cup D \in SUBSET entries /\ (C \cup D) \cup K \in SUBSET entries
  BY DEF OfType, LedgerTypeOK, Entry, EntryType
<1> HIDE DEF C, D, K, R, E
<1>2. /\ Total(C \cup D) = Total(C) + Total(D)
      /\ Total((C \cup D) \cup K) = Total(C \cup D) + Total(K)
      /\ Total(E) = Total((C \cup D) \cup K) + Total(R)
  BY <1>1, TotalApart
<1>3. Total(C) \in Int /\ Total(D) \in Int /\ Total(K) \in Int /\ Total(R) \in Int
  BY <1>1, TotalType
<1>4. Total(E) = Total(C) - (-Total(D) - Total(K)) + Total(R)
  BY <1>2, <1>3
<1> QED
  BY <1>4 DEF Balance, ChargeTotal, PaidTotal, ReversalNet, C, D, K, R, E

\* What is reversed and its reversal cancel each other.
LEMMA ReversalsCancel ==
  ASSUME LInv, IsFiniteSet(entries), NEW p \in People
  PROVE  Total({e \in entries : /\ e.person = p /\ e.type # "REVERSAL"
                                /\ \E r \in entries : r.type = "REVERSAL" /\ r.reversalOf = e.id})
           = -Total(OfType(p, "REVERSAL"))
<1> DEFINE R == OfType(p, "REVERSAL")
           U == {e \in entries : /\ e.person = p /\ e.type # "REVERSAL"
                                 /\ \E r \in entries : r.type = "REVERSAL" /\ r.reversalOf = e.id}
           b == [r \in R |-> CHOOSE e \in entries : e.id = r.reversalOf]
           f == [r \in R |-> -r.amount]
           g == [e \in U |-> e.amount]
           h == [r \in R |-> r.amount]
           z == [r \in R |-> 0]
<1>1. /\ LedgerTypeOK /\ IdsNameEntries /\ ReversalsRefer /\ ReversedOnce
      /\ R \subseteq entries /\ \A r \in R : r.type = "REVERSAL" /\ r.person = p
  BY DEF LInv, OfType
<1>2. ASSUME NEW r \in R
      PROVE  /\ b[r] \in entries /\ b[r].id = r.reversalOf
             /\ b[r] \in U /\ b[r].amount = -r.amount /\ r.amount \in Int
  <2>1. PICK e \in entries : /\ e.id = r.reversalOf /\ e.type # "REVERSAL"
                             /\ e.person = r.person /\ e.amount = -r.amount
    BY <1>1 DEF ReversalsRefer
  <2>2. b[r] = e
    BY <1>1, <2>1 DEF IdsNameEntries
  <2>3. r.amount \in Int
    BY <1>1 DEF LedgerTypeOK, Entry
  <2> QED
    BY <1>1, <2>1, <2>2, <2>3
<1>3. \A r, s \in R : b[r] = b[s] => r = s
  BY <1>1, <1>2 DEF ReversedOnce
<1>4. U = {b[r] : r \in R}
  <2>1. ASSUME NEW e \in U PROVE \E r \in R : e = b[r]
    <3>1. PICK r \in entries : r.type = "REVERSAL" /\ r.reversalOf = e.id
      OBVIOUS
    <3>2. PICK x \in entries : x.id = r.reversalOf /\ x.person = r.person
      BY <1>1, <3>1 DEF ReversalsRefer
    <3>3. x = e /\ r \in R
      BY <1>1, <3>1, <3>2 DEF IdsNameEntries, OfType
    <3>4. e = b[r]
      BY <1>1, <1>2, <3>1, <3>3 DEF IdsNameEntries
    <3> QED
      BY <3>3, <3>4
  <2> QED
    BY <1>2, <2>1
<1>5. IsFiniteSet(R) /\ \A r \in R : f[r] \in Int /\ g[b[r]] = f[r]
  BY <1>1, <1>2, FS_Subset
<1>6. \A r \in R : f[r] \in Int /\ h[r] \in Int /\ z[r] = f[r] + h[r] /\ z[r] = 0
  BY <1>2
<1>7. Total(R) \in Int
  BY <1>1, TotalType
<1> HIDE DEF b, f, g, h, z, U, R
<1>8. SumFunctionOnSet(g, U) = SumFunctionOnSet(f, R)
  BY <1>3, <1>4, <1>5, SumRenamed
<1>9. SumFunctionOnSet(z, R) = SumFunctionOnSet(f, R) + SumFunctionOnSet(h, R)
  BY <1>5, <1>6, SumPlus
<1>10. SumFunctionOnSet(z, R) = 0
  <2>1. IsFiniteSet(R) /\ 0 \in Int /\ \A r \in R : z[r] = 0
    BY <1>5, <1>6
  <2>2. SumFunctionOnSet(z, R) = Cardinality(R) * 0
    BY ONLY <2>1, SumConstant
  <2>3. Cardinality(R) \in Nat
    BY <1>5, FS_CardinalityType
  <2> QED
    BY <2>2, <2>3
<1>11. SumFunctionOnSet(f, R) \in Int
  BY <1>5, SumRemove
<1>12. Total(U) = SumFunctionOnSet(g, U) /\ Total(R) = SumFunctionOnSet(h, R)
  BY DEF Total, g, h
<1>13. Total(U) = -Total(R)
  BY <1>7, <1>8, <1>9, <1>10, <1>11, <1>12
<1> QED
  BY <1>13 DEF U, R

\* The account book adds up as the ledger does.
LEMMA BookSums ==
  ASSUME NEW f, NEW S
  PROVE  Book!SumFunctionOnSet(f, S) = SumFunctionOnSet(f, S)
<1>1. Book!SumFunctionOnSet(f, S) = (CHOOSE g : Adds(g, f, S))[S]
  BY
  DEF Book!SumFunctionOnSet, Book!FoldFunctionOnSet, Book!MapThenFoldSet, Adds, Picked
<1> QED
  BY <1>1, SumIsChosen

\* A balance is the sum of the postings that stand.
LEMMA BalancesStand == LInv /\ IsFiniteSet(entries) => BalanceIsWhatStands
<1> SUFFICES ASSUME LInv, IsFiniteSet(entries), NEW p \in People
             PROVE  Balance(p) = Book!Stands(p)
  BY DEF BalanceIsWhatStands
<1> DEFINE undo(e) == \E r \in entries : r.type = "REVERSAL" /\ r.reversalOf = e.id
           E == {e \in entries : e.person = p}
           A == {e \in entries : e.person = p /\ e.type # "REVERSAL" /\ ~undo(e)}
           U == {e \in entries : e.person = p /\ e.type # "REVERSAL" /\ undo(e)}
           R == OfType(p, "REVERSAL")
           row(e) == [id |-> e.id, account |-> e.person, amount |-> e.amount]
           b == [e \in A |-> row(e)]
           f == [e \in A |-> e.amount]
           g == [x \in Book!Standing(p) |-> x.amount]
<1>0. LedgerTypeOK /\ IdsNameEntries
  BY DEF LInv
<1>1. Total(E) = Total(A)
  <2>1. /\ E = (A \cup U) \cup R /\ A \cap U = {} /\ (A \cup U) \cap R = {}
        /\ A \in SUBSET entries /\ U \in SUBSET entries /\ R \in SUBSET entries
        /\ A \cup U \in SUBSET entries
    BY DEF OfType
  <2>2. Total(U) = -Total(R)
    BY ReversalsCancel
  <2> HIDE DEF A, U, R, E
  <2>3. Total(A) \in Int /\ Total(U) \in Int /\ Total(R) \in Int
    BY <1>0, <2>1, TotalType
  <2>4. Total(A \cup U) = Total(A) + Total(U) /\ Total(E) = Total(A \cup U) + Total(R)
    BY <1>0, <2>1, TotalApart
  <2> QED
    BY <2>2, <2>3, <2>4
<1>2. Book!Standing(p) = {b[e] : e \in A}
  <2>1. \A e \in entries : e.type # "REVERSAL" =>
          (Book!Undone(row(e)) <=> undo(e))
    <3> SUFFICES ASSUME NEW e \in entries, e.type # "REVERSAL"
                 PROVE  Book!Undone(row(e)) <=> undo(e)
      OBVIOUS
    <3>1. Book!Undone(row(e)) <=> \E u \in Corrections : u[2] = e.id
      BY DEF Book!Undone, Corrections
    <3>2. ASSUME NEW u \in Corrections, u[2] = e.id PROVE undo(e)
      <4>1. PICK r \in entries : r.type = "REVERSAL" /\ u = <<r.id, r.reversalOf>>
        BY DEF Corrections
      <4> QED
        BY <3>2, <4>1
    <3>3. ASSUME NEW r \in entries, r.type = "REVERSAL", r.reversalOf = e.id
          PROVE  \E u \in Corrections : u[2] = e.id
      <4>1. <<r.id, r.reversalOf>> \in Corrections
        BY <3>3 DEF Corrections
      <4> QED
        BY <3>3, <4>1
    <3> QED
      BY <3>1, <3>2, <3>3
  <2>2. Book!Standing(p) \subseteq {b[e] : e \in A}
    <3> SUFFICES ASSUME NEW x \in Book!Standing(p) PROVE \E e \in A : x = b[e]
      OBVIOUS
    <3>1. PICK e \in entries : e.type # "REVERSAL" /\ x = row(e)
      BY DEF Book!Standing
    <3>2. x.account = p /\ ~Book!Undone(x)
      BY DEF Book!Standing
    <3>3. e \in A
      BY <2>1, <3>1, <3>2
    <3> QED
      BY <3>1, <3>3
  <2>3. \A e \in A : b[e] \in Book!Standing(p)
    <3> SUFFICES ASSUME NEW e \in A PROVE row(e) \in Book!Standing(p)
      OBVIOUS
    <3>1. row(e).account = p /\ ~Book!Undone(row(e))
      BY <2>1
    <3> QED
      BY <3>1 DEF Book!Standing
  <2> QED
    BY <2>2, <2>3
<1>3. \A e, x \in A : b[e] = b[x] => e = x
  <2> SUFFICES ASSUME NEW e \in A, NEW x \in A, row(e) = row(x) PROVE e = x
    OBVIOUS
  <2>1. e.id = x.id
    OBVIOUS
  <2> QED
    BY <1>0, <2>1 DEF IdsNameEntries
<1>4. IsFiniteSet(A)
  BY FS_Subset
<1>5. \A e \in A : f[e] \in Int /\ g[b[e]] = f[e]
  BY <1>0, <1>2 DEF LedgerTypeOK, Entry
<1>6. Total(A) = SumFunctionOnSet(f, A)
  BY DEF Total
<1>7. Book!Stands(p) = SumFunctionOnSet(g, Book!Standing(p))
  BY BookSums DEF Book!Stands
<1> HIDE DEF A, b, f, g
<1>8. SumFunctionOnSet(g, {b[e] : e \in A}) = SumFunctionOnSet(f, A)
  BY <1>3, <1>4, <1>5, SumRenamed
<1> QED
  BY <1>1, <1>2, <1>6, <1>7, <1>8 DEF Balance

LEMMA TotalOfOne ==
  ASSUME NEW e, e.amount \in Int
  PROVE  Total({e}) = e.amount
<1> DEFINE f == [x \in {e} |-> x.amount]
<1>1. f[e] = e.amount /\ {e} = {} \cup {e}
  OBVIOUS
<1>2. IsFiniteSet({}) /\ e \notin {} /\ \A y \in {} \cup {e} : f[y] \in Int
  BY <1>1, FS_EmptySet
<1> HIDE DEF f
<1>3. SumFunctionOnSet(f, {} \cup {e}) = f[e] + SumFunctionOnSet(f, {})
  BY <1>2, SumAdd
<1>4. SumFunctionOnSet(f, {e}) = e.amount
  BY <1>1, <1>3, SumEmpty
<1> QED
  BY <1>4 DEF Total, f

\* The sum of a function that is zero.
LEMMA SumZero ==
  ASSUME NEW S, IsFiniteSet(S), NEW f, \A x \in S : f[x] = 0
  PROVE  SumFunctionOnSet(f, S) = 0
<1>1. SumFunctionOnSet(f, S) = Cardinality(S) * 0
  BY SumConstant
<1>2. Cardinality(S) \in Nat
  BY FS_CardinalityType
<1> QED
  BY <1>1, <1>2

\* The balances of all students are the total of the ledger.
LEMMA BalancesAddUp ==
  ASSUME LInv, FiniteLedger
  PROVE  Balances(students) = Total(entries)
<1> DEFINE of(T, p) == {e \in T : e.person = p}
           F(T) == [p \in students |-> Total(of(T, p))]
           Q == {T \in SUBSET entries : SumFunctionOnSet(F(T), students) = Total(T)}
<1>0. LedgerTypeOK /\ EntriesOfStudents /\ IsFiniteSet(entries) /\ IsFiniteSet(students)
  BY DEF LInv, FiniteLedger
<1>1. {} \in Q
  <2>1. Total({}) = 0
    BY SumEmpty DEF Total
  <2>2. \A p \in students : of({}, p) = {}
    OBVIOUS
  <2>3. \A p \in students : F({})[p] = 0
    BY <2>1, <2>2
  <2> HIDE DEF F
  <2>4. SumFunctionOnSet(F({}), students) = 0
    BY <1>0, <2>3, SumZero
  <2> QED
    BY <2>1, <2>4
<1>2. ASSUME NEW T \in SUBSET entries, NEW x \in entries, T \in Q, x \notin T
      PROVE  T \cup {x} \in Q
  <2> DEFINE q == x.person
             d == [p \in students |-> IF p = q THEN x.amount ELSE 0]
  <2>1. q \in students /\ x.amount \in Int
    BY <1>0 DEF EntriesOfStudents, LedgerTypeOK, Entry
  <2>2. Total(T \cup {x}) = Total(T) + x.amount
    <3>1. {x} \in SUBSET entries /\ T \cap {x} = {}
      BY <1>2
    <3> QED
      BY <1>0, <2>1, <3>1, TotalApart, TotalOfOne
  <2>3. ASSUME NEW p \in students
        PROVE  /\ F(T)[p] \in Int /\ d[p] \in Int
               /\ F(T \cup {x})[p] = F(T)[p] + d[p]
    <3>1. of(T, p) \in SUBSET entries /\ {x} \in SUBSET entries /\ of(T, p) \cap {x} = {}
      BY <1>2
    <3>2. Total(of(T, p)) \in Int
      BY <1>0, <3>1, TotalType
    <3>3. CASE p = q
      <4>1. of(T \cup {x}, p) = of(T, p) \cup {x}
        BY <3>3
      <4> HIDE DEF of
      <4>2. Total(of(T, p) \cup {x}) = Total(of(T, p)) + x.amount
        BY <1>0, <2>1, <3>1, TotalApart, TotalOfOne
      <4> QED
        BY <2>1, <3>2, <3>3, <4>1, <4>2
    <3>4. CASE p # q
      <4>1. of(T \cup {x}, p) = of(T, p)
        BY <3>4
      <4> HIDE DEF of
      <4> QED
        BY <3>2, <3>4, <4>1
    <3> QED
      BY <3>3, <3>4
  <2>4. SumFunctionOnSet(d, students) = x.amount
    <3>1. /\ d[q] = x.amount
          /\ \A p \in students : d[p] \in Int
          /\ \A p \in students \ {q} : d[p] = 0
      BY <2>1
    <3>2. IsFiniteSet(students \ {q})
      BY <1>0, FS_Subset
    <3> HIDE DEF d
    <3>3. SumFunctionOnSet(d, students) = d[q] + SumFunctionOnSet(d, students \ {q})
      BY <1>0, <2>1, <3>1, SumRemove
    <3>4. SumFunctionOnSet(d, students \ {q}) = 0
      BY <3>1, <3>2, SumZero
    <3> QED
      BY <2>1, <3>1, <3>3, <3>4
  <2>5. SumFunctionOnSet(F(T), students) = Total(T)
    BY <1>2
  <2> HIDE DEF F, d
  <2>6. SumFunctionOnSet(F(T \cup {x}), students)
          = SumFunctionOnSet(F(T), students) + SumFunctionOnSet(d, students)
    BY <1>0, <2>3, SumPlus
  <2>7. T \cup {x} \in SUBSET entries
    OBVIOUS
  <2> QED
    BY <2>2, <2>4, <2>5, <2>6, <2>7
<1>3. F(entries) = [p \in students |-> Balance(p)]
  BY DEF Balance
<1> HIDE DEF Q
<1>4. entries \in Q
  BY <1>0, <1>1, <1>2, AddInduction
<1> QED
  BY <1>3, <1>4 DEF Q, Balances

\* What is owed and what is owed back are, together, the whole ledger.
LEMMA NothingOff == LInv /\ FiniteLedger => NothingOffTheStatements
<1> SUFFICES ASSUME LInv, FiniteLedger PROVE NothingOffTheStatements
  OBVIOUS
<1> DEFINE f == [p \in students |-> Balance(p)]
           Owing == {p \in students : Balance(p) > 0}
           Owed == {p \in students : Balance(p) < 0}
           Even == {p \in students : Balance(p) = 0}
           g == [p \in Owing |-> Balance(p)]
           h == [p \in Owed |-> Balance(p)]
<1>1. /\ IsFiniteSet(students) /\ IsFiniteSet(Owing) /\ IsFiniteSet(Owed) /\ IsFiniteSet(Even)
      /\ IsFiniteSet(Owing \cup Owed)
  <2>1. Owing \in SUBSET students /\ Owed \in SUBSET students /\ Even \in SUBSET students
        /\ Owing \cup Owed \in SUBSET students
    OBVIOUS
  <2> QED
    BY <2>1, FS_Subset DEF FiniteLedger
<1>2. \A p \in students : Balance(p) \in Int
  <2>1. \A p : {e \in entries : e.person = p} \in SUBSET entries
    OBVIOUS
  <2> QED
    BY <2>1, TotalType DEF Balance, LInv, FiniteLedger
<1>3. /\ students = (Owing \cup Owed) \cup Even
      /\ Owing \cap Owed = {} /\ (Owing \cup Owed) \cap Even = {}
  BY <1>2
<1>4. /\ \A p \in students : f[p] \in Int
      /\ \A p \in Owing : f[p] \in Int /\ g[p] = f[p]
      /\ \A p \in Owed : f[p] \in Int /\ h[p] = f[p]
      /\ \A p \in Even : f[p] = 0
  BY <1>2
<1>5. /\ Outstanding = SumFunctionOnSet(g, Owing)
      /\ CreditBalance = -SumFunctionOnSet(h, Owed)
      /\ Balances(students) = SumFunctionOnSet(f, students)
  BY DEF Outstanding, CreditBalance, Balances
<1> HIDE DEF f, g, h, Owing, Owed, Even
<1>6. SumFunctionOnSet(g, Owing) = SumFunctionOnSet(f, Owing)
  BY <1>1, <1>4, SumSame
<1>7. SumFunctionOnSet(h, Owed) = SumFunctionOnSet(f, Owed)
  BY <1>1, <1>4, SumSame
<1>8. SumFunctionOnSet(f, Even) = 0
  BY <1>1, <1>4, SumZero
<1>9. SumFunctionOnSet(f, students)
        = SumFunctionOnSet(f, Owing \cup Owed) + SumFunctionOnSet(f, Even)
  BY <1>1, <1>3, <1>4, SumApart
<1>10. SumFunctionOnSet(f, Owing \cup Owed) = SumFunctionOnSet(f, Owing) + SumFunctionOnSet(f, Owed)
  BY <1>1, <1>3, <1>4, SumApart
<1>11. SumFunctionOnSet(f, Owing) \in Int /\ SumFunctionOnSet(f, Owed) \in Int
  BY <1>1, <1>3, <1>4, SumRemove
<1>12. Balances(students) = Total(entries)
  BY BalancesAddUp
<1> QED
  BY <1>5, <1>6, <1>7, <1>8, <1>9, <1>10, <1>11, <1>12 DEF NothingOffTheStatements

\* An assessment is whole.
LEMMA BatchesWhole == LedgerTypeOK /\ IsFiniteSet(entries) /\ BatchesKept => AssessmentsAreWhole
<1> SUFFICES ASSUME LedgerTypeOK, IsFiniteSet(entries), BatchesKept, NEW b \in batches
             PROVE  Total(OfBatch(b)) = TotalAssessed(b)
  BY DEF AssessmentsAreWhole, BatchesKept
<1> DEFINE rows == OfBatch(b)
           f == [e \in rows |-> e.amount]
<1>1. b.id # NoId /\ b.amount \in Int
  BY LedgerAssumption DEF LedgerTypeOK, Batch
<1>2. IsFiniteSet(rows) /\ \A e \in rows : f[e] = b.amount
  BY <1>1, FS_Subset DEF BatchesKept, OfBatch
<1>3. Total(rows) = SumFunctionOnSet(f, rows)
  BY DEF Total
<1> HIDE DEF f, rows
<1>4. SumFunctionOnSet(f, rows) = Cardinality(rows) * b.amount
  BY <1>1, <1>2, SumConstant
<1> QED
  BY <1>3, <1>4 DEF TotalAssessed, rows

\* A transaction of the directory makes at most one student.
LEMMA DirectoryAddsOne ==
  DirectoryNext => students' = students \/ \E p \in People : students' = students \cup {p}
BY DEF DirectoryNext, PersonNext, GroupNext, FamilyNext, CreatePerson, UpdatePerson,
       ClassifyStudent, CreateGroup, UpdateGroup, AddGroupMembership, EndGroupMembership,
       LinkGuardianStudent, CreateGuardianAndLinkStudent, UnlinkGuardianStudent

\* An entry outside of an assessment.
LEMMA SingleEntryKeeps ==
  ASSUME StatementInv, NEW e, entries' = entries \cup {e}, e.batch = NoId,
         UNCHANGED <<batches, students>>
  PROVE  FiniteLedger' /\ BatchesKept'
<1>1. FiniteLedger'
  BY FS_AddElement DEF StatementInv, FiniteLedger
<1>2. \A b \in batches : b.id # NoId
  BY LedgerAssumption DEF StatementInv, LInv, LedgerTypeOK, Batch
<1>3. \A b \in batches : OfBatch(b)' = OfBatch(b)
  BY <1>2 DEF OfBatch
<1>4. BatchesKept'
  BY <1>3 DEF StatementInv, BatchesKept, OfBatch
<1> QED
  BY <1>1, <1>4

\* An assessment brings its batch and its rows together.
LEMMA AssessmentKeeps ==
  ASSUME StatementInv, NEW b \in UnusedIds(BatchIds, batches), NEW g \in Groups,
         NEW amount \in Submitted,
         NEW idOf \in [AssessedStudents(g) -> UnusedIds(EntryIds, entries)],
         \A p, q \in DOMAIN idOf : idOf[p] = idOf[q] => p = q,
         PostGroupAssessment(b, g, amount, idOf), UNCHANGED directoryVars
  PROVE  FiniteLedger' /\ BatchesKept'
<1> DEFINE D == AssessedStudents(g)
           row(p) == [id |-> idOf[p], person |-> p, type |-> "CHARGE", amount |-> amount,
                      batch |-> b, reversalOf |-> NoId]
           new == {row(p) : p \in D}
           this == [id |-> b, group |-> g, amount |-> amount]
<1>1. /\ entries' = entries \cup new
      /\ batches' = batches \cup {this}
      /\ D # {}
  <2>1. \A p \in D : [NewEntry(idOf[p], p, "CHARGE", amount) EXCEPT !.batch = b] = row(p)
    BY DEF NewEntry
  <2>2. entries' = entries \cup
          {[NewEntry(idOf[p], p, "CHARGE", amount) EXCEPT !.batch = b] : p \in DOMAIN idOf}
    BY DEF PostGroupAssessment
  <2>3. {[NewEntry(idOf[p], p, "CHARGE", amount) EXCEPT !.batch = b] : p \in DOMAIN idOf} = new
    <3> DEFINE old(p) == [NewEntry(idOf[p], p, "CHARGE", amount) EXCEPT !.batch = b]
    <3>1. DOMAIN idOf = D /\ \A p \in D : old(p) = row(p)
      BY <2>1
    <3> HIDE DEF old, row, D
    <3>2. {old(p) : p \in DOMAIN idOf} = {row(p) : p \in D}
      BY <3>1
    <3> QED
      BY <3>2 DEF old
  <2>4. D # {}
    BY DEF PostGroupAssessment, MayAssess
  <2> QED
    BY <2>2, <2>3, <2>4 DEF PostGroupAssessment
<1>2. b \in BatchIds /\ b # NoId /\ \A c \in batches : c.id # b
  BY LedgerAssumption DEF UnusedIds
<1>3. FiniteLedger'
  <2> DEFINE f == [p \in D |-> row(p)]
  <2>1. IsFiniteSet(D)
    <3>1. D \in SUBSET students
      BY DEF AssessedStudents, ActiveStudentsOf, ActiveStudents
    <3> QED
      BY <3>1, FS_Subset DEF StatementInv, FiniteLedger
  <2>2. f \in Surjection(D, new)
    BY DEF Surjection
  <2> HIDE DEF f, new, D
  <2>3. IsFiniteSet(new)
    BY <2>1, <2>2, FS_Surjection
  <2> QED
    BY <1>1, <2>3, FS_Union DEF StatementInv, FiniteLedger, directoryVars
<1>4. \A e \in new : /\ e.batch = b /\ e.amount = amount
                     /\ \E p \in D : e = row(p)
  OBVIOUS
<1>5. /\ this.id = b /\ this.amount = amount
      /\ \A p, q \in D : row(p).person = row(q).person => p = q
      /\ new # {}
  <2>1. PICK p \in D : TRUE
    BY <1>1
  <2>2. row(p) \in new
    OBVIOUS
  <2> QED
    BY <2>2
<1>6. \A e \in entries : e.batch # b
  BY <1>2 DEF StatementInv, BatchesKept
<1> HIDE DEF row, this
<1>7. OfBatch(this)' = new
  BY <1>1, <1>4, <1>5, <1>6 DEF OfBatch
<1> HIDE DEF new
<1>8. \A c \in batches : OfBatch(c)' = OfBatch(c)
  BY <1>1, <1>2, <1>4 DEF OfBatch
<1>9. \A c, d \in batches' : c.id = d.id => c = d
  BY <1>1, <1>2, <1>5 DEF StatementInv, BatchesKept
<1>10. \A e \in entries' : e.batch # NoId =>
         \E c \in batches' : c.id = e.batch /\ e.amount = c.amount
  BY <1>1, <1>4, <1>5 DEF StatementInv, BatchesKept
<1>11. \A c \in batches' :
         /\ OfBatch(c)' # {}
         /\ \A e, f \in OfBatch(c)' : e.person = f.person => e = f
  <2>1. \A c \in batches :
         /\ OfBatch(c)' # {}
         /\ \A e, f \in OfBatch(c)' : e.person = f.person => e = f
    BY <1>8 DEF StatementInv, BatchesKept
  <2>2. /\ OfBatch(this)' # {}
        /\ \A e, f \in OfBatch(this)' : e.person = f.person => e = f
    BY <1>4, <1>5, <1>7
  <2> QED
    BY <1>1, <2>1, <2>2
<1>12. BatchesKept'
  BY <1>9, <1>10, <1>11 DEF BatchesKept, OfBatch
<1> QED
  BY <1>3, <1>12

LEMMA StepStatementInv ==
  StatementInv /\ [LedgerStep]_<<directoryVars, ledgerVars>> => StatementInv'
<1> SUFFICES ASSUME StatementInv, [LedgerStep]_<<directoryVars, ledgerVars>>
             PROVE  FiniteLedger' /\ BatchesKept'
  BY StepLInv DEF StatementInv
<1>2. ASSUME UNCHANGED ledgerVars,
             students' = students \/ \E p \in People : students' = students \cup {p}
      PROVE  FiniteLedger' /\ BatchesKept'
  BY <1>2, FS_AddElement
     DEF ledgerVars, StatementInv, FiniteLedger, BatchesKept, OfBatch
<1>3. CASE DirectoryNext /\ UNCHANGED ledgerVars
  BY <1>2, <1>3, DirectoryAddsOne
<1>4. CASE LedgerNext /\ UNCHANGED directoryVars
  <2>1. ASSUME NEW id \in UnusedIds(EntryIds, entries), NEW amount \in Submitted,
               NEW p \in People, NEW type \in EntryType \ {"REVERSAL"},
               NEW g \in Groups \cup {NoId}, PostFinancialEntry(id, p, type, amount, g)
        PROVE  FiniteLedger' /\ BatchesKept'
    <3> DEFINE e == NewEntry(id, p, type, Signed(type, amount))
    <3>1. entries' = entries \cup {e} /\ e.batch = NoId /\ UNCHANGED <<batches, students>>
      BY <1>4, <2>1 DEF PostFinancialEntry, NewEntry, directoryVars
    <3> HIDE DEF e
    <3> QED
      BY <3>1, SingleEntryKeeps
  <2>2. ASSUME NEW b \in UnusedIds(BatchIds, batches), NEW g \in Groups,
               NEW amount \in Submitted,
               NEW idOf \in [AssessedStudents(g) -> UnusedIds(EntryIds, entries)],
               \A p, q \in DOMAIN idOf : idOf[p] = idOf[q] => p = q,
               PostGroupAssessment(b, g, amount, idOf)
        PROVE  FiniteLedger' /\ BatchesKept'
    BY <1>4, <2>2, AssessmentKeeps
  <2>3. ASSUME NEW id \in UnusedIds(EntryIds, entries), NEW e \in entries,
               ReverseFinancialEntry(id, e)
        PROVE  FiniteLedger' /\ BatchesKept'
    <3> DEFINE r == [NewEntry(id, e.person, "REVERSAL", ReversalAmount(e))
                       EXCEPT !.reversalOf = e.id]
    <3>1. entries' = entries \cup {r} /\ r.batch = NoId /\ UNCHANGED <<batches, students>>
      BY <1>4, <2>3 DEF ReverseFinancialEntry, NewEntry, directoryVars
    <3> HIDE DEF r
    <3> QED
      BY <3>1, SingleEntryKeeps
  <2> QED
    BY <1>4, <2>1, <2>2, <2>3 DEF LedgerNext
<1>5. CASE UNCHANGED <<directoryVars, ledgerVars>>
  BY <1>2, <1>5 DEF directoryVars
<1> QED
  BY <1>3, <1>4, <1>5 DEF LedgerStep

\* The statements are true in every reachable state: the columns of a student add up to
\* the balance, the balance is the sum of the postings that stand, the balances of all
\* students are the whole ledger, and an assessment is whole.
THEOREM StatementsAreTrue == LedgerSpec => []StatementsTrue
<1>1. LedgerSpec => DirectoryInit /\ LedgerInit /\ [][LedgerStep]_<<directoryVars, ledgerVars>>
  BY DEF LedgerSpec, LedgerStep
<1>2. DirectoryInit /\ LedgerInit => StatementInv
  BY InitLInv, FS_EmptySet
     DEF DirectoryInit, LedgerInit, StatementInv, FiniteLedger, BatchesKept
<1>3. StatementInv => StatementsTrue
  BY ColumnsOfBalance, BalancesStand, NothingOff, BatchesWhole
     DEF StatementInv, LInv, FiniteLedger, StatementsTrue
<1> QED
  BY <1>1, <1>2, <1>3, StepStatementInv, PTL
=============================================================================
