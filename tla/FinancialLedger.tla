--------------------------- MODULE FinancialLedger ---------------------------
(***************************************************************************)
(* The student ledger: src/lib/financial-service.ts with the handlers of   *)
(* src/app/actions.ts and the reports of src/lib/financial-reports.ts.     *)
(*                                                                         *)
(* An entry is never changed.  A charge is positive, a payment and a       *)
(* credit negative, and a correction is a REVERSAL entry of the opposite   *)
(* amount, so a balance is a plain sum.  The operating period an entry     *)
(* carries only has to belong to the program and decides nothing here.     *)
(***************************************************************************)
EXTENDS Directory, Integers, Functions

CONSTANTS EntryIds,   \* primary keys of FinancialEntry (bounds the history)
          BatchIds,   \* primary keys of FinancialBatch (bounds the history)
          Submitted,  \* amounts a form submits
          NoId        \* an empty foreign key

ASSUME LedgerAssumption ==
  /\ Submitted \subseteq Int
  /\ NoId \notin EntryIds \cup BatchIds \cup Groups

VARIABLES entries,  \* the rows of FinancialEntry
          batches   \* the rows of FinancialBatch

ledgerVars == <<entries, batches>>

EntryType == {"CHARGE", "PAYMENT", "CREDIT", "REVERSAL"}
Entry == [id: EntryIds, person: People, type: EntryType, amount: Int,
          batch: BatchIds \cup {NoId}, reversalOf: EntryIds \cup {NoId}]
Batch == [id: BatchIds, group: Groups, amount: Int]

UnusedIds(ids, rows) == {i \in ids : \A r \in rows : r.id # i}

\* Mistake: zero is an amount.
NotNegative(amount) == amount >= 0

positiveMoney(amount) == amount > 0

Signed(type, amount) == IF type = "CHARGE" THEN amount ELSE -amount

\* Mistake: any person has an account.
AnyPerson(p) == Person(p)

verifyStudent(p) == p \in students

verifyGroupContext(g, p) == g = NoId \/ <<g, p>> \in members

NewEntry(id, p, type, amount) ==
  [id |-> id, person |-> p, type |-> type, amount |-> amount, batch |-> NoId,
   reversalOf |-> NoId]

LedgerInit == entries = {} /\ batches = {}

-----------------------------------------------------------------------------
PostFinancialEntry(id, p, type, amount, g) ==
  /\ positiveMoney(amount)
  /\ verifyStudent(p)
  /\ verifyGroupContext(g, p)
  /\ entries' = entries \cup {NewEntry(id, p, type, Signed(type, amount))}
  /\ UNCHANGED batches

AssessedStudents(g) == ActiveStudentsOf(g)

\* Mistake: an assessment of nobody is posted.
AnyGroup(g) == groupStatus[g] = "ACTIVE"

MayAssess(g) == groupStatus[g] = "ACTIVE" /\ AssessedStudents(g) # {}

\* One charge for each active student of an active group, with the batch.
PostGroupAssessment(b, g, amount, idOf) ==
  /\ positiveMoney(amount)
  /\ MayAssess(g)
  /\ DOMAIN idOf = AssessedStudents(g)
  /\ batches' = batches \cup {[id |-> b, group |-> g, amount |-> amount]}
  /\ entries' = entries \cup
       {[NewEntry(idOf[p], p, "CHARGE", amount) EXCEPT !.batch = b] : p \in DOMAIN idOf}

\* Mistake: only the type is looked at, not an earlier reversal.
NotAReversal(e) == e.type # "REVERSAL"

MayReverse(e) ==
  /\ e.type # "REVERSAL"
  /\ \A r \in entries : r.reversalOf # e.id

\* Mistake: the reversal repeats the amount.
SameAmount(e) == e.amount

ReversalAmount(e) == -e.amount

ReverseFinancialEntry(id, e) ==
  /\ MayReverse(e)
  /\ entries' = entries \cup
       {[NewEntry(id, e.person, "REVERSAL", ReversalAmount(e)) EXCEPT !.reversalOf = e.id]}
  /\ UNCHANGED batches

LedgerNext ==
  \/ \E id \in UnusedIds(EntryIds, entries), amount \in Submitted :
       \E p \in People, type \in EntryType \ {"REVERSAL"}, g \in Groups \cup {NoId} :
         PostFinancialEntry(id, p, type, amount, g)
  \/ \E b \in UnusedIds(BatchIds, batches), g \in Groups, amount \in Submitted :
       \E idOf \in [AssessedStudents(g) -> UnusedIds(EntryIds, entries)] :
         /\ \A p, q \in DOMAIN idOf : idOf[p] = idOf[q] => p = q
         /\ PostGroupAssessment(b, g, amount, idOf)
  \/ \E id \in UnusedIds(EntryIds, entries), e \in entries :
       ReverseFinancialEntry(id, e)

LedgerSpec ==
  /\ DirectoryInit /\ LedgerInit
  /\ [][\/ DirectoryNext /\ UNCHANGED ledgerVars
        \/ LedgerNext /\ UNCHANGED directoryVars]_<<directoryVars, ledgerVars>>

-----------------------------------------------------------------------------
\* Reports.

Total(rows) == SumFunctionOnSet([e \in rows |-> e.amount], rows)

\* studentBalances: the columns of one student's row.
OfType(p, type) == {e \in entries : e.person = p /\ e.type = type}
ChargeTotal(p) == Total(OfType(p, "CHARGE"))
PaidTotal(p) == -Total(OfType(p, "PAYMENT")) - Total(OfType(p, "CREDIT"))
ReversalNet(p) == Total(OfType(p, "REVERSAL"))
Balance(p) == Total({e \in entries : e.person = p})

\* financialSummary: what students owe and what is owed to them.
Balances(accounts) == SumFunctionOnSet([p \in accounts |-> Balance(p)], accounts)
Outstanding == Balances({p \in students : Balance(p) > 0})
CreditBalance == -Balances({p \in students : Balance(p) < 0})

\* assessmentBatches: the columns of one batch's row.
OfBatch(b) == {e \in entries : e.batch = b.id}
TotalAssessed(b) == Cardinality(OfBatch(b)) * b.amount
ReversedOf(b) == {e \in OfBatch(b) : \E r \in entries : r.reversalOf = e.id}

-----------------------------------------------------------------------------
\* Properties.

\* The ledger as an account book: reversals are not postings but undo one.
Book == INSTANCE AccountBook WITH
  Accounts <- People, PostingIds <- EntryIds, Sums <- Int,
  posted <- {[id |-> e.id, account |-> e.person, amount |-> e.amount] :
               e \in {f \in entries : f.type # "REVERSAL"}},
  undone <- {<<e.id, e.reversalOf>> : e \in {f \in entries : f.type = "REVERSAL"}}

\* Every transaction posts new amounts or undoes one posting once; a posting is
\* never changed, dropped or undone twice.
ImplementsAccountBook == Book!BookSpec

\* Type invariant; a statement's columns rely on the sign of each type.
LedgerTypeOK ==
  /\ entries \subseteq Entry
  /\ batches \subseteq Batch
  /\ \A e \in entries : /\ e.type = "CHARGE" => e.amount > 0
                        /\ e.type \in {"PAYMENT", "CREDIT"} => e.amount < 0
                        /\ e.type = "REVERSAL" <=> e.reversalOf # NoId

\* The columns of a statement, each a sum of its own, add up to its balance.
ColumnsAddUp ==
  \A p \in People : Balance(p) = ChargeTotal(p) - PaidTotal(p) + ReversalNet(p)

\* A balance, which adds up every row, is the sum of the postings that stand: a
\* reversed entry counts for nothing, whatever was posted around it.
BalanceIsWhatStands == \A p \in People : Balance(p) = Book!Stands(p)

\* No money is off the statements: the balances the reports list, which start
\* from student profiles, account for every row of the ledger.
NothingOffTheStatements == Outstanding - CreditBalance = Total(entries)

\* An assessment reached its students together, each once and for the amount of
\* the batch, and reversing some of them does not change what it assessed.
AssessmentsAreWhole ==
  \A b \in batches :
    /\ OfBatch(b) # {}
    /\ \A e, f \in OfBatch(b) : e.person = f.person => e = f
    /\ Total(OfBatch(b)) = TotalAssessed(b)

\* The statements are true: of each person, of all of them and of an assessment.
StatementsTrue ==
  /\ LedgerTypeOK
  /\ ColumnsAddUp /\ BalanceIsWhatStands
  /\ NothingOffTheStatements /\ AssessmentsAreWhole
=============================================================================
