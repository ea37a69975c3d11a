---------------------------- MODULE CutTimeImport ----------------------------
(***************************************************************************)
(* The four imports from CutTime: the one-time migration into an empty     *)
(* program (src/lib/cuttime-migration.ts) and the later imports of         *)
(* guardians, opening balances and library sets, with their actions.       *)
(*                                                                         *)
(* Each import reads the database, decides, and only then opens its        *)
(* transaction: two actions of the request that runs it, between which     *)
(* another request may commit.  The transaction checks again what it       *)
(* checks again; what else protects it are the unique keys of the schema,  *)
(* on which a whole transaction is rolled back.                            *)
(*                                                                         *)
(* An export file is taken as read: rows with a missing field are errors   *)
(* that refuse the file, and a row is a record of what its cells say.      *)
(***************************************************************************)
EXTENDS FinancialLedger, Sequences, Functions

CONSTANTS Importers,      \* staff requests that may be importing
          StudentKeys,    \* CutTime and school student ids
          GuardianKeys,   \* name and contact of a guardian in an export
          RowKeys,        \* the identifiers library-row-<n>, a sequence
          MigrationFiles, \* the exports a migration form may submit
          GuardianFiles,  \* sets of [key, student]
          BalanceSheets,  \* sequences of [student, amount]
          LibraryFiles    \* sequences of [id, number]

AssetStatus == {"AVAILABLE", "ASSIGNED", "IN_REPAIR", "RETIRED", "MISSING"}

SheetRows == [student: StudentKeys, amount: Int]

\* What the cells of an export may say.  A guardian's key is made of its name and
\* contact and is looked up among guardians only, so it is nobody's student id.
ASSUME ImportAssumption ==
  /\ NoId \notin People \cup StudentKeys \cup GuardianKeys
  /\ StudentKeys \cap GuardianKeys = {}
  /\ \A f \in MigrationFiles :
       /\ f.students \subseteq [key: StudentKeys, school: StudentKeys, groups: SUBSET Groups]
       /\ f.guardians \subseteq [key: GuardianKeys, student: StudentKeys]
       /\ f.memberships \subseteq [group: Groups, student: StudentKeys]
       /\ \A a \in f.assets : a.status \in AssetStatus /\ a.holder \in StudentKeys \cup {NoId}
       /\ Range(f.balances) \subseteq SheetRows
  /\ \A f \in GuardianFiles : f \subseteq [key: GuardianKeys, student: StudentKeys]
  /\ \A sheet \in BalanceSheets : Range(sheet) \subseteq SheetRows

VARIABLES schoolId,    \* StudentProfile.schoolStudentId
          contact,     \* the guardian a person with that classification is
          references,  \* the rows of ExternalReference: [kind, key, entity]
          assets,      \* imported assets with their custody
          library,     \* library sets: [source, catalog, run]
          openings,    \* opening balances: [student, entry, run]
          balanceRuns, \* MigrationRun rows that brought opening balances
          importer     \* where each request is

importVars == <<schoolId, contact, references, assets, library, openings,
                balanceRuns, importer>>
recordVars == <<schoolId, contact, references, assets, library, openings, balanceRuns>>

Idle == [pc |-> "idle"]
Leave(r) == importer' = [importer EXCEPT ![r] = Idle]
Keys(kind) == {x.key : x \in {y \in references : y.kind = kind}}
Reference(kind, key, entity) == [kind |-> kind, key |-> key, entity |-> entity]

ImportInit ==
  /\ DirectoryInit /\ LedgerInit
  /\ schoolId = [p \in People |-> NoId]
  /\ contact = [p \in People |-> NoId]
  /\ references = {} /\ assets = {} /\ library = {} /\ openings = {}
  /\ balanceRuns = {}
  /\ importer = [r \in Importers |-> Idle]

\* importState: the student a row means, by CutTime reference, else by school id.
StudentsUnder(key) ==
  LET referenced == {x.entity : x \in {y \in references : y.kind = "Student" /\ y.key = key}}
  IN IF referenced # {} THEN referenced ELSE {p \in students : schoolId[p] = key}

\* The person a guardian row means, by reference, else by name and contact.
GuardiansUnder(key) ==
  LET referenced == {x.entity : x \in {y \in references : y.kind = "Guardian" /\ y.key = key}}
  IN IF referenced # {} THEN referenced ELSE {p \in People : contact[p] = key}

-----------------------------------------------------------------------------
\* planCutTimeLibrarySource: a row without an identifier goes by its position,
\* and a number that occurs twice is left to the director.
LibrarySource(rows, i) ==
  IF rows[i].id # NoId THEN rows[i].id
  ELSE IF rows[i].number # NoId THEN rows[i].number ELSE RowKeys[i]

CatalogNumber(rows, i) ==
  IF \E j \in DOMAIN rows \ {i} : rows[j].number = rows[i].number
  THEN NoId ELSE rows[i].number

LibraryReadable(rows) ==
  \A i, j \in DOMAIN rows : LibrarySource(rows, i) = LibrarySource(rows, j) => i = j

LibrarySets(rows, run) ==
  {[source |-> LibrarySource(rows, i), catalog |-> CatalogNumber(rows, i), run |-> run] :
     i \in DOMAIN rows}

\* Unique keys of ExternalReference and LibraryItem, which the preview asks too.
LibraryFree(rows) ==
  \A i \in DOMAIN rows :
    /\ LibrarySource(rows, i) \notin Keys("LibraryItem")
    /\ CatalogNumber(rows, i) # NoId =>
         \A x \in library \cup {y \in LibrarySets(rows, NoId) : y.source # LibrarySource(rows, i)} :
           x.catalog # CatalogNumber(rows, i)

LibraryReferences(rows) ==
  {Reference("LibraryItem", LibrarySource(rows, i), NoId) : i \in DOMAIN rows}

-----------------------------------------------------------------------------
\* planMigration.

FileStudents(f) == {s.key : s \in f.students}
FileGroups(f) == (UNION {s.groups : s \in f.students}) \cup {m.group : m \in f.memberships}

\* A balance of zero is read and not posted.
Nonzero(sheet) == {row \in Range(sheet) : row.amount # 0}
SheetStudents(sheet) == {row.student : row \in Nonzero(sheet)}

\* No student has two rows in a balance sheet.
SheetReadable(sheet) ==
  \A i, j \in DOMAIN sheet : sheet[i].student = sheet[j].student => i = j

\* A student or an asset listed twice, or a row about a student the member export
\* does not list, refuses the file.
MigrationReadable(f) ==
  /\ \A s, t \in f.students : s.key = t.key => s = t
  /\ \A a, b \in f.assets : a.key = b.key => a = b
  /\ {g.student : g \in f.guardians} \subseteq FileStudents(f)
  /\ {m.student : m \in f.memberships} \subseteq FileStudents(f)
  /\ SheetStudents(f.balances) \subseteq FileStudents(f)
  /\ {a.holder : a \in f.assets} \subseteq FileStudents(f) \cup {NoId}
  /\ SheetReadable(f.balances)
  /\ LibraryReadable(f.library)

\* Mistake: an instrument in repair keeps its holder.
HolderAsRead(a) == a.holder

\* An asset in repair is imported without its holder.
ImportedHolder(a) == IF a.status = "IN_REPAIR" THEN NoId ELSE a.holder

\* ASSIGNED in the file means nothing without a holder; a holder makes a retired
\* or missing asset ASSIGNED.
ImportedStatus(a) ==
  IF ImportedHolder(a) # NoId THEN "ASSIGNED"
  ELSE IF a.status = "ASSIGNED" THEN "AVAILABLE" ELSE a.status

\* Mistake: the holder is written under its CutTime id.
HolderByKey(a, personOf, run) ==
  [key |-> a.key, status |-> ImportedStatus(a), run |-> run,
   holder |-> ImportedHolder(a), inRepair |-> a.status = "IN_REPAIR"]

ImportedAsset(a, personOf, run) ==
  [key |-> a.key, status |-> ImportedStatus(a), run |-> run,
   holder |-> IF ImportedHolder(a) = NoId THEN NoId ELSE personOf[ImportedHolder(a)],
   inRepair |-> a.status = "IN_REPAIR"]

\* assertEmptyDestination
EmptyDestination ==
  /\ students = {}
  /\ \A p \in People : contact[p] = NoId
  /\ \A g \in Groups : ~Group(g)
  /\ assets = {} /\ entries = {} /\ library = {} /\ references = {}

CheckDestination(r, f) ==
  /\ importer[r].pc = "idle"
  /\ EmptyDestination
  /\ MigrationReadable(f)
  /\ importer' = [importer EXCEPT ![r] = [pc |-> "migrate", file |-> f]]
  /\ UNCHANGED <<directoryVars, ledgerVars, recordVars>>

\* Mistake: the schema has no unique keys.
NoUniqueKeys(f) == TRUE

\* The unique keys a migration runs into when the program is no longer empty.
MigrationFits(f) ==
  /\ FileStudents(f) \cap Keys("Student") = {}
  /\ \A s \in f.students : /\ \A p \in People : schoolId[p] # s.school
                           /\ \A t \in f.students \ {s} : t.school # s.school
  /\ \A g \in FileGroups(f) : ~Group(g)
  /\ {g.key : g \in f.guardians} \cap Keys("Guardian") = {}
  /\ {a.key : a \in f.assets} \cap Keys("Asset") = {}
  /\ LibraryFree(f.library)

\* The opening entries of a sheet; studentOf maps its rows to people.
OpeningEntries(sheet, studentOf, idOf) ==
  {NewEntry(idOf[row.student], studentOf[row.student],
            IF row.amount > 0 THEN "CHARGE" ELSE "CREDIT", row.amount) :
     row \in Nonzero(sheet)}

Openings(sheet, idOf, run) ==
  {[student |-> row.student, entry |-> idOf[row.student], run |-> run] :
     row \in Nonzero(sheet)}

OneToOne(f) == \A x, y \in DOMAIN f : f[x] = f[y] => x = y
FreshPeople == {p \in People : ~Person(p)}
ImportIds(sheet) ==
  {f \in [SheetStudents(sheet) -> UnusedIds(EntryIds, entries)] : OneToOne(f)}

\* commitCutTimeMigration, from its transaction on.
WriteMigration(r, f, personOf, idOf) ==
  LET people == Range(personOf) IN
  /\ personStatus' = [p \in People |-> IF p \in people THEN "ACTIVE" ELSE personStatus[p]]
  /\ students' = students \cup {personOf[k] : k \in FileStudents(f)}
  /\ schoolId' = [p \in People |->
                    IF \E s \in f.students : personOf[s.key] = p
                    THEN (CHOOSE s \in f.students : personOf[s.key] = p).school
                    ELSE schoolId[p]]
  /\ groupStatus' = [g \in Groups |-> IF g \in FileGroups(f) THEN "ACTIVE" ELSE groupStatus[g]]
  /\ members' = members \cup (UNION {s.groups \X {personOf[s.key]} : s \in f.students})
                        \cup {<<m.group, personOf[m.student]>> : m \in f.memberships}
  /\ contact' = [p \in People |->
                   IF \E g \in f.guardians : personOf[g.key] = p
                   THEN (CHOOSE g \in f.guardians : personOf[g.key] = p).key
                   ELSE contact[p]]
  /\ guardianOf' = guardianOf \cup {<<personOf[g.key], personOf[g.student]>> : g \in f.guardians}
  /\ references' = references
       \cup {Reference("Student", k, personOf[k]) : k \in FileStudents(f)}
       \cup {Reference("Guardian", g.key, personOf[g.key]) : g \in f.guardians}
       \cup {Reference("Asset", a.key, NoId) : a \in f.assets}
       \cup LibraryReferences(f.library)
  /\ assets' = assets \cup {ImportedAsset(a, personOf, r) : a \in f.assets}
  /\ library' = library \cup LibrarySets(f.library, r)
  /\ entries' = entries \cup OpeningEntries(f.balances, personOf, idOf)
  /\ openings' = openings \cup Openings(f.balances, idOf, r)
  /\ balanceRuns' = IF f.balances = <<>> THEN balanceRuns ELSE balanceRuns \cup {r}
  /\ UNCHANGED batches

CommitMigration(r) ==
  /\ importer[r].pc = "migrate"
  /\ LET f == importer[r].file IN
     IF MigrationFits(f)
     THEN \E personOf \in [FileStudents(f) \cup {g.key : g \in f.guardians} -> FreshPeople],
             idOf \in ImportIds(f.balances) :
            OneToOne(personOf) /\ WriteMigration(r, f, personOf, idOf)
     ELSE UNCHANGED <<directoryVars, ledgerVars, recordVars>>
  /\ Leave(r)

-----------------------------------------------------------------------------
\* Guardians: people, references and links as they were before the transaction.

PlanGuardians(r, f) ==
  /\ importer[r].pc = "idle"
  /\ \A g \in f : StudentsUnder(g.student) # {}
  /\ \E g \in f : \A p \in GuardiansUnder(g.key), s \in StudentsUnder(g.student) :
       <<p, s>> \notin guardianOf
  /\ importer' = [importer EXCEPT ![r] =
       [pc |-> "guardians", file |-> f, links |-> guardianOf,
        student |-> [k \in {g.student : g \in f} |-> CHOOSE s \in StudentsUnder(k) : TRUE],
        known |-> [k \in {g.key : g \in f} |-> GuardiansUnder(k)]]]
  /\ UNCHANGED <<directoryVars, ledgerVars, recordVars>>

NewGuardians(r) == {k \in DOMAIN importer[r].known : importer[r].known[k] = {}}

KnownLinks(r) ==
  {<<CHOOSE p \in importer[r].known[g.key] : TRUE, importer[r].student[g.student]>> :
     g \in {x \in importer[r].file : x.key \notin NewGuardians(r)}} \ importer[r].links

GuardianLinks(r, personOf) ==
  KnownLinks(r) \cup {<<personOf[g.key], importer[r].student[g.student]>> :
                       g \in {x \in importer[r].file : x.key \in NewGuardians(r)}}

\* A guardian row of another run or a link made meanwhile is a duplicate key.
GuardiansFit(r) ==
  /\ NewGuardians(r) \cap Keys("Guardian") = {}
  /\ KnownLinks(r) \cap guardianOf = {}

CommitGuardians(r) ==
  /\ importer[r].pc = "guardians"
  /\ \/ \E personOf \in [NewGuardians(r) -> FreshPeople] :
          /\ OneToOne(personOf)
          /\ GuardiansFit(r)
          /\ personStatus' = [p \in People |->
                                IF p \in Range(personOf) THEN "ACTIVE" ELSE personStatus[p]]
          /\ contact' = [p \in People |->
                           IF p \in Range(personOf)
                           THEN CHOOSE k \in NewGuardians(r) : personOf[k] = p ELSE contact[p]]
          /\ guardianOf' = guardianOf \cup GuardianLinks(r, personOf)
          /\ references' = references \cup
               {Reference("Guardian", k, personOf[k]) : k \in NewGuardians(r)}
     \/ /\ ~GuardiansFit(r)
        /\ UNCHANGED <<personStatus, contact, guardianOf, references>>
  /\ Leave(r)
  /\ UNCHANGED <<students, groupStatus, members, ledgerVars, schoolId, assets, library,
                 openings, balanceRuns>>

-----------------------------------------------------------------------------
\* Opening balances.

PlanBalances(r, sheet) ==
  /\ importer[r].pc = "idle"
  /\ balanceRuns = {}
  /\ SheetReadable(sheet)
  /\ Nonzero(sheet) # {}
  /\ \A k \in SheetStudents(sheet) : StudentsUnder(k) # {}
  /\ importer' = [importer EXCEPT ![r] =
       [pc |-> "balances", sheet |-> sheet,
        student |-> [k \in SheetStudents(sheet) |-> CHOOSE s \in StudentsUnder(k) : TRUE]]]
  /\ UNCHANGED <<directoryVars, ledgerVars, recordVars>>

\* Mistake: only the preview asks for a prior run.
AskedBefore(sheet) == TRUE

\* No run has brought balances, asked again in the transaction.
FirstBalances(sheet) == balanceRuns = {}

CommitBalances(r) ==
  /\ importer[r].pc = "balances"
  /\ LET sheet == importer[r].sheet IN
     IF FirstBalances(sheet)
     THEN \E idOf \in ImportIds(sheet) :
            /\ entries' = entries \cup OpeningEntries(sheet, importer[r].student, idOf)
            /\ openings' = openings \cup Openings(sheet, idOf, r)
            /\ balanceRuns' = balanceRuns \cup {r}
     ELSE UNCHANGED <<entries, openings, balanceRuns>>
  /\ Leave(r)
  /\ UNCHANGED <<directoryVars, batches, schoolId, contact, references, assets, library>>

-----------------------------------------------------------------------------
\* Library sets.

PlanLibrary(r, rows) ==
  /\ importer[r].pc = "idle"
  /\ LibraryReadable(rows)
  /\ LibraryFree(rows)
  /\ importer' = [importer EXCEPT ![r] = [pc |-> "library", rows |-> rows]]
  /\ UNCHANGED <<directoryVars, ledgerVars, recordVars>>

CommitLibrary(r) ==
  /\ importer[r].pc = "library"
  /\ IF LibraryFree(importer[r].rows)
     THEN /\ library' = library \cup LibrarySets(importer[r].rows, r)
          /\ references' = references \cup LibraryReferences(importer[r].rows)
     ELSE UNCHANGED <<library, references>>
  /\ Leave(r)
  /\ UNCHANGED <<directoryVars, ledgerVars, schoolId, contact, assets, openings, balanceRuns>>

-----------------------------------------------------------------------------
\* What staff enter by hand meanwhile.

EnterStudent(p, key) ==
  /\ \A q \in People : schoolId[q] # key
  /\ CreatePerson(p, TRUE, {})
  /\ schoolId' = [schoolId EXCEPT ![p] = key]
  /\ UNCHANGED <<ledgerVars, contact, references, assets, library, openings, balanceRuns,
                 importer>>

EnterGuardian(p, key, s) ==
  /\ CreateGuardianAndLinkStudent(p, s)
  /\ contact' = [contact EXCEPT ![p] = key]
  /\ UNCHANGED <<ledgerVars, schoolId, references, assets, library, openings, balanceRuns,
                 importer>>

RemoveLink(g, s) ==
  /\ UnlinkGuardianStudent(g, s)
  /\ UNCHANGED <<ledgerVars, importVars>>

ReverseOpening(id, e) ==
  /\ ReverseFinancialEntry(id, e)
  /\ UNCHANGED <<directoryVars, importVars>>

ImportNext ==
  \/ \E r \in Importers :
       \/ \E f \in MigrationFiles : CheckDestination(r, f)
       \/ CommitMigration(r)
       \/ \E f \in GuardianFiles : PlanGuardians(r, f)
       \/ CommitGuardians(r)
       \/ \E sheet \in BalanceSheets : PlanBalances(r, sheet)
       \/ CommitBalances(r)
       \/ \E rows \in LibraryFiles : PlanLibrary(r, rows)
       \/ CommitLibrary(r)
  \/ \E p \in People, key \in StudentKeys : EnterStudent(p, key)
  \/ \E p, s \in People, key \in GuardianKeys : EnterGuardian(p, key, s)
  \/ \E g, s \in People : RemoveLink(g, s)
  \/ \E id \in UnusedIds(EntryIds, entries), e \in entries : ReverseOpening(id, e)

ImportSpec == ImportInit /\ [][ImportNext]_<<directoryVars, ledgerVars, importVars>>

-----------------------------------------------------------------------------
\* Properties.

\* Type invariant of what the imports write.
ImportTypeOK ==
  /\ schoolId \in [People -> StudentKeys \cup {NoId}]
  /\ contact \in [People -> GuardianKeys \cup {NoId}]
  /\ \A x \in assets : x.status \in AssetStatus /\ x.holder \in students \cup {NoId}
  /\ openings \subseteq [student: StudentKeys, entry: EntryIds, run: Importers]
  /\ balanceRuns \subseteq Importers

\* A form that was submitted twice, or by two people at once, imports nothing a
\* second time: no student, guardian, asset or library set exists twice.
NothingImportedTwice ==
  /\ \A x, y \in references : x.kind = y.kind /\ x.key = y.key => x = y
  /\ \A x, y \in assets : x.key = y.key => x = y
  /\ \A x, y \in library : x.source = y.source => x = y
  /\ \A x, y \in library : x.catalog = y.catalog /\ x.catalog # NoId => x = y

\* An opening balance is posted once for each student, whichever of the two ways
\* it came.  The one exception is a sheet that names a student by its CutTime id in
\* one row and by its school id in another: the code reads these as two students.
OpeningPostedOnce ==
  \A x, y \in openings : \A e, f \in entries :
    e.id = x.entry /\ f.id = y.entry /\ e.person = f.person /\ x # y =>
      /\ x.run = y.run
      /\ x.student # y.student
      /\ schoolId[e.person] \in {x.student, y.student}

\* Nothing is imported twice, neither rows nor money.
ImportedOnce == NothingImportedTwice /\ OpeningPostedOnce

\* The custody an import writes is one the inventory could have reached: the
\* status of an asset tells its assignment and its repair.
ImportedCustodyTrue ==
  \A x \in assets : /\ x.status = "ASSIGNED" <=> x.holder # NoId
                    /\ x.status = "IN_REPAIR" <=> x.inRepair

\* The imported rows are rows the other parts of the program could have written.
ImportedRecordsTrue == ImportTypeOK /\ ImportedCustodyTrue
=============================================================================
