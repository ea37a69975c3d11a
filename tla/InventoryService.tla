-------------------------- MODULE InventoryService --------------------------
(***************************************************************************)
(* Custody of school property and the operating period it is issued in.    *)
(*                                                                         *)
(* Every action is one handler of src/app/actions.ts together with the     *)
(* database transaction of src/lib/inventory-service.ts it runs, the       *)
(* trailing status synchronisation and the audit row included.  A handler  *)
(* reads the current operating period before its transaction starts        *)
(* (getProgramContext), so the period it carries is any period row, open   *)
(* or closed since; only what the transaction checks again is a guard.     *)
(*                                                                         *)
(* The backup route works in three steps that other handlers can run       *)
(* between: the database snapshot, the archive built from it, and the      *)
(* BackupRecord row.  Rollover compares the time of the last BackupRecord  *)
(* with the time of the last audit row that is not an EXPORT; gateOpen is  *)
(* the result of that comparison.  archiveCovers says what the comparison  *)
(* stands for: the last recorded archive holds every change made so far.   *)
(***************************************************************************)
EXTENDS Naturals, FiniteSets

CONSTANTS Assets,           \* asset rows the program may create
          AssignmentIds,    \* primary keys of Assignment (bounds the history)
          RepairIds,        \* primary keys of Repair (bounds the history)
          People,           \* person rows
          Periods,          \* operating-period rows (bounds the rollovers)
          FirstPeriod,      \* the period first-run setup opens
          Exporters,        \* staff sessions that may be building a backup
          GraduationGrade,  \* Program.graduationGrade
          MaxGrade          \* largest grade a form submits

ASSUME InventoryAssumption ==
  /\ FirstPeriod \in Periods
  /\ GraduationGrade \in Nat \ {0}
  /\ MaxGrade \in Nat
  /\ GraduationGrade <= MaxGrade

VARIABLES status,         \* Asset.status, "ABSENT" before creation
          assignments,    \* the rows of Assignment
          repairs,        \* the rows of Repair
          periodStatus,   \* OperatingPeriod.status, "ABSENT" before creation
          personStatus,   \* Person.status
          grade,          \* StudentProfile.grade, 0 without a profile
          members,        \* people with a current membership of the group
          exporter,       \* what each exporter's snapshot still covers
          gateOpen,       \* latest backup not older than latest audited change
          archiveCovers   \* the latest recorded archive holds every change

custodyVars == <<status, assignments, repairs>>
rosterVars  == <<personStatus, grade, members>>
backupVars  == <<exporter, gateOpen, archiveCovers>>
vars == <<status, assignments, repairs, periodStatus, personStatus, grade,
          members, exporter, gateOpen, archiveCovers>>

AssetStatus == {"ABSENT", "AVAILABLE", "ASSIGNED", "IN_REPAIR", "RETIRED", "MISSING"}
\* Statuses that synchronisation leaves alone.
OutOfService == {"RETIRED", "MISSING"}
\* INACTIVE stands for INACTIVE and ARCHIVED, which the code treats alike.
PersonStatus == {"ABSENT", "ACTIVE", "INACTIVE", "GRADUATED"}
PeriodStatus == {"ABSENT", "OPEN", "CLOSED"}
\* OPEN stands for OPEN and AT_VENDOR: every query asks for both.
Assignment == [id: AssignmentIds, asset: Assets, person: People,
               period: Periods, open: BOOLEAN]
Repair == [id: RepairIds, asset: Assets, open: BOOLEAN]

Existing(x) == status[x] # "ABSENT"
Held(x, rows) == \E a \in rows : a.asset = x /\ a.open
UnderRepair(x, rows) == \E r \in rows : r.asset = x /\ r.open
FreshId(id, rows) == \A r \in rows : r.id # id

\* syncAssetStatus: the status an asset gets from its rows.
SyncedStatus(x, current, assignmentRows, repairRows) ==
  IF current \in OutOfService THEN current
  ELSE IF Held(x, assignmentRows) THEN "ASSIGNED"
  ELSE IF UnderRepair(x, repairRows) THEN "IN_REPAIR"
  ELSE "AVAILABLE"

\* Mistake: the handler forgets the trailing synchronisation.
SyncForgotten(x) == UNCHANGED status

SyncAsset(x) ==
  status' = [status EXCEPT ![x] = SyncedStatus(x, status[x], assignments', repairs')]

\* Mistake: the row is deleted where it should be closed.
DropRow(rows, r) == rows \ {r}

\* The update that sets checkedInAt, or a repair's status CLOSED.
CloseRow(rows, r) == (rows \ {r}) \cup {[r EXCEPT !.open = FALSE]}

\* A committed change appends an audit row: it closes the rollover gate and is
\* in no archive, nor in a snapshot already taken.
AppendAudit ==
  /\ gateOpen' = FALSE
  /\ archiveCovers' = FALSE
  /\ exporter' = [e \in Exporters |->
                    IF exporter[e] = "covers" THEN "misses" ELSE exporter[e]]

Init ==
  /\ status = [x \in Assets |-> "ABSENT"]
  /\ assignments = {}
  /\ repairs = {}
  /\ periodStatus = [q \in Periods |-> IF q = FirstPeriod THEN "OPEN" ELSE "ABSENT"]
  /\ personStatus = [p \in People |-> "ABSENT"]
  /\ grade = [p \in People |-> 0]
  /\ members = {}
  /\ exporter = [e \in Exporters |-> "idle"]
  /\ gateOpen = FALSE
  /\ archiveCovers = FALSE

-----------------------------------------------------------------------------
\* Assets.

\* createAssetAction and the rows importAssetsAction adds: no status is passed.
CreateAsset(x) ==
  /\ ~Existing(x)
  /\ status' = [status EXCEPT ![x] = "AVAILABLE"]
  /\ AppendAudit
  /\ UNCHANGED <<assignments, repairs, periodStatus, rosterVars>>

\* updateAssetAction: the form passes AVAILABLE, RETIRED, MISSING or no status.
\* Only a requested AVAILABLE is synchronised with the asset's rows.
UpdateAsset(x, requested) ==
  /\ Existing(x)
  /\ requested \in OutOfService => ~Held(x, assignments)
  /\ status' = [status EXCEPT ![x] =
                  CASE requested = "AVAILABLE" ->
                         SyncedStatus(x, "AVAILABLE", assignments, repairs)
                    [] requested \in OutOfService -> requested
                    [] OTHER -> @]
  /\ AppendAudit
  /\ UNCHANGED <<assignments, repairs, periodStatus, rosterVars>>

\* deleteAssetAction: only an asset without any assignment or repair history.
DeleteAsset(x) ==
  /\ Existing(x)
  /\ \A a \in assignments : a.asset # x
  /\ \A r \in repairs : r.asset # x
  /\ status' = [status EXCEPT ![x] = "ABSENT"]
  /\ AppendAudit
  /\ UNCHANGED <<assignments, repairs, periodStatus, rosterVars>>

-----------------------------------------------------------------------------
\* Checkout, check-in and repairs.

\* What checkoutAsset reads again inside its transaction about asset and person.
MayHold(x, p, inGroup) ==
  /\ Existing(x)
  /\ personStatus[p] = "ACTIVE"
  /\ inGroup => p \in members
  /\ status[x] \notin OutOfService

\* Mistake: the count of active assignments is left out.
CheckoutUncounted(x, p, q, inGroup) ==
  MayHold(x, p, inGroup) /\ periodStatus[q] = "OPEN" /\ ~UnderRepair(x, repairs)

\* Mistake: the period the page was rendered with is trusted.
CheckoutStalePeriod(x, p, q, inGroup) ==
  MayHold(x, p, inGroup) /\ ~Held(x, assignments) /\ ~UnderRepair(x, repairs)

CheckoutAllowed(x, p, q, inGroup) ==
  /\ MayHold(x, p, inGroup)
  /\ periodStatus[q] = "OPEN"
  /\ ~Held(x, assignments)
  /\ ~UnderRepair(x, repairs)

\* checkoutAction: q is the period the page read before the transaction.
Checkout(id, x, p, q, inGroup) ==
  /\ FreshId(id, assignments)
  /\ CheckoutAllowed(x, p, q, inGroup)
  /\ assignments' = assignments \cup
       {[id |-> id, asset |-> x, person |-> p, period |-> q, open |-> TRUE]}
  /\ repairs' = repairs
  /\ SyncAsset(x)
  /\ AppendAudit
  /\ UNCHANGED <<periodStatus, rosterVars>>

\* checkinAction: closes the assignment and, when the damage box is ticked,
\* opens a repair in the same transaction.
Checkin(a, damaged, rid) ==
  /\ a.open
  /\ assignments' = CloseRow(assignments, a)
  /\ IF damaged
     THEN /\ FreshId(rid, repairs)
          /\ repairs' = repairs \cup {[id |-> rid, asset |-> a.asset, open |-> TRUE]}
     ELSE repairs' = repairs
  /\ SyncAsset(a.asset)
  /\ AppendAudit
  /\ UNCHANGED <<periodStatus, rosterVars>>

\* Mistake: a repair may be opened for an asset somebody holds.
RepairUncounted(x) == Existing(x) /\ status[x] \notin OutOfService

RepairAllowed(x) ==
  Existing(x) /\ status[x] \notin OutOfService /\ ~Held(x, assignments)

\* createRepairAction: the period is not checked, the asset must be in service.
CreateRepair(rid, x) ==
  /\ FreshId(rid, repairs)
  /\ RepairAllowed(x)
  /\ repairs' = repairs \cup {[id |-> rid, asset |-> x, open |-> TRUE]}
  /\ assignments' = assignments
  /\ SyncAsset(x)
  /\ AppendAudit
  /\ UNCHANGED <<periodStatus, rosterVars>>

\* closeRepairAction: any repair, closed already or not.
CloseRepair(r) ==
  /\ repairs' = CloseRow(repairs, r)
  /\ assignments' = assignments
  /\ SyncAsset(r.asset)
  /\ AppendAudit
  /\ UNCHANGED <<periodStatus, rosterVars>>

-----------------------------------------------------------------------------
\* People and groups.

\* createPersonAction and the rows importStudentsAction adds.
CreatePerson(p, g, inGroup) ==
  /\ personStatus[p] = "ABSENT"
  /\ personStatus' = [personStatus EXCEPT ![p] = "ACTIVE"]
  /\ grade' = [grade EXCEPT ![p] = g]
  /\ members' = IF inGroup THEN members \cup {p} ELSE members
  /\ AppendAudit
  /\ UNCHANGED <<custodyVars, periodStatus>>

\* updatePersonAction: any status; the grade only for a student.
UpdatePerson(p, s, g) ==
  /\ personStatus[p] # "ABSENT"
  /\ personStatus' = [personStatus EXCEPT ![p] = s]
  /\ grade' = [grade EXCEPT ![p] = g]
  /\ AppendAudit
  /\ UNCHANGED <<custodyVars, periodStatus, members>>

\* The rows importStudentsAction finds: reactivated, regraded, in the section.
ImportStudent(p, g) ==
  /\ personStatus[p] # "ABSENT"
  /\ grade[p] # 0
  /\ personStatus' = [personStatus EXCEPT ![p] = "ACTIVE"]
  /\ grade' = [grade EXCEPT ![p] = g]
  /\ members' = members \cup {p}
  /\ AppendAudit
  /\ UNCHANGED <<custodyVars, periodStatus>>

AddGroupMembership(p) ==
  /\ personStatus[p] # "ABSENT"
  /\ members' = members \cup {p}
  /\ AppendAudit
  /\ UNCHANGED <<custodyVars, periodStatus, personStatus, grade>>

EndGroupMembership(p) ==
  /\ p \in members
  /\ members' = members \ {p}
  /\ AppendAudit
  /\ UNCHANGED <<custodyVars, periodStatus, personStatus, grade>>

-----------------------------------------------------------------------------
\* Backup and rollover.

\* buildArchive: the SQLite snapshot.
TakeSnapshot(e) ==
  /\ exporter[e] = "idle"
  /\ exporter' = [exporter EXCEPT ![e] = "covers"]
  /\ UNCHANGED <<custodyVars, periodStatus, rosterVars, gateOpen, archiveCovers>>

\* buildArchive rejects the snapshot or a managed file.
AbandonBackup(e) ==
  /\ exporter[e] # "idle"
  /\ exporter' = [exporter EXCEPT ![e] = "idle"]
  /\ UNCHANGED <<custodyVars, periodStatus, rosterVars, gateOpen, archiveCovers>>

\* recordBackup: the BackupRecord row and its EXPORT audit row.
RecordBackup(e) ==
  /\ exporter[e] # "idle"
  /\ exporter' = [exporter EXCEPT ![e] = "idle"]
  /\ gateOpen' = TRUE
  /\ archiveCovers' = (exporter[e] = "covers")
  /\ UNCHANGED <<custodyVars, periodStatus, rosterVars>>

ActiveStudent(p) == personStatus[p] = "ACTIVE" /\ grade[p] # 0
Graduating(p) == ActiveStudent(p) /\ grade[p] >= GraduationGrade

Outstanding(q) == \E a \in assignments : a.open /\ a.period = q

\* Mistake: the period the page was rendered with is trusted.
RolloverStalePeriod(q) == periodStatus[q] # "ABSENT" /\ ~Outstanding(q) /\ gateOpen

\* Mistake: outstanding assignments are not counted.
RolloverUncounted(q) == periodStatus[q] = "OPEN" /\ gateOpen

RolloverAllowed(q) == periodStatus[q] = "OPEN" /\ ~Outstanding(q) /\ gateOpen

\* rolloverAction: q is the period whose label the director typed.
Rollover(q, next) ==
  /\ RolloverAllowed(q)
  /\ periodStatus[next] = "ABSENT"
  /\ personStatus' = [p \in People |->
                        IF Graduating(p) THEN "GRADUATED" ELSE personStatus[p]]
  /\ grade' = [p \in People |->
                 IF ActiveStudent(p) /\ ~Graduating(p) THEN grade[p] + 1 ELSE grade[p]]
  /\ members' = {p \in members : ~Graduating(p)}
  /\ periodStatus' = [periodStatus EXCEPT ![q] = "CLOSED", ![next] = "OPEN"]
  /\ AppendAudit
  /\ UNCHANGED custodyVars

Next ==
  \/ \E x \in Assets : CreateAsset(x)
  \/ \E x \in Assets, s \in {"NONE", "AVAILABLE", "RETIRED", "MISSING"} : UpdateAsset(x, s)
  \/ \E x \in Assets : DeleteAsset(x)
  \/ \E id \in AssignmentIds, x \in Assets, p \in People, q \in Periods, inGroup \in BOOLEAN :
       Checkout(id, x, p, q, inGroup)
  \/ \E a \in assignments, damaged \in BOOLEAN, rid \in RepairIds : Checkin(a, damaged, rid)
  \/ \E rid \in RepairIds, x \in Assets : CreateRepair(rid, x)
  \/ \E r \in repairs : CloseRepair(r)
  \/ \E p \in People, g \in 0 .. MaxGrade, inGroup \in BOOLEAN : CreatePerson(p, g, inGroup)
  \/ \E p \in People, s \in PersonStatus \ {"ABSENT"} :
       \E g \in IF grade[p] = 0 THEN 0 .. MaxGrade ELSE 1 .. MaxGrade : UpdatePerson(p, s, g)
  \/ \E p \in People, g \in 1 .. MaxGrade : ImportStudent(p, g)
  \/ \E p \in People : AddGroupMembership(p)
  \/ \E p \in People : EndGroupMembership(p)
  \/ \E e \in Exporters : TakeSnapshot(e)
  \/ \E e \in Exporters : AbandonBackup(e)
  \/ \E e \in Exporters : RecordBackup(e)
  \/ \E q, next \in Periods : Rollover(q, next)

Spec == Init /\ [][Next]_vars

-----------------------------------------------------------------------------
\* Properties.

\* Type invariant of the tables and of the backup state.
TypeOK ==
  /\ status \in [Assets -> AssetStatus]
  /\ assignments \subseteq Assignment
  /\ repairs \subseteq Repair
  /\ periodStatus \in [Periods -> PeriodStatus]
  /\ personStatus \in [People -> PersonStatus]
  /\ grade \in [People -> 0 .. MaxGrade]
  /\ members \subseteq People
  /\ exporter \in [Exporters -> {"idle", "covers", "misses"}]
  /\ gateOpen \in BOOLEAN
  /\ archiveCovers \in BOOLEAN

\* No asset is in two people's hands: the schema has no constraint that says so,
\* only the count inside checkoutAsset.
OneCustodian ==
  \A a, b \in assignments : a.open /\ b.open /\ a.asset = b.asset => a = b

\* Asset.status, a stored column, is what the asset's rows say whenever the
\* asset is in service, and an asset out of service is in nobody's hands.
StatusTellsTheRows ==
  \A x \in Assets :
    /\ status[x] = SyncedStatus(x, status[x], assignments, repairs) \/ ~Existing(x)
    /\ status[x] \in OutOfService \cup {"ABSENT"} => ~Held(x, assignments)

\* No asset is at the same time issued to a person and waiting for repair:
\* a damaged return opens its repair in the transaction that closes the custody.
NeverIssuedUnderRepair ==
  \A x \in Assets : ~(Held(x, assignments) /\ UnderRepair(x, repairs))

\* Every assignment of a closed period is resolved, for good: rollover counts
\* the open ones and a checkout prepared before the rollover is refused after it.
ClosedPeriodsSettled ==
  \A a \in assignments : a.open => periodStatus[a.period] = "OPEN"

\* There is exactly one open period: every handler's getProgramContext needs one
\* and two directors rolling over at once must not open two.
OneOpenPeriod ==
  \E q \in Periods : \A k \in Periods : periodStatus[k] = "OPEN" <=> k = q

\* Where an asset is: whatever order check-outs, damaged returns, repairs and edits
\* come in, its status and its two tables tell one story.
CustodyInv == OneCustodian /\ StatusTellsTheRows /\ NeverIssuedUnderRepair

\* One period is open, and what is out belongs to it, whenever a check-out or a
\* rollover was prepared.
PeriodInv == ClosedPeriodsSettled /\ OneOpenPeriod

\* Nobody whom a rollover graduates still holds school property.
GraduatesHoldNothing ==
  [][\A p \in People :
       /\ personStatus[p] = "ACTIVE"
       /\ personStatus'[p] = "GRADUATED"
       /\ \E q \in Periods : periodStatus[q] = "OPEN" /\ periodStatus'[q] = "CLOSED"
       => ~\E a \in assignments' : a.open /\ a.person = p]_vars

\* History is permanent: an assignment row never disappears, reopens or changes
\* hands, so lifetime custody reports stay true.
AssignmentHistoryKept ==
  [][\A a \in assignments :
       \E b \in assignments' : /\ b.id = a.id /\ b.asset = a.asset
                               /\ b.person = a.person /\ b.period = a.period
                               /\ b.open => a.open]_vars

\* README.md:188: rollover remains blocked until a backup newer than the latest
\* record mutation exists.  The archive a rollover relies on holds every change.
RolloverArchiveComplete ==
  [][\A q \in Periods : periodStatus[q] = "OPEN" /\ periodStatus'[q] = "CLOSED"
       => archiveCovers]_vars
=============================================================================
