# Band Office: models, checks and proofs

TLA+ models of the parts of Band Office in which several requests, worker
ticks, files or process ends meet, the TLC configurations that check them on
small instances, and TLAPS proofs of what matters most for instances of any
size. `PROJECT.json` maps every definition to the lines it stands for and
lists components, runs, mutants, hazards, findings and theorems.

    tlc -workers 2 -config MCLending.cfg MCLending
    tlapm LendingProofs.tla

## The system

Band Office is one Next.js server over one SQLite file, run by an Electron
application or by Docker Compose. Its state is the database, three directories
of managed files beside it, and little else: server actions are asynchronous
handlers of one process, so any two of them interleave at every `await`, and
only what is inside one `$transaction` is one step.

| Component | State | Operations | What is hard |
| --- | --- | --- | --- |
| People and groups (`inventory-service.ts`, `actions.ts`) | people, student profiles, groups, memberships, family links | create, edit, archive, join, leave, link | read by everything below in their own transactions |
| Inventory (`inventory-service.ts`) | assets, assignments, repairs, operating periods, audit rows | create, edit, delete, check out, check in, open and close repairs, import, rollover | a status column that caches two other tables; the period is read before the transaction; rollover meets every other handler |
| Backup and export (`api/backup/route.ts`) | backup records | snapshot, archive, record | three steps with everything else in between; the rollover gate trusts their times |
| Email (`communications-service.ts`) | announcement, recipient rows, job, lease | draft, edit, cancel, send, confirm overdue; worker tick | a send is a chain of separate statements: overlap, cancellation, edit, crash, lease expiry |
| Music library (`library-service.ts`) | items, loans, component notes | lend, close, note, resolve, archive | one status set by five handlers from different facts |
| Managed files (`*-storage.ts`, the file actions) | files and their rows | upload, remove, purge, back up | row and file cannot change together |
| Financials (`financial-service.ts`) | entries that are never changed, batches | charge, pay, credit, assess a group, reverse | a reversal happens once; an assessment is whole |
| Events (`events-service.ts`, `calendar-feed.ts`) | events, groups, rosters, RSVPs, attendance, packing list, volunteers, calendar tokens, reminders | status changes, roster refresh and removal, RSVP, marking, sign-up, feeds | a roster is a snapshot that is refreshed; the sheet was read before it is saved; capacity |
| Forms (`forms-service.ts`) | template versions, questions, campaigns, requests, responses, retention, reminders | edit, publish, revise, open, respond, waive, remind, purge | responses, waivers and purges meet; reminders span two transactions |
| CutTime imports (`cuttime-*.ts`) | external references and rows of the above | migrate, import guardians, balances, library sets | the checks come before the transaction |
| Staff sign-in (`auth.ts`, `auth-throttle.ts`) | accounts, roles, sessions, failure windows | set up, seed, sign in and out, change roles | two directors demote each other; attempts in flight at the limit |
| Family portal (`portal-auth.ts`) | portal accounts, sessions, reset codes | invite, disable, enable, request a code, reset | single use of a code, expiry, a moved address |
| Desktop start (`desktop/main.mjs`, `migrations.mjs`, `data-lifecycle.mjs`) | database, directories, request markers, snapshots, migration markers | reset the demo, restore, migrate, roll back, serve | every start goes on where the last one ended |
| Desktop restore (`data-lifecycle.mjs`) | live, displaced, staged and pending database and directories | request, recover, save, stage, swap, roll back, clean up | the process may end between any two file operations |
| Archive validation (`backup-archive.mjs`) | none of its own | verify an archive before it is restored | what a backup records has to pass it |
| Reports, labels, pages, tooling | none of their own | | |

Interactions: every state-changing handler appends audit rows, whose times the
rollover gate compares with the backup records; the backup reads the database
and, later, the managed files; the worker and staff call the same
`sendAnnouncement`; forms and events create announcements; the ledger, events
and forms resolve groups and family links when they write, and keep the result;
the migration writes rows of the directory, the inventory, the library and the
ledger at once; a contact edit of a person changes the portal account; a restart
ends running requests and is how resets, restores and updates are applied.

## Modules

| Module | Models | Proofs |
| --- | --- | --- |
| `InventoryService` | custody, repairs, people, backup records, rollover | `LendingProofs` |
| `EmailDelivery` | one announcement: drafting, senders, worker, job, crashes | `EmailProofs` |
| `LibraryLoans` | library items, loans, component notes | `LendingProofs` |
| `ManagedFiles` | uploads, removals, purges and backups of managed files, and the validation of an archive | `FilesProofs` |
| `Directory` | people, groups and families as the next four read them | `LedgerProofs` |
| `AccountBook` | abstract: amounts are posted, a posting is undone once | |
| `FinancialLedger` | the student ledger and its reports, over `Directory` | `LedgerProofs` |
| `EventRoster` | events, over `Directory` | `RecordsProofs` |
| `FormLifecycle` | forms, over `Directory` | `RecordsProofs` |
| `CutTimeImport` | the four imports, over `FinancialLedger` | `LedgerProofs` |
| `AccountAccess` | staff and family accounts | `AccessProofs` |
| `DesktopStart` | resets, migrations and the server's start | `StartProofs` |
| `DesktopRestore` | the restore request and `applyPendingRestore` | `RestoreProofs` |

`MC` modules add symmetry, the rows a request may submit, and what a run
explores side by side. `MCLending` composes the inventory with the library,
`MCRecords` composes events, ledger and forms over one directory, and
`MCDataDirectory` the server's managed files with the application that starts
the server. Their parts write disjoint rows or files, so a behaviour keeps to one
of them (`part`, `subject`): what TLC explores is the union of the parts and not
the product, which would only pair every state of one part with every state of
another that cannot see it.

**InventoryService.** One action is one handler with its whole transaction: the
checks, the rows, the trailing `syncAssetStatus` and the audit row. A handler
that reads the current period before its transaction may carry a period that
has been closed since; only what the transaction checks again is a guard. The
backup route is three actions, so a change can fall between its snapshot and
its record. `gateOpen` is the comparison the rollover makes (latest backup not
older than latest audited change), `archiveCovers` what it stands for.

**EmailDelivery.** Every awaited statement of `sendAnnouncement`, of the worker
tick and of the overdue confirmation is an action of the handler that executes
it (`sender[s].pc`); drafting, editing and cancelling are transactions. Time is
abstract: a job is due in the future, due, or missed (due before the process
started), a lease or an attempt is younger or older than its five minutes, and
environment actions let them age. What the provider has accepted (`accepted`) is
kept apart from what is recorded: the hand-over (`Deliver`) and the transaction
that records its result (`RecordResult`) are two steps of the sender, and between
them the process may end (`Restart`, which forgets the running requests), the
answer may be lost (`LoseAnswer`), or the recording may fail, upon which the
catch block around both records an accepted message as refused (`RecordFails`).
Any other statement may fail too (`StatementFails`). `overlapped` remembers
whether two requests have been under way at the same time: several properties
promise something only while it is false.

**LibraryLoans.** One action per transaction.

**ManagedFiles.** A request stores files, then commits or rejects their rows; a
removal commits its rows, then deletes the files one by one. A fault is a
failing file operation or the end of the process. The backup copies
the database, lists the rows of the copy, reads the files one after the other
and records the archive; `ValidArchive` is the check a restore makes of it. Rows
of the three tables differ only in that removing an event resource can be repeated (`EventKeys`).

**Directory.** The handlers on people and groups that other components read.
Nothing is deleted but a family link.

**FinancialLedger.** A charge is a positive entry, a payment or a credit a
negative one, a correction an entry of the opposite amount that names what it
reverses by a unique key. The operators of the reports are modelled beside the
handlers, so a property can say that what a report adds up is what stands. The
refinement into `AccountBook` reads entries that are no reversals as postings
and reversals as corrections: it hides the four handlers, the batches and the
signs.

**EventRoster.** One action per transaction, except the attendance handler and
the private feed, which read first and take two. A roster row is ACTIVE or
REMOVED for good; RSVPs and marks outlive both. Reminders record whom their
announcement targets; their delivery is `EmailDelivery`.

**FormLifecycle.** One template with all its versions, since operations on a
template touch its own rows only. Saving a response reads the campaign, stores
files and then writes, so it takes two steps. Reminding takes three: the open
requests are read, the announcement is created, the reminder rows are written.
The announcement addresses the recipients who are ACTIVE when it is created
(`audience`; the others are `leftOut`), the rows are written for every request
read that is still open.

**CutTimeImport.** A request is idle, holds what its plan was made from, or
commits: everything read before the transaction is kept in `importer[r]`. The
unique keys of the schema roll a whole transaction back. An export is the set of
rows it holds; `MCCutTimeImport` lists files whose students, guardians and
identifiers overlap in each way that the code tells apart.

**AccountAccess.** A request that awaits a password hash or a mail takes two
steps and keeps in `job[k]` what it has read. `crowded` remembers which
identifiers, addresses and codes two clients have ever been at together. The throttle is a window of failed
attempts and a block per identifier; windows, blocks, codes and sessions expire
by environment actions. Passwords are counted, not spelled.

**DesktopStart.** The steps of `bootstrap` with a position `at`. A database
records how many migrations' statements it has seen and how many are marked, by
the application and by Prisma, because the two are written one after the other.
Releases come with an update, snapshots stay. A restore is one step here;
`DesktopRestore` has its file operations.

**DesktopRestore.** `live`, `displaced`, `staged` and `pending` say what the
database (part 0) and each directory hold in their four places, named by the
state of the program the content belongs to, and "partial" for content that was
not written completely. `at` and `part` are the position in the code. The catch
block of the swap is modelled step by step. `ran` is a history variable: what
the server has run with and no later work has overwritten.

## Runs

| Run | Question | Result | States |
| --- | --- | --- | --- |
| `MCLending.cfg` | custody, status and periods, loans and issues under all interleavings | holds | 212 thousand |
| `MCRolloverGate.cfg` | does the rollover's archive hold every change? | violated | |
| `MCEmailDelivery.cfg` | resends, missed jobs and the report while requests do not overlap; held addresses and leases when they do | holds | 432 thousand |
| `MCEmailOverlap.cfg` | is a message accepted once when requests overlap? | violated | |
| `MCEmailUnrecorded.cfg` | is it when they do not, but the process ends? | violated | |
| `MCDataDirectory.cfg` | rows keep their files, archives pass their validation, removed content goes; resets, restores and migrations failing or cut at any step | holds | 287 thousand |
| `MCDesktopRestore.cfg` | data kept, no mixture, an interrupted start is made up for | holds | 970 thousand |
| `MCRestoreMixture.cfg` | no mixture when the request ends half way? | violated | |
| `MCRecords.cfg` | ledger, events and forms over a changing directory; the refinement | holds | 182 thousand |
| `MCCutTimeImport.cfg` | imports repeated or overlapping | holds | 281 thousand |
| `MCAccountAccess.cfg` | accounts, roles, limits and codes with overlapping requests | holds | 212 thousand |
| `MCResetGuesses.cfg` | is a code guessed at five times at most? | violated | |

A property of a run is a conjunction of named parts where the parts are about
one thing and break together: `CustodyInv` (no two custodians, the status
cache, no issue in repair, no assignment of a deleted asset), `PeriodInv`,
`ShelfInv`, `StatementsTrue`, `EventRecordsKept`, `VersionsInv`, `ResponsesInv`,
`ImportedOnce`, `ImportedRecordsTrue`, `LimitsHold`, `AccountsTrue`, `StartInv`,
`ResetTakesTheDemo`, `RestoreInv`. The parts are stated next to them. The type
invariants of the modules with proofs are theorems and not run again, the others
are parts of these.

Every property of a passing run has a mutant in `PROJECT.json`, and a
conjunction has one for each part that the code can break: a plausible mistake
in the code, written next to the definition it replaces and introduced by
"Mistake:", under which TLC finds the property violated.

### What the violated runs show

1. *Rollover gate.* The backup is stamped when the archive is finished, not
   when its snapshot was taken. A change in between is older than the backup
   that does not contain it, and the rollover closes the period on that archive
   (README.md:188 says otherwise).
2. *Overlap.* Recipients are listed once and marked SENDING without a check of
   their status. A worker tick that overlaps the last one, or a staff retry,
   sends again to a destination that was accepted meanwhile
   (SECURITY_CHECKLIST.md:19).
3. *Unrecorded acceptance.* The provider accepts a message in one statement and
   the result is recorded by the next. A process that ends in between leaves the
   row SENDING; the next attempt after five minutes takes it for failed and sends
   again, although no two requests overlap. A record that fails has the same
   effect at once, because the catch block covers both statements
   (SECURITY_CHECKLIST.md:19 and EMAIL_SETUP.md:43). What holds is
   `ResentOnlyIfUnrecorded`: a destination recorded SENT stays so, and without a
   crash, a lost answer or a failing statement nothing is handed over twice.
4. *Restore request.* The pending database is written first and the request is
   not atomic. If it ends before the last directory is complete, the next start
   applies what is there (SECURITY_CHECKLIST.md:37).
5. *Guesses of a code.* A guess is checked against the limit when the code is
   read and counted after the hash was verified, by an update without a
   condition. Guesses of two clients that overlap at the fifth are both counted
   (SECURITY_CHECKLIST.md:9 says at most five). The same shape is in the failures
   of a sign-in and the requests for a code (auth-throttle.ts:32,
   portal-auth.ts:137). The block after ten failures (SECURITY_CHECKLIST.md:11) is
   imposed in every case, and attempts that were in flight by then add to the
   ten. `LimitsHold` says how far this goes: a limit is exact for what no two
   clients have been at together (`crowded`), over any number of windows, codes
   and expiries; elsewhere it is passed by fewer than there are clients, however
   often attempts overlap. It does not promise the documented numbers under
   overlap, which is what the run refutes.

Four more facts of the same kind are stated in the modules without a run of
their own. `EmailDelivery!CanceledIsFinal` fails: a cancellation between the
status check and the SENDING update is overwritten, and the message goes out.
An announcement whose row a crash has left SENDING is reported SENT by a retry
within five minutes, which neither recovers nor counts the row, and is refused
further retries; `ReportIsTrue` excepts that row and says so. Recipients of a
form who are no longer ACTIVE are left out of the audience of a reminder and
listed as reminded all the same: the handler counts their rows, and the overview
shows them; `RemindedOrInactive`, a part of `ResponsesInv`, says that nobody
else is. `ManagedFiles!RemovedMeansDeleted` fails: a purge
discards a deletion that fails after its rows were committed, and nothing
deletes the content later (compare SECURITY_CHECKLIST.md:28).

### What `DesktopStart` excludes, and why

A process that ends between the statements of a migration, or between them and
the marker row, leaves statements that the next start executes again. Unless
the migration happens to be repeatable it fails, the snapshot (of the database
as it was found) is restored, and every later start does the same: the data are
safe (`NothingLost`, `FailedMigrationUndone`), but the application does not
start, while SECURITY_CHECKLIST.md:25 calls the runner idempotent. A rollback
copies the snapshot onto the database file itself; cut at its first byte it
leaves an empty file, which the next start takes for a new database, while the
data stay in the snapshot. `StartsAgain` therefore promises a start only for a
database that is not `Interrupted`; without its disjunct for `Interrupted` TLC
finds the first of the two.

### Known behaviour that no property is about

- A sheet of opening balances that names a student by the CutTime id in one row
  and by the school id in another posts two opening balances to that student: the
  rows are told apart by their text (cuttime-balance-import.ts:107), the persons
  looked up later (lines 128 to 143). `OpeningPostedOnce` excepts it.
- A migration import chooses the operating period before its transaction; two
  migrations of disjoint files both pass the check that the destination is empty.
- A response that is saved as a draft or reopened and then waived keeps its
  answers and is not reached by the purge.
- The demo seed inserts its rows one statement at a time, so two set-ups at once
  may end with two programs.
- A portal account disabled while a password reset of it is awaiting the hash is
  enabled by the reset.
- Mailbox settings saved during a test of the connection are marked verified.

### Bounds

Sets of rows are primary keys the program may use up, so they bound the length
of a history and not only its width.

*Lending.* Two assets and two assignments are enough for two custodies of one
asset, a rollover between them and a second asset the first must not influence;
three periods let a rollover of a period that is already closed open another
one; one person suffices because no guard relates two. Three loans and notes
over two sets give a set that is lent, returned incomplete and lent again; they
are taken in order (`KeysInOrder`), which loses nothing because new keys are
alike.

*Email.* Two destinations distinguish a partial delivery from a full one, one
worker and one staff session overlap in every way that two handlers can, one
edit, one fault and one restart fall at any point. Where requests overlap one
destination is enough (`OneAddress`): no property of overlapping requests
relates two. The violated runs need less and name it in their files.

*Files and restore.* One key whose removal can be repeated and one whose removal
cannot, two requests and a backup let a form response with several files, a
removal and an archive meet; two faults can hit a request and its clean-up. Two
directories put one on either side of an interruption; one process end, one
failing operation and one broken request let a rollback, or the recovery from
it, be interrupted. Larger instances of these two were checked once and also
hold: three keys with one fault (705 thousand states), two process ends (2.7
million).

*Start.* The steps treat all directories alike, so one is enough beside the
database. Two releases let an upgrade with two migrations meet a database that
has one of them; the second migration is repeatable, the first is not. Two
process ends let a start that makes up for an interrupted one be interrupted.

*Records.* Two people are a student and another student or a guardian, in a
group or not; amounts of one and two let a reversal and a payment be told
apart; three entries hold a charge, its reversal and a third that must not
touch them; three versions give one that is published, one closed by it and a
draft; four questions let a version be copied and changed. Capacities of one
and of two meet two volunteers. `EventBound` ends a behaviour with its first
reminder, which nothing depends on, and gives the event of the roster part one
switch for RSVPs and attendance; `FormBound` ends a behaviour with the first reminder that is through, and
makes the questions of the template part required ones, and lets a campaign have one subject, who has a request of
their own and one for a guardian. `LowestKeys` takes unused questions in order.

*Imports.* Two requests submit any two of the listed files, whose students,
guardians, groups, assets and identifiers overlap in each way the code tells
apart, one of them a sheet that names a student by both ids; three entries are
an opening balance of both students and one too many.

*Accounts.* Two clients interleave two requests in every way; two staff members
are the last director and another; limits of one and two are reached and passed
with two clients; two codes are an older and a newer one. The limits of different
identifiers, addresses and codes do not depend on each other, so a behaviour ends
when attempts on a second one overlap (`OneCrowd`). The run on guesses has the
limit of the code, five.

`MaxEdition`, `MaxCrashes`, `MaxFaults`, `MaxEnds`, `MaxErrors`, `MaxBreaks`,
`MaxCodes`, `MaxVersion` and `MaxQuantity` are the caps inside the modules, each
in a guard or in the range of an input; `KeysInOrder`, `LowestKeys` and the
`Bound` of `MCRecords` and `MCAccountAccess` are the only constraints, with
`OneAddress` in the specification of `MCEmailDelivery`. Runs of
modules whose keys are used up do not check for deadlock, because the models
stop when they are; `MCDesktopRestore` does check it. No run with a
liveness property uses symmetry.

### Fairness

`EmailDelivery.Fairness` is weakly fair to each worker (the timer of `main.mjs`
and `run-server-worker.mjs` call again for ever), to each running staff request
(handlers run to their end unless the process ends), and to the passing of time.
`ManagedFiles.FairSpec` is weakly fair to a request that has files left to
delete. `MCDataDirectory` states both it and `FairStart` for the composition.
`DesktopRestore.FairSpec` and `DesktopStart.FairStart` are weakly fair
to the steps of a start, the first of which is that somebody opens the
application again. Nothing is assumed of staff, of the mail provider or of
faults, which the caps make finite.

## Proofs

All theorems hold for every value of the constants that satisfies the named
assumptions of the modules (bounds are natural numbers, key sets are disjoint
where they stand for different things, what is counted is finite, and import
files have the form their readers leave them in: `ImportAssumption`). Every
invariant that a passing run checks is stated by a theorem, and so is every
action property and the refinement.

*Inventory.* `IInv` consists of the checked invariants and `RowsHaveAssets`:
without it the close of a repair could synchronise, and so resurrect, a deleted
asset. It is proved inductive action by action; `CustodyInv`, `PeriodInv`, their
parts, and the action properties `GraduatesHoldNothing` and
`AssignmentHistoryKept` follow.

*Email.* `EmailInv` has the types, `EditionInv`, which holds however requests
overlap, and the rest for as long as they have not. `EditionInv`: the rows a
request has listed are not on hold as long as no edit has replaced them, and an
edit that has makes its next update throw; `HeldNeverSent` follows. For one
request at a time `DeliveryInv` says what it still holds: a list without
recorded destinations, as long as no edit has replaced the rows under it, and a
row in hand that is SENDING. `AcceptedInv` relates what the provider has accepted
to the rows: an accepted message is recorded, or in the hands of the request
that is about to record it, or something has crashed or failed. From the two
follows `ResentOnlyIfUnrecorded`; the two violated runs show that neither of its
assumptions can be dropped. `ReportIsTrue` follows from `ReportInv`: unless
something has crashed or failed a row is SENDING only while a request has it in
hand, so whoever counts the results has seen all of them.
`OverdueNeedsConfirmation` follows from `MissedIsHeld`.

*Library.* `LInv` adds to the invariants that nothing is noted on an item that
does not exist yet. `ShelfInv`, its parts and `SettledForGood` follow.

*Files.* A row keeps its file because only requests whose rows do not exist yet,
or are REMOVED already, delete anything. `FInv` states this (`HeldInv`) together
with the fact that a key being stored belongs to one request only
(`StoringInv`), without which another request's clean-up could delete it when its
row becomes ACTIVE; `ReadInv` says that a backup has listed what its snapshot holds
and has read what it listed apart from what is still to be read, so that its
archive is valid. No assumption about faults is made. `NothingLeftBehind` is
inductive itself: as long as nothing has failed, a request gives up a key only by
committing its row or deleting its file.

*Ledger.* `LInv` says that entries are stored under their ids, that a reversal
refers to an entry of the opposite amount and that no entry is reversed twice,
and that every entry belongs to a student. From it follow the refinement
(`FinancialLedger` implements `AccountBook`: initial states map to initial
states, each step posts new amounts, undoes one posting or stutters) and that
no entry falls out of the reports. `StatementsTrue` speaks of sums over sets of
entries and of students. Sums are defined by recursion on a set that is chosen
from, so the proof begins with a principle of induction over the subsets of a
finite set, stated about sets of subsets (`SubsetInduction`), and with lemmas on
sums: adding and removing an element, renaming, splitting, equal terms, and
summing by rows or by columns. `StatementInv` adds to `LInv` that entries and
students are finitely many and that the rows of an assessment came with their
batch (`BatchesKept`).

*Imports.* `ImportInv` says what a reference and a school id name
(`Referred`, `KeysNamePeople`) and what a request has read that is still so when
its transaction begins: the students it found are students for ever, the file it
accepted is readable. What it has not found may have come since, and there the
unique keys and the second look at earlier runs (`FirstBalances`) take over.
`ImportedOnce` and `ImportedRecordsTrue` follow, and the ledger keeps its
invariant through every import. The first attempt at this proof failed on the
sheet that names a student by both ids (see above): `OpeningPostedOnce` used to
promise one opening balance without exception, and no listed file had shown it
wrong. The property now says what the code does, `TwoIds` in the invariant says
why there is no other exception, and the listed files include such a sheet.

*Accounts.* `AInv` consists of the types, what each request under way relies on
(`StaffHaveAccounts`, `PortalHasPasswords`, `CodeInv`), a throttle whose full
windows are blocked, `LimitsHold`, and `CrowdInv`: what is not `crowded` has
one client under way at most. Checks come before an await and writes
after it, so what an invariant says of the rows is not enough: the proof is
about what the handlers hold in between. The limits are proved by counting the
clients under way with what has been counted; a step moves one from the former
to the latter. The number of clients is any finite number.

*Events.* `EInv` has the types of the rows, what they refer to, and that an
opportunity has no places before it exists: a sign-up is counted against the
places when it is made, and a new opportunity has nobody signed up.
`NoOverbooking`, `EventTypeOK` and the action properties `EventRecordsKept` and
`AttendanceSavedWhole` follow. Only that there are finitely many people is
assumed.

*Forms.* That the questions of a version stand on the positions 1 to n is not
inductive: two questions on one position would leave a gap when one of them is
removed. `FormInv` says that there is exactly one on each (`Ordered`), and that
versions are numbered without a gap (`VersionsCounted`), on which a revision
relies. A copy of a version keeps the order because the identifiers of the copies
and the copied questions are equally many, hence one each. For the responses the invariant adds
that an open request belongs to a campaign on a version that has been published
(`ResponseRefers`): since such a version is fixed, an edit of the template changes
nothing that old answers are read with. `ReminderInv` says of a reminder under
way that each request it has read belongs to somebody it addressed or left out,
from which the same follows for the rows. `PublishedVersionsAreFixed`
and `ClosedStaysClosed` follow. The number of questions is any finite number.

*Desktop restore.* `RInv` rests on one idea: a part is saved before it is
displaced and displaced before it is replaced, so what is displaced is never the
only copy (`DisplacedIsSaved`) and recovery may drop it. The exception that
makes the invariant long is a directory that an interrupted swap has left
displaced. It is put back but not saved again, because whether it exists was
noted before; the invariant says that the start that displaced it had saved it
(`PutBackIsSaved`). `EverythingKept` follows. For the mixture the invariant says
that whoever reaches the swap finds every part pending, and that everything
stays pending until the last part is placed (`TogetherInv`); with it
`RestoreInv` holds for any number of directories, as long as no request was
broken off (`breaks = 0`, which the `restore_mixture` run shows to be needed).

*Desktop start.* `SInv` says what has been saved at each step. A reset has
copied everything before it removes the first file (`ResetInv`), which gives
`ResetTakesTheDemo`. A migration changes only what its snapshot holds
(`SnapshotInv`) or what needs none (`UnsavedInv`), which gives `NothingLost` and
`FailedMigrationUndone`. Whether a snapshot is taken is decided by the recorded
migrations and the Program table, not by what an interrupted start has executed;
that the decision is right needs `Sound`, which relates the two for the live
database and for the snapshot. It assumes that a verified archive has the tables
of the first migration: the check of an archive reads them.

Only model-checked: liveness (`LeasesEnd`, `RemovedContentGoes`, `RunsAgain`,
`StartsAgain`), which is out of the prover's reach.

## Not modelled

- Service functions no handler calls: operating-period edits, plain check-in,
  deletions of assignments, repairs and people.
- Records that no modelled guard reads: asset components, classifications,
  performance records, event series, mail templates, attachments, descriptive
  fields.
- The text of a message: an edit between the two reads of a send can pair the
  old text with the new audience, which the model does not see.
- Encryption, archive layout, CSV and hashes: a file is in an archive as its row
  describes it or not at all. Archives of older versions, which list fewer files.
- Reading and normalising import files: a plan is the set of rows it holds.
- Mail provider and settings of the mailbox, beyond acceptance, rejection and
  whether the connection is verified.
- Labels, pages, build and release tooling, and the contents of the demo seed.

## Plan

Done: the five modules of the core, their composition, the records with the
account book, the imports, the accounts, the desktop start, the validation of
archives, and the proofs listed above. Left, in this order:

1. An abstract specification of delivery (a message is handed over until its
   acceptance is recorded) that `EmailDelivery` implements, with the edition of
   the text that is sent; the mailbox settings and their test.
2. Restores of archives of older versions, whose directories are not in them.
