---------------------------- MODULE DesktopStart ----------------------------
(***************************************************************************)
(* How the desktop application starts (bootstrap in desktop/main.mjs): a   *)
(* requested reset of the demo (desktop/data-lifecycle.mjs), a requested   *)
(* restore, the migrations of the release (desktop/migrations.mjs, which   *)
(* scripts/deploy-sqlite-migrations.mjs runs for a server), the server.    *)
(* The process may end between any two of these steps, and each of them    *)
(* may fail; both leave the rest to the next start.                        *)
(*                                                                         *)
(* The restore is one step here; DesktopRestore has its file operations.   *)
(* The SQL of a migration is a script whose statements commit one by one,  *)
(* so it can stop half way, and its marker row is a statement of its own.  *)
(***************************************************************************)
EXTENDS Naturals, FiniteSets

CONSTANTS Directories,  \* number of managed directories
          Own,          \* states of a school's own program
          Demos,        \* states of the fictional demo
          Mixed,        \* databases in which a second program is beside the demo
          Archives,     \* databases of verified backup archives
          Releases,     \* migrations of the newest release
          Repeatable,   \* migrations that a second execution does not refuse
          MaxEnds,      \* bound on process ends outside an orderly quit
          MaxErrors     \* bound on failing steps

Parts == 0 .. Directories    \* 0 is the database
Dirs == Parts \ {0}
Versions == 0 .. Releases
Programs == Own \cup Demos \cup Mixed
Contents == Programs \cup {"none", "empty", "partial"}

\* sql counts the migrations whose statements were executed, half tells whether
\* those of the next one were begun ("torn": they have the Program table dropped
\* to put a new one in its place), marked and prisma count the recorded ones.
Database == [data: Contents, sql: Versions, half: {"no", "yes", "torn"},
             marked: Versions, prisma: Versions]

ASSUME StartAssumption ==
  /\ {Directories, Releases, MaxEnds, MaxErrors} \subseteq Nat
  /\ Directories > 0 /\ Releases > 0
  /\ \A a \in Archives : /\ a \in Database /\ a.data \in Programs /\ a.half = "no"
                         /\ a.marked <= a.sql /\ a.prisma <= a.sql
                         /\ a.sql > 0   \* it was verified to have the Program table
  /\ {"none", "empty", "partial"} \cap Programs = {}
  /\ Own \cap (Demos \cup Mixed) = {} /\ Demos \cap Mixed = {}
  /\ Repeatable \subseteq Versions \ {0}

VARIABLES db,         \* bandos.db
          dirs,       \* library-files, form-files, event-files
          marker,     \* bandos.demo-reset-pending exists
          pending,    \* the archive of a requested restore, NoFile if there is none
          snapshots,  \* recovery snapshots: <<part, content>>
          release,    \* number of migrations the installed application brings
          at, part,   \* next step of the application, and the part it is for
          dialog,     \* the confirmation of a reset is on the screen
          existed,    \* the database existed when its migrations began
          saved,      \* content of snapshotPath, NoFile if it is null
          before,     \* history: the database when its migrations began
          ran,        \* history: <<part, content>> the server ran with, less what
                      \* later work has overwritten
          ends, errors

files == <<db, dirs, snapshots>>
requests == <<marker, pending, dialog>>
locals == <<existed, saved, before>>
counts == <<ends, errors>>
startVars == <<files, requests, locals, release, at, part, ran, counts>>

Steps == {"stopped", "reset", "copy", "clear", "restore", "open", "snapshot", "migrate",
          "mark", "undo", "recopy", "serve", "running"}

NoFile == [data |-> "none", sql |-> 0, half |-> "no", marked |-> 0, prisma |-> 0]
NewFile == [NoFile EXCEPT !.data = "empty"]
Whole(d) == d.data \in Programs /\ d.half = "no"
Held == {<<0, d.data>> : d \in {x \in {db} : Whole(x)}}
        \cup {<<p, dirs[p]>> : p \in {q \in Dirs : dirs[q] \in Programs}}

Goto(step, p) == at' = step /\ part' = p
NextPart(step) == IF part < Directories THEN Goto(at, part + 1) ELSE Goto(step, 0)
\* The variables of runSqliteMigrations are gone when it ends.
Return == existed' = FALSE /\ saved' = NoFile /\ before' = NoFile
Fails == errors < MaxErrors /\ errors' = errors + 1 /\ UNCHANGED ends

StartInit ==
  /\ db = NoFile
  /\ dirs = [p \in Dirs |-> "none"]
  /\ marker = FALSE /\ pending = NoFile
  /\ snapshots = {} /\ ran = {}
  /\ release \in Versions \ {0}
  /\ at = "stopped" /\ part = 0
  /\ dialog = FALSE
  /\ existed = FALSE /\ saved = NoFile /\ before = NoFile
  /\ ends = 0 /\ errors = 0

-----------------------------------------------------------------------------
\* The running application.

\* First-run set-up, and the work of staff.  Two set-ups at once may leave a second
\* program beside the demo; a set-up only ever finds an empty database.
NextData(d) ==
  CASE d = "empty" -> Programs
    [] d \in Demos -> Demos
    [] d \in Mixed -> Mixed
    [] OTHER -> Own

\* Directories appear with their first file.
Work ==
  /\ at = "running"
  /\ \E w \in NextData(db.data) \ {db.data}, D \in SUBSET Dirs :
       /\ db' = [db EXCEPT !.data = w]
       /\ dirs' = [p \in Dirs |-> IF p \in D \/ dirs[p] # "none" THEN w ELSE "none"]
  /\ ran' = (ran \ Held) \cup Held'
  /\ UNCHANGED <<snapshots, requests, locals, release, at, part, counts>>

\* Mistake: the demo is in the database, whatever else is.
HasDemo(d) == d.data \in Demos \cup Mixed

\* assertRidgelineDemoDatabase: the demo is the only program.
IsDemo(d) == d.data \in Demos

\* bandos:reset-demo, before the dialog is answered and after.
AskReset ==
  /\ at = "running" /\ ~dialog
  /\ IsDemo(db)
  /\ pending = NoFile
  /\ dialog' = TRUE
  /\ UNCHANGED <<files, marker, pending, locals, release, at, part, ran, counts>>

AnswerReset ==
  /\ at = "running" /\ dialog
  /\ dialog' = FALSE
  /\ marker' \in {marker, TRUE}
  /\ UNCHANGED <<files, pending, locals, release, at, part, ran, counts>>

\* bandos:restore-backup with a valid archive.
RequestRestore(a) ==
  /\ at = "running"
  /\ pending' = a
  /\ UNCHANGED <<files, marker, dialog, locals, release, at, part, ran, counts>>

\* Staff quit, or the restart half a second after a request.
Quit ==
  /\ at = "running"
  /\ dialog' = FALSE
  /\ Goto("stopped", 0)
  /\ UNCHANGED <<files, marker, pending, locals, release, ran, counts>>

\* A newer release is installed.
Upgrade ==
  /\ at = "stopped"
  /\ release < Releases
  /\ release' = release + 1
  /\ UNCHANGED <<files, requests, locals, at, part, ran, counts>>

-----------------------------------------------------------------------------
\* applyPendingDemoReset

BeginStart ==
  /\ at = "stopped"
  /\ Goto("reset", 0)
  /\ UNCHANGED <<files, requests, locals, release, ran, counts>>

\* Nothing requested, or the database, if there is one, is saved after it has been
\* asserted again to be the demo.
SaveDemo ==
  /\ at = "reset"
  /\ IF ~marker THEN Goto("restore", 0) /\ UNCHANGED snapshots
     ELSE IF db = NoFile THEN Goto("copy", 1) /\ UNCHANGED snapshots
     ELSE IF IsDemo(db) THEN Goto("copy", 1) /\ snapshots' = snapshots \cup {<<0, db.data>>}
     ELSE Goto("stopped", 0) /\ UNCHANGED snapshots
  /\ UNCHANGED <<db, dirs, requests, locals, release, ran, counts>>

\* Mistake: the directories are moved nowhere and copied nowhere.
DatabaseCopy(p) == {}

\* A copy of a directory that is there.
DirectoryCopy(p) == {<<p, c>> : c \in {dirs[p]} \ {"none"}}

CopyDirectory ==
  /\ at = "copy"
  /\ snapshots' = snapshots \cup DirectoryCopy(part)
  /\ NextPart("clear")
  /\ UNCHANGED <<db, dirs, requests, locals, release, ran, counts>>

\* Mistake: the marker goes first.
MarkerFirst(i) == IF i = 0 THEN Directories + 1 ELSE i - 1

\* What is removed as number i: the database, the directories, the marker.
ClearedAs(i) == i

Clear ==
  /\ at = "clear"
  /\ LET gone == ClearedAs(part) IN
     /\ db' = IF gone = 0 THEN NoFile ELSE db
     /\ dirs' = [p \in Dirs |-> IF p = gone THEN "none" ELSE dirs[p]]
     /\ marker' = (marker /\ gone # Directories + 1)
  /\ IF part <= Directories THEN Goto("clear", part + 1) ELSE Goto("restore", 0)
  /\ UNCHANGED <<snapshots, pending, dialog, locals, release, ran, counts>>

-----------------------------------------------------------------------------
\* applyPendingRestore: the current data saved, those of the archive in their place,
\* with every directory; or nothing changed and another start.
ApplyRestore ==
  /\ at = "restore"
  /\ IF pending = NoFile
     THEN UNCHANGED <<db, dirs, snapshots>>
     ELSE /\ snapshots' = snapshots \cup (UNION {DirectoryCopy(p) : p \in Dirs})
                          \cup (IF db = NoFile THEN {} ELSE {<<0, db.data>>})
          /\ db' = pending
          /\ dirs' = [p \in Dirs |-> pending.data]
  /\ pending' = NoFile
  /\ Goto("open", 0)
  /\ UNCHANGED <<marker, dialog, locals, release, ran, counts>>

RestoreFails ==
  /\ at = "restore" /\ pending # NoFile
  /\ Fails
  /\ Goto("stopped", 0)
  /\ UNCHANGED <<files, requests, locals, release, ran>>

-----------------------------------------------------------------------------
\* runSqliteMigrations

\* A new file counts as one that did not exist; so does one of no bytes, which a
\* copy interrupted in its beginning leaves.
OpenDatabase ==
  /\ at = "open"
  /\ saved' = NoFile
  /\ \/ /\ db.data \notin {"none", "partial"}
        /\ existed' = TRUE
        /\ before' = db
        /\ Goto("snapshot", 0)
        /\ UNCHANGED db
     \/ /\ db.data \in {"none", "partial"}
        /\ existed' = FALSE
        /\ before' = NoFile
        /\ db' = NewFile
        /\ Goto("migrate", 0)
  /\ UNCHANGED <<dirs, snapshots, requests, release, ran, counts>>

\* SQLite refuses what a copy interrupted later leaves.
OpenRefused ==
  /\ at = "open" /\ db.data = "partial"
  /\ existed' = TRUE /\ saved' = NoFile /\ before' = db
  /\ Goto("undo", 0)
  /\ UNCHANGED <<files, requests, release, ran, counts>>

\* Migrations recorded by the application or by Prisma.
Applied(d) == IF d.marked > d.prisma THEN d.marked ELSE d.prisma

HasProgramTable(d) == (d.sql > 0 \/ d.half = "yes") /\ d.half # "torn"

\* Mistake: the demo is not thought worth a snapshot.
ForAProgram(d) == Applied(d) < release /\ d.data \in Own

MustSnapshot(d) == Applied(d) < release /\ HasProgramTable(d)

TakeSnapshot ==
  /\ at = "snapshot"
  /\ IF MustSnapshot(db)
     THEN /\ saved' = db
          /\ snapshots' = snapshots \cup {<<0, x.data>> : x \in {y \in {db} : Whole(y)}}
     ELSE UNCHANGED <<saved, snapshots>>
  /\ Goto("migrate", 0)
  /\ UNCHANGED <<db, dirs, requests, existed, before, release, ran, counts>>

NextMigration(d) == d.marked + 1

\* Mistake: one migration too many.
Beyond(d) == d.marked > release

AllMarked(d) == d.marked >= release

\* Mistake: what Prisma has recorded is executed again.
Always(d) == TRUE

MustExecute(d) == NextMigration(d) > d.prisma

\* Whether the statements of the next migration can be executed on the database.
Executes(d) == d.half = "no" /\ (d.sql < NextMigration(d) \/ NextMigration(d) \in Repeatable)

FinishMigrations ==
  /\ at = "migrate" /\ AllMarked(db)
  /\ Goto("serve", 0)
  /\ Return
  /\ UNCHANGED <<files, requests, release, ran, counts>>

SkipExecuted ==
  /\ at = "migrate" /\ ~AllMarked(db) /\ ~MustExecute(db)
  /\ Goto("mark", 0)
  /\ UNCHANGED <<files, requests, locals, release, ran, counts>>

AtScript == at = "migrate" /\ ~AllMarked(db) /\ MustExecute(db)

RunMigration ==
  /\ AtScript /\ Executes(db)
  /\ db' = [db EXCEPT !.sql = IF @ < NextMigration(db) THEN NextMigration(db) ELSE @]
  /\ Goto("mark", 0)
  /\ UNCHANGED <<dirs, snapshots, requests, locals, release, ran, counts>>

\* Its first statement finds done what an interrupted start has done.
RefuseRepetition ==
  /\ AtScript /\ ~Executes(db)
  /\ Goto("undo", 0)
  /\ UNCHANGED <<files, requests, locals, release, ran, counts>>

HalfDone == {[db EXCEPT !.half = h] : h \in {x \in {"yes", "torn"} : x = "torn" => db.sql > 0}}

\* A statement of the script fails on the data of this database.
MigrationFails ==
  /\ AtScript /\ Executes(db)
  /\ Fails
  /\ db' \in HalfDone
  /\ Goto("undo", 0)
  /\ UNCHANGED <<dirs, snapshots, requests, locals, release, ran>>

MarkMigration ==
  /\ at = "mark"
  /\ db' = [db EXCEPT !.marked = NextMigration(db)]
  /\ Goto("migrate", 0)
  /\ UNCHANGED <<dirs, snapshots, requests, locals, release, ran, counts>>

\* Mistake: the error is not thrown again.
GoOn == "serve"

Rethrow == "stopped"

\* The catch block: the snapshot is copied back, a new database removed.
Undo ==
  /\ at = "undo"
  /\ IF saved # NoFile
     THEN db' = [NoFile EXCEPT !.data = "partial"] /\ Goto("recopy", 0) /\ UNCHANGED locals
     ELSE db' = (IF existed THEN db ELSE NoFile) /\ Goto(Rethrow, 0) /\ Return
  /\ UNCHANGED <<dirs, snapshots, requests, release, ran, counts>>

CopyBack ==
  /\ at = "recopy"
  /\ db' = saved
  /\ Goto(Rethrow, 0)
  /\ Return
  /\ UNCHANGED <<dirs, snapshots, requests, release, ran, counts>>

\* An incomplete snapshot is removed by the backup that fails, so that copying it
\* back fails too.
SnapshotFails ==
  /\ at = "snapshot" /\ MustSnapshot(db)
  /\ Fails
  /\ Goto("stopped", 0)
  /\ Return
  /\ UNCHANGED <<files, requests, release, ran>>

-----------------------------------------------------------------------------
\* startApplicationServer

Serve ==
  /\ at = "serve"
  /\ Goto("running", 0)
  /\ ran' = ran \cup Held
  /\ UNCHANGED <<files, requests, locals, release, counts>>

ServerFails ==
  /\ at = "serve"
  /\ Fails
  /\ Goto("stopped", 0)
  /\ UNCHANGED <<files, requests, locals, release, ran>>

\* The process ends, in the middle of a script or of a removal as well.
Crash ==
  /\ at # "stopped"
  /\ ends < MaxEnds
  /\ ends' = ends + 1
  /\ db' \in {db} \cup {d \in HalfDone : AtScript /\ Executes(db)}
  /\ dirs' \in {dirs} \cup {[dirs EXCEPT ![p] = "partial"] :
                  p \in {q \in Dirs : at = "clear" /\ q = ClearedAs(part) /\ dirs[q] # "none"}}
  /\ dialog' = FALSE
  /\ Goto("stopped", 0)
  /\ Return
  /\ UNCHANGED <<snapshots, marker, pending, release, ran, errors>>

Startup ==
  \/ BeginStart \/ SaveDemo \/ CopyDirectory \/ Clear
  \/ ApplyRestore
  \/ OpenDatabase \/ OpenRefused \/ TakeSnapshot
  \/ SkipExecuted \/ RunMigration \/ RefuseRepetition \/ MarkMigration \/ FinishMigrations
  \/ Undo \/ CopyBack
  \/ Serve

StartNext ==
  \/ Startup
  \/ Work \/ AskReset \/ AnswerReset \/ Quit \/ Upgrade
  \/ \E a \in Archives : RequestRestore(a)
  \/ RestoreFails \/ SnapshotFails \/ MigrationFails \/ ServerFails \/ Crash

StartSpec == StartInit /\ [][StartNext]_startVars

\* The application is opened again after it has stopped, and a start goes on.
FairStart == StartSpec /\ WF_startVars(Startup)

-----------------------------------------------------------------------------
\* Properties.

\* Type invariant of the files and of the application's step; a migration is marked
\* only after its statements were executed.
StartTypeOK ==
  /\ db \in Database /\ db.marked <= db.sql
  /\ dirs \in [Dirs -> Programs \cup {"none", "partial"}]
  /\ pending \in Archives \cup {NoFile}
  /\ snapshots \subseteq Parts \X Contents
  /\ release \in Versions
  /\ at \in Steps /\ part \in 0 .. Directories + 1
  /\ {marker, dialog, existed} \subseteq BOOLEAN
  /\ {saved, before} \subseteq Database
  /\ ran \subseteq Parts \X Programs

\* Whatever the server ran with, and no work has overwritten, is live or in a
\* recovery snapshot: through every reset, restore, upgrade and failed migration,
\* interrupted or repeated.
NothingLost == \A x \in ran : x \in Held \cup snapshots

\* A school's own program leaves the live database only by the work of staff, for a
\* restore they asked for, or to be copied back from its snapshot: a reset that was
\* requested of the demo never clears another program.
OnlyDemoCleared ==
  [][db.data \in Own \cup Mixed /\ db'.data # db.data =>
       at \in {"running", "undo"} \/ (at = "restore" /\ pending # NoFile)]_startVars

\* The request of a reset is forgotten only when nothing of the demo is left: an
\* interrupted reset is taken up again by the next start.
ResetIsWhole ==
  [][marker /\ ~marker' => db' = NoFile /\ \A p \in Dirs : dirs'[p] = "none"]_startVars

\* A reset takes the demo, all of it and nothing else.
ResetTakesTheDemo == OnlyDemoCleared /\ ResetIsWhole

\* A failed migration restores the database before the start exits, as it was found,
\* even half migrated; only one that had no tables yet may keep some.
FailedMigrationUndone ==
  [][(at \in {"undo", "recopy"} /\ at' = "stopped" /\ ends' = ends) =>
       (before.data = "empty" \/ db' = before)]_startVars

\* The server never runs on a database that an interrupted or failed migration of
\* this or of an earlier start has left unfinished.
ServedIsMigrated ==
  at = "running" => db.half = "no" /\ db.sql >= release /\ db.data # "partial"

\* The files are what the steps of a start take them for.
StartInv == StartTypeOK /\ ServedIsMigrated

\* What a process end during a migration or during a rollback leaves.
Interrupted == db.half # "no" \/ db.sql > Applied(db) \/ db.data = "partial"

\* An application that has stopped runs again, whatever reset, restore or upgrade
\* was requested, interrupted or failed.  Only a process end in the middle of a
\* migration or of its rollback may prevent it.
StartsAgain ==
  at = "stopped" /\ ~Interrupted ~> at = "running" \/ (at = "stopped" /\ Interrupted)
=============================================================================
