----------------------------- MODULE StartProofs -----------------------------
(***************************************************************************)
(* Proofs about DesktopStart, for any number of directories, migrations,   *)
(* archives, process ends and failures.                                    *)
(*                                                                         *)
(* Two kinds of steps take data away: a reset, which has copied all of it  *)
(* before it removes the first file (ResetInv), and the statements of a    *)
(* migration, before which a snapshot was taken (SnapshotInv).  That the   *)
(* snapshot was taken depends on what the database records of itself       *)
(* (Sound): the decision reads the recorded migrations and whether there   *)
(* is a Program table, not what an interrupted start has executed.         *)
(***************************************************************************)
EXTENDS DesktopStart, TLAPS

\* A database whose record of migrations is true: what is begun is neither recorded
\* nor passed by the release, and a program has the tables of the first migration.
Sound(d) ==
  /\ d.marked <= d.sql /\ d.prisma <= d.sql
  /\ d.half # "no" => d.prisma <= d.marked /\ d.marked < release
  /\ d.data \in Programs => d.sql > 0

\* What is saved of a part, if the server ever ran with it.
DatabaseSaved == Whole(db) => <<0, db.data>> \in snapshots
DirectorySaved(p) == dirs[p] \in Programs => <<p, dirs[p]>> \in snapshots

\* A reset saves everything before it removes the first of it.
ResetInv ==
  /\ at = "copy" => part \in Dirs
  /\ at \in {"copy", "clear"} => (db = NoFile \/ db.data \in Demos) /\ DatabaseSaved
  /\ at = "copy" => \A p \in Dirs : p < part => DirectorySaved(p)
  /\ at = "clear" =>
       /\ part > 0 => db = NoFile
       /\ \A p \in Dirs : DirectorySaved(p) /\ (p < part => dirs[p] = "none")

\* The steps between the snapshot and the end of the migrations.
Migrating == {"migrate", "mark"}

\* What the migrations of a start may still change was saved, or was not there.
SnapshotInv ==
  /\ saved # NoFile => at \in Migrating \cup {"undo", "recopy"} /\ saved = before
                       /\ DatabaseSaved
  /\ at = "recopy" => saved # NoFile /\ db.data = "partial"
  /\ at = "snapshot" => existed /\ before = db
  /\ at \in Migrating \cup {"undo"} /\ ~existed => db.data \notin Programs /\ before = NoFile
  /\ at \in Migrating /\ Applied(db) < release => DatabaseSaved

\* Without a snapshot of it the database is new to the program, nothing is pending, or
\* its first statement will be refused.
UnsavedInv ==
  existed /\ saved = NoFile =>
    /\ at \in Migrating => \/ before.data = "empty"
                           \/ db = before /\ db.half = "torn"
                           \/ Applied(db) >= release
    /\ at = "undo" => before.data = "empty" \/ db = before

\* What the migrations work on, and what they leave to the server.
MigrationInv ==
  /\ at \in Migrating \cup {"snapshot", "serve", "running"} =>
       db.data \notin {"none", "partial"}
  /\ at = "mark" => db.half = "no" /\ db.marked < release /\ db.marked < db.sql
  /\ at \in {"serve", "running"} => db.half = "no" /\ db.sql >= release

\* The bound on process ends is not needed.
TypedInv == StartTypeOK /\ ends \in Nat /\ release > 0

\* The inductive invariant.
SInv ==
  /\ TypedInv
  /\ Sound(db) /\ Sound(saved)
  /\ ResetInv /\ SnapshotInv /\ UnsavedInv /\ MigrationInv
  /\ NothingLost

\* The steps of ResetTakesTheDemo and of FailedMigrationUndone.
OnlyDemo ==
  db.data \in Own \cup Mixed /\ db'.data # db.data =>
    at \in {"running", "undo"} \/ (at = "restore" /\ pending # NoFile)
WholeReset == marker /\ ~marker' => db' = NoFile /\ \A p \in Dirs : dirs'[p] = "none"
Undone ==
  (at \in {"undo", "recopy"} /\ at' = "stopped" /\ ends' = ends) =>
    (before.data = "empty" \/ db' = before)

\* A restore that was requested saves the database and every directory.
LEMMA RestoreSaves ==
  ASSUME ApplyRestore, pending # NoFile
  PROVE  \A x : x \in snapshots' <=>
           \/ x \in snapshots
           \/ db # NoFile /\ x = <<0, db.data>>
           \/ \E p \in Dirs : dirs[p] # "none" /\ x = <<p, dirs[p]>>
<1> DEFINE copies == UNION {DirectoryCopy(p) : p \in Dirs}
           database == IF db = NoFile THEN {} ELSE {<<0, db.data>>}
<1>1. snapshots' = snapshots \cup copies \cup database
  BY DEF ApplyRestore
<1>2. \A x : x \in copies <=> \E p \in Dirs : x \in DirectoryCopy(p)
  OBVIOUS
<1>3. \A x : x \in copies <=> \E p \in Dirs : dirs[p] # "none" /\ x = <<p, dirs[p]>>
  BY <1>2 DEF DirectoryCopy
<1>4. \A x : x \in database <=> db # NoFile /\ x = <<0, db.data>>
  OBVIOUS
<1> QED
  BY <1>1, <1>3, <1>4

\* Every step keeps the types, and the release never goes back.
LEMMA StepTyped ==
  ASSUME TypedInv, Sound(saved), MigrationInv, ResetInv, [StartNext]_startVars
  PROVE  TypedInv'
<1> USE StartAssumption DEF Parts, Dirs, Versions, Programs, Contents, Database, Steps,
        NoFile, files, requests, locals, counts, TypedInv, StartTypeOK, MigrationInv,
        ResetInv, Migrating
<1>a. NoFile \in Database /\ NewFile \in Database /\ NoFile.marked <= NoFile.sql
  BY DEF NewFile
<1>1. ASSUME BeginStart PROVE TypedInv'
  BY <1>1 DEF BeginStart, Goto
<1>2. ASSUME SaveDemo PROVE TypedInv'
  BY <1>2 DEF SaveDemo, Goto, IsDemo
<1>3. ASSUME CopyDirectory PROVE TypedInv'
  BY <1>3 DEF CopyDirectory, NextPart, Goto, DirectoryCopy
<1>4. ASSUME Clear PROVE TypedInv'
  <2>1. db' \in Database /\ db'.marked <= db'.sql
    BY <1>a, <1>4 DEF Clear
  <2>2. dirs' \in [Dirs -> Programs \cup {"none", "partial"}]
    BY <1>4 DEF Clear
  <2>3. marker' \in BOOLEAN /\ at' \in Steps /\ part' \in 0 .. Directories + 1
    BY <1>4 DEF Clear, Goto
  <2> QED
    BY <1>4, <2>1, <2>2, <2>3 DEF Clear
<1>5. ASSUME ApplyRestore PROVE TypedInv'
  <2>1. db' \in Database /\ db'.marked <= db'.sql
    BY <1>a, <1>5 DEF ApplyRestore
  <2>2. dirs' \in [Dirs -> Programs \cup {"none", "partial"}]
    BY <1>5 DEF ApplyRestore
  <2>3. snapshots' \subseteq Parts \X Contents
    <3>1. CASE pending = NoFile
      BY <1>5, <3>1 DEF ApplyRestore
    <3>2. CASE pending # NoFile
      <4>1. 0 \in Parts /\ Dirs \subseteq Parts /\ db.data \in Contents
        OBVIOUS
      <4>2. \A p \in Dirs : dirs[p] \in Contents
        OBVIOUS
      <4> HIDE DEF Parts, Dirs, Contents, TypedInv, StartTypeOK, ResetInv,
               MigrationInv, Programs, NoFile, Database
      <4>3. \A x \in snapshots' : x \in Parts \X Contents
        BY <1>5, <3>2, <4>1, <4>2, RestoreSaves DEF TypedInv, StartTypeOK
      <4> QED
        BY <4>3
    <3> QED
      BY <3>1, <3>2
  <2>4. /\ pending' \in Archives \cup {NoFile}
        /\ at' \in Steps /\ part' \in 0 .. Directories + 1
    BY <1>5 DEF ApplyRestore, Goto
  <2> QED
    BY <1>5, <2>1, <2>2, <2>3, <2>4 DEF ApplyRestore
<1>6. ASSUME OpenDatabase PROVE TypedInv'
  <2>1. db' \in Database /\ db'.marked <= db'.sql
    BY <1>a, <1>6 DEF OpenDatabase, NewFile
  <2>2. existed' \in BOOLEAN /\ saved' \in Database /\ before' \in Database
    BY <1>a, <1>6 DEF OpenDatabase
  <2> QED
    BY <1>6, <2>1, <2>2 DEF OpenDatabase, Goto
<1>7. ASSUME OpenRefused PROVE TypedInv'
  BY <1>7 DEF OpenRefused, Goto
<1>8. ASSUME TakeSnapshot PROVE TypedInv'
  BY <1>8 DEF TakeSnapshot, Whole, Goto, MustSnapshot, HasProgramTable
<1>9. ASSUME SkipExecuted PROVE TypedInv'
  BY <1>9 DEF SkipExecuted, Goto, AllMarked, MustExecute, NextMigration
<1>10. ASSUME RunMigration PROVE TypedInv'
  BY <1>10
     DEF RunMigration, Goto, AtScript, AllMarked, MustExecute, NextMigration, Executes
<1>11. ASSUME RefuseRepetition PROVE TypedInv'
  BY <1>11
     DEF RefuseRepetition, Goto, AtScript, AllMarked, MustExecute, NextMigration,
     Executes
<1>12. ASSUME MarkMigration PROVE TypedInv'
  <2>1. db' \in Database /\ db'.marked <= db'.sql
    BY <1>12 DEF MarkMigration, NextMigration
  <2> QED
    BY <1>12, <2>1 DEF MarkMigration, Goto
<1>13. ASSUME FinishMigrations PROVE TypedInv'
  <2>1. /\ db' \in Database /\ db'.marked <= db'.sql
        /\ existed' \in BOOLEAN /\ saved' \in Database /\ before' \in Database
    BY <1>a, <1>13 DEF FinishMigrations, Goto, Return, AllMarked
  <2>2. at' \in Steps /\ part' \in 0 .. Directories + 1
    BY <1>13 DEF FinishMigrations, Goto, Return, AllMarked
  <2> QED
    BY <1>13, <2>1, <2>2 DEF FinishMigrations, Fails
<1>14. ASSUME Undo PROVE TypedInv'
  <2>1. /\ db' \in Database /\ db'.marked <= db'.sql
        /\ existed' \in BOOLEAN /\ saved' \in Database /\ before' \in Database
    <3>1. [NoFile EXCEPT !.data = "partial"] \in Database
      BY <1>a
    <3> QED
      <4>1. CASE saved # NoFile
        BY <1>14, <3>1, <4>1 DEF Undo
      <4>2. CASE saved = NoFile
        <5> HIDE DEF NoFile, Database
        <5> QED
          BY <1>a, <1>14, <4>2 DEF Undo, Return
      <4> QED
        BY <4>1, <4>2
  <2>2. at' \in Steps /\ part' \in 0 .. Directories + 1
    BY <1>14 DEF Undo, Goto, Return, Rethrow
  <2> QED
    BY <1>14, <2>1, <2>2 DEF Undo, Fails
<1>15. ASSUME CopyBack PROVE TypedInv'
  <2>1. /\ db' \in Database /\ db'.marked <= db'.sql
        /\ existed' \in BOOLEAN /\ saved' \in Database /\ before' \in Database
    BY <1>a, <1>15 DEF CopyBack, Goto, Return, Rethrow, Sound
  <2>2. at' \in Steps /\ part' \in 0 .. Directories + 1
    BY <1>15 DEF CopyBack, Goto, Return, Rethrow
  <2> QED
    BY <1>15, <2>1, <2>2 DEF CopyBack
<1>16. ASSUME Serve PROVE TypedInv'
  BY <1>16 DEF Serve, Goto, Held, Whole
<1>17. ASSUME Work PROVE TypedInv'
  <2>1. PICK w \in NextData(db.data) \ {db.data}, D \in SUBSET Dirs :
           /\ db' = [db EXCEPT !.data = w]
           /\ dirs' = [p \in Dirs |-> IF p \in D \/ dirs[p] # "none" THEN w ELSE "none"]
    BY <1>17 DEF Work
  <2>2. w \in Programs
    BY DEF NextData
  <2>3. db' \in Database /\ db'.marked <= db'.sql
    BY <2>1, <2>2
  <2>4. dirs' \in [Dirs -> Programs \cup {"none", "partial"}]
    BY <2>1, <2>2
  <2>5. ran' \subseteq Parts \X Programs
    <3>1. ran' \subseteq ran \cup Held'
      BY <1>17 DEF Work
    <3>2. Held' \subseteq Parts \X Programs
      BY <2>4 DEF Held, Whole
    <3> QED
      BY <3>1, <3>2
  <2> QED
    BY <1>17, <2>3, <2>4, <2>5 DEF Work
<1>18. ASSUME AskReset PROVE TypedInv'
  BY <1>18 DEF AskReset
<1>19. ASSUME AnswerReset PROVE TypedInv'
  BY <1>19 DEF AnswerReset
<1>20. ASSUME Quit PROVE TypedInv'
  <2>1. dialog' = FALSE /\ at' = "stopped" /\ part' = 0
    BY <1>20 DEF Quit, Goto
  <2>2. dialog' \in BOOLEAN /\ at' \in Steps
    BY <2>1
  <2>3. part' \in 0 .. Directories + 1
    BY <2>1
  <2> QED
    BY <1>20, <2>2, <2>3 DEF Quit
<1>21. ASSUME Upgrade PROVE TypedInv'
  BY <1>21 DEF Upgrade
<1>22. ASSUME NEW a \in Archives, RequestRestore(a) PROVE TypedInv'
  BY <1>22 DEF RequestRestore
<1>23. ASSUME RestoreFails PROVE TypedInv'
  BY <1>23 DEF RestoreFails, Goto, Fails
<1>24. ASSUME SnapshotFails PROVE TypedInv'
  <2>1. /\ db' \in Database /\ db'.marked <= db'.sql
        /\ existed' \in BOOLEAN /\ saved' \in Database /\ before' \in Database
    BY <1>a, <1>24 DEF SnapshotFails, Goto, Fails, Return
  <2>2. at' \in Steps /\ part' \in 0 .. Directories + 1
    BY <1>24 DEF SnapshotFails, Goto, Fails, Return
  <2> QED
    BY <1>24, <2>1, <2>2 DEF SnapshotFails, Fails
<1>25. ASSUME MigrationFails PROVE TypedInv'
  BY <1>25 DEF MigrationFails, Goto, Fails, AtScript, AllMarked, MustExecute,
     NextMigration, Executes, HalfDone
<1>26. ASSUME ServerFails PROVE TypedInv'
  BY <1>26 DEF ServerFails, Goto, Fails
<1>27. ASSUME Crash PROVE TypedInv'
  <2>1. db' \in Database /\ db'.marked <= db'.sql
    BY <1>27 DEF Crash, AtScript, HalfDone
  <2>2. dirs' \in [Dirs -> Programs \cup {"none", "partial"}]
    BY <1>27 DEF Crash, ClearedAs
  <2>3. /\ dialog' \in BOOLEAN /\ existed' \in BOOLEAN
        /\ saved' \in Database /\ before' \in Database
    BY <1>a, <1>27 DEF Crash, Return
  <2>4. at' \in Steps /\ part' \in 0 .. Directories + 1 /\ ends' \in Nat
    BY <1>27 DEF Crash, Goto
  <2> QED
    BY <1>27, <2>1, <2>2, <2>3, <2>4 DEF Crash
<1>28. ASSUME UNCHANGED startVars PROVE TypedInv'
  BY <1>28 DEF startVars
<1> QED
  BY <1>1, <1>2, <1>3, <1>4, <1>5, <1>6, <1>7, <1>8, <1>9, <1>10, <1>11, <1>12, <1>13,
     <1>14, <1>15, <1>16, <1>17, <1>18, <1>19, <1>20, <1>21, <1>22, <1>23, <1>24,
     <1>25, <1>26, <1>27, <1>28 DEF StartNext, Startup

\* Statements are recorded after they were executed, and those of a migration are
\* only left half done where it is the next one.
LEMMA StepSound ==
  ASSUME TypedInv, Sound(db), Sound(saved), MigrationInv, [StartNext]_startVars
  PROVE  Sound(db)' /\ Sound(saved)'
<1> USE StartAssumption DEF Parts, Dirs, Versions, Programs, Contents, Database, Steps,
        NoFile, files, requests, locals, counts, TypedInv, StartTypeOK, MigrationInv,
        Sound, Migrating
<1>1. ASSUME BeginStart PROVE Sound(db)' /\ Sound(saved)'
  BY <1>1 DEF BeginStart, Goto, Applied
<1>2. ASSUME SaveDemo PROVE Sound(db)' /\ Sound(saved)'
  BY <1>2 DEF SaveDemo, Goto, IsDemo, Applied
<1>3. ASSUME CopyDirectory PROVE Sound(db)' /\ Sound(saved)'
  BY <1>3 DEF CopyDirectory, NextPart, Goto, DirectoryCopy, Applied
<1>4. ASSUME Clear PROVE Sound(db)' /\ Sound(saved)'
  BY <1>4 DEF Clear, Goto, ClearedAs, Applied
<1>5. ASSUME ApplyRestore PROVE Sound(db)' /\ Sound(saved)'
  BY <1>5 DEF ApplyRestore, Goto, DirectoryCopy, Applied
<1>6. ASSUME OpenDatabase PROVE Sound(db)' /\ Sound(saved)'
  BY <1>6 DEF OpenDatabase, Goto, NewFile, Applied
<1>7. ASSUME OpenRefused PROVE Sound(db)' /\ Sound(saved)'
  BY <1>7 DEF OpenRefused, Goto, Applied
<1>8. ASSUME TakeSnapshot PROVE Sound(db)' /\ Sound(saved)'
  BY <1>8 DEF TakeSnapshot, Goto, MustSnapshot, HasProgramTable, Applied
<1>9. ASSUME SkipExecuted PROVE Sound(db)' /\ Sound(saved)'
  BY <1>9 DEF SkipExecuted, Goto, AllMarked, MustExecute, NextMigration, Applied
<1>10. ASSUME RunMigration PROVE Sound(db)' /\ Sound(saved)'
  BY <1>10 DEF RunMigration, Goto, AtScript, AllMarked, MustExecute, NextMigration,
     Executes, Applied
<1>11. ASSUME RefuseRepetition PROVE Sound(db)' /\ Sound(saved)'
  BY <1>11 DEF RefuseRepetition, Goto, AtScript, AllMarked, MustExecute, NextMigration,
     Executes, Applied
<1>12. ASSUME MarkMigration PROVE Sound(db)' /\ Sound(saved)'
  BY <1>12 DEF MarkMigration, Goto, NextMigration, Applied
<1>13. ASSUME FinishMigrations PROVE Sound(db)' /\ Sound(saved)'
  BY <1>13 DEF FinishMigrations, Goto, Return, AllMarked, Applied
<1>14. ASSUME Undo PROVE Sound(db)' /\ Sound(saved)'
  BY <1>14 DEF Undo, Goto, Return, Rethrow, Applied
<1>15. ASSUME CopyBack PROVE Sound(db)' /\ Sound(saved)'
  BY <1>15 DEF CopyBack, Goto, Return, Rethrow, Applied
<1>16. ASSUME Serve PROVE Sound(db)' /\ Sound(saved)'
  BY <1>16 DEF Serve, Goto, Applied
<1>17. ASSUME Work PROVE Sound(db)' /\ Sound(saved)'
  BY <1>17 DEF Work, NextData, Applied
<1>18. ASSUME AskReset PROVE Sound(db)' /\ Sound(saved)'
  BY <1>18 DEF AskReset, Applied
<1>19. ASSUME AnswerReset PROVE Sound(db)' /\ Sound(saved)'
  BY <1>19 DEF AnswerReset, Applied
<1>20. ASSUME Quit PROVE Sound(db)' /\ Sound(saved)'
  BY <1>20 DEF Quit, Goto, Applied
<1>21. ASSUME Upgrade PROVE Sound(db)' /\ Sound(saved)'
  BY <1>21 DEF Upgrade, Applied
<1>22. ASSUME NEW a \in Archives, RequestRestore(a) PROVE Sound(db)' /\ Sound(saved)'
  BY <1>22 DEF RequestRestore, Applied
<1>23. ASSUME RestoreFails PROVE Sound(db)' /\ Sound(saved)'
  BY <1>23 DEF RestoreFails, Goto, Fails, Applied
<1>24. ASSUME SnapshotFails PROVE Sound(db)' /\ Sound(saved)'
  BY <1>24 DEF SnapshotFails, Goto, Fails, Return, Applied
<1>25. ASSUME MigrationFails PROVE Sound(db)' /\ Sound(saved)'
  BY <1>25 DEF MigrationFails, Goto, Fails, AtScript, AllMarked, MustExecute,
     NextMigration, Executes, HalfDone, Applied
<1>26. ASSUME ServerFails PROVE Sound(db)' /\ Sound(saved)'
  BY <1>26 DEF ServerFails, Goto, Fails, Applied
<1>27. ASSUME Crash PROVE Sound(db)' /\ Sound(saved)'
  BY <1>27 DEF Crash, Goto, Return, AtScript, AllMarked, MustExecute, NextMigration,
     Executes, HalfDone, ClearedAs, Applied
<1>28. ASSUME UNCHANGED startVars PROVE Sound(db)' /\ Sound(saved)'
  BY <1>28 DEF startVars, Applied
<1> QED
  BY <1>1, <1>2, <1>3, <1>4, <1>5, <1>6, <1>7, <1>8, <1>9, <1>10, <1>11, <1>12, <1>13,
     <1>14, <1>15, <1>16, <1>17, <1>18, <1>19, <1>20, <1>21, <1>22, <1>23, <1>24,
     <1>25, <1>26, <1>27, <1>28 DEF StartNext, Startup

\* A reset saves and removes in the order ResetInv says; nothing else runs then.
LEMMA StepReset ==
  ASSUME TypedInv, ResetInv, [StartNext]_startVars
  PROVE  ResetInv'
<1> USE StartAssumption DEF TypedInv, Parts, Dirs, Versions, Programs, Contents,
        Database, Steps, NoFile, files, requests, locals, counts, StartTypeOK,
        ResetInv, DatabaseSaved, DirectorySaved
<1>1. ASSUME BeginStart PROVE ResetInv'
  BY <1>1 DEF BeginStart, Goto, Whole
<1>2. ASSUME SaveDemo PROVE ResetInv'
  BY <1>2 DEF SaveDemo, Goto, IsDemo, Whole
<1>3. ASSUME CopyDirectory PROVE ResetInv'
  BY <1>3 DEF CopyDirectory, NextPart, Goto, DirectoryCopy, Whole
<1>4. ASSUME Clear PROVE ResetInv'
  BY <1>4 DEF Clear, Goto, ClearedAs, Whole
<1>5. ASSUME ApplyRestore PROVE ResetInv'
  BY <1>5 DEF ApplyRestore, Goto, DirectoryCopy, Whole
<1>6. ASSUME OpenDatabase PROVE ResetInv'
  BY <1>6 DEF OpenDatabase, Goto, NewFile, Whole
<1>7. ASSUME OpenRefused PROVE ResetInv'
  BY <1>7 DEF OpenRefused, Goto, Whole
<1>8. ASSUME TakeSnapshot PROVE ResetInv'
  BY <1>8 DEF TakeSnapshot, Goto, MustSnapshot, HasProgramTable, Whole
<1>9. ASSUME SkipExecuted PROVE ResetInv'
  BY <1>9 DEF SkipExecuted, Goto, AllMarked, MustExecute, NextMigration, Whole
<1>10. ASSUME RunMigration PROVE ResetInv'
  BY <1>10 DEF RunMigration, Goto, AtScript, AllMarked, MustExecute, NextMigration,
     Executes, Whole
<1>11. ASSUME RefuseRepetition PROVE ResetInv'
  BY <1>11 DEF RefuseRepetition, Goto, AtScript, AllMarked, MustExecute, NextMigration,
     Executes, Whole
<1>12. ASSUME MarkMigration PROVE ResetInv'
  BY <1>12 DEF MarkMigration, Goto, NextMigration, Whole
<1>13. ASSUME FinishMigrations PROVE ResetInv'
  BY <1>13 DEF FinishMigrations, Goto, Return, AllMarked, Whole
<1>14. ASSUME Undo PROVE ResetInv'
  BY <1>14 DEF Undo, Goto, Return, Rethrow, Whole
<1>15. ASSUME CopyBack PROVE ResetInv'
  BY <1>15 DEF CopyBack, Goto, Return, Rethrow, Whole
<1>16. ASSUME Serve PROVE ResetInv'
  BY <1>16 DEF Serve, Goto, Whole
<1>17. ASSUME Work PROVE ResetInv'
  BY <1>17 DEF Work, NextData, Whole
<1>18. ASSUME AskReset PROVE ResetInv'
  BY <1>18 DEF AskReset, Whole
<1>19. ASSUME AnswerReset PROVE ResetInv'
  BY <1>19 DEF AnswerReset, Whole
<1>20. ASSUME Quit PROVE ResetInv'
  BY <1>20 DEF Quit, Goto, Whole
<1>21. ASSUME Upgrade PROVE ResetInv'
  BY <1>21 DEF Upgrade, Whole
<1>22. ASSUME NEW a \in Archives, RequestRestore(a) PROVE ResetInv'
  BY <1>22 DEF RequestRestore, Whole
<1>23. ASSUME RestoreFails PROVE ResetInv'
  BY <1>23 DEF RestoreFails, Goto, Fails, Whole
<1>24. ASSUME SnapshotFails PROVE ResetInv'
  BY <1>24 DEF SnapshotFails, Goto, Fails, Return, Whole
<1>25. ASSUME MigrationFails PROVE ResetInv'
  BY <1>25 DEF MigrationFails, Goto, Fails, AtScript, AllMarked, MustExecute,
     NextMigration, Executes, HalfDone, Whole
<1>26. ASSUME ServerFails PROVE ResetInv'
  BY <1>26 DEF ServerFails, Goto, Fails, Whole
<1>27. ASSUME Crash PROVE ResetInv'
  BY <1>27 DEF Crash, Goto, Return, AtScript, AllMarked, MustExecute, NextMigration,
     Executes, HalfDone, ClearedAs, Whole
<1>28. ASSUME UNCHANGED startVars PROVE ResetInv'
  BY <1>28 DEF startVars, Whole
<1> QED
  BY <1>1, <1>2, <1>3, <1>4, <1>5, <1>6, <1>7, <1>8, <1>9, <1>10, <1>11, <1>12, <1>13,
     <1>14, <1>15, <1>16, <1>17, <1>18, <1>19, <1>20, <1>21, <1>22, <1>23, <1>24,
     <1>25, <1>26, <1>27, <1>28 DEF StartNext, Startup

\* The snapshot is of the database the migrations began with; what they change next
\* has been saved.
LEMMA StepSnapshot ==
  ASSUME TypedInv, Sound(db), MigrationInv, SnapshotInv, [StartNext]_startVars
  PROVE  SnapshotInv'
<1> USE StartAssumption DEF Parts, Dirs, Versions, Programs, Contents, Database, Steps,
        NoFile, files, requests, locals, counts, TypedInv, StartTypeOK, Sound,
        MigrationInv, SnapshotInv, DatabaseSaved, Migrating, Whole, Applied
<1>1. ASSUME BeginStart PROVE SnapshotInv'
  BY <1>1 DEF BeginStart, Goto
<1>2. ASSUME SaveDemo PROVE SnapshotInv'
  BY <1>2 DEF SaveDemo, Goto, IsDemo
<1>3. ASSUME CopyDirectory PROVE SnapshotInv'
  BY <1>3 DEF CopyDirectory, NextPart, Goto, DirectoryCopy
<1>4. ASSUME Clear PROVE SnapshotInv'
  BY <1>4 DEF Clear, Goto, ClearedAs
<1>5. ASSUME ApplyRestore PROVE SnapshotInv'
  BY <1>5 DEF ApplyRestore, Goto, DirectoryCopy
<1>6. ASSUME OpenDatabase PROVE SnapshotInv'
  BY <1>6 DEF OpenDatabase, Goto, NewFile
<1>7. ASSUME OpenRefused PROVE SnapshotInv'
  BY <1>7 DEF OpenRefused, Goto
<1>8. ASSUME TakeSnapshot PROVE SnapshotInv'
  BY <1>8 DEF TakeSnapshot, Goto, MustSnapshot, HasProgramTable
<1>9. ASSUME SkipExecuted PROVE SnapshotInv'
  BY <1>9 DEF SkipExecuted, Goto, AllMarked, MustExecute, NextMigration
<1>10. ASSUME RunMigration PROVE SnapshotInv'
  BY <1>10
     DEF RunMigration, Goto, AtScript, AllMarked, MustExecute, NextMigration, Executes
<1>11. ASSUME RefuseRepetition PROVE SnapshotInv'
  BY <1>11
     DEF RefuseRepetition, Goto, AtScript, AllMarked, MustExecute, NextMigration,
     Executes
<1>12. ASSUME MarkMigration PROVE SnapshotInv'
  BY <1>12 DEF MarkMigration, Goto, NextMigration
<1>13. ASSUME FinishMigrations PROVE SnapshotInv'
  BY <1>13 DEF FinishMigrations, Goto, Return, AllMarked
<1>14. ASSUME Undo PROVE SnapshotInv'
  BY <1>14 DEF Undo, Goto, Return, Rethrow
<1>15. ASSUME CopyBack PROVE SnapshotInv'
  BY <1>15 DEF CopyBack, Goto, Return, Rethrow
<1>16. ASSUME Serve PROVE SnapshotInv'
  BY <1>16 DEF Serve, Goto
<1>17. ASSUME Work PROVE SnapshotInv'
  BY <1>17 DEF Work, NextData
<1>18. ASSUME AskReset PROVE SnapshotInv'
  BY <1>18 DEF AskReset
<1>19. ASSUME AnswerReset PROVE SnapshotInv'
  BY <1>19 DEF AnswerReset
<1>20. ASSUME Quit PROVE SnapshotInv'
  BY <1>20 DEF Quit, Goto
<1>21. ASSUME Upgrade PROVE SnapshotInv'
  BY <1>21 DEF Upgrade
<1>22. ASSUME NEW a \in Archives, RequestRestore(a) PROVE SnapshotInv'
  BY <1>22 DEF RequestRestore
<1>23. ASSUME RestoreFails PROVE SnapshotInv'
  BY <1>23 DEF RestoreFails, Goto, Fails
<1>24. ASSUME SnapshotFails PROVE SnapshotInv'
  BY <1>24 DEF SnapshotFails, Goto, Fails, Return
<1>25. ASSUME MigrationFails PROVE SnapshotInv'
  BY <1>25 DEF MigrationFails, Goto, Fails, AtScript, AllMarked, MustExecute,
     NextMigration, Executes, HalfDone
<1>26. ASSUME ServerFails PROVE SnapshotInv'
  BY <1>26 DEF ServerFails, Goto, Fails
<1>27. ASSUME Crash PROVE SnapshotInv'
  BY <1>27 DEF Crash, Goto, Return, AtScript, AllMarked, MustExecute, NextMigration,
     Executes, HalfDone, ClearedAs
<1>28. ASSUME UNCHANGED startVars PROVE SnapshotInv'
  BY <1>28 DEF startVars
<1> QED
  BY <1>1, <1>2, <1>3, <1>4, <1>5, <1>6, <1>7, <1>8, <1>9, <1>10, <1>11, <1>12, <1>13,
     <1>14, <1>15, <1>16, <1>17, <1>18, <1>19, <1>20, <1>21, <1>22, <1>23, <1>24,
     <1>25, <1>26, <1>27, <1>28 DEF StartNext, Startup

\* Without a snapshot no migration changes a database that had tables.
LEMMA StepUnsaved ==
  ASSUME TypedInv, Sound(db), MigrationInv, SnapshotInv, UnsavedInv,
         [StartNext]_startVars
  PROVE  UnsavedInv'
<1> USE StartAssumption DEF Parts, Dirs, Versions, Programs, Contents, Database, Steps,
        NoFile, files, requests, locals, counts, TypedInv, StartTypeOK, Sound,
        MigrationInv, SnapshotInv, UnsavedInv, Migrating, Applied
<1>1. ASSUME BeginStart PROVE UnsavedInv'
  BY <1>1 DEF BeginStart, Goto
<1>2. ASSUME SaveDemo PROVE UnsavedInv'
  BY <1>2 DEF SaveDemo, Goto, IsDemo
<1>3. ASSUME CopyDirectory PROVE UnsavedInv'
  BY <1>3 DEF CopyDirectory, NextPart, Goto, DirectoryCopy
<1>4. ASSUME Clear PROVE UnsavedInv'
  BY <1>4 DEF Clear, Goto, ClearedAs
<1>5. ASSUME ApplyRestore PROVE UnsavedInv'
  BY <1>5 DEF ApplyRestore, Goto, DirectoryCopy
<1>6. ASSUME OpenDatabase PROVE UnsavedInv'
  BY <1>6 DEF OpenDatabase, Goto, NewFile
<1>7. ASSUME OpenRefused PROVE UnsavedInv'
  BY <1>7 DEF OpenRefused, Goto
<1>8. ASSUME TakeSnapshot PROVE UnsavedInv'
  BY <1>8 DEF TakeSnapshot, Goto, MustSnapshot, HasProgramTable
<1>9. ASSUME SkipExecuted PROVE UnsavedInv'
  BY <1>9 DEF SkipExecuted, Goto, AllMarked, MustExecute, NextMigration
<1>10. ASSUME RunMigration PROVE UnsavedInv'
  BY <1>10
     DEF RunMigration, Goto, AtScript, AllMarked, MustExecute, NextMigration, Executes
<1>11. ASSUME RefuseRepetition PROVE UnsavedInv'
  BY <1>11
     DEF RefuseRepetition, Goto, AtScript, AllMarked, MustExecute, NextMigration,
     Executes
<1>12. ASSUME MarkMigration PROVE UnsavedInv'
  BY <1>12 DEF MarkMigration, Goto, NextMigration
<1>13. ASSUME FinishMigrations PROVE UnsavedInv'
  BY <1>13 DEF FinishMigrations, Goto, Return, AllMarked
<1>14. ASSUME Undo PROVE UnsavedInv'
  BY <1>14 DEF Undo, Goto, Return, Rethrow
<1>15. ASSUME CopyBack PROVE UnsavedInv'
  BY <1>15 DEF CopyBack, Goto, Return, Rethrow
<1>16. ASSUME Serve PROVE UnsavedInv'
  BY <1>16 DEF Serve, Goto
<1>17. ASSUME Work PROVE UnsavedInv'
  BY <1>17 DEF Work, NextData
<1>18. ASSUME AskReset PROVE UnsavedInv'
  BY <1>18 DEF AskReset
<1>19. ASSUME AnswerReset PROVE UnsavedInv'
  BY <1>19 DEF AnswerReset
<1>20. ASSUME Quit PROVE UnsavedInv'
  BY <1>20 DEF Quit, Goto
<1>21. ASSUME Upgrade PROVE UnsavedInv'
  BY <1>21 DEF Upgrade
<1>22. ASSUME NEW a \in Archives, RequestRestore(a) PROVE UnsavedInv'
  BY <1>22 DEF RequestRestore
<1>23. ASSUME RestoreFails PROVE UnsavedInv'
  BY <1>23 DEF RestoreFails, Goto, Fails
<1>24. ASSUME SnapshotFails PROVE UnsavedInv'
  BY <1>24 DEF SnapshotFails, Goto, Fails, Return
<1>25. ASSUME MigrationFails PROVE UnsavedInv'
  BY <1>25 DEF MigrationFails, Goto, Fails, AtScript, AllMarked, MustExecute,
     NextMigration, Executes, HalfDone
<1>26. ASSUME ServerFails PROVE UnsavedInv'
  BY <1>26 DEF ServerFails, Goto, Fails
<1>27. ASSUME Crash PROVE UnsavedInv'
  BY <1>27 DEF Crash, Goto, Return, AtScript, AllMarked, MustExecute, NextMigration,
     Executes, HalfDone, ClearedAs
<1>28. ASSUME UNCHANGED startVars PROVE UnsavedInv'
  BY <1>28 DEF startVars
<1> QED
  BY <1>1, <1>2, <1>3, <1>4, <1>5, <1>6, <1>7, <1>8, <1>9, <1>10, <1>11, <1>12, <1>13,
     <1>14, <1>15, <1>16, <1>17, <1>18, <1>19, <1>20, <1>21, <1>22, <1>23, <1>24,
     <1>25, <1>26, <1>27, <1>28 DEF StartNext, Startup

\* The migrations end with every migration of the release executed to its end.
LEMMA StepMigration ==
  ASSUME TypedInv, Sound(db), SnapshotInv, MigrationInv, [StartNext]_startVars
  PROVE  MigrationInv'
<1> USE StartAssumption DEF Parts, Dirs, Versions, Programs, Contents, Database, Steps,
        NoFile, files, requests, locals, counts, TypedInv, StartTypeOK, Sound,
        SnapshotInv, MigrationInv, Migrating, Applied
<1>1. ASSUME BeginStart PROVE MigrationInv'
  BY <1>1 DEF BeginStart, Goto
<1>2. ASSUME SaveDemo PROVE MigrationInv'
  BY <1>2 DEF SaveDemo, Goto, IsDemo
<1>3. ASSUME CopyDirectory PROVE MigrationInv'
  BY <1>3 DEF CopyDirectory, NextPart, Goto, DirectoryCopy
<1>4. ASSUME Clear PROVE MigrationInv'
  BY <1>4 DEF Clear, Goto, ClearedAs
<1>5. ASSUME ApplyRestore PROVE MigrationInv'
  BY <1>5 DEF ApplyRestore, Goto, DirectoryCopy
<1>6. ASSUME OpenDatabase PROVE MigrationInv'
  BY <1>6 DEF OpenDatabase, Goto, NewFile
<1>7. ASSUME OpenRefused PROVE MigrationInv'
  BY <1>7 DEF OpenRefused, Goto
<1>8. ASSUME TakeSnapshot PROVE MigrationInv'
  BY <1>8 DEF TakeSnapshot, Goto, MustSnapshot, HasProgramTable
<1>9. ASSUME SkipExecuted PROVE MigrationInv'
  BY <1>9 DEF SkipExecuted, Goto, AllMarked, MustExecute, NextMigration
<1>10. ASSUME RunMigration PROVE MigrationInv'
  BY <1>10
     DEF RunMigration, Goto, AtScript, AllMarked, MustExecute, NextMigration, Executes
<1>11. ASSUME RefuseRepetition PROVE MigrationInv'
  BY <1>11
     DEF RefuseRepetition, Goto, AtScript, AllMarked, MustExecute, NextMigration,
     Executes
<1>12. ASSUME MarkMigration PROVE MigrationInv'
  BY <1>12 DEF MarkMigration, Goto, NextMigration
<1>13. ASSUME FinishMigrations PROVE MigrationInv'
  BY <1>13 DEF FinishMigrations, Goto, Return, AllMarked
<1>14. ASSUME Undo PROVE MigrationInv'
  BY <1>14 DEF Undo, Goto, Return, Rethrow
<1>15. ASSUME CopyBack PROVE MigrationInv'
  BY <1>15 DEF CopyBack, Goto, Return, Rethrow
<1>16. ASSUME Serve PROVE MigrationInv'
  BY <1>16 DEF Serve, Goto
<1>17. ASSUME Work PROVE MigrationInv'
  BY <1>17 DEF Work, NextData
<1>18. ASSUME AskReset PROVE MigrationInv'
  BY <1>18 DEF AskReset
<1>19. ASSUME AnswerReset PROVE MigrationInv'
  BY <1>19 DEF AnswerReset
<1>20. ASSUME Quit PROVE MigrationInv'
  BY <1>20 DEF Quit, Goto
<1>21. ASSUME Upgrade PROVE MigrationInv'
  BY <1>21 DEF Upgrade
<1>22. ASSUME NEW a \in Archives, RequestRestore(a) PROVE MigrationInv'
  BY <1>22 DEF RequestRestore
<1>23. ASSUME RestoreFails PROVE MigrationInv'
  BY <1>23 DEF RestoreFails, Goto, Fails
<1>24. ASSUME SnapshotFails PROVE MigrationInv'
  BY <1>24 DEF SnapshotFails, Goto, Fails, Return
<1>25. ASSUME MigrationFails PROVE MigrationInv'
  BY <1>25 DEF MigrationFails, Goto, Fails, AtScript, AllMarked, MustExecute,
     NextMigration, Executes, HalfDone
<1>26. ASSUME ServerFails PROVE MigrationInv'
  BY <1>26 DEF ServerFails, Goto, Fails
<1>27. ASSUME Crash PROVE MigrationInv'
  BY <1>27 DEF Crash, Goto, Return, AtScript, AllMarked, MustExecute, NextMigration,
     Executes, HalfDone, ClearedAs
<1>28. ASSUME UNCHANGED startVars PROVE MigrationInv'
  BY <1>28 DEF startVars
<1> QED
  BY <1>1, <1>2, <1>3, <1>4, <1>5, <1>6, <1>7, <1>8, <1>9, <1>10, <1>11, <1>12, <1>13,
     <1>14, <1>15, <1>16, <1>17, <1>18, <1>19, <1>20, <1>21, <1>22, <1>23, <1>24,
     <1>25, <1>26, <1>27, <1>28 DEF StartNext, Startup

\* Every step that removes or replaces something the server ran with has saved it.
LEMMA StepKept ==
  ASSUME TypedInv, Sound(db), ResetInv, SnapshotInv, MigrationInv, NothingLost,
         [StartNext]_startVars
  PROVE  NothingLost'
<1> USE StartAssumption DEF TypedInv, Parts, Dirs, Versions, Programs, Contents,
        Database, Steps, NoFile, files, requests, locals, counts, StartTypeOK, Sound,
        ResetInv, SnapshotInv, MigrationInv, NothingLost, DatabaseSaved,
        DirectorySaved, Held, Whole, Applied, Migrating
<1>1. ASSUME BeginStart PROVE NothingLost'
  BY <1>1 DEF BeginStart, Goto
<1>2. ASSUME SaveDemo PROVE NothingLost'
  BY <1>2 DEF SaveDemo, Goto, IsDemo
<1>3. ASSUME CopyDirectory PROVE NothingLost'
  BY <1>3 DEF CopyDirectory, NextPart, Goto, DirectoryCopy
<1>4. ASSUME Clear PROVE NothingLost'
  <2> SUFFICES ASSUME NEW x \in ran PROVE x \in Held' \cup snapshots
    BY <1>4 DEF Clear
  <2>1. PICK p \in Parts, c \in Programs : x = <<p, c>>
    OBVIOUS
  <2>2. CASE p = 0
    BY <1>4, <2>1, <2>2 DEF Clear
  <2>3. CASE p \in Dirs
    BY <1>4, <2>1, <2>3 DEF Clear
  <2> QED
    BY <2>2, <2>3
<1>5. ASSUME ApplyRestore PROVE NothingLost'
  <2> SUFFICES ASSUME NEW x \in ran PROVE x \in Held' \cup snapshots'
    BY <1>5 DEF ApplyRestore
  <2>1. CASE pending = NoFile
    BY <1>5, <2>1 DEF ApplyRestore
  <2>2. CASE pending # NoFile
    <3>1. /\ snapshots \subseteq snapshots'
          /\ \A p \in Dirs : dirs[p] # "none" => <<p, dirs[p]>> \in snapshots'
          /\ db # NoFile => <<0, db.data>> \in snapshots'
      BY <1>5, <2>2, RestoreSaves
    <3> QED
      BY <3>1
  <2> QED
    BY <2>1, <2>2
<1>6. ASSUME OpenDatabase PROVE NothingLost'
  BY <1>6 DEF OpenDatabase, Goto, NewFile
<1>7. ASSUME OpenRefused PROVE NothingLost'
  BY <1>7 DEF OpenRefused, Goto
<1>8. ASSUME TakeSnapshot PROVE NothingLost'
  BY <1>8 DEF TakeSnapshot, Goto, MustSnapshot, HasProgramTable
<1>9. ASSUME SkipExecuted PROVE NothingLost'
  BY <1>9 DEF SkipExecuted, Goto, AllMarked, MustExecute, NextMigration
<1>10. ASSUME RunMigration PROVE NothingLost'
  BY <1>10
     DEF RunMigration, Goto, AtScript, AllMarked, MustExecute, NextMigration, Executes
<1>11. ASSUME RefuseRepetition PROVE NothingLost'
  BY <1>11
     DEF RefuseRepetition, Goto, AtScript, AllMarked, MustExecute, NextMigration,
     Executes
<1>12. ASSUME MarkMigration PROVE NothingLost'
  BY <1>12 DEF MarkMigration, Goto, NextMigration
<1>13. ASSUME FinishMigrations PROVE NothingLost'
  BY <1>13 DEF FinishMigrations, Goto, Return, AllMarked
<1>14. ASSUME Undo PROVE NothingLost'
  BY <1>14 DEF Undo, Goto, Return, Rethrow
<1>15. ASSUME CopyBack PROVE NothingLost'
  BY <1>15 DEF CopyBack, Goto, Return, Rethrow
<1>16. ASSUME Serve PROVE NothingLost'
  BY <1>16 DEF Serve, Goto
<1>17. ASSUME Work PROVE NothingLost'
  BY <1>17 DEF Work, NextData
<1>18. ASSUME AskReset PROVE NothingLost'
  BY <1>18 DEF AskReset
<1>19. ASSUME AnswerReset PROVE NothingLost'
  BY <1>19 DEF AnswerReset
<1>20. ASSUME Quit PROVE NothingLost'
  BY <1>20 DEF Quit, Goto
<1>21. ASSUME Upgrade PROVE NothingLost'
  BY <1>21 DEF Upgrade
<1>22. ASSUME NEW a \in Archives, RequestRestore(a) PROVE NothingLost'
  BY <1>22 DEF RequestRestore
<1>23. ASSUME RestoreFails PROVE NothingLost'
  BY <1>23 DEF RestoreFails, Goto, Fails
<1>24. ASSUME SnapshotFails PROVE NothingLost'
  BY <1>24 DEF SnapshotFails, Goto, Fails, Return
<1>25. ASSUME MigrationFails PROVE NothingLost'
  BY <1>25 DEF MigrationFails, Goto, Fails, AtScript, AllMarked, MustExecute,
     NextMigration, Executes, HalfDone
<1>26. ASSUME ServerFails PROVE NothingLost'
  BY <1>26 DEF ServerFails, Goto, Fails
<1>27. ASSUME Crash PROVE NothingLost'
  BY <1>27 DEF Crash, Goto, Return, AtScript, AllMarked, MustExecute, NextMigration,
     Executes, HalfDone, ClearedAs
<1>28. ASSUME UNCHANGED startVars PROVE NothingLost'
  BY <1>28 DEF startVars
<1> QED
  BY <1>1, <1>2, <1>3, <1>4, <1>5, <1>6, <1>7, <1>8, <1>9, <1>10, <1>11, <1>12, <1>13,
     <1>14, <1>15, <1>16, <1>17, <1>18, <1>19, <1>20, <1>21, <1>22, <1>23, <1>24,
     <1>25, <1>26, <1>27, <1>28 DEF StartNext, Startup

\* No step takes the database of another program.
LEMMA StepOnlyDemo ==
  ASSUME SInv, [StartNext]_startVars
  PROVE  OnlyDemo
<1> USE StartAssumption DEF Parts, Dirs, Versions, Programs, Contents, Database, Steps,
        NoFile, files, requests, locals, counts, SInv, TypedInv, StartTypeOK, ResetInv,
        MigrationInv, SnapshotInv, Migrating, OnlyDemo
<1>1. ASSUME BeginStart PROVE OnlyDemo
  BY <1>1 DEF BeginStart, Goto
<1>2. ASSUME SaveDemo PROVE OnlyDemo
  BY <1>2 DEF SaveDemo, Goto, IsDemo
<1>3. ASSUME CopyDirectory PROVE OnlyDemo
  BY <1>3 DEF CopyDirectory, NextPart, Goto, DirectoryCopy
<1>4. ASSUME Clear PROVE OnlyDemo
  BY <1>4 DEF Clear, Goto, ClearedAs
<1>5. ASSUME ApplyRestore PROVE OnlyDemo
  BY <1>5 DEF ApplyRestore, Goto, DirectoryCopy
<1>6. ASSUME OpenDatabase PROVE OnlyDemo
  BY <1>6 DEF OpenDatabase, Goto, NewFile
<1>7. ASSUME OpenRefused PROVE OnlyDemo
  BY <1>7 DEF OpenRefused, Goto
<1>8. ASSUME TakeSnapshot PROVE OnlyDemo
  BY <1>8 DEF TakeSnapshot, Goto, MustSnapshot, HasProgramTable
<1>9. ASSUME SkipExecuted PROVE OnlyDemo
  BY <1>9 DEF SkipExecuted, Goto, AllMarked, MustExecute, NextMigration
<1>10. ASSUME RunMigration PROVE OnlyDemo
  BY <1>10
     DEF RunMigration, Goto, AtScript, AllMarked, MustExecute, NextMigration, Executes
<1>11. ASSUME RefuseRepetition PROVE OnlyDemo
  BY <1>11
     DEF RefuseRepetition, Goto, AtScript, AllMarked, MustExecute, NextMigration,
     Executes
<1>12. ASSUME MarkMigration PROVE OnlyDemo
  BY <1>12 DEF MarkMigration, Goto, NextMigration
<1>13. ASSUME FinishMigrations PROVE OnlyDemo
  BY <1>13 DEF FinishMigrations, Goto, Return, AllMarked
<1>14. ASSUME Undo PROVE OnlyDemo
  BY <1>14 DEF Undo, Goto, Return, Rethrow
<1>15. ASSUME CopyBack PROVE OnlyDemo
  BY <1>15 DEF CopyBack, Goto, Return, Rethrow
<1>16. ASSUME Serve PROVE OnlyDemo
  BY <1>16 DEF Serve, Goto
<1>17. ASSUME Work PROVE OnlyDemo
  BY <1>17 DEF Work, NextData
<1>18. ASSUME AskReset PROVE OnlyDemo
  BY <1>18 DEF AskReset
<1>19. ASSUME AnswerReset PROVE OnlyDemo
  BY <1>19 DEF AnswerReset
<1>20. ASSUME Quit PROVE OnlyDemo
  BY <1>20 DEF Quit, Goto
<1>21. ASSUME Upgrade PROVE OnlyDemo
  BY <1>21 DEF Upgrade
<1>22. ASSUME NEW a \in Archives, RequestRestore(a) PROVE OnlyDemo
  BY <1>22 DEF RequestRestore
<1>23. ASSUME RestoreFails PROVE OnlyDemo
  BY <1>23 DEF RestoreFails, Goto, Fails
<1>24. ASSUME SnapshotFails PROVE OnlyDemo
  BY <1>24 DEF SnapshotFails, Goto, Fails, Return
<1>25. ASSUME MigrationFails PROVE OnlyDemo
  BY <1>25 DEF MigrationFails, Goto, Fails, AtScript, AllMarked, MustExecute,
     NextMigration, Executes, HalfDone
<1>26. ASSUME ServerFails PROVE OnlyDemo
  BY <1>26 DEF ServerFails, Goto, Fails
<1>27. ASSUME Crash PROVE OnlyDemo
  BY <1>27 DEF Crash, Goto, Return, AtScript, AllMarked, MustExecute, NextMigration,
     Executes, HalfDone, ClearedAs
<1>28. ASSUME UNCHANGED startVars PROVE OnlyDemo
  BY <1>28 DEF startVars
<1> QED
  BY <1>1, <1>2, <1>3, <1>4, <1>5, <1>6, <1>7, <1>8, <1>9, <1>10, <1>11, <1>12, <1>13,
     <1>14, <1>15, <1>16, <1>17, <1>18, <1>19, <1>20, <1>21, <1>22, <1>23, <1>24,
     <1>25, <1>26, <1>27, <1>28 DEF StartNext, Startup

\* The marker goes last.
LEMMA StepWholeReset ==
  ASSUME SInv, [StartNext]_startVars
  PROVE  WholeReset
<1> USE StartAssumption DEF Parts, Dirs, Versions, Programs, Contents, Database, Steps,
        NoFile, files, requests, locals, counts, SInv, TypedInv, StartTypeOK, ResetInv,
        WholeReset
<1>1. ASSUME BeginStart PROVE WholeReset
  BY <1>1 DEF BeginStart, Goto
<1>2. ASSUME SaveDemo PROVE WholeReset
  BY <1>2 DEF SaveDemo, Goto, IsDemo
<1>3. ASSUME CopyDirectory PROVE WholeReset
  BY <1>3 DEF CopyDirectory, NextPart, Goto, DirectoryCopy
<1>4. ASSUME Clear PROVE WholeReset
  <2> SUFFICES ASSUME marker, ~marker'
               PROVE  db' = NoFile /\ \A p \in Dirs : dirs'[p] = "none"
    OBVIOUS
  <2>1. part = Directories + 1
    BY <1>4 DEF Clear, ClearedAs
  <2>2. db = NoFile /\ \A p \in Dirs : dirs[p] = "none"
    BY <1>4, <2>1 DEF Clear
  <2>3. db' = db /\ \A p \in Dirs : dirs'[p] = dirs[p]
    BY <1>4, <2>1 DEF Clear, ClearedAs
  <2> QED
    BY <2>2, <2>3
<1>5. ASSUME ApplyRestore PROVE WholeReset
  BY <1>5 DEF ApplyRestore, Goto, DirectoryCopy
<1>6. ASSUME OpenDatabase PROVE WholeReset
  BY <1>6 DEF OpenDatabase, Goto, NewFile
<1>7. ASSUME OpenRefused PROVE WholeReset
  BY <1>7 DEF OpenRefused, Goto
<1>8. ASSUME TakeSnapshot PROVE WholeReset
  BY <1>8 DEF TakeSnapshot, Goto, MustSnapshot, HasProgramTable
<1>9. ASSUME SkipExecuted PROVE WholeReset
  BY <1>9 DEF SkipExecuted, Goto, AllMarked, MustExecute, NextMigration
<1>10. ASSUME RunMigration PROVE WholeReset
  BY <1>10
     DEF RunMigration, Goto, AtScript, AllMarked, MustExecute, NextMigration, Executes
<1>11. ASSUME RefuseRepetition PROVE WholeReset
  BY <1>11
     DEF RefuseRepetition, Goto, AtScript, AllMarked, MustExecute, NextMigration,
     Executes
<1>12. ASSUME MarkMigration PROVE WholeReset
  BY <1>12 DEF MarkMigration, Goto, NextMigration
<1>13. ASSUME FinishMigrations PROVE WholeReset
  BY <1>13 DEF FinishMigrations, Goto, Return, AllMarked
<1>14. ASSUME Undo PROVE WholeReset
  BY <1>14 DEF Undo, Goto, Return, Rethrow
<1>15. ASSUME CopyBack PROVE WholeReset
  BY <1>15 DEF CopyBack, Goto, Return, Rethrow
<1>16. ASSUME Serve PROVE WholeReset
  BY <1>16 DEF Serve, Goto
<1>17. ASSUME Work PROVE WholeReset
  BY <1>17 DEF Work, NextData
<1>18. ASSUME AskReset PROVE WholeReset
  BY <1>18 DEF AskReset
<1>19. ASSUME AnswerReset PROVE WholeReset
  BY <1>19 DEF AnswerReset
<1>20. ASSUME Quit PROVE WholeReset
  BY <1>20 DEF Quit, Goto
<1>21. ASSUME Upgrade PROVE WholeReset
  BY <1>21 DEF Upgrade
<1>22. ASSUME NEW a \in Archives, RequestRestore(a) PROVE WholeReset
  BY <1>22 DEF RequestRestore
<1>23. ASSUME RestoreFails PROVE WholeReset
  BY <1>23 DEF RestoreFails, Goto, Fails
<1>24. ASSUME SnapshotFails PROVE WholeReset
  BY <1>24 DEF SnapshotFails, Goto, Fails, Return
<1>25. ASSUME MigrationFails PROVE WholeReset
  BY <1>25 DEF MigrationFails, Goto, Fails, AtScript, AllMarked, MustExecute,
     NextMigration, Executes, HalfDone
<1>26. ASSUME ServerFails PROVE WholeReset
  BY <1>26 DEF ServerFails, Goto, Fails
<1>27. ASSUME Crash PROVE WholeReset
  BY <1>27 DEF Crash, Goto, Return, AtScript, AllMarked, MustExecute, NextMigration,
     Executes, HalfDone, ClearedAs
<1>28. ASSUME UNCHANGED startVars PROVE WholeReset
  BY <1>28 DEF startVars
<1> QED
  BY <1>1, <1>2, <1>3, <1>4, <1>5, <1>6, <1>7, <1>8, <1>9, <1>10, <1>11, <1>12, <1>13,
     <1>14, <1>15, <1>16, <1>17, <1>18, <1>19, <1>20, <1>21, <1>22, <1>23, <1>24,
     <1>25, <1>26, <1>27, <1>28 DEF StartNext, Startup

\* The rollback leaves what the migrations of this start began with.
LEMMA StepUndone ==
  ASSUME SInv, [StartNext]_startVars
  PROVE  Undone
<1> USE StartAssumption DEF Parts, Dirs, Versions, Programs, Contents, Database, Steps,
        NoFile, files, requests, locals, counts, SInv, TypedInv, StartTypeOK,
        SnapshotInv, UnsavedInv, Migrating, Undone
<1>1. ASSUME BeginStart PROVE Undone
  BY <1>1 DEF BeginStart, Goto
<1>2. ASSUME SaveDemo PROVE Undone
  BY <1>2 DEF SaveDemo, Goto, IsDemo
<1>3. ASSUME CopyDirectory PROVE Undone
  BY <1>3 DEF CopyDirectory, NextPart, Goto, DirectoryCopy
<1>4. ASSUME Clear PROVE Undone
  BY <1>4 DEF Clear, Goto, ClearedAs
<1>5. ASSUME ApplyRestore PROVE Undone
  BY <1>5 DEF ApplyRestore, Goto, DirectoryCopy
<1>6. ASSUME OpenDatabase PROVE Undone
  BY <1>6 DEF OpenDatabase, Goto, NewFile
<1>7. ASSUME OpenRefused PROVE Undone
  BY <1>7 DEF OpenRefused, Goto
<1>8. ASSUME TakeSnapshot PROVE Undone
  BY <1>8 DEF TakeSnapshot, Goto, MustSnapshot, HasProgramTable
<1>9. ASSUME SkipExecuted PROVE Undone
  BY <1>9 DEF SkipExecuted, Goto, AllMarked, MustExecute, NextMigration
<1>10. ASSUME RunMigration PROVE Undone
  BY <1>10
     DEF RunMigration, Goto, AtScript, AllMarked, MustExecute, NextMigration, Executes
<1>11. ASSUME RefuseRepetition PROVE Undone
  BY <1>11
     DEF RefuseRepetition, Goto, AtScript, AllMarked, MustExecute, NextMigration,
     Executes
<1>12. ASSUME MarkMigration PROVE Undone
  BY <1>12 DEF MarkMigration, Goto, NextMigration
<1>13. ASSUME FinishMigrations PROVE Undone
  BY <1>13 DEF FinishMigrations, Goto, Return, AllMarked
<1>14. ASSUME Undo PROVE Undone
  BY <1>14 DEF Undo, Goto, Return, Rethrow
<1>15. ASSUME CopyBack PROVE Undone
  BY <1>15 DEF CopyBack, Goto, Return, Rethrow
<1>16. ASSUME Serve PROVE Undone
  BY <1>16 DEF Serve, Goto
<1>17. ASSUME Work PROVE Undone
  BY <1>17 DEF Work, NextData
<1>18. ASSUME AskReset PROVE Undone
  BY <1>18 DEF AskReset
<1>19. ASSUME AnswerReset PROVE Undone
  BY <1>19 DEF AnswerReset
<1>20. ASSUME Quit PROVE Undone
  BY <1>20 DEF Quit, Goto
<1>21. ASSUME Upgrade PROVE Undone
  BY <1>21 DEF Upgrade
<1>22. ASSUME NEW a \in Archives, RequestRestore(a) PROVE Undone
  BY <1>22 DEF RequestRestore
<1>23. ASSUME RestoreFails PROVE Undone
  BY <1>23 DEF RestoreFails, Goto, Fails
<1>24. ASSUME SnapshotFails PROVE Undone
  BY <1>24 DEF SnapshotFails, Goto, Fails, Return
<1>25. ASSUME MigrationFails PROVE Undone
  BY <1>25 DEF MigrationFails, Goto, Fails, AtScript, AllMarked, MustExecute,
     NextMigration, Executes, HalfDone
<1>26. ASSUME ServerFails PROVE Undone
  BY <1>26 DEF ServerFails, Goto, Fails
<1>27. ASSUME Crash PROVE Undone
  BY <1>27 DEF Crash, Goto, Return, AtScript, AllMarked, MustExecute, NextMigration,
     Executes, HalfDone, ClearedAs
<1>28. ASSUME UNCHANGED startVars PROVE Undone
  BY <1>28 DEF startVars
<1> QED
  BY <1>1, <1>2, <1>3, <1>4, <1>5, <1>6, <1>7, <1>8, <1>9, <1>10, <1>11, <1>12, <1>13,
     <1>14, <1>15, <1>16, <1>17, <1>18, <1>19, <1>20, <1>21, <1>22, <1>23, <1>24,
     <1>25, <1>26, <1>27, <1>28 DEF StartNext, Startup

\* The application is installed without any files.
LEMMA InitInv == StartInit => SInv
<1> SUFFICES ASSUME StartInit PROVE SInv
  OBVIOUS
<1> USE StartAssumption
    DEF StartInit, Parts, Dirs, Versions, Programs, Contents, Database, Steps, NoFile
<1>1. TypedInv
  <2>1. NoFile \in Database /\ NoFile.marked <= NoFile.sql
    OBVIOUS
  <2>2. dirs \in [Dirs -> Programs \cup {"none", "partial"}]
    OBVIOUS
  <2>3. release \in Versions /\ release > 0 /\ part \in 0 .. Directories + 1
    OBVIOUS
  <2> QED
    BY <2>1, <2>2, <2>3 DEF TypedInv, StartTypeOK
<1>2. Sound(db) /\ Sound(saved)
  BY DEF Sound
<1>3. ResetInv /\ SnapshotInv /\ UnsavedInv /\ MigrationInv /\ NothingLost
  BY DEF ResetInv, SnapshotInv, UnsavedInv, MigrationInv, NothingLost, Migrating
<1> QED
  BY <1>1, <1>2, <1>3 DEF SInv

-----------------------------------------------------------------------------
\* The inductive invariant of starts, with any number of directories, migrations,
\* archives, process ends and failures.
THEOREM StartInvariant == StartSpec => []SInv
<1>1. StartInit => SInv
  BY InitInv
<1>2. SInv /\ [StartNext]_startVars => SInv'
  BY StepTyped, StepSound, StepReset, StepSnapshot, StepUnsaved, StepMigration, StepKept
     DEF SInv
<1> QED
  BY <1>1, <1>2, PTL DEF StartSpec

\* The server never runs on a database that an interrupted or failed migration has left
\* unfinished, and every file is what the steps take it for (StartInv).
THEOREM ServerRunsOnMigrated == StartSpec => []StartInv
<1>1. SInv => StartInv
  BY StartAssumption DEF SInv, TypedInv, StartInv, ServedIsMigrated, MigrationInv
<1> QED
  BY <1>1, StartInvariant, PTL

\* Whatever the server ran with, and no work has overwritten, is live or in a recovery
\* snapshot through every reset, restore, upgrade and rollback (NothingLost).
THEOREM NothingIsLost == StartSpec => []NothingLost
<1>1. SInv => NothingLost
  BY DEF SInv
<1> QED
  BY <1>1, StartInvariant, PTL

\* A reset takes the demo, all of it and nothing else (ResetTakesTheDemo).
THEOREM OnlyTheDemoIsReset == StartSpec => ResetTakesTheDemo
<1>1. SInv /\ [StartNext]_startVars => [OnlyDemo]_startVars /\ [WholeReset]_startVars
  BY StepOnlyDemo, StepWholeReset
<1>2. StartSpec => [][OnlyDemo]_startVars /\ [][WholeReset]_startVars
  BY <1>1, StartInvariant, PTL DEF StartSpec
<1> QED
  BY <1>2 DEF ResetTakesTheDemo, OnlyDemoCleared, ResetIsWhole, OnlyDemo, WholeReset

\* A failed migration leaves the database as its start found it, unless it had no tables
\* yet (FailedMigrationUndone).
THEOREM FailuresAreUndone == StartSpec => FailedMigrationUndone
<1>1. SInv /\ [StartNext]_startVars => [Undone]_startVars
  BY StepUndone
<1>2. StartSpec => [][Undone]_startVars
  BY <1>1, StartInvariant, PTL DEF StartSpec
<1> QED
  BY <1>2 DEF FailedMigrationUndone, Undone
=============================================================================
