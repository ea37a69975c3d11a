---------------------------- MODULE ManagedFiles ----------------------------
(***************************************************************************)
(* Library, form and event files: their rows in the database, their bytes  *)
(* in the managed directories, and the backup that needs both.             *)
(*                                                                         *)
(* A file and its row cannot change in one step.  Uploading requests write *)
(* the bytes first and the row second, removing requests the row first and *)
(* the bytes second (src/app/library-actions.ts, forms-actions.ts and      *)
(* events-actions.ts); a request that fails between the two cleans up, and *)
(* a process that ends between the two does not.  The backup route reads   *)
(* the rows from a snapshot and the bytes later, one file after the other. *)
(* Storage keys are fresh random names, so no two requests share one.      *)
(***************************************************************************)
EXTENDS Naturals, FiniteSets

CONSTANTS Keys,        \* storage keys the program may hand out
          EventKeys,   \* those of event resources, which may be removed again
          Requests,    \* staff requests that may be running
          Exporters,   \* staff sessions that may be building a backup
          MaxFaults    \* bound on process ends and failing file operations

ASSUME FilesAssumption ==
  /\ EventKeys \subseteq Keys
  /\ MaxFaults \in Nat

VARIABLES row,        \* status of the LibraryResource, FormUpload or EventResource
          used,       \* keys handed out so far
          disk,       \* keys whose file exists
          request,    \* where each request is, and the keys it holds
          exporter,   \* where each backup is
          archives,   \* recorded backups
          faults      \* faults so far

vars == <<row, used, disk, request, exporter, archives, faults>>

RowStatus == {"NONE", "ACTIVE", "REMOVED"}
\* storing: files written, row not; deleting: the rest of the keys is to be deleted.
Request == [pc: {"idle", "storing", "deleting"}, keys: SUBSET Keys]
\* copied: the snapshot is taken; reading: its tables and inventory are listed.
Exporter == [pc: {"idle", "copied", "reading"}, database: [Keys -> RowStatus],
             tables: SUBSET Keys, listed: SUBSET Keys, todo: SUBSET Keys, read: SUBSET Keys]
\* What the ZIP file holds: the snapshot, the keys of the rows in its CSV files, the
\* inventory of its manifest, and the keys whose bytes are in it.
Archive == [database: [Keys -> RowStatus], tables: SUBSET Keys, listed: SUBSET Keys,
            read: SUBSET Keys]

IdleRequest == [pc |-> "idle", keys |-> {}]
NoRows == [k \in Keys |-> "NONE"]
IdleExporter == [pc |-> "idle", database |-> NoRows, tables |-> {}, listed |-> {},
                 todo |-> {}, read |-> {}]
\* The keys of all rows of a database, and of those whose file must be there.
RowsIn(database) == {k \in Keys : database[k] # "NONE"}
ActiveIn(database) == {k \in Keys : database[k] = "ACTIVE"}
ActiveKeys == ActiveIn(row)

Init ==
  /\ row = NoRows
  /\ used = {}
  /\ disk = {}
  /\ request = [r \in Requests |-> IdleRequest]
  /\ exporter = [e \in Exporters |-> IdleExporter]
  /\ archives = {}
  /\ faults = 0

\* A request with nothing left to delete has answered.
Deleting(keys) == IF keys = {} THEN IdleRequest ELSE [pc |-> "deleting", keys |-> keys]
Fault == faults < MaxFaults /\ faults' = faults + 1

-----------------------------------------------------------------------------
\* Uploads.  A form response may bring several files, the others bring one.

StoreFile(r, k) ==
  /\ request[r].pc \in {"idle", "storing"}
  /\ k \notin used
  /\ used' = used \cup {k}
  /\ disk' = disk \cup {k}
  /\ request' = [request EXCEPT ![r].pc = "storing", ![r].keys = @ \cup {k}]
  /\ UNCHANGED <<row, exporter, archives, faults>>

\* The write throws half way: what it has written is not among the stored files.
StoreFails(r, k) ==
  /\ request[r].pc \in {"idle", "storing"}
  /\ k \notin used
  /\ Fault
  /\ used' = used \cup {k}
  /\ disk' = disk \cup {k}
  /\ request' = [request EXCEPT ![r] = Deleting(request[r].keys)]
  /\ UNCHANGED <<row, exporter, archives>>

\* Mistake: the clean-up runs after every upload, not only after a failed one.
CleanUpAlways(r) == Deleting(request[r].keys)

AfterCommit(r) == IdleRequest

\* addLibraryResource, addEventResource or saveFormResponse commits ...
CommitRows(r) ==
  /\ request[r].pc = "storing"
  /\ row' = [k \in Keys |-> IF k \in request[r].keys THEN "ACTIVE" ELSE row[k]]
  /\ request' = [request EXCEPT ![r] = AfterCommit(r)]
  /\ UNCHANGED <<used, disk, exporter, archives, faults>>

\* ... or throws: the set is archived, the request waived, an answer missing.
RejectRows(r) ==
  /\ request[r].pc = "storing"
  /\ request' = [request EXCEPT ![r].pc = "deleting"]
  /\ UNCHANGED <<row, used, disk, exporter, archives, faults>>

-----------------------------------------------------------------------------
\* Removals.

RemovedStatus == "REMOVED"

\* removeLibraryResource, removeEventResource or purgeExpiredFormResponses.
RemoveRows(r, keys) ==
  /\ request[r].pc = "idle"
  /\ keys # {}
  /\ \/ keys \subseteq ActiveKeys
     \/ \E k \in EventKeys : keys = {k} /\ row[k] = "REMOVED"
  /\ row' = [k \in Keys |-> IF k \in keys THEN RemovedStatus ELSE row[k]]
  /\ request' = [request EXCEPT ![r] = Deleting(keys)]
  /\ UNCHANGED <<used, disk, exporter, archives, faults>>

\* Mistake: the request answers without having deleted anything.
KeepFile(k) == disk

DiskWithout(k) == disk \ {k}

DeleteFile(r, k) ==
  /\ request[r].pc = "deleting"
  /\ k \in request[r].keys
  /\ disk' = DiskWithout(k)
  /\ request' = [request EXCEPT ![r] = Deleting(request[r].keys \ {k})]
  /\ UNCHANGED <<row, used, exporter, archives, faults>>

\* The deletion fails: forms and events discard the error, the library reports
\* it for a resource that is REMOVED already.
DeleteFails(r, k) ==
  /\ request[r].pc = "deleting"
  /\ k \in request[r].keys
  /\ Fault
  /\ request' = [request EXCEPT ![r] = Deleting(request[r].keys \ {k})]
  /\ UNCHANGED <<row, used, disk, exporter, archives>>

-----------------------------------------------------------------------------
\* The backup route.

Snapshot(e) ==
  /\ exporter[e].pc = "idle"
  /\ exporter' = [exporter EXCEPT ![e] = [IdleExporter EXCEPT !.pc = "copied", !.database = row]]
  /\ UNCHANGED <<row, used, disk, request, archives, faults>>

\* Mistake: the tables are exported from the live database, as the other exports are.
TablesNow(e) == RowsIn(row)

\* The rows of the CSV files.
ExportedTables(e) == RowsIn(exporter[e].database)

\* Mistake: the inventory is that of the live database, whose files are there.
InventoryNow(e) == ActiveKeys

\* The managed files with their hashes and sizes, which never change.
Inventory(e) == ActiveIn(exporter[e].database)

\* buildArchive queries the snapshot.
QuerySnapshot(e) ==
  /\ exporter[e].pc = "copied"
  /\ exporter' = [exporter EXCEPT ![e] =
                    [@ EXCEPT !.pc = "reading", !.tables = ExportedTables(e),
                              !.listed = Inventory(e), !.todo = Inventory(e)]]
  /\ UNCHANGED <<row, used, disk, request, archives, faults>>

\* Mistake: a file that has gone meanwhile is left out of the archive.
SkipFile(e, k) == exporter' = [exporter EXCEPT ![e].todo = @ \ {k}]

\* readFile throws and the route answers with an error.
FileMissing(e, k) == exporter' = [exporter EXCEPT ![e] = IdleExporter]

ReadFile(e, k) ==
  /\ k \in exporter[e].todo
  /\ IF k \in disk
     THEN exporter' = [exporter EXCEPT ![e].todo = @ \ {k}, ![e].read = @ \cup {k}]
     ELSE FileMissing(e, k)
  /\ UNCHANGED <<row, used, disk, request, archives, faults>>

ArchiveOf(e) ==
  [database |-> exporter[e].database, tables |-> exporter[e].tables,
   listed |-> exporter[e].listed, read |-> exporter[e].read]

\* recordBackup
RecordBackup(e) ==
  /\ exporter[e].pc = "reading"
  /\ exporter[e].todo = {}
  /\ archives' = archives \cup {ArchiveOf(e)}
  /\ exporter' = [exporter EXCEPT ![e] = IdleExporter]
  /\ UNCHANGED <<row, used, disk, request, faults>>

-----------------------------------------------------------------------------
\* validateBackupArchive, which decides whether an archive is restored and whether
\* `npm run backup:verify` calls it verified.

\* Every table of the version is in the manifest and its CSV file has as many rows
\* as the table.
TablesMatch(a) == Cardinality(a.tables) = Cardinality(RowsIn(a.database))

\* The inventory names the ACTIVE files of the database, and their bytes are there
\* and have the size and the hash of the row.
FilesMatch(a) ==
  /\ a.listed = ActiveIn(a.database)
  /\ a.listed \subseteq a.read

ValidArchive(a) == TablesMatch(a) /\ FilesMatch(a)

-----------------------------------------------------------------------------
\* The server process ends and starts again: requests are forgotten.
Restart ==
  /\ Fault
  /\ request' = [r \in Requests |-> IdleRequest]
  /\ exporter' = [e \in Exporters |-> IdleExporter]
  /\ UNCHANGED <<row, used, disk, archives>>

RequestStep(r) ==
  \/ \E k \in Keys : StoreFile(r, k)
  \/ \E k \in Keys : StoreFails(r, k)
  \/ CommitRows(r)
  \/ RejectRows(r)
  \/ \E keys \in SUBSET Keys : RemoveRows(r, keys)
  \/ \E k \in Keys : DeleteFile(r, k)
  \/ \E k \in Keys : DeleteFails(r, k)

BackupStep(e) ==
  \/ Snapshot(e)
  \/ QuerySnapshot(e)
  \/ \E k \in Keys : ReadFile(e, k)
  \/ RecordBackup(e)

Next ==
  \/ \E r \in Requests : RequestStep(r)
  \/ \E e \in Exporters : BackupStep(e)
  \/ Restart

Spec == Init /\ [][Next]_vars

\* A request that has to delete goes on until it has answered.
FairSpec == Spec /\ \A r \in Requests : WF_vars(\E k \in Keys : DeleteFile(r, k) \/ DeleteFails(r, k))

-----------------------------------------------------------------------------
\* Properties.

\* Type invariant of rows, files and running requests.
TypeOK ==
  /\ row \in [Keys -> RowStatus]
  /\ used \subseteq Keys
  /\ disk \subseteq Keys
  /\ request \in [Requests -> Request]
  /\ exporter \in [Exporters -> Exporter]
  /\ archives \subseteq Archive
  /\ faults \in 0 .. MaxFaults

\* No dangling record: every ACTIVE row has its file, whatever fails and whenever
\* the process ends.  A single missing file makes every later backup fail, and
\* with it the rollover.
ActiveFilesExist == ActiveKeys \subseteq disk

\* A recorded archive is restorable: whatever is uploaded and removed while it is
\* being built, its validation accepts it.
ArchivesAreWhole == \A a \in archives : ValidArchive(a)

\* Without faults no file is left behind without a row: what neither an ACTIVE
\* row nor a running request accounts for is not on disk.
NothingLeftBehind ==
  faults = 0 =>
    \A k \in disk : row[k] = "ACTIVE" \/ \E r \in Requests : k \in request[r].keys

\* Whatever is removed is deleted in the end, as long as nothing fails.
RemovedContentGoes == \A k \in Keys : row[k] = "REMOVED" ~> k \notin disk \/ faults > 0

\* SECURITY_CHECKLIST.md:28: a purge removes file content and keeps the history.
\* Once a removal has answered, the bytes of a REMOVED row are gone.
RemovedMeansDeleted ==
  \A k \in disk : row[k] = "REMOVED" => \E r \in Requests : k \in request[r].keys
=============================================================================
