----------------------------- MODULE FilesProofs -----------------------------
(***************************************************************************)
(* Proofs about ManagedFiles, for any number of keys, requests, backups    *)
(* and faults.                                                             *)
(*                                                                         *)
(* An ACTIVE row keeps its file because only two kinds of requests touch   *)
(* files: those whose rows do not exist yet and those whose rows are       *)
(* REMOVED already.  FInv says so for every request (HeldInv) and that a   *)
(* key being stored belongs to one request only, so that no other request  *)
(* deletes it when its row becomes ACTIVE (StoringInv).  ReadInv says that *)
(* a backup holds what its snapshot holds, and nothing of later.           *)
(***************************************************************************)
EXTENDS ManagedFiles, TLAPS

Storing(r) == request[r].pc = "storing"
Held(r) == request[r].keys

\* Held keys have been handed out; a request's own keys are never ACTIVE, the
\* files of a storing one are on disk.
HeldInv ==
  \A r \in Requests :
    /\ Held(r) \subseteq used
    /\ \A k \in Held(r) : row[k] # "ACTIVE"
    /\ Storing(r) => Held(r) \subseteq disk

\* A request that is not running holds nothing.
IdleInv == \A r \in Requests : request[r].pc = "idle" => Held(r) = {}

\* Keys that are being stored are held by one request only.
StoringInv ==
  \A r, q \in Requests : Storing(r) /\ r # q => Held(r) \cap Held(q) = {}

\* Rows are only made for keys that were handed out, and storing keys have none.
RowInv ==
  /\ \A k \in Keys : row[k] # "NONE" => k \in used
  /\ \A r \in Requests : Storing(r) => \A k \in Held(r) : row[k] = "NONE"

\* A backup that reads has listed what its snapshot holds and has read what it
\* listed, apart from what is still to be read.
ExporterInv(e) ==
  /\ exporter[e].pc = "reading" =>
       /\ exporter[e].tables = RowsIn(exporter[e].database)
       /\ exporter[e].listed = ActiveIn(exporter[e].database)
       /\ exporter[e].listed = exporter[e].todo \cup exporter[e].read
  /\ exporter[e].pc # "reading" => exporter[e].todo = {} /\ exporter[e].read = {}

ReadInv == (\A e \in Exporters : ExporterInv(e)) /\ ArchivesAreWhole

FInv == TypeOK /\ ActiveFilesExist /\ HeldInv /\ IdleInv /\ StoringInv /\ RowInv

\* No file and no row exists at the start.
LEMMA InitFInv == FilesAssumption /\ Init => FInv /\ ReadInv
BY DEF FilesAssumption, Init, FInv, ReadInv, TypeOK, ActiveFilesExist, ActiveKeys,
       ActiveIn, HeldInv, IdleInv, StoringInv, RowInv, Held, Storing, ArchivesAreWhole,
       RowStatus, Request, Exporter, IdleRequest, IdleExporter, NoRows, ExporterInv

\* What a request that has to delete, or has answered, looks like.
LEMMA DeletingFacts ==
  ASSUME NEW keys \in SUBSET Keys
  PROVE  /\ Deleting(keys) \in Request
         /\ Deleting(keys).keys = keys
         /\ Deleting(keys).pc # "storing"
         /\ Deleting(keys).pc = "idle" => keys = {}
BY DEF Deleting, Request, IdleRequest

\* The types survive every step of a request.
LEMMA RequestTypes ==
  ASSUME FilesAssumption, TypeOK, NEW r \in Requests, RequestStep(r)
  PROVE  TypeOK'
<1> USE DEF TypeOK, FilesAssumption
<1>0. request[r].keys \subseteq Keys /\ request[r] \in Request
  BY DEF Request
<1>1. ASSUME NEW k \in Keys, StoreFile(r, k) PROVE TypeOK'
  <2>1. [request[r] EXCEPT !.pc = "storing", !.keys = @ \cup {k}] \in Request
    BY <1>0 DEF Request
  <2>2. request' = [request EXCEPT ![r] = [request[r] EXCEPT !.pc = "storing", !.keys = @ \cup {k}]]
    BY <1>1 DEF StoreFile
  <2>3. request' \in [Requests -> Request]
    BY <2>1, <2>2
  <2> QED
    BY <1>1, <2>3 DEF StoreFile
<1>2. ASSUME NEW k \in Keys, StoreFails(r, k) PROVE TypeOK'
  <2>1. request' \in [Requests -> Request]
    BY <1>0, <1>2, DeletingFacts DEF StoreFails
  <2> QED
    BY <1>2, <2>1 DEF StoreFails, Fault
<1>3. ASSUME CommitRows(r) PROVE TypeOK'
  BY <1>3 DEF CommitRows, AfterCommit, IdleRequest, Request, RowStatus
<1>4. ASSUME RejectRows(r) PROVE TypeOK'
  <2>1. [request[r] EXCEPT !.pc = "deleting"] \in Request
    BY <1>0 DEF Request
  <2>2. request' \in [Requests -> Request]
    BY <1>4, <2>1 DEF RejectRows
  <2> QED
    BY <1>4, <2>2 DEF RejectRows
<1>5. ASSUME NEW keys \in SUBSET Keys, RemoveRows(r, keys) PROVE TypeOK'
  <2>1. request' \in [Requests -> Request]
    BY <1>5, DeletingFacts DEF RemoveRows
  <2> QED
    BY <1>5, <2>1 DEF RemoveRows, RemovedStatus, RowStatus
<1>6. ASSUME NEW k \in Keys, DeleteFile(r, k) PROVE TypeOK'
  <2>1. request[r].keys \ {k} \in SUBSET Keys
    BY <1>0
  <2>2. request' \in [Requests -> Request]
    BY <1>6, <2>1, DeletingFacts DEF DeleteFile
  <2> QED
    BY <1>6, <2>2 DEF DeleteFile, DiskWithout
<1>7. ASSUME NEW k \in Keys, DeleteFails(r, k) PROVE TypeOK'
  <2>1. request[r].keys \ {k} \in SUBSET Keys
    BY <1>0
  <2>2. request' \in [Requests -> Request]
    BY <1>7, <2>1, DeletingFacts DEF DeleteFails
  <2> QED
    BY <1>7, <2>2 DEF DeleteFails, Fault
<1> QED
  BY <1>1, <1>2, <1>3, <1>4, <1>5, <1>6, <1>7 DEF RequestStep

\* A backup that is not running holds nothing.
LEMMA IdleTyped == IdleExporter \in Exporter
BY DEF Exporter, IdleExporter, NoRows, RowStatus

\* Backups and restarts keep the types.
LEMMA OtherTypes ==
  ASSUME FilesAssumption, TypeOK,
         (\E e \in Exporters : BackupStep(e)) \/ Restart \/ UNCHANGED vars
  PROVE  TypeOK'
<1> USE DEF TypeOK, FilesAssumption
<1>1. ASSUME NEW e \in Exporters, Snapshot(e) PROVE TypeOK'
  <2>1. [IdleExporter EXCEPT !.pc = "copied", !.database = row] \in Exporter
    BY DEF Exporter, IdleExporter
  <2>2. exporter' \in [Exporters -> Exporter]
    BY <1>1, <2>1 DEF Snapshot
  <2> QED
    BY <1>1, <2>2 DEF Snapshot
<1>6. ASSUME NEW e \in Exporters, QuerySnapshot(e) PROVE TypeOK'
  <2>1. ExportedTables(e) \subseteq Keys /\ Inventory(e) \subseteq Keys
    BY DEF ExportedTables, Inventory, RowsIn, ActiveIn
  <2>2. [exporter[e] EXCEPT !.pc = "reading", !.tables = ExportedTables(e),
                            !.listed = Inventory(e), !.todo = Inventory(e)] \in Exporter
    BY <2>1 DEF Exporter
  <2>3. exporter' \in [Exporters -> Exporter]
    BY <1>6, <2>2 DEF QuerySnapshot
  <2> QED
    BY <1>6, <2>3 DEF QuerySnapshot
<1>2. ASSUME NEW e \in Exporters, NEW k \in Keys, ReadFile(e, k) PROVE TypeOK'
  <2>1. [exporter[e] EXCEPT !.todo = @ \ {k}, !.read = @ \cup {k}] \in Exporter
    BY DEF Exporter
  <2>2. IdleExporter \in Exporter
    BY IdleTyped
  <2>3. \/ exporter' = [exporter EXCEPT ![e] = IdleExporter]
        \/ exporter' = [exporter EXCEPT ![e] = [exporter[e] EXCEPT !.todo = @ \ {k}, !.read = @ \cup {k}]]
    BY <1>2 DEF ReadFile, FileMissing
  <2>4. exporter' \in [Exporters -> Exporter]
    BY <2>1, <2>2, <2>3
  <2> QED
    BY <1>2, <2>4 DEF ReadFile
<1>3. ASSUME NEW e \in Exporters, RecordBackup(e) PROVE TypeOK'
  <2>1. ArchiveOf(e) \in Archive
    BY DEF ArchiveOf, Exporter, Archive
  <2>2. IdleExporter \in Exporter
    BY IdleTyped
  <2> QED
    BY <1>3, <2>1, <2>2 DEF RecordBackup
<1>4. CASE Restart
  BY <1>4, IdleTyped DEF Restart, Fault, IdleRequest, Request
<1>5. CASE UNCHANGED vars
  BY <1>5 DEF vars
<1> QED
  BY <1>1, <1>2, <1>3, <1>4, <1>5, <1>6 DEF BackupStep

-----------------------------------------------------------------------------
\* A step of one request keeps every ACTIVE row's file.
LEMMA RequestKeeps ==
  ASSUME FilesAssumption, FInv, NEW r \in Requests, RequestStep(r)
  PROVE  (ActiveFilesExist /\ HeldInv /\ IdleInv /\ StoringInv /\ RowInv)'
<1> USE DEF FInv, TypeOK
<1>0. /\ Held(r) \subseteq Keys
      /\ Held(r) \subseteq used
      /\ \A k \in Held(r) : row[k] # "ACTIVE"
  BY DEF Held, Request, HeldInv
<1>a. ASSUME NEW to, request' = [request EXCEPT ![r] = to]
      PROVE  /\ Held(r)' = to.keys
             /\ Storing(r)' <=> to.pc = "storing"
             /\ request'[r].pc = to.pc
             /\ \A q \in Requests \ {r} : request'[q] = request[q]
             /\ \A q \in Requests \ {r} : Held(q)' = Held(q) /\ (Storing(q)' <=> Storing(q))
  BY <1>a DEF Held, Storing
<1> DEFINE G == (ActiveFilesExist /\ HeldInv /\ IdleInv /\ StoringInv /\ RowInv)'
\* The rest of a request's keys is to be deleted: the others keep theirs.
<1>b. ASSUME NEW keys \in SUBSET Held(r),
             request' = [request EXCEPT ![r] = Deleting(keys)],
             row' = row, used \subseteq used', disk \subseteq disk' \cup Held(r),
             Storing(r) => disk \subseteq disk'
      PROVE  G
  <2>1. keys \in SUBSET Keys
    BY <1>0
  <2>2. /\ Held(r)' = keys
        /\ ~Storing(r)'
        /\ \A q \in Requests \ {r} : Held(q)' = Held(q) /\ (Storing(q)' <=> Storing(q))
    BY <1>a, <1>b, <2>1, DeletingFacts
  <2>3. ActiveFilesExist'
    BY <1>0, <1>b DEF ActiveFilesExist, ActiveKeys, ActiveIn
  <2>4. HeldInv'
    BY <1>0, <1>b, <2>2 DEF HeldInv, StoringInv
  <2>5. StoringInv'
    BY <1>b, <2>2 DEF StoringInv
  <2>6. RowInv'
    BY <1>b, <2>2 DEF RowInv
  <2>7. IdleInv'
    BY <1>a, <1>b, <2>1, <2>2, DeletingFacts DEF IdleInv
  <2> QED
    BY <2>3, <2>4, <2>5, <2>6, <2>7
<1>1. ASSUME NEW k \in Keys, StoreFile(r, k) PROVE G
  <2>1. /\ k \notin used
        /\ used' = used \cup {k}
        /\ disk' = disk \cup {k}
        /\ row' = row
        /\ request' = [request EXCEPT ![r] = [request[r] EXCEPT !.pc = "storing", !.keys = @ \cup {k}]]
    BY <1>1 DEF StoreFile
  <2>2. /\ Held(r)' = Held(r) \cup {k}
        /\ Storing(r)'
        /\ \A q \in Requests \ {r} : Held(q)' = Held(q) /\ (Storing(q)' <=> Storing(q))
    <3>1. request'[r] = [request[r] EXCEPT !.pc = "storing", !.keys = @ \cup {k}]
      BY <2>1
    <3>2. request'[r].pc = "storing" /\ request'[r].keys = request[r].keys \cup {k}
      BY <3>1 DEF Request
    <3>3. \A q \in Requests \ {r} : request'[q] = request[q]
      BY <2>1
    <3> QED
      BY <3>2, <3>3 DEF Held, Storing
  <2>3. request[r].pc = "idle" => Held(r) = {}
    BY DEF IdleInv
  <2>4. ActiveFilesExist'
    BY <2>1 DEF ActiveFilesExist, ActiveKeys, ActiveIn
  <2>5. row[k] = "NONE" /\ \A q \in Requests : k \notin Held(q)
    BY <2>1 DEF RowInv, HeldInv
  <2>6. Storing(r) \/ Held(r) = {}
    BY <1>1, <2>3 DEF StoreFile, Storing
  <2>7. HeldInv'
    BY <2>1, <2>2, <2>5, <2>6 DEF HeldInv
  <2>8. StoringInv'
    BY <2>2, <2>5, <2>6 DEF StoringInv
  <2>9. RowInv'
    BY <2>1, <2>2, <2>5, <2>6 DEF RowInv
  <2>10. IdleInv'
    BY <1>a, <2>1, <2>2 DEF IdleInv, Storing
  <2> QED
    BY <2>4, <2>7, <2>8, <2>9, <2>10
<1>2. ASSUME NEW k \in Keys, StoreFails(r, k) PROVE G
  BY <1>2, <1>b DEF StoreFails, Held
<1>3. ASSUME CommitRows(r) PROVE G
  <2>1. /\ Storing(r)
        /\ row' = [k \in Keys |-> IF k \in Held(r) THEN "ACTIVE" ELSE row[k]]
        /\ request' = [request EXCEPT ![r] = IdleRequest]
        /\ used' = used /\ disk' = disk
    BY <1>3 DEF CommitRows, AfterCommit, Storing, Held
  <2>2. /\ Held(r)' = {}
        /\ ~Storing(r)'
        /\ \A q \in Requests \ {r} : Held(q)' = Held(q) /\ (Storing(q)' <=> Storing(q))
    <3>1. request'[r].pc = "idle" /\ request'[r].keys = {}
      BY <2>1 DEF IdleRequest
    <3>2. \A q \in Requests \ {r} : request'[q] = request[q]
      BY <2>1
    <3> QED
      BY <3>1, <3>2 DEF Held, Storing
  <2>3. \A q \in Requests \ {r} : Held(r) \cap Held(q) = {}
    BY <2>1 DEF StoringInv
  <2>4. ActiveFilesExist'
    BY <2>1 DEF ActiveFilesExist, ActiveKeys, ActiveIn, HeldInv
  <2>5. HeldInv'
    BY <2>1, <2>2, <2>3 DEF HeldInv
  <2>6. StoringInv'
    BY <2>2 DEF StoringInv
  <2>7. RowInv'
    <3>1. \A k \in Keys : row'[k] # "NONE" => k \in used'
      BY <1>0, <2>1 DEF RowInv
    <3>2. ASSUME NEW q \in Requests \ {r}, Storing(q),
                 NEW k \in Held(q) PROVE row'[k] = "NONE"
      <4>1. k \in Keys
        BY <3>2 DEF Held, Request
      <4>2. k \notin Held(r) /\ row[k] = "NONE"
        BY <2>3, <3>2 DEF RowInv
      <4> QED
        BY <2>1, <4>1, <4>2
    <3> QED
      BY <2>2, <3>1, <3>2 DEF RowInv
  <2>8. IdleInv'
    <3>1. \A q \in Requests \ {r} : request'[q] = request[q]
      BY <2>1
    <3> QED
      BY <2>2, <3>1 DEF IdleInv, Held
  <2> QED
    BY <2>4, <2>5, <2>6, <2>7, <2>8
<1>4. ASSUME RejectRows(r) PROVE G
  <2>1. request' = [request EXCEPT ![r] = [request[r] EXCEPT !.pc = "deleting"]]
    BY <1>4 DEF RejectRows
  <2>2. /\ Held(r)' = Held(r)
        /\ ~Storing(r)'
        /\ \A q \in Requests \ {r} : Held(q)' = Held(q) /\ (Storing(q)' <=> Storing(q))
    <3>1. request'[r] = [request[r] EXCEPT !.pc = "deleting"]
      BY <2>1
    <3>2. request'[r].pc = "deleting" /\ request'[r].keys = request[r].keys
      BY <3>1 DEF Request
    <3>3. \A q \in Requests \ {r} : request'[q] = request[q]
      BY <2>1
    <3> QED
      BY <3>2, <3>3 DEF Held, Storing
  <2>3. IdleInv'
    <3>1. request'[r] = [request[r] EXCEPT !.pc = "deleting"]
      BY <2>1
    <3>2. request'[r].pc = "deleting"
      BY <3>1 DEF Request
    <3>3. \A q \in Requests \ {r} : request'[q] = request[q]
      BY <2>1
    <3> QED
      BY <3>2, <3>3 DEF IdleInv, Held
  <2> QED
    BY <1>4, <2>2, <2>3
       DEF RejectRows, ActiveFilesExist, ActiveKeys, ActiveIn, HeldInv, StoringInv,
       RowInv
<1>5. ASSUME NEW keys \in SUBSET Keys, RemoveRows(r, keys) PROVE G
  <2>1. /\ row' = [k \in Keys |-> IF k \in keys THEN "REMOVED" ELSE row[k]]
        /\ request' = [request EXCEPT ![r] = Deleting(keys)]
        /\ used' = used /\ disk' = disk
    BY <1>5 DEF RemoveRows, RemovedStatus
  <2>2. \A k \in keys : row[k] # "NONE"
    BY <1>5 DEF RemoveRows, ActiveKeys, ActiveIn
  <2>3. /\ Held(r)' = keys
        /\ ~Storing(r)'
        /\ \A q \in Requests \ {r} : Held(q)' = Held(q) /\ (Storing(q)' <=> Storing(q))
    BY <1>a, <2>1, DeletingFacts
  <2>4. ActiveFilesExist'
    BY <2>1 DEF ActiveFilesExist, ActiveKeys, ActiveIn
  <2>5. HeldInv'
    BY <1>0, <2>1, <2>2, <2>3 DEF HeldInv, RowInv
  <2>6. RowInv'
    BY <1>0, <2>1, <2>2, <2>3 DEF HeldInv, RowInv
  <2>7. StoringInv'
    BY <2>2, <2>3 DEF StoringInv, RowInv
  <2>8. IdleInv'
    BY <1>a, <2>1, <2>3, DeletingFacts DEF IdleInv
  <2> QED
    BY <2>4, <2>5, <2>6, <2>7, <2>8
<1>6. ASSUME NEW k \in Keys, DeleteFile(r, k) PROVE G
  <2>1. k \in Held(r) /\ ~Storing(r)
    BY <1>6 DEF DeleteFile, Held, Storing
  <2> QED
    BY <1>6, <1>b, <2>1 DEF DeleteFile, DiskWithout, Held
<1>7. ASSUME NEW k \in Keys, DeleteFails(r, k) PROVE G
  BY <1>7, <1>b DEF DeleteFails, Held
<1> QED
  BY <1>1, <1>2, <1>3, <1>4, <1>5, <1>6, <1>7 DEF RequestStep

\* Neither a backup nor a restart touches a row or a file.
LEMMA OthersKeep ==
  ASSUME FInv, (\E e \in Exporters : BackupStep(e)) \/ Restart \/ UNCHANGED vars
  PROVE  (ActiveFilesExist /\ HeldInv /\ IdleInv /\ StoringInv /\ RowInv)'
<1>1. CASE (\E e \in Exporters : BackupStep(e)) \/ UNCHANGED vars
  <2>1. UNCHANGED <<row, used, disk, request>>
    BY <1>1 DEF BackupStep, Snapshot, QuerySnapshot, ReadFile, RecordBackup, vars
  <2> QED
    BY <2>1 DEF FInv, ActiveFilesExist, ActiveKeys, ActiveIn, HeldInv, IdleInv,
                StoringInv, RowInv, Held, Storing
<1>2. CASE Restart
  BY <1>2 DEF Restart, FInv, IdleRequest, ActiveFilesExist, ActiveKeys, ActiveIn,
              HeldInv, IdleInv, StoringInv, RowInv, Held, Storing
<1> QED
  BY <1>1, <1>2

\* A backup that is recorded holds what the validation looks for.
LEMMA StepRead == TypeOK /\ ReadInv /\ [Next]_vars => ReadInv'
<1> SUFFICES ASSUME TypeOK, ReadInv, [Next]_vars PROVE ReadInv'
  OBVIOUS
<1> USE DEF TypeOK, ReadInv
\* The other backups go on as they were.
<1>a. ASSUME NEW e \in Exporters, ExporterInv(e)', archives' = archives,
             \A f \in Exporters \ {e} : exporter'[f] = exporter[f]
      PROVE  ReadInv'
  <2>1. \A f \in Exporters \ {e} : ExporterInv(f)'
    BY <1>a DEF ExporterInv
  <2>2. ArchivesAreWhole'
    BY <1>a DEF ArchivesAreWhole
  <2> QED
    BY <1>a, <2>1, <2>2
<1>b. ASSUME NEW e \in Exporters, exporter'[e] = IdleExporter PROVE ExporterInv(e)'
  BY <1>b DEF ExporterInv, IdleExporter
<1>1. CASE (\E r \in Requests : RequestStep(r)) \/ UNCHANGED vars
  <2>1. UNCHANGED <<exporter, archives>>
    BY <1>1 DEF RequestStep, StoreFile, StoreFails, CommitRows, RejectRows, RemoveRows,
                DeleteFile, DeleteFails, vars
  <2> QED
    BY <2>1 DEF ExporterInv, ArchivesAreWhole
<1>2. ASSUME NEW e \in Exporters, Snapshot(e) PROVE ReadInv'
  <2>1. exporter'[e].pc = "copied" /\ exporter'[e].todo = {} /\ exporter'[e].read = {}
    BY <1>2 DEF Snapshot, IdleExporter
  <2> QED
    BY <1>2, <1>a, <2>1 DEF Snapshot, ExporterInv
<1>3. ASSUME NEW e \in Exporters, QuerySnapshot(e) PROVE ReadInv'
  <2>1. /\ exporter'[e].pc = "reading"
        /\ exporter'[e].database = exporter[e].database
        /\ exporter'[e].tables = RowsIn(exporter[e].database)
        /\ exporter'[e].listed = ActiveIn(exporter[e].database)
        /\ exporter'[e].todo = exporter'[e].listed
        /\ exporter'[e].read = exporter[e].read
    BY <1>3 DEF QuerySnapshot, Exporter, ExportedTables, Inventory
  <2>2. exporter[e].read = {}
    BY <1>3 DEF QuerySnapshot, ExporterInv
  <2>3. ExporterInv(e)'
    BY <2>1, <2>2 DEF ExporterInv
  <2> QED
    BY <1>3, <1>a, <2>3 DEF QuerySnapshot
<1>4. ASSUME NEW e \in Exporters, NEW k \in Keys, ReadFile(e, k) PROVE ReadInv'
  <2>1. CASE exporter' = [exporter EXCEPT ![e] = IdleExporter]
    BY <1>4, <1>a, <1>b, <2>1 DEF ReadFile
  <2>2. CASE exporter' = [exporter EXCEPT ![e] = [exporter[e] EXCEPT !.todo = @ \ {k}, !.read = @ \cup {k}]]
    <3>1. /\ exporter'[e].pc = exporter[e].pc
          /\ exporter'[e].database = exporter[e].database
          /\ exporter'[e].tables = exporter[e].tables
          /\ exporter'[e].listed = exporter[e].listed
          /\ exporter'[e].todo = exporter[e].todo \ {k}
          /\ exporter'[e].read = exporter[e].read \cup {k}
      BY <2>2 DEF Exporter
    <3>2. k \in exporter[e].todo /\ archives' = archives
      BY <1>4 DEF ReadFile
    <3>3. ExporterInv(e)'
      BY <3>1, <3>2 DEF ExporterInv
    <3> QED
      BY <1>a, <2>2, <3>2, <3>3
  <2> QED
    BY <1>4, <2>1, <2>2 DEF ReadFile, FileMissing
<1>5. ASSUME NEW e \in Exporters, RecordBackup(e) PROVE ReadInv'
  <2>1. /\ exporter[e].todo = {}
        /\ archives' = archives \cup {ArchiveOf(e)}
        /\ exporter' = [exporter EXCEPT ![e] = IdleExporter]
        /\ ExporterInv(e) /\ exporter[e].pc = "reading"
    BY <1>5 DEF RecordBackup
  <2>2. ValidArchive(ArchiveOf(e))
    BY <2>1 DEF ValidArchive, TablesMatch, FilesMatch, ArchiveOf, ExporterInv, Exporter
  <2>3. ArchivesAreWhole'
    BY <2>1, <2>2 DEF ArchivesAreWhole
  <2>4. \A f \in Exporters : ExporterInv(f)'
    BY <1>b, <2>1 DEF ExporterInv
  <2> QED
    BY <2>3, <2>4
<1>6. CASE Restart
  BY <1>6, <1>b DEF Restart, ArchivesAreWhole
<1> QED
  BY <1>1, <1>2, <1>3, <1>4, <1>5, <1>6 DEF Next, BackupStep

\* As long as nothing has failed, what a request gives up it has committed or deleted.
LEMMA StepLeaves ==
  ASSUME FilesAssumption, TypeOK, IdleInv, NothingLeftBehind, [Next]_vars
  PROVE  NothingLeftBehind'
<1> SUFFICES ASSUME faults' = 0, NEW k \in disk', row'[k] # "ACTIVE"
             PROVE  \E r \in Requests : k \in request'[r].keys
  BY DEF NothingLeftBehind
<1> USE DEF TypeOK
<1>a. ~Restart /\ faults = 0
  <2>1. faults \in Nat
    BY DEF FilesAssumption
  <2>2. ASSUME NEW r \in Requests, RequestStep(r) PROVE faults' \in {faults, faults + 1}
    BY <2>2 DEF RequestStep, StoreFile, StoreFails, CommitRows, RejectRows, RemoveRows,
                DeleteFile, DeleteFails, Fault
  <2>3. ASSUME NEW e \in Exporters, BackupStep(e) PROVE faults' = faults
    BY <2>3 DEF BackupStep, Snapshot, QuerySnapshot, ReadFile, RecordBackup
  <2>4. Restart => faults' = faults + 1
    BY DEF Restart, Fault
  <2>5. faults' \in {faults, faults + 1}
    BY <2>2, <2>3, <2>4 DEF Next, vars
  <2> QED
    BY <2>1, <2>4, <2>5
\* It is enough that a request keeps k and that k was there, unless the request is given it.
<1>b. ASSUME NEW r \in Requests, k \in disk, row[k] # "ACTIVE",
             k \in Held(r) => k \in request'[r].keys,
             \A q \in Requests \ {r} : request'[q] = request[q]
      PROVE  \E q \in Requests : k \in request'[q].keys
  <2>1. PICK q \in Requests : k \in Held(q)
    BY <1>a, <1>b DEF NothingLeftBehind, Held
  <2> QED
    BY <1>b, <2>1 DEF Held
<1>1. ASSUME NEW r \in Requests, NEW f \in Keys, StoreFile(r, f)
      PROVE  \E q \in Requests : k \in request'[q].keys
  <2>1. /\ disk' = disk \cup {f} /\ row' = row
        /\ request'[r] = [request[r] EXCEPT !.pc = "storing", !.keys = @ \cup {f}]
        /\ \A q \in Requests \ {r} : request'[q] = request[q]
    BY <1>1 DEF StoreFile
  <2>2. request'[r].keys = Held(r) \cup {f}
    BY <2>1 DEF Request, Held
  <2> QED
    BY <1>b, <2>1, <2>2
<1>2. ASSUME NEW r \in Requests, CommitRows(r)
      PROVE  \E q \in Requests : k \in request'[q].keys
  <2>1. /\ disk' = disk /\ row'[k] = IF k \in Held(r) THEN "ACTIVE" ELSE row[k]
        /\ \A q \in Requests \ {r} : request'[q] = request[q]
    BY <1>2 DEF CommitRows, Held
  <2> QED
    BY <1>b, <2>1
<1>3. ASSUME NEW r \in Requests, RejectRows(r)
      PROVE  \E q \in Requests : k \in request'[q].keys
  <2>1. /\ disk' = disk /\ row' = row
        /\ request'[r] = [request[r] EXCEPT !.pc = "deleting"]
        /\ \A q \in Requests \ {r} : request'[q] = request[q]
    BY <1>3 DEF RejectRows
  <2>2. request'[r].keys = Held(r)
    BY <2>1 DEF Request, Held
  <2> QED
    BY <1>b, <2>1, <2>2
<1>4. ASSUME NEW r \in Requests, NEW keys \in SUBSET Keys, RemoveRows(r, keys)
      PROVE  \E q \in Requests : k \in request'[q].keys
  <2>1. /\ disk' = disk /\ (k \notin keys => row'[k] = row[k])
        /\ request'[r] = Deleting(keys) /\ Held(r) = {}
        /\ \A q \in Requests \ {r} : request'[q] = request[q]
    BY <1>4 DEF RemoveRows, IdleInv, Held
  <2>2. request'[r].keys = keys
    BY <2>1, DeletingFacts
  <2>3. CASE k \in keys
    BY <2>2, <2>3
  <2>4. CASE k \notin keys
    BY <1>b, <2>1, <2>4
  <2> QED
    BY <2>3, <2>4
<1>5. ASSUME NEW r \in Requests, NEW f \in Keys, DeleteFile(r, f)
      PROVE  \E q \in Requests : k \in request'[q].keys
  <2>1. /\ disk' = disk \ {f} /\ row' = row
        /\ request'[r] = Deleting(Held(r) \ {f})
        /\ \A q \in Requests \ {r} : request'[q] = request[q]
    BY <1>5 DEF DeleteFile, DiskWithout, Held
  <2>2. Held(r) \ {f} \in SUBSET Keys
    BY DEF Held, Request
  <2>3. request'[r].keys = Held(r) \ {f}
    BY <2>1, <2>2, DeletingFacts
  <2> QED
    BY <1>b, <2>1, <2>3
<1>6. ASSUME UNCHANGED <<row, disk, request>>
      PROVE  \E q \in Requests : k \in request'[q].keys
  BY <1>a, <1>6 DEF NothingLeftBehind
<1>7. CASE \E r \in Requests : RequestStep(r)
  <2>1. ASSUME NEW r \in Requests, NEW f \in Keys, StoreFails(r, f) \/ DeleteFails(r, f)
        PROVE  FALSE
    BY <1>a, <2>1 DEF StoreFails, DeleteFails, Fault
  <2> QED
    BY <1>7, <1>1, <1>2, <1>3, <1>4, <1>5, <2>1 DEF RequestStep
<1>8. CASE (\E e \in Exporters : BackupStep(e)) \/ UNCHANGED vars
  BY <1>6, <1>8 DEF BackupStep, Snapshot, QuerySnapshot, ReadFile, RecordBackup, vars
<1> QED
  BY <1>a, <1>7, <1>8 DEF Next

-----------------------------------------------------------------------------
\* FInv and ReadInv hold in every reachable state.
THEOREM FilesInvariant == Spec => [](FInv /\ ReadInv)
<1>1. FInv /\ [Next]_vars => FInv'
  BY FilesAssumption, RequestTypes, OtherTypes, RequestKeeps, OthersKeep DEF FInv, Next
<1>2. FInv => TypeOK
  BY DEF FInv
<1> QED
  BY FilesAssumption, InitFInv, <1>1, <1>2, StepRead, PTL DEF Spec

\* Rows, files, requests and archives keep their types.
THEOREM FilesTyped == Spec => []TypeOK
<1>1. FInv => TypeOK
  BY DEF FInv
<1> QED
  BY FilesInvariant, <1>1, PTL

\* No ACTIVE record ever loses its file, whatever fails and whenever it fails.
THEOREM NoDanglingRecord == Spec => []ActiveFilesExist
<1>1. FInv => ActiveFilesExist
  BY DEF FInv
<1> QED
  BY FilesInvariant, <1>1, PTL

\* The validation accepts every recorded archive (ArchivesAreWhole).
THEOREM ArchivesRestorable == Spec => []ArchivesAreWhole
<1>1. ReadInv => ArchivesAreWhole
  BY DEF ReadInv
<1> QED
  BY FilesInvariant, <1>1, PTL

\* As long as nothing fails every file has its ACTIVE row or a request that holds it
\* (NothingLeftBehind).
THEOREM NoFileLeftBehind == Spec => []NothingLeftBehind
<1>1. Init => NothingLeftBehind
  BY DEF Init, NothingLeftBehind
<1>2. FInv => TypeOK /\ IdleInv
  BY DEF FInv
<1> QED
  BY FilesAssumption, FilesInvariant, StepLeaves, <1>1, <1>2, PTL DEF Spec
=============================================================================
