--------------------------- MODULE DesktopRestore ---------------------------
(***************************************************************************)
(* Restoring a backup in the desktop application.                          *)
(*                                                                         *)
(* The program's data are one database and several managed directories.    *)
(* A restore request (desktop/main.mjs) writes the contents of an archive  *)
(* beside them as pending data and restarts the application; the next      *)
(* start (applyPendingRestore in desktop/data-lifecycle.mjs) repairs what  *)
(* an interrupted swap has left, saves the current data as a recovery      *)
(* snapshot, stages copies of the pending data and swaps them in, one      *)
(* rename after the other.  The process may end between any two of these   *)
(* file operations, and one that fails during the swap is rolled back.     *)
(*                                                                         *)
(* What a part holds is named by the state of the program it belongs to.   *)
(* Staged copies and snapshots are only used once they are complete, so    *)
(* writing them is one step.                                               *)
(***************************************************************************)
EXTENDS Naturals, FiniteSets

CONSTANTS Directories,  \* number of managed directories
          Works,        \* states of the program reached by working with it
          Archives,     \* verified backup archives
          MaxEnds,      \* bound on process ends outside an orderly quit
          MaxErrors,    \* bound on failing file operations of the swap
          MaxBreaks     \* bound on restore requests that end half way

ASSUME RestoreAssumption ==
  /\ {Directories, MaxEnds, MaxErrors, MaxBreaks} \subseteq Nat
  /\ Works \cap Archives = {}
  /\ {"none", "partial"} \cap (Works \cup Archives) = {}

Parts == 0 .. Directories    \* 0 is the database
Dirs == Parts \ {0}
States == Works \cup Archives
Contents == States \cup {"none", "partial"}

VARIABLES live,       \* bandos.db and the directories the server works with
          displaced,  \* *.restore-current
          staged,     \* *.restore-staged
          pending,    \* *.restore-pending
          snapshots,  \* recovery snapshots: <<part, content>>
          existed,    \* libraryExists, formExists, eventExists
          saved,      \* content of snapshotPath, "none" if it is null
          at, part,   \* next step of the application, and the part it is for
          archive,    \* the archive a request is writing
          ran,        \* history: <<part, content>> the server ran with, less what
                      \* later work has overwritten
          ends, errors, breaks

files == <<live, displaced, staged, pending, snapshots>>
locals == <<existed, saved, archive>>
counts == <<ends, errors, breaks>>
vars == <<files, locals, at, part, ran, counts>>

Swapping == {"clear", "place", "drop", "finish"}
Phases == {"stopped", "recover", "unstage", "check", "save", "copy", "stage",
           "rollback", "recopy", "running", "write"} \cup Swapping

Nothing == [p \in Parts |-> "none"]
Held(content) == {<<p, content[p]>> : p \in {q \in Parts : content[q] \in States}}

Init ==
  /\ \E w \in Works, D \in SUBSET Dirs :
       live = [p \in Parts |-> IF p \in D \cup {0} THEN w ELSE "none"]
  /\ displaced = Nothing /\ staged = Nothing /\ pending = Nothing
  /\ snapshots = {}
  /\ existed = [p \in Dirs |-> FALSE]
  /\ saved = "none"
  /\ at = "running" /\ part = 0
  /\ archive = "none"
  /\ ran = Held(live)
  /\ ends = 0 /\ errors = 0 /\ breaks = 0

Goto(phase, p) == at' = phase /\ part' = p

\* The same step for the next part, or phase once all parts are done.
NextPart(phase) ==
  IF part < Directories THEN Goto(at, part + 1) ELSE Goto(phase, 0)

-----------------------------------------------------------------------------
\* The running application.

\* Staff work with the program; directories appear with their first file.
Work(w) ==
  /\ at = "running"
  /\ live[0] # w
  /\ \E D \in SUBSET Dirs :
       live' = [p \in Parts |-> IF p \in D \/ live[p] # "none" THEN w ELSE "none"]
  /\ ran' = (ran \ Held(live)) \cup Held(live')
  /\ UNCHANGED <<displaced, staged, pending, snapshots, locals, at, part, counts>>

Quit ==
  /\ at = "running"
  /\ Goto("stopped", 0)
  /\ UNCHANGED <<files, locals, counts, ran>>

\* bandos:restore-backup, once the archive has been validated.
RequestRestore(a) ==
  /\ at = "running"
  /\ archive' = a
  /\ Goto("write", 0)
  /\ UNCHANGED <<files, existed, saved, counts, ran>>

\* The pending database, then each pending directory; then a restart.
WritePart ==
  /\ at = "write"
  /\ pending' = [pending EXCEPT ![part] = archive]
  /\ NextPart("stopped")
  /\ UNCHANGED <<live, displaced, staged, snapshots, locals, counts, ran>>

\* A write fails and the request answers with an error, or the process ends.
WriteBreaks ==
  /\ at = "write"
  /\ breaks < MaxBreaks
  /\ breaks' = breaks + 1
  /\ \E left \in {pending[part], "partial"} \cup (IF part = 0 THEN {} ELSE {"none"}) :
       pending' = [pending EXCEPT ![part] = left]
  /\ at' \in {"running", "stopped"}
  /\ part' = 0
  /\ UNCHANGED <<live, displaced, staged, snapshots, locals, ends, errors, ran>>

-----------------------------------------------------------------------------
\* applyPendingRestore: what an interrupted swap has left.

Start ==
  /\ at = "stopped"
  /\ saved' = "none"
  /\ Goto("recover", 0)
  /\ UNCHANGED <<files, existed, archive, counts, ran>>

PutBack ==
  IF live[part] = "none"
  THEN /\ live' = [live EXCEPT ![part] = displaced[part]]
       /\ displaced' = [displaced EXCEPT ![part] = "none"]
  ELSE /\ displaced' = [displaced EXCEPT ![part] = "none"]
       /\ UNCHANGED live

\* Whether a directory exists is recorded before it is put back.
Recover ==
  /\ at = "recover"
  /\ PutBack
  /\ existed' = [p \in Dirs |-> IF p = part THEN live[p] # "none" ELSE existed[p]]
  /\ Goto("unstage", part)
  /\ UNCHANGED <<staged, pending, snapshots, saved, archive, counts, ran>>

RemoveStaged ==
  /\ at = "unstage"
  /\ staged' = [staged EXCEPT ![part] = "none"]
  /\ IF part < Directories THEN Goto("recover", part + 1) ELSE Goto("check", 0)
  /\ UNCHANGED <<live, displaced, pending, snapshots, locals, counts, ran>>

\* Nothing pending: the server starts.  A pending directory missing: the start fails.
CheckPending ==
  /\ at = "check"
  /\ \/ pending[0] = "none" /\ Goto("running", 0)
     \/ pending[0] # "none" /\ (\E p \in Dirs : pending[p] = "none") /\ Goto("stopped", 0)
     \/ (\A p \in Parts : pending[p] # "none") /\ Goto("save", 0)
  /\ ran' = IF at' = "running" THEN ran \cup Held(live) ELSE ran
  /\ UNCHANGED <<files, locals, counts>>

-----------------------------------------------------------------------------
\* Saving the current data and staging the pending ones.

\* Mistake: the directories are put aside by the swap and not copied before.
SaveDatabaseOnly(p) == p = 0 /\ live[0] # "none"

MustSave(p) == IF p = 0 THEN live[0] # "none" ELSE existed[p]

SaveCurrent ==
  /\ at = "save"
  /\ IF MustSave(part)
     THEN snapshots' = snapshots \cup {<<part, live[part]>>}
     ELSE UNCHANGED snapshots
  /\ IF part = 0 /\ live[0] # "none"
     THEN /\ saved' = live[0]
          /\ displaced' = [displaced EXCEPT ![0] = "partial"]
          /\ Goto("copy", 0)
     ELSE NextPart("stage") /\ UNCHANGED <<saved, displaced>>
  /\ UNCHANGED <<live, staged, pending, existed, archive, counts, ran>>

\* database.backup rejects a database that is incomplete; it may also not notice.
SaveRejects ==
  /\ at = "save"
  /\ part = 0 /\ live[0] = "partial"
  /\ Goto("stopped", 0)
  /\ UNCHANGED <<files, locals, counts, ran>>

\* The snapshot is copied to the displaced database.
CopyAside ==
  /\ at = "copy"
  /\ displaced' = [displaced EXCEPT ![0] = saved]
  /\ IF Directories > 0 THEN Goto("save", 1) ELSE Goto("stage", 0)
  /\ UNCHANGED <<live, staged, pending, snapshots, locals, counts, ran>>

Stage ==
  /\ at = "stage"
  /\ staged' = [staged EXCEPT ![part] = pending[part]]
  /\ NextPart("clear")
  /\ UNCHANGED <<live, displaced, pending, snapshots, locals, counts, ran>>

-----------------------------------------------------------------------------
\* The swap, part by part.

\* The database is removed, its copy has been set aside; a directory is moved.
Clear ==
  /\ at = "clear"
  /\ IF part \in Dirs /\ live[part] # "none"
     THEN displaced' = [displaced EXCEPT ![part] = live[part]]
     ELSE UNCHANGED displaced
  /\ live' = [live EXCEPT ![part] = "none"]
  /\ Goto("place", part)
  /\ UNCHANGED <<staged, pending, snapshots, locals, counts, ran>>

Place ==
  /\ at = "place"
  /\ live' = [live EXCEPT ![part] = staged[part]]
  /\ staged' = [staged EXCEPT ![part] = "none"]
  /\ IF part < Directories THEN Goto("clear", part + 1) ELSE Goto("drop", 0)
  /\ UNCHANGED <<displaced, pending, snapshots, locals, counts, ran>>

DropDisplaced ==
  /\ at = "drop"
  /\ displaced' = [displaced EXCEPT ![part] = "none"]
  /\ NextPart("finish")
  /\ UNCHANGED <<live, staged, pending, snapshots, locals, counts, ran>>

\* Mistake: the pending directories are removed before the database that needs them.
DirectoriesFirst(i) == Directories - i

\* The database first: what else is pending is ignored without it.
DatabaseFirst(i) == i

RemovePending ==
  /\ at = "finish"
  /\ pending' = [pending EXCEPT ![DatabaseFirst(part)] = "none"]
  /\ NextPart("running")
  /\ ran' = IF at' = "running" THEN ran \cup Held(live) ELSE ran
  /\ UNCHANGED <<live, displaced, staged, snapshots, locals, counts>>

-----------------------------------------------------------------------------
\* The catch block.  An error in it, or before the swap, ends the start: Crash.

SwapFails ==
  /\ at \in Swapping
  /\ errors < MaxErrors
  /\ errors' = errors + 1
  /\ Goto("rollback", 0)
  /\ UNCHANGED <<files, locals, ends, breaks, ran>>

\* Mistake: the error is not thrown again and the start goes on.
RollbackAndRun ==
  IF part < Directories
  THEN Goto("rollback", part + 1) /\ UNCHANGED staged
  ELSE Goto("running", 0) /\ staged' = Nothing

\* Its last step removes what was staged and throws.
RollbackNext ==
  IF part < Directories
  THEN Goto("rollback", part + 1) /\ UNCHANGED staged
  ELSE Goto("stopped", 0) /\ staged' = Nothing

RollbackDatabase ==
  /\ at = "rollback" /\ part = 0
  /\ IF live[0] = "none" /\ saved # "none"
     THEN live' = [live EXCEPT ![0] = "partial"] /\ Goto("recopy", 0) /\ UNCHANGED staged
     ELSE RollbackNext /\ UNCHANGED live
  /\ UNCHANGED <<displaced, pending, snapshots, locals, counts, ran>>

CopyBack ==
  /\ at = "recopy"
  /\ live' = [live EXCEPT ![0] = saved]
  /\ RollbackNext
  /\ UNCHANGED <<displaced, pending, snapshots, locals, counts, ran>>

\* The replacement is removed, then the displaced directory is moved back.
RollbackDirectory ==
  /\ at = "rollback" /\ part \in Dirs
  /\ \/ /\ displaced[part] # "none" /\ live[part] # "none"
        /\ live' = [live EXCEPT ![part] = "none"]
        /\ UNCHANGED <<displaced, staged, at, part>>
     \/ /\ displaced[part] # "none" /\ live[part] = "none"
        /\ live' = [live EXCEPT ![part] = displaced[part]]
        /\ displaced' = [displaced EXCEPT ![part] = "none"]
        /\ RollbackNext
     \/ /\ displaced[part] = "none"
        /\ RollbackNext
        /\ UNCHANGED <<live, displaced>>
  /\ UNCHANGED <<pending, snapshots, locals, counts, ran>>

-----------------------------------------------------------------------------
\* The process ends, or an error ends the start.
Crash ==
  /\ at \notin {"stopped", "write"}
  /\ ends < MaxEnds
  /\ ends' = ends + 1
  /\ Goto("stopped", 0)
  /\ UNCHANGED <<files, locals, errors, breaks, ran>>

Startup ==
  \/ Start \/ Recover \/ RemoveStaged \/ CheckPending
  \/ SaveCurrent \/ SaveRejects \/ CopyAside \/ Stage
  \/ Clear \/ Place \/ DropDisplaced \/ RemovePending
  \/ RollbackDatabase \/ CopyBack \/ RollbackDirectory

Next ==
  \/ Startup
  \/ \E w \in Works : Work(w)
  \/ Quit
  \/ \E a \in Archives : RequestRestore(a)
  \/ WritePart \/ WriteBreaks
  \/ SwapFails \/ Crash

Spec == Init /\ [][Next]_vars

\* The application is opened again after it has stopped, and a start goes on.
FairSpec == Spec /\ WF_vars(Startup) /\ WF_vars(WritePart)

-----------------------------------------------------------------------------
\* Properties.

\* Type invariant of the files and of the application's step.
TypeOK ==
  /\ {live, displaced, staged, pending} \subseteq [Parts -> Contents]
  /\ snapshots \subseteq Parts \X Contents
  /\ existed \in [Dirs -> BOOLEAN]
  /\ saved \in Contents
  /\ at \in Phases /\ part \in Parts
  /\ archive \in Archives \cup {"none"}
  /\ ran \subseteq Parts \X States
  /\ ends \in 0 .. MaxEnds /\ errors \in 0 .. MaxErrors /\ breaks \in 0 .. MaxBreaks

\* A restore preserves the current data: whatever the server ran with, and no work
\* has overwritten, is live, set aside, or in a recovery snapshot, at every step of
\* every restore, failed, interrupted or repeated.
EverythingKept ==
  \A x \in ran : x \in Held(live) \cup Held(displaced) \cup snapshots

\* The server never works with a mixture: behind a database that came from an
\* archive are that archive's directories, and an own database has own files.
RestoredTogether ==
  at = "running" =>
    /\ live[0] \in States
    /\ \A p \in Dirs : live[p] = live[0] \/ (live[0] \in Works /\ live[p] = "none")

\* That is so, whatever interrupts the start or fails in it, as long as every
\* restore request got to write all of its pending data.
RequestsTogether == breaks = 0 => RestoredTogether

\* The places are what the steps take them for, and no complete request is mixed.
RestoreInv == TypeOK /\ RequestsTogether

\* An application that has stopped runs again, after any interruption and any
\* rollback of a start.  Only a database that the rollback was interrupted in
\* copying may prevent it.
RunsAgain ==
  at = "stopped" /\ breaks = 0 ~> at = "running" \/ live[0] = "partial"
=============================================================================
