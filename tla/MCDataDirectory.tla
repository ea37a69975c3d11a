--------------------------- MODULE MCDataDirectory ---------------------------
(***************************************************************************)
(* The data directory for TLC: ManagedFiles, the server that writes files  *)
(* and backups, and DesktopStart, the application that starts it.  The     *)
(* server runs only while DesktopStart is at one of its states, so the two *)
(* are explored side by side and not in every combination.  The run has    *)
(* liveness properties, so no symmetry is defined.                         *)
(***************************************************************************)
EXTENDS ManagedFiles, DesktopStart, TLC

CONSTANTS w1, w2, demo, two

\* A backup of a server whose first migration was recorded by Prisma.
ServerBackup == [data |-> w1, sql |-> 1, half |-> "no", marked |-> 0, prisma |-> 1]
Backups == {ServerBackup}

VARIABLE subject

MCInit ==
  /\ Init /\ StartInit
  /\ \/ subject = "files" /\ release = Releases
     \/ subject = "start"

\* Requests reach the server of an application that has started.
MCNext ==
  /\ \/ subject = "files" /\ at = "running" /\ Next /\ UNCHANGED startVars
     \/ subject = "files" /\ at # "running" /\ Startup /\ UNCHANGED vars
     \/ subject = "start" /\ StartNext /\ UNCHANGED vars
  /\ UNCHANGED subject

\* The fairness of FairSpec and of FairStart.
GoesOn(r) == \E k \in Keys : DeleteFile(r, k) \/ DeleteFails(r, k)

MCSpec ==
  /\ MCInit
  /\ [][MCNext]_<<vars, startVars, subject>>
  /\ \A r \in Requests : WF_vars(GoesOn(r) /\ UNCHANGED startVars)
  /\ WF_startVars(Startup /\ UNCHANGED vars)
=============================================================================
