---------------------------- MODULE EmailDelivery ----------------------------
(***************************************************************************)
(* Delivery of one announcement: staff requests and worker ticks that run  *)
(* src/lib/communications-service.ts side by side in one server process.   *)
(*                                                                         *)
(* sendAnnouncement is a chain of awaited statements, not a transaction,   *)
(* so every statement is an action of the sender that executes it and      *)
(* anything may happen between two of them: another sender, an edit, a     *)
(* cancellation, the end of the process.  Any of them may also fail; when  *)
(* the transaction that records an accepted message does, the catch block  *)
(* around it records the message FAILED.                                   *)
(*                                                                         *)
(* Time is abstract: a job's runAt lies in the future, has come, or came   *)
(* before this process started (BANDOS_STARTED_AT); a lease and a delivery *)
(* attempt are younger or older than their five minutes.                   *)
(***************************************************************************)
EXTENDS Naturals, FiniteSets

CONSTANTS Destinations,  \* deduplicated addresses an audience may resolve to
          Workers,       \* worker requests that may be running
          Staff,         \* staff requests that may be running
          MaxEdition,    \* bound on edits of the announcement
          MaxFaults,     \* bound on failing statements and lost answers
          MaxCrashes     \* bound on restarts of the server process

ASSUME EmailAssumption ==
  /\ MaxEdition \in Nat
  /\ MaxFaults \in Nat
  /\ MaxCrashes \in Nat
  /\ Workers \cap Staff = {}

VARIABLES status,      \* Announcement.status, "ABSENT" before creation
          edition,     \* how often content and audience were replaced
          row,         \* the AnnouncementRecipient of each destination
          job,         \* the announcement's CommunicationJob
          verified,    \* the mailbox connection is VERIFIED
          sender,      \* where each running request is in the code
          accepted,    \* destinations whose message the provider has accepted
          faults,      \* failures so far
          crashes,     \* restarts so far
          overlapped   \* two requests have been under way at the same time

history == <<accepted, faults, crashes>>
deliveryVars == <<status, edition, row, job, verified, sender, history>>
vars == <<deliveryVars, overlapped>>

Senders == Workers \cup Staff

AnnouncementStatus == {"ABSENT", "READY", "SCHEDULED", "SENDING", "SENT",
                       "PARTIAL", "FAILED", "CANCELED"}
\* "NONE": no row; "HELD": MISSING_EMAIL, INVALID, SUPPRESSED or DISABLED.
RowStatus == {"NONE", "HELD", "PENDING", "SENDING", "SENT", "FAILED"}
JobStatus == {"NONE", "PENDING", "LEASED", "OVERDUE", "FAILED", "COMPLETED", "CANCELED"}
RunAt == {"future", "due", "missed"}
Steps == {"idle", "confirm", "mark", "find", "lease", "read", "recover", "list",
          "open", "attempt", "deliver", "accepted", "refused", "count", "finish", "fail"}

Row == [status : RowStatus, attempted : BOOLEAN, stale : BOOLEAN]
Job == [status : JobStatus, runAt : RunAt, leaseOver : BOOLEAN, edition : 0 .. MaxEdition]
Sender == [pc : Steps, audience : 0 .. MaxEdition,
           jobEdition : 0 .. MaxEdition, list : SUBSET Destinations,
           to : SUBSET Destinations, sent : BOOLEAN, failed : BOOLEAN]

NoRow == [status |-> "NONE", attempted |-> FALSE, stale |-> FALSE]
NoJob == [status |-> "NONE", runAt |-> "future", leaseOver |-> FALSE, edition |-> 0]
Idle == [pc |-> "idle", audience |-> 0, jobEdition |-> 0,
         list |-> {}, to |-> {}, sent |-> FALSE, failed |-> FALSE]

\* replaceAudienceSnapshot: fresh rows, eligible ones PENDING.
Snapshot(eligible, held) ==
  [d \in Destinations |->
     [NoRow EXCEPT !.status = IF d \in eligible THEN "PENDING"
                              ELSE IF d \in held THEN "HELD" ELSE "NONE"]]

ScheduledJob(scheduled, ed) ==
  IF scheduled THEN [NoJob EXCEPT !.status = "PENDING", !.edition = ed] ELSE NoJob

RowsWith(S) == {d \in Destinations : row[d].status \in S}

At(s, step) == sender[s].pc = step
Goto(s, step) == sender' = [sender EXCEPT ![s].pc = step]
Leave(s) == sender' = [sender EXCEPT ![s] = Idle]
\* An exception: the worker's catch block marks its job, staff see an error.
Throw(s) ==
  IF s \in Workers
  THEN sender' = [sender EXCEPT ![s] = [Idle EXCEPT !.pc = "fail",
                                                    !.jobEdition = sender[s].jobEdition]]
  ELSE Leave(s)

\* At most one request is sending or ticking.
Alone == \A s, t \in Senders : sender[s].pc # "idle" /\ sender[t].pc # "idle" => s = t

Init ==
  /\ status = "ABSENT"
  /\ edition = 0
  /\ row = [d \in Destinations |-> NoRow]
  /\ job = NoJob
  /\ verified = FALSE
  /\ sender = [s \in Senders |-> Idle]
  /\ accepted = {}
  /\ faults = 0
  /\ crashes = 0
  /\ overlapped = FALSE

-----------------------------------------------------------------------------
\* Staff handlers that are one transaction.

SaveConnection ==
  /\ verified' = FALSE
  /\ UNCHANGED <<status, edition, row, job, sender, history>>

\* testEmailConnection: the result of the probe.
TestConnection(ok) ==
  /\ verified' = ok
  /\ UNCHANGED <<status, edition, row, job, sender, history>>

CreateAnnouncement(eligible, held, scheduled) ==
  /\ status = "ABSENT"
  /\ status' = IF scheduled THEN "SCHEDULED" ELSE "READY"
  /\ row' = Snapshot(eligible, held)
  /\ job' = ScheduledJob(scheduled, edition)
  /\ UNCHANGED <<edition, verified, sender, history>>

\* Only unsent announcements without delivery history; the job, the rows and
\* the audience are deleted and made anew.
UpdateAnnouncement(eligible, held, scheduled) ==
  /\ status \in {"READY", "SCHEDULED"}
  /\ \A d \in Destinations : ~row[d].attempted /\ row[d].status # "SENT"
  /\ edition < MaxEdition
  /\ edition' = edition + 1
  /\ status' = IF scheduled THEN "SCHEDULED" ELSE "READY"
  /\ row' = Snapshot(eligible, held)
  /\ job' = ScheduledJob(scheduled, edition + 1)
  /\ UNCHANGED <<verified, sender, history>>

CancelAnnouncement ==
  /\ status \notin {"ABSENT", "SENT", "SENDING"}
  /\ status' = "CANCELED"
  /\ job' = IF job.status \in {"PENDING", "OVERDUE", "FAILED"}
            THEN [job EXCEPT !.status = "CANCELED", !.leaseOver = FALSE] ELSE job
  /\ UNCHANGED <<edition, row, verified, sender, history>>

-----------------------------------------------------------------------------
\* Staff requests that send.

\* sendAnnouncementAction
RequestSend(s) ==
  /\ At(s, "idle")
  /\ status # "ABSENT"
  /\ Goto(s, "read")
  /\ UNCHANGED <<status, edition, row, job, verified, history>>

\* confirmOverdueAnnouncementAction: the overdue job is found ...
FindOverdue(s) ==
  /\ At(s, "idle")
  /\ job.status = "OVERDUE"
  /\ sender' = [sender EXCEPT ![s].pc = "confirm", ![s].jobEdition = job.edition]
  /\ UNCHANGED <<status, edition, row, job, verified, history>>

\* ... set PENDING and due now, whatever has happened to it since ...
ConfirmOverdue(s) ==
  /\ At(s, "confirm")
  /\ IF job.status # "NONE" /\ job.edition = sender[s].jobEdition
     THEN /\ job' = [job EXCEPT !.status = "PENDING", !.runAt = "due"]
          /\ Goto(s, "read")
     ELSE /\ job' = job          \* the row is gone: the update throws
          /\ Leave(s)
  /\ UNCHANGED <<status, edition, row, verified, history>>

-----------------------------------------------------------------------------
\* A worker tick, processDueCommunicationJobs.

\* Mistake: leases of dead workers are never given up.
KeepLeases == job

ExpiredLeases ==
  IF job.status = "LEASED" /\ job.leaseOver
  THEN [job EXCEPT !.status = "PENDING", !.leaseOver = FALSE] ELSE job

ExpireLeases(w) ==
  /\ At(w, "idle")
  /\ job' = ExpiredLeases
  /\ Goto(w, "mark")
  /\ UNCHANGED <<status, edition, row, verified, history>>

\* Mistake: a missed job is held only while its announcement was never tried.
MarkUntried ==
  IF job.status = "PENDING" /\ job.runAt = "missed" /\ status = "SCHEDULED"
  THEN [job EXCEPT !.status = "OVERDUE"] ELSE job

MarkedOverdue ==
  IF job.status = "PENDING" /\ job.runAt = "missed"
  THEN [job EXCEPT !.status = "OVERDUE"] ELSE job

MarkOverdue(w) ==
  /\ At(w, "mark")
  /\ job' = MarkedOverdue
  /\ Goto(w, "find")
  /\ UNCHANGED <<status, edition, row, verified, history>>

FindDue(w) ==
  /\ At(w, "find")
  /\ IF job.status = "PENDING" /\ job.runAt # "future"
     THEN sender' = [sender EXCEPT ![w].pc = "lease", ![w].jobEdition = job.edition]
     ELSE Leave(w)
  /\ UNCHANGED <<status, edition, row, job, verified, history>>

LeaseJob(w) ==
  /\ At(w, "lease")
  /\ IF job.status = "PENDING" /\ job.edition = sender[w].jobEdition
     THEN /\ job' = [job EXCEPT !.status = "LEASED", !.leaseOver = FALSE]
          /\ Goto(w, "read")
     ELSE /\ job' = job
          /\ Leave(w)
  /\ UNCHANGED <<status, edition, row, verified, history>>

\* The worker's catch block; its own update throws when the job is gone.
FailJob(w) ==
  /\ At(w, "fail")
  /\ job' = IF job.status # "NONE" /\ job.edition = sender[w].jobEdition
            THEN [job EXCEPT !.status = "FAILED", !.leaseOver = FALSE] ELSE job
  /\ Leave(w)
  /\ UNCHANGED <<status, edition, row, verified, history>>

-----------------------------------------------------------------------------
\* sendAnnouncement, statement by statement.

\* The announcement and its connection, with the checks on them.
ReadAnnouncement(s) ==
  /\ At(s, "read")
  /\ IF status \in {"SENT", "CANCELED"} \/ ~verified
     THEN Throw(s)
     ELSE Goto(s, "recover")
  /\ UNCHANGED <<status, edition, row, job, verified, history>>

\* Attempts older than five minutes were interrupted: they become FAILED.
RecoverInterrupted(s) ==
  /\ At(s, "recover")
  /\ row' = [d \in Destinations |->
               IF row[d].status = "SENDING" /\ row[d].stale
               THEN [row[d] EXCEPT !.status = "FAILED"] ELSE row[d]]
  /\ Goto(s, "list")
  /\ UNCHANGED <<status, edition, job, verified, history>>

\* Mistake: whoever is not delivered at this moment is listed.
ListAttempted == RowsWith({"PENDING", "FAILED", "SENDING", "SENT"})

Undelivered == RowsWith({"PENDING", "FAILED"})

ListRecipients(s) ==
  /\ At(s, "list")
  /\ IF Undelivered = {}
     THEN Throw(s)
     ELSE sender' = [sender EXCEPT ![s].pc = "open", ![s].audience = edition,
                                   ![s].list = Undelivered]
  /\ UNCHANGED <<status, edition, row, job, verified, history>>

\* The announcement becomes SENDING whatever it has become since it was read.
OpenSending(s) ==
  /\ At(s, "open")
  /\ status' = "SENDING"
  /\ Goto(s, "attempt")
  /\ UNCHANGED <<edition, row, job, verified, history>>

\* Mistake: the row is found by its address, which the new audience has too.
FoundByAddress(s) == FALSE

RowsReplaced(s) == sender[s].audience # edition

\* The next recipient's row is updated by its key: it throws when an edit has
\* replaced the rows.
BeginAttempt(s) ==
  /\ At(s, "attempt")
  /\ IF RowsReplaced(s)
     THEN /\ Throw(s)
          /\ row' = row
     ELSE \E d \in sender[s].list :
            /\ sender' = [sender EXCEPT ![s].pc = "deliver", ![s].to = {d}]
            /\ row' = [row EXCEPT ![d] = [status |-> "SENDING", attempted |-> TRUE,
                                          stale |-> FALSE]]
  /\ UNCHANGED <<status, edition, job, verified, history>>

\* deliverEmail: the provider takes the message or refuses it.
Deliver(s, d, took) ==
  /\ At(s, "deliver")
  /\ sender[s].to = {d}
  /\ accepted' = IF took THEN accepted \cup {d} ELSE accepted
  /\ Goto(s, IF took THEN "accepted" ELSE "refused")
  /\ UNCHANGED <<status, edition, row, job, verified, faults, crashes>>

\* The transaction that records the result, in the try or in the catch block.
RecordResult(s, d) ==
  /\ sender[s].pc \in {"accepted", "refused"}
  /\ sender[s].to = {d}
  /\ row' = [row EXCEPT ![d].status = IF At(s, "accepted") THEN "SENT" ELSE "FAILED"]
  /\ sender' = [sender EXCEPT ![s].pc = IF sender[s].list = {d} THEN "count" ELSE "attempt",
                              ![s].list = @ \ {d}, ![s].to = {}]
  /\ UNCHANGED <<status, edition, job, verified, history>>

CountResults(s) ==
  /\ At(s, "count")
  /\ sender' = [sender EXCEPT ![s].pc = "finish",
                              ![s].sent = RowsWith({"SENT"}) # {},
                              ![s].failed = RowsWith({"FAILED"}) # {}]
  /\ UNCHANGED <<status, edition, row, job, verified, history>>

\* Mistake: one accepted message makes the announcement SENT.
OptimisticOutcome(sent, failed) == IF sent THEN "SENT" ELSE "FAILED"

Outcome(sent, failed) ==
  IF ~failed THEN "SENT" ELSE IF sent THEN "PARTIAL" ELSE "FAILED"

\* The closing transaction: announcement and any leased job.
FinishSend(s) ==
  /\ At(s, "finish")
  /\ status' = Outcome(sender[s].sent, sender[s].failed)
  /\ job' = IF job.status = "LEASED"
            THEN [job EXCEPT !.status = IF sender[s].failed THEN "FAILED" ELSE "COMPLETED",
                             !.leaseOver = FALSE]
            ELSE job
  /\ Leave(s)
  /\ UNCHANGED <<edition, row, verified, history>>

-----------------------------------------------------------------------------
\* Time and failure.

JobComesDue ==
  /\ job.status # "NONE"
  /\ job.runAt = "future"
  /\ job' = [job EXCEPT !.runAt = "due"]
  /\ UNCHANGED <<status, edition, row, verified, sender, history>>

\* A lease is not renewed: it may end while its worker is still sending.
LeaseEnds ==
  /\ job.status = "LEASED"
  /\ ~job.leaseOver
  /\ job' = [job EXCEPT !.leaseOver = TRUE]
  /\ UNCHANGED <<status, edition, row, verified, sender, history>>

\* The SMTP timeouts end a live attempt within five minutes, so only one whose
\* sender is gone grows older than that.
AttemptGrowsStale(d) ==
  /\ row[d].status = "SENDING"
  /\ ~row[d].stale
  /\ \A s \in Senders : d \notin sender[s].to
  /\ row' = [row EXCEPT ![d].stale = TRUE]
  /\ UNCHANGED <<status, edition, job, verified, sender, history>>

Fault ==
  /\ faults < MaxFaults
  /\ faults' = faults + 1
  /\ UNCHANGED <<status, edition, row, job, verified, crashes>>

\* The connection breaks when the provider has taken the message and before its
\* answer arrives.
LoseAnswer(s, d) ==
  /\ Fault
  /\ At(s, "deliver")
  /\ sender[s].to = {d}
  /\ accepted' = accepted \cup {d}
  /\ Goto(s, "refused")

\* An accepted message cannot be recorded: the same catch block takes it for refused.
RecordFails(s) ==
  /\ Fault
  /\ At(s, "accepted")
  /\ Goto(s, "refused")
  /\ UNCHANGED accepted

\* Any other statement of sendAnnouncement fails, also the one that records a failure.
StatementFails(s) ==
  /\ Fault
  /\ sender[s].pc \in {"read", "recover", "list", "open", "attempt", "refused", "count", "finish"}
  /\ Throw(s)
  /\ UNCHANGED accepted

\* The process ends and starts again: a job due by then was missed, and one that
\* was not may have come due while nothing ran.
Restart ==
  /\ crashes < MaxCrashes
  /\ crashes' = crashes + 1
  /\ sender' = [s \in Senders |-> Idle]
  /\ \E passed \in BOOLEAN :
       job' = IF job.status # "NONE" /\ (passed \/ job.runAt # "future")
              THEN [job EXCEPT !.runAt = "missed"] ELSE job
  /\ UNCHANGED <<status, edition, row, verified, accepted, faults>>

-----------------------------------------------------------------------------
SendStep(s) ==
  \/ ReadAnnouncement(s)
  \/ RecoverInterrupted(s)
  \/ ListRecipients(s)
  \/ OpenSending(s)
  \/ BeginAttempt(s)
  \/ \E d \in Destinations, took \in BOOLEAN : Deliver(s, d, took)
  \/ \E d \in Destinations : RecordResult(s, d)
  \/ CountResults(s)
  \/ FinishSend(s)

WorkerStep(w) ==
  \/ ExpireLeases(w)
  \/ MarkOverdue(w)
  \/ FindDue(w)
  \/ LeaseJob(w)
  \/ FailJob(w)
  \/ SendStep(w)

StaffStep(s) ==
  \/ RequestSend(s)
  \/ FindOverdue(s)
  \/ ConfirmOverdue(s)
  \/ SendStep(s)

Handler ==
  \/ SaveConnection
  \/ \E ok \in BOOLEAN : TestConnection(ok)
  \/ \E eligible, held \in SUBSET Destinations, scheduled \in BOOLEAN :
       /\ eligible \cap held = {}
       /\ \/ CreateAnnouncement(eligible, held, scheduled)
          \/ UpdateAnnouncement(eligible, held, scheduled)
  \/ CancelAnnouncement

Environment ==
  \/ JobComesDue
  \/ LeaseEnds
  \/ \E d \in Destinations : AttemptGrowsStale(d)
  \/ \E s \in Senders :
       \/ \E d \in Destinations : LoseAnswer(s, d)
       \/ RecordFails(s)
       \/ StatementFails(s)
  \/ Restart

Step ==
  \/ \E w \in Workers : WorkerStep(w)
  \/ \E s \in Staff : StaffStep(s)
  \/ Handler
  \/ Environment

Next == Step /\ overlapped' = (overlapped \/ ~Alone')

Spec == Init /\ [][Next]_vars

\* The desktop timer and the worker process call again and again, a running
\* request goes on, and time passes.
Fairness ==
  /\ \A w \in Workers : WF_deliveryVars(WorkerStep(w))
  /\ \A s \in Staff : WF_deliveryVars(ConfirmOverdue(s) \/ SendStep(s))
  /\ WF_deliveryVars(LeaseEnds)
  /\ WF_deliveryVars(JobComesDue)

FairSpec == Spec /\ Fairness

-----------------------------------------------------------------------------
\* Properties.

\* Type invariant of the rows and of the running requests.
TypeOK ==
  /\ status \in AnnouncementStatus
  /\ edition \in 0 .. MaxEdition
  /\ row \in [Destinations -> Row]
  /\ job \in Job
  /\ verified \in BOOLEAN
  /\ sender \in [Senders -> Sender]
  /\ accepted \subseteq Destinations
  /\ faults \in 0 .. MaxFaults
  /\ crashes \in 0 .. MaxCrashes
  /\ overlapped \in BOOLEAN

AboutToDeliver(d) == \E s \in Senders : At(s, "deliver") /\ d \in sender[s].to

\* SECURITY_CHECKLIST.md:19, EMAIL_SETUP.md:43: a message the provider has accepted
\* is never handed over again.
NeverResent == \A d \in accepted : ~AboutToDeliver(d)

\* What sendAnnouncement keeps of it while requests do not overlap: a destination
\* recorded SENT stays so whatever is retried, and an accepted message is handed over
\* again only when a crash, a lost answer or a failing statement has kept its
\* acceptance from being recorded.
ResentOnlyIfUnrecorded ==
  [][~overlapped' =>
       \A d \in Destinations :
         /\ row[d].status = "SENT" => row'[d].status = "SENT"
         /\ d \in accepted /\ AboutToDeliver(d)' => (crashes + faults > 0)']_vars

\* A job whose time came while nothing ran is never taken by a worker: staff
\* must confirm it, also when a lease of the previous process was still on it.
OverdueNeedsConfirmation ==
  [][~overlapped' =>
       \A w \in Workers :
         At(w, "lease") /\ sender'[w].pc = "read" => job.runAt # "missed"]_vars

\* What the announcement page reports is true: a destination shown as accepted was,
\* SENT means so for every eligible destination, except one whose attempt a crash or
\* a failing statement left without a result, and a COMPLETED job belongs to a SENT
\* announcement.  Requests must not overlap.
ReportIsTrue ==
  ~overlapped =>
    /\ \A d \in Destinations :
         /\ row[d].status = "SENT" => d \in accepted
         /\ status = "SENT" =>
              \/ row[d].status \in {"NONE", "HELD", "SENT"}
              \/ row[d].status = "SENDING" /\ crashes + faults > 0
    /\ job.status = "COMPLETED" => status = "SENT"

\* An address on hold in the current audience is never sent to, also when it was
\* eligible in the audience a running request has listed.
HeldNeverSent ==
  [][\A d \in Destinations :
       row'[d].attempted /\ ~row[d].attempted => row[d].status # "HELD"]_vars

\* Every lease is given up: a job never stays with a worker that is gone.
LeasesEnd == job.status = "LEASED" ~> job.status # "LEASED"

\* A canceled announcement is never delivered: CANCELED is final, as the check
\* "This announcement cannot be sent again." wants it.
CanceledIsFinal == [][status = "CANCELED" => status' = "CANCELED"]_vars
=============================================================================
