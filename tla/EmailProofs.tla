----------------------------- MODULE EmailProofs -----------------------------
(***************************************************************************)
(* What requests guarantee, for every audience and any number of requests, *)
(* edits, failing statements and restarts.  As long as no two of them have *)
(* been under way together: a recorded destination is not sent to again,   *)
(* an accepted one only when its acceptance could not be recorded          *)
(* (AcceptedInv), a missed job waits for staff (MissedIsHeld), and what    *)
(* the page shows is what became of the recipients (ReportInv).  However   *)
(* they overlap: nobody who is on hold is sent to (EditionInv).            *)
(*                                                                         *)
(* All of them rest on DeliveryInv, which says what a running request may  *)
(* still hold: a list without recorded destinations (as long as no edit    *)
(* replaced the rows under it) and, from the attempt to its record, a row  *)
(* that is SENDING.                                                        *)
(***************************************************************************)
EXTENDS EmailDelivery, TLAPS

USE DEF history

\* From the attempt to its record.
InHand == {"deliver", "accepted", "refused"}

\* What one request holds: nothing when idle, else a list without recorded
\* destinations and, in hand, a row that is SENDING.
RequestInv(s) ==
  /\ sender[s].pc = "idle" => sender[s] = Idle
  /\ sender[s].pc \in {"open", "attempt"} \cup InHand /\ sender[s].audience = edition
       => \A d \in sender[s].list : row[d].status # "SENT"
  /\ sender[s].to # {} => sender[s].pc \in InHand /\ sender[s].audience = edition
  /\ \A d \in sender[s].to : row[d].status = "SENDING" /\ row[d].attempted
  /\ sender[s].pc = "accepted" => sender[s].to \subseteq accepted

NothingBeforeCreation ==
  status = "ABSENT" =>
    /\ \A d \in Destinations : row[d].status = "NONE"
    /\ job.status = "NONE"
    /\ \A s \in Senders : sender[s].pc \in {"idle", "mark", "find"}

DeliveryInv == Alone /\ (\A s \in Senders : RequestInv(s)) /\ NothingBeforeCreation

\* A worker that has passed the overdue check holds no missed job.
MissedIsHeld ==
  \A w \in Workers :
    sender[w].pc \in {"find", "lease"} /\ job.status = "PENDING" => job.runAt # "missed"

RecordKept == \A d \in Destinations : row[d].status = "SENT" => row'[d].status = "SENT"

-----------------------------------------------------------------------------
\* Leaving, throwing or going on keeps every request in its type.
LEMMA SenderMoves ==
  ASSUME EmailAssumption, TypeOK, NEW s \in Senders, NEW step \in Steps
  PROVE  /\ Goto(s, step) => sender' \in [Senders -> Sender]
         /\ Leave(s) => sender' \in [Senders -> Sender]
         /\ Throw(s) => sender' \in [Senders -> Sender]
<1>1. sender \in [Senders -> Sender] /\ sender[s] \in Sender
  BY DEF TypeOK
<1>2. \A p \in Steps : [sender[s] EXCEPT !.pc = p] \in Sender
  BY <1>1 DEF Sender
<1>3. Idle \in Sender
  BY EmailAssumption DEF Idle, Sender, Steps, EmailAssumption
<1>4. \A p \in Steps : Goto(s, p) => sender' \in [Senders -> Sender]
  BY <1>1, <1>2 DEF Goto
<1>5. Leave(s) => sender' \in [Senders -> Sender]
  BY <1>1, <1>3 DEF Leave
<1>6. [Idle EXCEPT !.pc = "fail", !.jobEdition = sender[s].jobEdition] \in Sender
  BY <1>1, <1>3 DEF Sender, Idle, Steps
<1>7. Throw(s) => sender' \in [Senders -> Sender]
  BY <1>1, <1>5, <1>6 DEF Throw
<1> QED
  BY <1>4, <1>5, <1>7

\* The job and the rows an announcement is given at an edition.
LEMMA FreshRows ==
  ASSUME EmailAssumption, NEW ed \in 0 .. MaxEdition, NEW scheduled \in BOOLEAN,
         NEW eligible \in SUBSET Destinations, NEW held \in SUBSET Destinations
  PROVE  /\ ScheduledJob(scheduled, ed) \in Job
         /\ Snapshot(eligible, held) \in [Destinations -> Row]
         /\ \A d \in Destinations : Snapshot(eligible, held)[d].status # "SENT"
<1>1. /\ [NoJob EXCEPT !.status = "PENDING", !.edition = ed] \in Job
      /\ NoJob \in Job
  <2>1. 0 \in 0 .. MaxEdition
    BY DEF EmailAssumption
  <2>2. {"NONE", "PENDING"} \subseteq JobStatus /\ "future" \in RunAt
    BY DEF JobStatus, RunAt
  <2>3. NoJob \in Job
    BY <2>1, <2>2 DEF NoJob, Job
  <2> QED
    BY <2>2, <2>3 DEF Job
<1>2. ASSUME NEW st \in RowStatus
      PROVE  /\ [NoRow EXCEPT !.status = st] \in Row
             /\ [NoRow EXCEPT !.status = st].status = st
  BY DEF NoRow, Row, RowStatus
<1>3. {"PENDING", "HELD", "NONE"} \subseteq RowStatus
  BY DEF RowStatus
<1>4. ASSUME NEW d \in Destinations
      PROVE  Snapshot(eligible, held)[d] \in Row /\ Snapshot(eligible, held)[d].status # "SENT"
  BY <1>2, <1>3 DEF Snapshot
<1>5. Snapshot(eligible, held) \in [Destinations -> Row]
  BY <1>4 DEF Snapshot
<1> QED
  BY <1>1, <1>4, <1>5 DEF ScheduledJob

\* The types survive every step.
LEMMA StepTypeOK == EmailAssumption /\ TypeOK /\ [Next]_vars => TypeOK'
<1> SUFFICES ASSUME EmailAssumption, TypeOK, [Next]_vars PROVE TypeOK'
  OBVIOUS
<1>o. overlapped' \in BOOLEAN
  BY DEF Next, vars, TypeOK, Alone
<1> USE <1>o
<1>t. /\ sender \in [Senders -> Sender] /\ row \in [Destinations -> Row] /\ job \in Job
      /\ edition \in 0 .. MaxEdition
  BY DEF TypeOK
<1>p. /\ {"confirm", "mark", "find", "lease", "read", "recover", "list", "open", "attempt",
          "deliver", "accepted", "refused", "count", "finish", "fail"} \subseteq Steps
      /\ {"PENDING", "LEASED", "OVERDUE", "FAILED", "COMPLETED", "CANCELED"} \subseteq JobStatus
      /\ {"due", "missed"} \subseteq RunAt
      /\ {"SENDING", "SENT", "FAILED"} \subseteq RowStatus
      /\ {"READY", "SCHEDULED", "SENDING", "SENT", "PARTIAL", "FAILED", "CANCELED"}
           \subseteq AnnouncementStatus
  BY DEF Steps, JobStatus, RunAt, RowStatus, AnnouncementStatus
<1>r. \A d \in Destinations, st \in RowStatus : [row[d] EXCEPT !.status = st] \in Row
  BY <1>t DEF Row
<1>j. /\ \A st \in JobStatus : [job EXCEPT !.status = st, !.leaseOver = FALSE] \in Job
      /\ \A st \in JobStatus, at \in RunAt : [job EXCEPT !.status = st, !.runAt = at] \in Job
      /\ \A st \in JobStatus : [job EXCEPT !.status = st] \in Job
      /\ \A at \in RunAt : [job EXCEPT !.runAt = at] \in Job
      /\ [job EXCEPT !.leaseOver = TRUE] \in Job
  BY <1>t DEF Job
<1>1. ASSUME NEW s \in Senders, SendStep(s) PROVE TypeOK'
  <2>g. \A p \in Steps : Goto(s, p) => sender' \in [Senders -> Sender]
    BY SenderMoves
  <2>l. /\ Leave(s) => sender' \in [Senders -> Sender]
        /\ Throw(s) => sender' \in [Senders -> Sender]
    BY SenderMoves, <1>p
  <2>x. sender[s] \in Sender
    BY <1>t
  <2>1. CASE ReadAnnouncement(s)
    BY <2>1, <2>g, <2>l, <1>p, <1>t DEF ReadAnnouncement, TypeOK
  <2>2. CASE RecoverInterrupted(s)
    BY <2>2, <2>g, <1>p, <1>r, <1>t DEF RecoverInterrupted, TypeOK
  <2>3. CASE ListRecipients(s)
    <3>1. Undelivered \subseteq Destinations
      BY DEF Undelivered, RowsWith
    <3>2. [sender[s] EXCEPT !.pc = "open", !.audience = edition, !.list = Undelivered] \in Sender
      BY <2>x, <3>1, <1>p, <1>t DEF Sender
    <3> QED
      BY <2>3, <3>2, <2>l, <1>t DEF ListRecipients, TypeOK
  <2>4. CASE OpenSending(s)
    BY <2>4, <2>g, <1>p DEF OpenSending, TypeOK
  <2>5. CASE BeginAttempt(s)
    <3>1. CASE sender[s].audience # edition
      BY <2>5, <3>1, <2>l DEF BeginAttempt, RowsReplaced, TypeOK
    <3>2. CASE sender[s].audience = edition
      <4>1. PICK d \in sender[s].list :
              /\ sender' = [sender EXCEPT ![s].pc = "deliver", ![s].to = {d}]
              /\ row' = [row EXCEPT ![d] = [status |-> "SENDING", attempted |-> TRUE,
                                            stale |-> FALSE]]
        BY <2>5, <3>2 DEF BeginAttempt, RowsReplaced
      <4>2. d \in Destinations
        BY <2>x DEF Sender
      <4>3. [sender[s] EXCEPT !.pc = "deliver", !.to = {d}] \in Sender
        BY <2>x, <4>2, <1>p DEF Sender
      <4>4. [status |-> "SENDING", attempted |-> TRUE, stale |-> FALSE] \in Row
        BY <1>p DEF Row
      <4> QED
        BY <2>5, <4>1, <4>2, <4>3, <4>4, <1>t DEF BeginAttempt, RowsReplaced, TypeOK
    <3> QED
      BY <3>1, <3>2
  <2>6. ASSUME NEW d \in Destinations, NEW took \in BOOLEAN, Deliver(s, d, took)
        PROVE TypeOK'
    <3>1. accepted' \subseteq Destinations
      BY <2>6 DEF Deliver, TypeOK
    <3>2. \E p \in Steps : Goto(s, p)
      BY <2>6, <1>p DEF Deliver
    <3> QED
      BY <2>6, <3>1, <3>2, <2>g DEF Deliver, TypeOK
  <2>9. ASSUME NEW d \in Destinations, RecordResult(s, d)
        PROVE TypeOK'
    <3>1. \A p \in Steps :
            [sender[s] EXCEPT !.pc = p, !.list = sender[s].list \ {d}, !.to = {}] \in Sender
      BY <2>x DEF Sender
    <3>2. sender' \in [Senders -> Sender]
      BY <2>9, <3>1, <1>p, <1>t DEF RecordResult
    <3>3. row' \in [Destinations -> Row]
      BY <2>9, <1>r, <1>p, <1>t DEF RecordResult
    <3> QED
      BY <2>9, <3>2, <3>3 DEF RecordResult, TypeOK
  <2>7. CASE CountResults(s)
    <3>1. \A x, y \in BOOLEAN : [sender[s] EXCEPT !.pc = "finish", !.sent = x, !.failed = y] \in Sender
      BY <2>x, <1>p DEF Sender
    <3> QED
      BY <2>7, <3>1, <1>t DEF CountResults, TypeOK
  <2>8. CASE FinishSend(s)
    <3>1. \A st \in JobStatus : [job EXCEPT !.status = st, !.leaseOver = FALSE] \in Job
      BY <1>j
    <3>2. job' \in Job
      BY <2>8, <3>1, <1>p, <1>t DEF FinishSend
    <3>3. status' \in AnnouncementStatus
      BY <2>8, <1>p DEF FinishSend, Outcome
    <3> QED
      BY <2>8, <3>2, <3>3, <2>l DEF FinishSend, TypeOK
  <2> QED
    BY <1>1, <2>1, <2>2, <2>3, <2>4, <2>5, <2>6, <2>7, <2>8, <2>9 DEF SendStep
<1>2. ASSUME NEW w \in Workers, WorkerStep(w) PROVE TypeOK'
  <2>w. w \in Senders /\ sender[w] \in Sender
    BY <1>t DEF Senders
  <2>g. \A p \in Steps : Goto(w, p) => sender' \in [Senders -> Sender]
    BY SenderMoves, <2>w
  <2>l. Leave(w) => sender' \in [Senders -> Sender]
    BY SenderMoves, <2>w, <1>p
  <2>1. CASE ExpireLeases(w)
    BY <2>1, <2>g, <1>p, <1>j, <1>t DEF ExpireLeases, ExpiredLeases, TypeOK
  <2>2. CASE MarkOverdue(w)
    BY <2>2, <2>g, <1>p, <1>j, <1>t DEF MarkOverdue, MarkedOverdue, TypeOK
  <2>3. CASE FindDue(w)
    <3>1. job.edition \in 0 .. MaxEdition
      BY <1>t DEF Job
    <3>2. [sender[w] EXCEPT !.pc = "lease", !.jobEdition = job.edition] \in Sender
      BY <2>w, <3>1, <1>p DEF Sender
    <3> QED
      BY <2>3, <3>2, <2>l, <1>t DEF FindDue, TypeOK
  <2>4. CASE LeaseJob(w)
    BY <2>4, <2>g, <2>l, <1>p, <1>j, <1>t DEF LeaseJob, TypeOK
  <2>5. CASE FailJob(w)
    BY <2>5, <2>l, <1>p, <1>j, <1>t DEF FailJob, TypeOK
  <2> QED
    BY <1>1, <1>2, <2>w, <2>1, <2>2, <2>3, <2>4, <2>5 DEF WorkerStep
<1>3. ASSUME NEW s \in Staff, StaffStep(s) PROVE TypeOK'
  <2>w. s \in Senders /\ sender[s] \in Sender
    BY <1>t DEF Senders
  <2>g. \A p \in Steps : Goto(s, p) => sender' \in [Senders -> Sender]
    BY SenderMoves, <2>w
  <2>l. Leave(s) => sender' \in [Senders -> Sender]
    BY SenderMoves, <2>w, <1>p
  <2>1. CASE RequestSend(s)
    BY <2>1, <2>g, <1>p DEF RequestSend, TypeOK
  <2>2. CASE FindOverdue(s)
    <3>1. job.edition \in 0 .. MaxEdition
      BY <1>t DEF Job
    <3>2. [sender[s] EXCEPT !.pc = "confirm", !.jobEdition = job.edition] \in Sender
      BY <2>w, <3>1, <1>p DEF Sender
    <3> QED
      BY <2>2, <3>2, <1>t DEF FindOverdue, TypeOK
  <2>3. CASE ConfirmOverdue(s)
    <3>1. [job EXCEPT !.status = "PENDING", !.runAt = "due"] \in Job
      BY <1>p, <1>j
    <3>2. job' \in Job
      BY <2>3, <3>1, <1>t DEF ConfirmOverdue
    <3>3. sender' \in [Senders -> Sender]
      BY <2>3, <2>g, <2>l, <1>p DEF ConfirmOverdue
    <3> QED
      BY <2>3, <3>2, <3>3 DEF ConfirmOverdue, TypeOK
  <2> QED
    BY <1>1, <1>3, <2>w, <2>1, <2>2, <2>3 DEF StaffStep
<1>4. CASE Handler
  <2>1. CASE SaveConnection
    BY <2>1 DEF SaveConnection, TypeOK
  <2>2. ASSUME NEW ok \in BOOLEAN, TestConnection(ok) PROVE TypeOK'
    BY <2>2 DEF TestConnection, TypeOK
  <2>3. ASSUME NEW eligible \in SUBSET Destinations, NEW held \in SUBSET Destinations,
               NEW scheduled \in BOOLEAN, CreateAnnouncement(eligible, held, scheduled)
        PROVE TypeOK'
    BY <2>3, <1>t, <1>p, FreshRows DEF CreateAnnouncement, TypeOK
  <2>4. ASSUME NEW eligible \in SUBSET Destinations, NEW held \in SUBSET Destinations,
               NEW scheduled \in BOOLEAN, UpdateAnnouncement(eligible, held, scheduled)
        PROVE TypeOK'
    <3>1. edition + 1 \in 0 .. MaxEdition
      BY <2>4, <1>t DEF UpdateAnnouncement, EmailAssumption
    <3> QED
      BY <2>4, <3>1, <1>p, FreshRows DEF UpdateAnnouncement, TypeOK
  <2>5. CASE CancelAnnouncement
    BY <2>5, <1>p, <1>j, <1>t DEF CancelAnnouncement, TypeOK
  <2> QED
    BY <1>4, <2>1, <2>2, <2>3, <2>4, <2>5 DEF Handler
<1>5. CASE Environment
  <2>1. CASE JobComesDue
    BY <2>1, <1>p, <1>j DEF JobComesDue, TypeOK
  <2>2. CASE LeaseEnds
    BY <2>2, <1>j DEF LeaseEnds, TypeOK
  <2>3. ASSUME NEW d \in Destinations, AttemptGrowsStale(d) PROVE TypeOK'
    <3>1. [row[d] EXCEPT !.stale = TRUE] \in Row
      BY <1>t DEF Row
    <3> QED
      BY <2>3, <3>1, <1>t DEF AttemptGrowsStale, TypeOK
  <2>4. CASE Restart
    <3>1. crashes' \in 0 .. MaxCrashes
      BY <2>4 DEF Restart, TypeOK, EmailAssumption
    <3>2. Idle \in Sender
      BY DEF Idle, Sender, Steps, EmailAssumption
    <3>3. sender' \in [Senders -> Sender]
      BY <2>4, <3>2 DEF Restart
    <3>4. job' \in Job
      BY <2>4, <1>t, <1>p, <1>j DEF Restart
    <3> QED
      BY <2>4, <3>1, <3>3, <3>4 DEF Restart, TypeOK
  <2>f. Fault => faults' \in 0 .. MaxFaults
    BY DEF Fault, TypeOK, EmailAssumption
  <2>5. ASSUME NEW s \in Senders, NEW d \in Destinations, LoseAnswer(s, d) PROVE TypeOK'
    <3>1. sender' \in [Senders -> Sender] /\ accepted' \subseteq Destinations
      BY <2>5, <1>p, SenderMoves DEF LoseAnswer, TypeOK
    <3> QED
      BY <2>5, <2>f, <3>1 DEF LoseAnswer, Fault, TypeOK
  <2>6. ASSUME NEW s \in Senders, RecordFails(s) \/ StatementFails(s) PROVE TypeOK'
    <3>1. sender' \in [Senders -> Sender]
      BY <2>6, <1>p, SenderMoves DEF RecordFails, StatementFails
    <3> QED
      BY <2>6, <2>f, <3>1 DEF RecordFails, StatementFails, Fault, TypeOK
  <2> QED
    BY <1>5, <2>1, <2>2, <2>3, <2>4, <2>5, <2>6 DEF Environment
<1>6. CASE UNCHANGED vars
  BY <1>6 DEF vars, deliveryVars, TypeOK
<1> QED
  BY <1>2, <1>3, <1>4, <1>5, <1>6 DEF Next, Step

\* Nothing is running and no announcement exists at the start.
LEMMA InitTypeOK == EmailAssumption /\ Init => TypeOK
<1> SUFFICES ASSUME EmailAssumption, Init PROVE TypeOK
  OBVIOUS
<1>1. 0 \in 0 .. MaxEdition /\ 0 \in 0 .. MaxFaults /\ 0 \in 0 .. MaxCrashes
  BY DEF EmailAssumption
<1>2. NoRow \in Row /\ NoJob \in Job /\ Idle \in Sender
  BY <1>1 DEF RowStatus, JobStatus, RunAt, Steps, Row, Job, Sender, NoRow, NoJob, Idle
<1> QED
  BY <1>1, <1>2 DEF Init, TypeOK, AnnouncementStatus

\* Type correctness of delivery, also with any number of overlapping requests.
THEOREM TypeCorrect == Spec => []TypeOK
<1>1. Init => TypeOK
  BY InitTypeOK, EmailAssumption
<1>2. TypeOK /\ [Next]_vars => TypeOK'
  BY StepTypeOK, EmailAssumption
<1> QED
  BY <1>1, <1>2, PTL DEF Spec

-----------------------------------------------------------------------------
\* One request at a time: while s moves, every other request is idle.
LEMMA OthersIdle ==
  ASSUME DeliveryInv, Alone', NEW s \in Senders, NEW t \in Senders, t # s,
         sender[s].pc # "idle" \/ sender'[s].pc # "idle", sender'[t] = sender[t]
  PROVE  sender[t] = Idle
<1>1. sender[t].pc = "idle"
  BY DEF DeliveryInv, Alone
<1> QED
  BY <1>1 DEF DeliveryInv, RequestInv

\* An idle request satisfies its invariant whatever the rows are.
LEMMA IdleInv ==
  ASSUME NEW s \in Senders, sender'[s] = Idle
  PROVE  RequestInv(s)'
  BY DEF RequestInv, Idle

\* What moving, leaving and throwing do to the request and to the others.
LEMMA Moves ==
  ASSUME sender \in [Senders -> Sender], NEW s \in Senders, NEW step \in Steps
  PROVE  /\ Goto(s, step) => /\ sender'[s].pc = step
                             /\ sender'[s].to = sender[s].to
                             /\ sender'[s].list = sender[s].list
                             /\ sender'[s].audience = sender[s].audience
         /\ Leave(s) => sender'[s] = Idle
         /\ Throw(s) => \/ sender'[s] = Idle
                        \/ /\ sender'[s].pc = "fail" /\ sender'[s].to = {}
                           /\ sender'[s].audience = 0
         /\ Goto(s, step) \/ Leave(s) \/ Throw(s)
              => \A t \in Senders \ {s} : sender'[t] = sender[t]
<1>0. sender[s] \in Sender
  OBVIOUS
<1>1. ASSUME NEW p \in Steps, Goto(s, p)
      PROVE  /\ sender'[s] = [sender[s] EXCEPT !.pc = p]
             /\ \A t \in Senders \ {s} : sender'[t] = sender[t]
  BY <1>1 DEF Goto
<1>2. ASSUME NEW p \in Steps
      PROVE  /\ [sender[s] EXCEPT !.pc = p].pc = p
             /\ [sender[s] EXCEPT !.pc = p].to = sender[s].to
             /\ [sender[s] EXCEPT !.pc = p].list = sender[s].list
             /\ [sender[s] EXCEPT !.pc = p].audience = sender[s].audience
  BY <1>0 DEF Sender
<1>3. Leave(s) => sender'[s] = Idle /\ \A t \in Senders \ {s} : sender'[t] = sender[t]
  BY DEF Leave
<1>4. ASSUME Throw(s)
      PROVE  /\ sender'[s] = Idle \/ (/\ sender'[s].pc = "fail" /\ sender'[s].to = {}
                                    /\ sender'[s].audience = 0)
             /\ \A t \in Senders \ {s} : sender'[t] = sender[t]
  <2>1. CASE sender' = [sender EXCEPT ![s] = [Idle EXCEPT !.pc = "fail",
                                                !.jobEdition = sender[s].jobEdition]]
    BY <2>1 DEF Idle
  <2>2. CASE Leave(s)
    BY <2>2, <1>3
  <2> QED
    BY <1>4, <2>1, <2>2 DEF Throw
<1>5. Goto(s, step) => /\ sender'[s].pc = step
                       /\ sender'[s].to = sender[s].to
                       /\ sender'[s].list = sender[s].list
                       /\ sender'[s].audience = sender[s].audience
                       /\ \A t \in Senders \ {s} : sender'[t] = sender[t]
  BY <1>1, <1>2
<1> QED
  BY <1>3, <1>4, <1>5

\* A sending step keeps recorded rows and leaves the request as it should be.
LEMMA SendKeeps ==
  ASSUME TypeOK, DeliveryInv, Alone', NEW s \in Senders, SendStep(s)
  PROVE  /\ RequestInv(s)' /\ NothingBeforeCreation' /\ RecordKept
         /\ sender[s].pc # "idle"
         /\ \A t \in Senders \ {s} : sender'[t] = sender[t]
<1>t. /\ sender \in [Senders -> Sender] /\ row \in [Destinations -> Row]
      /\ sender[s] \in Sender /\ sender[s].list \subseteq Destinations
  BY DEF TypeOK, Sender
<1>i. RequestInv(s) /\ NothingBeforeCreation
  BY DEF DeliveryInv
<1>n. status # "ABSENT" /\ sender[s].pc # "idle"
  BY <1>i DEF SendStep, NothingBeforeCreation, At, ReadAnnouncement, RecoverInterrupted,
     ListRecipients, OpenSending, BeginAttempt, Deliver, RecordResult, CountResults, FinishSend
<1>c. NothingBeforeCreation'
  <2>1. status' # "ABSENT"
    BY <1>n DEF SendStep, ReadAnnouncement, RecoverInterrupted, ListRecipients,
       OpenSending, BeginAttempt, Deliver, RecordResult, CountResults, FinishSend, Outcome
  <2> QED
    BY <2>1 DEF NothingBeforeCreation
<1>e. sender[s].pc \notin {"deliver", "accepted", "refused"} => sender[s].to = {}
  BY <1>i DEF RequestInv, InHand
<1>p. {"recover", "list", "open", "attempt", "deliver", "accepted", "refused", "count",
       "finish", "fail"} \subseteq Steps
  BY DEF Steps
<1>1. CASE ReadAnnouncement(s)
  <2>1. RecordKept /\ sender[s].to = {}
    BY <1>1, <1>e DEF ReadAnnouncement, RecordKept, At
  <2>2. CASE Throw(s)
    BY <1>1, <2>1, <2>2, <1>n, <1>c, <1>t, <1>p, Moves, IdleInv
       DEF ReadAnnouncement, RequestInv, InHand, At
  <2>3. CASE Goto(s, "recover")
    BY <1>1, <2>1, <2>3, <1>n, <1>c, <1>t, <1>p, Moves
       DEF ReadAnnouncement, RequestInv, InHand, At
  <2> QED
    BY <1>1, <2>2, <2>3 DEF ReadAnnouncement
<1>2. CASE RecoverInterrupted(s)
  <2>1. /\ sender'[s].pc = "list" /\ sender'[s].to = {}
        /\ \A t \in Senders \ {s} : sender'[t] = sender[t]
        /\ sender[s].pc = "recover"
    BY <1>2, <1>t, <1>p, <1>e, Moves DEF RecoverInterrupted, At
  <2>2. \A d \in Destinations : row[d].status # "SENDING" => row'[d] = row[d]
    BY <1>2, <1>t DEF RecoverInterrupted
  <2> QED
    BY <1>2, <1>n, <1>c, <2>1, <2>2, <1>i
       DEF RecoverInterrupted, RequestInv, InHand, RecordKept
<1>3. CASE ListRecipients(s)
  <2>1. RecordKept /\ sender[s].to = {}
    BY <1>3, <1>e DEF ListRecipients, RecordKept, At
  <2>2. CASE Throw(s)
    BY <1>3, <2>1, <2>2, <1>n, <1>c, <1>t, <1>p, Moves, IdleInv
       DEF ListRecipients, RequestInv, InHand, At
  <2>3. CASE sender' = [sender EXCEPT ![s].pc = "open", ![s].audience = edition,
                                      ![s].list = Undelivered]
    <3>1. /\ sender'[s] = [sender[s] EXCEPT !.pc = "open", !.audience = edition,
                                            !.list = Undelivered]
          /\ \A t \in Senders \ {s} : sender'[t] = sender[t]
      BY <2>3, <1>t
    <3>2. /\ sender'[s].pc = "open" /\ sender'[s].to = sender[s].to
          /\ sender'[s].list = Undelivered
      BY <3>1, <1>t DEF Sender
    <3>3. \A d \in Undelivered : row'[d].status # "SENT"
      BY <1>3 DEF ListRecipients, Undelivered, RowsWith
    <3> QED
      BY <1>3, <1>n, <1>c, <2>1, <3>1, <3>2, <3>3
         DEF ListRecipients, RequestInv, InHand, At
  <2> QED
    BY <1>3, <2>2, <2>3 DEF ListRecipients
<1>4. CASE OpenSending(s)
  <2>1. /\ sender'[s].pc = "attempt" /\ sender'[s].to = {} /\ sender[s].pc = "open"
        /\ sender'[s].list = sender[s].list /\ sender'[s].audience = sender[s].audience
        /\ \A t \in Senders \ {s} : sender'[t] = sender[t]
    BY <1>4, <1>t, <1>p, <1>e, Moves DEF OpenSending, At
  <2> QED
    BY <1>4, <1>n, <1>c, <2>1, <1>i DEF OpenSending, RequestInv, InHand, RecordKept
<1>5. CASE BeginAttempt(s)
  <2>0. sender[s].pc = "attempt" /\ sender[s].to = {} /\ edition' = edition
    BY <1>5, <1>e DEF BeginAttempt, RowsReplaced, At
  <2>1. CASE sender[s].audience # edition
    <3>1. Throw(s) /\ row' = row /\ status' = status
      BY <1>5, <2>1 DEF BeginAttempt, RowsReplaced
    <3> QED
      BY <2>0, <3>1, <1>i, <1>n, <1>c, <1>t, <1>p, Moves, IdleInv
         DEF RequestInv, InHand, RecordKept
  <2>2. CASE sender[s].audience = edition
    <3>1. PICK d \in sender[s].list :
            /\ sender' = [sender EXCEPT ![s].pc = "deliver", ![s].to = {d}]
            /\ row' = [row EXCEPT ![d] = [status |-> "SENDING", attempted |-> TRUE,
                                          stale |-> FALSE]]
      BY <1>5, <2>2 DEF BeginAttempt, RowsReplaced
    <3>2. /\ sender'[s] = [sender[s] EXCEPT !.pc = "deliver", !.to = {d}]
          /\ \A t \in Senders \ {s} : sender'[t] = sender[t]
      BY <3>1, <1>t
    <3>3. /\ sender'[s].pc = "deliver" /\ sender'[s].to = {d}
          /\ sender'[s].list = sender[s].list /\ sender'[s].audience = sender[s].audience
      BY <3>2, <1>t DEF Sender
    <3>4. row[d].status # "SENT" /\ d \in Destinations
      BY <2>0, <2>2, <1>i, <1>t DEF RequestInv, InHand
    <3>5. /\ row'[d].status = "SENDING" /\ row'[d].attempted
          /\ \A x \in Destinations \ {d} : row'[x] = row[x]
      BY <3>1, <3>4, <1>t
    <3>6. RequestInv(s)'
      BY <2>0, <2>2, <3>3, <3>4, <3>5, <1>i, <1>t DEF RequestInv, InHand
    <3>7. RecordKept
      BY <3>4, <3>5 DEF RecordKept
    <3> QED
      BY <1>n, <1>c, <3>2, <3>6, <3>7
  <2> QED
    BY <2>1, <2>2
<1>6. ASSUME NEW d \in Destinations, NEW took \in BOOLEAN, Deliver(s, d, took)
      PROVE  /\ RequestInv(s)' /\ RecordKept
             /\ \A t \in Senders \ {s} : sender'[t] = sender[t]
  <2>1. /\ sender[s].pc = "deliver" /\ sender[s].to = {d} /\ UNCHANGED <<edition, row>>
        /\ sender[s].audience = edition
    BY <1>6, <1>i DEF Deliver, RequestInv, InHand, At
  <2>2. PICK p \in {"accepted", "refused"} :
          Goto(s, p) /\ (p = "accepted" => d \in accepted')
    BY <1>6 DEF Deliver
  <2>3. /\ sender'[s].pc = p /\ sender'[s].list = sender[s].list
        /\ sender'[s].to = sender[s].to /\ sender'[s].audience = sender[s].audience
        /\ \A t \in Senders \ {s} : sender'[t] = sender[t]
    BY <2>2, <1>t, <1>p, Moves
  <2>4. RequestInv(s)'
    BY <2>1, <2>2, <2>3, <1>i DEF RequestInv, InHand
  <2> QED
    BY <2>1, <2>3, <2>4 DEF RecordKept
<1>9. ASSUME NEW d \in Destinations, RecordResult(s, d)
      PROVE  /\ RequestInv(s)' /\ RecordKept
             /\ \A t \in Senders \ {s} : sender'[t] = sender[t]
  <2>1. /\ sender[s].pc \in InHand /\ sender[s].to = {d} /\ edition' = edition
        /\ sender[s].audience = edition
        /\ row[d].status = "SENDING"
    BY <1>9, <1>i DEF RecordResult, RequestInv, InHand
  <2>2. \A x \in Destinations \ {d} : row'[x] = row[x]
    BY <1>9, <1>t DEF RecordResult
  <2>3. RecordKept
    BY <2>1, <2>2 DEF RecordKept
  <2>4. PICK p \in {"count", "attempt"} :
          sender' = [sender EXCEPT ![s].pc = p, ![s].list = sender[s].list \ {d}, ![s].to = {}]
    BY <1>9 DEF RecordResult
  <2>5. /\ sender'[s] = [sender[s] EXCEPT !.pc = p, !.list = sender[s].list \ {d}, !.to = {}]
        /\ \A t \in Senders \ {s} : sender'[t] = sender[t]
    BY <2>4, <1>t
  <2>6. /\ sender'[s].pc = p /\ sender'[s].list = sender[s].list \ {d}
        /\ sender'[s].to = {} /\ sender'[s].audience = sender[s].audience
    BY <2>5, <1>t DEF Sender
  <2>7. RequestInv(s)'
    BY <2>1, <2>2, <2>6, <1>i, <1>t DEF RequestInv, InHand
  <2> QED
    BY <2>3, <2>5, <2>7
<1>7. CASE CountResults(s)
  <2>1. RecordKept /\ sender[s].to = {} /\ row' = row
    BY <1>7, <1>e DEF CountResults, RecordKept, At
  <2>2. PICK x, y \in BOOLEAN :
          sender' = [sender EXCEPT ![s].pc = "finish", ![s].sent = x, ![s].failed = y]
    BY <1>7 DEF CountResults
  <2>3. /\ sender'[s] = [sender[s] EXCEPT !.pc = "finish", !.sent = x, !.failed = y]
        /\ \A t \in Senders \ {s} : sender'[t] = sender[t]
    BY <2>2, <1>t
  <2>4. sender'[s].pc = "finish" /\ sender'[s].to = {}
    BY <2>1, <2>3, <1>t DEF Sender
  <2> QED
    BY <1>n, <1>c, <2>1, <2>3, <2>4 DEF RequestInv, InHand
<1>8. CASE FinishSend(s)
  <2>1. /\ sender'[s] = Idle /\ RecordKept
        /\ \A t \in Senders \ {s} : sender'[t] = sender[t]
    BY <1>8, <1>t, <1>p, Moves DEF FinishSend, RecordKept
  <2> QED
    BY <1>n, <1>c, <2>1, IdleInv
<1> QED
  BY <1>n, <1>c, <1>1, <1>2, <1>3, <1>4, <1>5, <1>6, <1>7, <1>8, <1>9 DEF SendStep

\* When the moving request keeps its invariant, so does every request.
LEMMA AllRequests ==
  ASSUME DeliveryInv, Alone', NEW s \in Senders, RequestInv(s)',
         sender[s].pc # "idle" \/ sender'[s].pc # "idle",
         \A t \in Senders \ {s} : sender'[t] = sender[t]
  PROVE  \A t \in Senders : RequestInv(t)'
<1> TAKE t \in Senders
<1>1. CASE t = s
  BY <1>1
<1>2. CASE t # s
  <2>1. sender'[t] = Idle
    BY <1>2, OthersIdle
  <2> QED
    BY <2>1, IdleInv
<1> QED
  BY <1>1, <1>2

\* DeliveryInv survives every step that leaves at most one request running, and
\* no step takes a recorded destination back.
LEMMA StepDelivery ==
  EmailAssumption /\ TypeOK /\ DeliveryInv /\ [Step /\ Alone']_deliveryVars
    => DeliveryInv' /\ RecordKept
<1> SUFFICES ASSUME EmailAssumption, TypeOK, DeliveryInv, [Step /\ Alone']_deliveryVars
             PROVE  DeliveryInv' /\ RecordKept
  OBVIOUS
<1>t. /\ sender \in [Senders -> Sender] /\ row \in [Destinations -> Row]
      /\ edition \in 0 .. MaxEdition
  BY DEF TypeOK
<1>i. (\A s \in Senders : RequestInv(s)) /\ NothingBeforeCreation /\ Alone
  BY DEF DeliveryInv
<1>s. Senders = Workers \cup Staff
  BY DEF Senders
<1>p. {"mark", "find", "lease", "read", "confirm", "refused"} \subseteq Steps
  BY DEF Steps
<1>0. CASE UNCHANGED deliveryVars
  BY <1>0, <1>i DEF deliveryVars, DeliveryInv, Alone, RequestInv, InHand,
     NothingBeforeCreation, RecordKept
<1>a. SUFFICES ASSUME Step, Alone' PROVE DeliveryInv' /\ RecordKept
  BY <1>0
<1>1. ASSUME NEW s \in Senders, SendStep(s) PROVE DeliveryInv' /\ RecordKept
  <2>1. /\ RequestInv(s)' /\ NothingBeforeCreation' /\ RecordKept
        /\ sender[s].pc # "idle" /\ \A t \in Senders \ {s} : sender'[t] = sender[t]
    BY <1>a, <1>1, SendKeeps
  <2> QED
    BY <1>a, <2>1, AllRequests DEF DeliveryInv
\* Steps of a request that touch neither the rows nor the announcement.
<1>2. ASSUME NEW s \in Senders, row' = row, edition' = edition, status' = status,
             \A t \in Senders \ {s} : sender'[t] = sender[t],
             sender[s].to = {} => sender'[s].to = {},
             sender[s].pc # "idle" \/ sender'[s].pc # "idle",
             sender[s].pc \notin InHand,
             sender'[s] = Idle \/ sender'[s].pc \in {"mark", "find", "lease", "read", "confirm"},
             status = "ABSENT" => job' = job /\ sender'[s].pc \in {"idle", "mark", "find"}
      PROVE  DeliveryInv' /\ RecordKept
  <2>1. sender'[s].to = {}
    BY <1>2, <1>i DEF RequestInv, InHand
  <2>2. RequestInv(s)'
    BY <1>2, <2>1, IdleInv DEF RequestInv, InHand
  <2>3. \A t \in Senders : RequestInv(t)'
    BY <1>a, <1>2, <2>2, AllRequests
  <2>4. NothingBeforeCreation'
    BY <1>2, <1>i DEF NothingBeforeCreation, InHand
  <2> QED
    BY <1>a, <1>2, <2>3, <2>4 DEF DeliveryInv, RecordKept
<1>3. ASSUME NEW w \in Workers, WorkerStep(w) PROVE DeliveryInv' /\ RecordKept
  <2>w. w \in Senders
    BY <1>s
  <2>1. CASE ExpireLeases(w)
    <3>1. /\ sender'[w].pc = "mark" /\ sender'[w].to = sender[w].to
          /\ \A t \in Senders \ {w} : sender'[t] = sender[t]
      BY <2>1, <2>w, <1>t, <1>p, Moves DEF ExpireLeases
    <3>2. job.status # "LEASED" => job' = job
      BY <2>1 DEF ExpireLeases, ExpiredLeases
    <3> QED
      BY <2>1, <2>w, <3>1, <3>2, <1>2, <1>i
         DEF ExpireLeases, NothingBeforeCreation, At, InHand
  <2>2. CASE MarkOverdue(w)
    <3>1. /\ sender'[w].pc = "find" /\ sender'[w].to = sender[w].to
          /\ \A t \in Senders \ {w} : sender'[t] = sender[t]
      BY <2>2, <2>w, <1>t, <1>p, Moves DEF MarkOverdue
    <3>2. job.status # "PENDING" => job' = job
      BY <2>2 DEF MarkOverdue, MarkedOverdue
    <3> QED
      BY <2>2, <2>w, <3>1, <3>2, <1>2, <1>i
         DEF MarkOverdue, NothingBeforeCreation, At, InHand
  <2>3. CASE FindDue(w)
    <3>1. CASE Leave(w)
      <4>1. sender'[w] = Idle /\ \A t \in Senders \ {w} : sender'[t] = sender[t]
        BY <3>1, <2>w, <1>t, <1>p, Moves
      <4> QED
        BY <2>3, <2>w, <4>1, <1>2 DEF FindDue, At, Idle, InHand
    <3>2. CASE /\ job.status = "PENDING"
               /\ sender' = [sender EXCEPT ![w].pc = "lease", ![w].jobEdition = job.edition]
      <4>1. /\ sender'[w] = [sender[w] EXCEPT !.pc = "lease", !.jobEdition = job.edition]
            /\ \A t \in Senders \ {w} : sender'[t] = sender[t]
            /\ sender[w] \in Sender
        BY <3>2, <2>w, <1>t
      <4>2. sender'[w].pc = "lease" /\ sender'[w].to = sender[w].to
        BY <4>1 DEF Sender
      <4> QED
        BY <2>3, <2>w, <3>2, <4>1, <4>2, <1>2, <1>i
           DEF FindDue, At, NothingBeforeCreation, InHand
    <3> QED
      BY <2>3, <3>1, <3>2 DEF FindDue
  <2>4. CASE LeaseJob(w)
    <3>0. status # "ABSENT"
      BY <2>4, <2>w, <1>i DEF LeaseJob, At, NothingBeforeCreation
    <3>1. CASE Leave(w)
      <4>1. sender'[w] = Idle /\ \A t \in Senders \ {w} : sender'[t] = sender[t]
        BY <3>1, <2>w, <1>t, <1>p, Moves
      <4> QED
        BY <2>4, <2>w, <3>0, <4>1, <1>2 DEF LeaseJob, At, Idle, InHand
    <3>2. CASE Goto(w, "read")
      <4>1. /\ sender'[w].pc = "read" /\ sender'[w].to = sender[w].to
            /\ \A t \in Senders \ {w} : sender'[t] = sender[t]
        BY <3>2, <2>w, <1>t, <1>p, Moves
      <4> QED
        BY <2>4, <2>w, <3>0, <4>1, <1>2 DEF LeaseJob, At, InHand
    <3> QED
      BY <2>4, <3>1, <3>2 DEF LeaseJob
  <2>5. CASE FailJob(w)
    <3>0. status # "ABSENT"
      BY <2>5, <2>w, <1>i DEF FailJob, At, NothingBeforeCreation
    <3>1. sender'[w] = Idle /\ \A t \in Senders \ {w} : sender'[t] = sender[t]
      BY <2>5, <2>w, <1>t, <1>p, Moves DEF FailJob
    <3> QED
      BY <2>5, <2>w, <3>0, <3>1, <1>2 DEF FailJob, At, Idle, InHand
  <2> QED
    BY <1>1, <1>3, <2>w, <2>1, <2>2, <2>3, <2>4, <2>5 DEF WorkerStep
<1>4. ASSUME NEW s \in Staff, StaffStep(s) PROVE DeliveryInv' /\ RecordKept
  <2>w. s \in Senders
    BY <1>s
  <2>1. CASE RequestSend(s)
    <3>1. /\ sender'[s].pc = "read" /\ sender'[s].to = sender[s].to
          /\ \A t \in Senders \ {s} : sender'[t] = sender[t]
      BY <2>1, <2>w, <1>t, <1>p, Moves DEF RequestSend
    <3> QED
      BY <2>1, <2>w, <3>1, <1>2 DEF RequestSend, At, InHand
  <2>2. CASE FindOverdue(s)
    <3>1. /\ sender'[s] = [sender[s] EXCEPT !.pc = "confirm", !.jobEdition = job.edition]
          /\ \A t \in Senders \ {s} : sender'[t] = sender[t]
          /\ sender[s] \in Sender
      BY <2>2, <2>w, <1>t DEF FindOverdue
    <3>2. sender'[s].pc = "confirm" /\ sender'[s].to = sender[s].to
      BY <3>1 DEF Sender
    <3> QED
      BY <2>2, <2>w, <3>1, <3>2, <1>2, <1>i
         DEF FindOverdue, At, NothingBeforeCreation, InHand
  <2>3. CASE ConfirmOverdue(s)
    <3>0. status # "ABSENT"
      BY <2>3, <2>w, <1>i DEF ConfirmOverdue, At, NothingBeforeCreation
    <3>1. CASE Leave(s)
      <4>1. sender'[s] = Idle /\ \A t \in Senders \ {s} : sender'[t] = sender[t]
        BY <3>1, <2>w, <1>t, <1>p, Moves
      <4> QED
        BY <2>3, <2>w, <3>0, <4>1, <1>2 DEF ConfirmOverdue, At, Idle, InHand
    <3>2. CASE Goto(s, "read")
      <4>1. /\ sender'[s].pc = "read" /\ sender'[s].to = sender[s].to
            /\ \A t \in Senders \ {s} : sender'[t] = sender[t]
        BY <3>2, <2>w, <1>t, <1>p, Moves
      <4> QED
        BY <2>3, <2>w, <3>0, <4>1, <1>2 DEF ConfirmOverdue, At, InHand
    <3> QED
      BY <2>3, <3>1, <3>2 DEF ConfirmOverdue
  <2> QED
    BY <1>1, <1>4, <2>w, <2>1, <2>2, <2>3 DEF StaffStep
<1>5. CASE Handler
  <2>1. CASE SaveConnection \/ \E ok \in BOOLEAN : TestConnection(ok)
    BY <1>a, <2>1, <1>i
       DEF SaveConnection, TestConnection, DeliveryInv, Alone, RequestInv, InHand,
       NothingBeforeCreation, RecordKept
  <2>2. ASSUME NEW eligible \in SUBSET Destinations, NEW held \in SUBSET Destinations,
               NEW scheduled \in BOOLEAN, CreateAnnouncement(eligible, held, scheduled)
        PROVE DeliveryInv' /\ RecordKept
    <3>1. \A s \in Senders : sender[s].to = {} /\ sender[s].pc \in {"idle", "mark", "find"}
      BY <2>2, <1>i DEF CreateAnnouncement, NothingBeforeCreation, RequestInv, InHand
    <3>2. \A s \in Senders : RequestInv(s)'
      BY <2>2, <3>1, <1>i DEF CreateAnnouncement, RequestInv, InHand
    <3>3. RecordKept /\ status' # "ABSENT"
      BY <2>2, <1>i DEF CreateAnnouncement, RecordKept, NothingBeforeCreation
    <3> QED
      BY <1>a, <3>2, <3>3 DEF DeliveryInv, NothingBeforeCreation
  <2>3. ASSUME NEW eligible \in SUBSET Destinations, NEW held \in SUBSET Destinations,
               NEW scheduled \in BOOLEAN, UpdateAnnouncement(eligible, held, scheduled)
        PROVE DeliveryInv' /\ RecordKept
    <3>1. \A s \in Senders : sender[s].to = {} /\ sender[s].list \subseteq Destinations
      <4>1. \A s \in Senders : sender[s].to \subseteq Destinations
                               /\ sender[s].list \subseteq Destinations
        BY <1>t DEF Sender
      <4> QED
        BY <2>3, <1>i, <4>1 DEF UpdateAnnouncement, RequestInv, InHand
    <3>2. \A d \in Destinations : row'[d].status # "SENT"
      BY <2>3, FreshRows, <1>t DEF UpdateAnnouncement
    <3>3. \A s \in Senders : RequestInv(s)'
      BY <2>3, <3>1, <3>2, <1>i DEF UpdateAnnouncement, RequestInv, InHand
    <3>4. RecordKept /\ status' # "ABSENT"
      BY <2>3 DEF UpdateAnnouncement, RecordKept
    <3> QED
      BY <1>a, <3>3, <3>4 DEF DeliveryInv, NothingBeforeCreation
  <2>4. CASE CancelAnnouncement
    BY <1>a, <2>4, <1>i DEF CancelAnnouncement, DeliveryInv, RequestInv, InHand,
       NothingBeforeCreation, RecordKept
  <2> QED
    BY <1>5, <2>1, <2>2, <2>3, <2>4 DEF Handler
<1>6. CASE Environment
  <2>1. CASE JobComesDue \/ LeaseEnds
    <3>1. job.status # "NONE" /\ UNCHANGED <<status, edition, row, sender, accepted>>
      BY <2>1 DEF JobComesDue, LeaseEnds
    <3> QED
      BY <1>a, <3>1, <1>i
         DEF DeliveryInv, RequestInv, InHand, NothingBeforeCreation, RecordKept
  <2>2. ASSUME NEW d \in Destinations,
               AttemptGrowsStale(d) PROVE DeliveryInv' /\ RecordKept
    <3>1. row[d] \in Row /\ row'[d] = [row[d] EXCEPT !.stale = TRUE]
      BY <2>2, <1>t DEF AttemptGrowsStale
    <3>2. row'[d].status = row[d].status /\ row'[d].attempted = row[d].attempted
      BY <3>1 DEF Row
    <3>3. \A x \in Destinations : /\ row'[x].status = row[x].status
                                  /\ row'[x].attempted = row[x].attempted
      BY <2>2, <3>2, <1>t DEF AttemptGrowsStale
    <3>4. \A s \in Senders : sender[s].to \subseteq Destinations
                             /\ sender[s].list \subseteq Destinations
      BY <1>t DEF Sender
    <3>5. \A s \in Senders : RequestInv(s)'
      BY <2>2, <3>3, <3>4, <1>i DEF AttemptGrowsStale, RequestInv, InHand
    <3>6. NothingBeforeCreation' /\ RecordKept
      BY <2>2, <3>3, <1>i DEF AttemptGrowsStale, NothingBeforeCreation, RecordKept
    <3> QED
      BY <1>a, <3>5, <3>6 DEF DeliveryInv
  <2>3. CASE Restart
    <3>1. \A s \in Senders : sender'[s] = Idle
      BY <2>3 DEF Restart
    <3>2. \A s \in Senders : RequestInv(s)'
      BY <3>1, IdleInv
    <3>3. NothingBeforeCreation'
      BY <2>3, <3>1, <1>i DEF Restart, NothingBeforeCreation, Idle
    <3>4. RecordKept
      BY <2>3 DEF Restart, RecordKept
    <3> QED
      BY <1>a, <3>2, <3>3, <3>4 DEF DeliveryInv
  <2>4. ASSUME NEW s \in Senders,
               (\E d \in Destinations : LoseAnswer(s, d)) \/ RecordFails(s) \/ StatementFails(s)
        PROVE DeliveryInv' /\ RecordKept
    <3>1. /\ UNCHANGED <<status, edition, row, job>> /\ sender[s].pc # "idle"
          /\ (Goto(s, "refused") /\ sender[s].pc \in InHand) \/ Throw(s)
          /\ status = "ABSENT" => FALSE
      BY <2>4, <1>i DEF LoseAnswer, RecordFails, StatementFails, Fault, At, InHand,
         NothingBeforeCreation
    <3>2. \A t \in Senders \ {s} : sender'[t] = sender[t]
      BY <3>1, <1>t, <1>p, Moves
    <3>3. RequestInv(s)'
      <4>1. CASE Goto(s, "refused") /\ sender[s].pc \in InHand
        <5>1. /\ sender'[s].pc = "refused" /\ sender'[s].to = sender[s].to
              /\ sender'[s].list = sender[s].list /\ sender'[s].audience = sender[s].audience
          BY <4>1, <1>t, <1>p, Moves
        <5> QED
          BY <3>1, <4>1, <5>1, <1>i DEF RequestInv, InHand
      <4>2. CASE Throw(s)
        <5>1. sender'[s] = Idle \/ (sender'[s].pc = "fail" /\ sender'[s].to = {})
          BY <4>2, <1>t, <1>p, Moves
        <5> QED
          BY <5>1, IdleInv DEF RequestInv, InHand
      <4> QED
        BY <3>1, <4>1, <4>2
    <3>4. \A t \in Senders : RequestInv(t)'
      BY <1>a, <3>1, <3>2, <3>3, AllRequests
    <3> QED
      BY <1>a, <3>1, <3>4 DEF DeliveryInv, NothingBeforeCreation, RecordKept
  <2> QED
    BY <1>6, <2>1, <2>2, <2>3, <2>4 DEF Environment
<1> QED
  BY <1>a, <1>3, <1>4, <1>5, <1>6 DEF Step

\* A worker past the overdue check keeps holding no missed job: the check is
\* its last step before, and nobody else sends or ticks meanwhile.
LEMMA StepMissed ==
  EmailAssumption /\ TypeOK /\ DeliveryInv /\ MissedIsHeld /\ [Step /\ Alone']_deliveryVars
    => MissedIsHeld'
<1> SUFFICES ASSUME EmailAssumption, TypeOK, DeliveryInv, MissedIsHeld, [Step /\ Alone']_deliveryVars
             PROVE  MissedIsHeld'
  OBVIOUS
<1>t. sender \in [Senders -> Sender] /\ job \in Job /\ Senders = Workers \cup Staff
  BY DEF TypeOK, Senders
<1>0. CASE UNCHANGED deliveryVars
  BY <1>0 DEF deliveryVars, MissedIsHeld
<1>a. SUFFICES ASSUME Step, Alone' PROVE MissedIsHeld'
  BY <1>0
<1>p. {"confirm", "mark", "find", "lease", "read", "recover", "list", "open", "attempt",
       "deliver", "accepted", "refused", "count", "finish", "fail"} \subseteq Steps
  BY DEF Steps
\* A request that leaves for, or goes on to, another step leaves no worker there.
<1>1. ASSUME NEW s \in Senders, sender[s].pc # "idle" \/ sender'[s].pc # "idle",
             sender'[s].pc \notin {"find", "lease"},
             \A t \in Senders \ {s} : sender'[t] = sender[t]
      PROVE  MissedIsHeld'
  <2>1. \A t \in Senders \ {s} : sender'[t] = Idle
    BY <1>a, <1>1, OthersIdle
  <2> QED
    BY <1>1, <1>t, <2>1 DEF MissedIsHeld, Idle
<1>2. ASSUME NEW s \in Senders, SendStep(s) PROVE MissedIsHeld'
  <2>1. sender[s].pc # "idle" /\ \A t \in Senders \ {s} : sender'[t] = sender[t]
    BY <1>a, <1>2, SendKeeps
  <2>2. sender'[s].pc \notin {"find", "lease"}
    <3>x. sender[s] \in Sender
      BY <1>t
    <3>1. \A p \in Steps : Goto(s, p) => sender'[s].pc = p
      BY <1>t, Moves
    <3>2. Leave(s) \/ Throw(s) => sender'[s].pc \in {"idle", "fail"}
      BY <1>t, <1>p, Moves DEF Idle
    <3>3. CASE ReadAnnouncement(s)
      BY <3>3, <3>1, <3>2, <1>p DEF ReadAnnouncement
    <3>4. CASE RecoverInterrupted(s) \/ OpenSending(s)
      BY <3>4, <3>1, <1>p DEF RecoverInterrupted, OpenSending
    <3>5. CASE ListRecipients(s)
      <4>1. [sender[s] EXCEPT !.pc = "open", !.audience = edition, !.list = Undelivered].pc = "open"
        BY <3>x DEF Sender
      <4> QED
        BY <3>5, <3>2, <4>1, <1>t DEF ListRecipients
    <3>6. CASE BeginAttempt(s)
      <4>1. \A d : [sender[s] EXCEPT !.pc = "deliver", !.to = {d}].pc = "deliver"
        BY <3>x DEF Sender
      <4> QED
        BY <3>6, <3>2, <4>1, <1>t DEF BeginAttempt, RowsReplaced
    <3>7. ASSUME NEW d \in Destinations, NEW took \in BOOLEAN, Deliver(s, d, took)
          PROVE  sender'[s].pc \notin {"find", "lease"}
      <4>1. PICK p \in {"accepted", "refused"} : Goto(s, p)
        BY <3>7 DEF Deliver
      <4> QED
        BY <4>1, <3>1, <1>p
    <3>10. ASSUME NEW d \in Destinations, RecordResult(s, d)
          PROVE  sender'[s].pc \notin {"find", "lease"}
      <4>1. PICK p \in {"count", "attempt"} :
              sender' = [sender EXCEPT ![s].pc = p, ![s].list = sender[s].list \ {d},
                                       ![s].to = {}]
        BY <3>10 DEF RecordResult
      <4>2. [sender[s] EXCEPT !.pc = p, !.list = sender[s].list \ {d}, !.to = {}].pc = p
        BY <3>x DEF Sender
      <4> QED
        BY <4>1, <4>2, <1>t
    <3>8. CASE CountResults(s)
      <4>1. \A x, y : [sender[s] EXCEPT !.pc = "finish", !.sent = x, !.failed = y].pc = "finish"
        BY <3>x DEF Sender
      <4> QED
        BY <3>8, <4>1, <1>t DEF CountResults
    <3>9. CASE FinishSend(s)
      BY <3>9, <3>2 DEF FinishSend
    <3> QED
      BY <1>2, <3>3, <3>4, <3>5, <3>6, <3>7, <3>8, <3>9, <3>10 DEF SendStep
  <2> QED
    BY <1>1, <2>1, <2>2
<1>3. ASSUME NEW w \in Workers, WorkerStep(w) PROVE MissedIsHeld'
  <2>w. w \in Senders
    BY <1>t
  <2>g. ASSUME NEW p \in Steps, Goto(w, p)
        PROVE  sender'[w].pc = p /\ \A t \in Senders \ {w} : sender'[t] = sender[t]
    BY <2>w, <2>g, <1>t, Moves
  <2>l. ASSUME Leave(w)
        PROVE  sender'[w].pc = "idle" /\ \A t \in Senders \ {w} : sender'[t] = sender[t]
    BY <2>w, <2>l, <1>t, <1>p, Moves DEF Idle
  <2>1. CASE ExpireLeases(w)
    BY <2>1, <2>w, <2>g, <1>1, <1>p DEF ExpireLeases
  <2>2. CASE MarkOverdue(w)
    <3>1. job'.status = "PENDING" => job'.runAt # "missed"
      BY <2>2, <1>t DEF MarkOverdue, MarkedOverdue, Job
    <3> QED
      BY <3>1 DEF MissedIsHeld
  <2>3. CASE FindDue(w)
    <3>1. CASE Leave(w)
      BY <2>3, <3>1, <2>w, <2>l, <1>1 DEF FindDue, At
    <3>2. CASE sender' = [sender EXCEPT ![w].pc = "lease", ![w].jobEdition = job.edition]
      <4>1. \A t \in Senders \ {w} : sender'[t] = sender[t]
        BY <3>2, <1>t
      <4> QED
        BY <2>3, <2>w, <4>1, <1>t DEF FindDue, MissedIsHeld, At
    <3> QED
      BY <2>3, <3>1, <3>2 DEF FindDue
  <2>4. CASE LeaseJob(w)
    BY <2>4, <2>w, <2>g, <2>l, <1>1, <1>p DEF LeaseJob, At
  <2>5. CASE FailJob(w)
    BY <2>5, <2>w, <2>l, <1>1, <1>p DEF FailJob, At
  <2> QED
    BY <1>2, <1>3, <2>w, <2>1, <2>2, <2>3, <2>4, <2>5 DEF WorkerStep
<1>4. ASSUME NEW s \in Staff, StaffStep(s) PROVE MissedIsHeld'
  <2>w. s \in Senders
    BY <1>t
  <2>g. ASSUME NEW p \in Steps, Goto(s, p)
        PROVE  sender'[s].pc = p /\ \A t \in Senders \ {s} : sender'[t] = sender[t]
    BY <2>w, <2>g, <1>t, Moves
  <2>l. ASSUME Leave(s)
        PROVE  sender'[s].pc = "idle" /\ \A t \in Senders \ {s} : sender'[t] = sender[t]
    BY <2>w, <2>l, <1>t, <1>p, Moves DEF Idle
  <2>1. CASE RequestSend(s)
    BY <2>1, <2>w, <2>g, <1>1, <1>p DEF RequestSend
  <2>2. CASE FindOverdue(s)
    <3>1. [sender[s] EXCEPT !.pc = "confirm", !.jobEdition = job.edition].pc = "confirm"
      BY <2>w, <1>t DEF Sender
    <3> QED
      BY <2>2, <3>1, <2>w, <1>1, <1>t DEF FindOverdue
  <2>3. CASE ConfirmOverdue(s)
    BY <2>3, <2>w, <2>g, <2>l, <1>1, <1>p DEF ConfirmOverdue, At
  <2> QED
    BY <1>2, <1>4, <2>w, <2>1, <2>2, <2>3 DEF StaffStep
<1>5. CASE Handler
  <2>1. sender' = sender
    BY <1>5 DEF Handler, SaveConnection, TestConnection, CreateAnnouncement,
       UpdateAnnouncement, CancelAnnouncement
  <2>2. job'.status = "PENDING" => job' = job \/ job'.runAt # "missed"
    <3>1. CASE CancelAnnouncement
      BY <3>1, <1>t DEF CancelAnnouncement, Job
    <3>2. ASSUME NEW scheduled \in BOOLEAN, NEW ed, job' = ScheduledJob(scheduled, ed)
          PROVE  job'.runAt # "missed"
      BY <3>2 DEF ScheduledJob, NoJob
    <3> QED
      BY <1>5, <3>1, <3>2
         DEF Handler, SaveConnection, TestConnection, CreateAnnouncement,
         UpdateAnnouncement
  <2> QED
    BY <2>1, <2>2 DEF MissedIsHeld
<1>6. CASE Environment
  <2>1. CASE JobComesDue \/ LeaseEnds
    BY <2>1, <1>t DEF JobComesDue, LeaseEnds, MissedIsHeld, Job
  <2>2. ASSUME NEW d \in Destinations, AttemptGrowsStale(d) PROVE MissedIsHeld'
    BY <2>2 DEF AttemptGrowsStale, MissedIsHeld
  <2>3. CASE Restart
    BY <2>3, <1>t DEF Restart, MissedIsHeld, Idle
  <2>4. ASSUME NEW s \in Senders,
               (\E d \in Destinations : LoseAnswer(s, d)) \/ RecordFails(s) \/ StatementFails(s)
        PROVE MissedIsHeld'
    <3>1. sender[s].pc # "idle" /\ (Goto(s, "refused") \/ Throw(s))
      BY <2>4 DEF LoseAnswer, RecordFails, StatementFails, Fault, At
    <3>2. /\ sender'[s].pc \in {"idle", "fail", "refused"}
          /\ \A t \in Senders \ {s} : sender'[t] = sender[t]
      BY <3>1, <1>t, <1>p, Moves DEF Idle
    <3> QED
      BY <3>1, <3>2, <1>1
  <2> QED
    BY <1>6, <2>1, <2>2, <2>3, <2>4 DEF Environment
<1> QED
  BY <1>a, <1>3, <1>4, <1>5, <1>6 DEF Step

-----------------------------------------------------------------------------
(***************************************************************************)
(* What the provider has accepted.  A row is SENT only for an accepted     *)
(* message, and as long as nothing crashed or failed, every accepted       *)
(* message is recorded or about to be, in the hands of the request that    *)
(* delivered it.                                                           *)
(***************************************************************************)
AcceptanceKnown ==
  \A d \in accepted : \/ row[d].status = "SENT"
                      \/ \E s \in Senders : At(s, "accepted") /\ d \in sender[s].to

AcceptedInv ==
  /\ \A d \in Destinations : row[d].status = "SENT" => d \in accepted
  /\ crashes + faults = 0 => AcceptanceKnown

\* Requests that do not overlap keep what is known of accepted messages.
LEMMA StepAccepted ==
  EmailAssumption /\ TypeOK /\ DeliveryInv /\ AcceptedInv /\ [Step /\ Alone']_deliveryVars
    => AcceptedInv'
<1> SUFFICES ASSUME EmailAssumption, TypeOK, DeliveryInv, AcceptedInv,
                    [Step /\ Alone']_deliveryVars
             PROVE  AcceptedInv'
  OBVIOUS
<1>t. /\ sender \in [Senders -> Sender] /\ row \in [Destinations -> Row]
      /\ Senders = Workers \cup Staff /\ crashes \in Nat /\ faults \in Nat
      /\ accepted \subseteq Destinations
  BY DEF TypeOK, Senders, EmailAssumption
<1>i. (\A s \in Senders : RequestInv(s)) /\ NothingBeforeCreation /\ Alone
  BY DEF DeliveryInv
<1>p. {"confirm", "mark", "find", "lease", "read", "recover", "list", "open", "attempt",
       "deliver", "accepted", "refused", "count", "finish", "fail"} \subseteq Steps
  BY DEF Steps
\* A step that accepts and records nothing and leaves what awaits its record.
<1>k. ASSUME UNCHANGED <<accepted, crashes, faults>>,
             \A d \in Destinations : row'[d].status = "SENT" <=> row[d].status = "SENT",
             \A s \in Senders : At(s, "accepted") => sender'[s] = sender[s]
      PROVE  AcceptedInv'
  <2>1. AcceptanceKnown => AcceptanceKnown'
    BY <1>k, <1>t DEF AcceptanceKnown, At
  <2> QED
    BY <1>k, <2>1 DEF AcceptedInv
<1>0. CASE UNCHANGED deliveryVars
  BY <1>0, <1>k DEF deliveryVars
<1>a. SUFFICES ASSUME Step, Alone' PROVE AcceptedInv'
  BY <1>0
\* A step of one request that does not hold an accepted message.
<1>m. ASSUME NEW s \in Senders, ~At(s, "accepted"), UNCHANGED <<accepted, crashes,
             faults>>,
             \A d \in Destinations : row'[d].status = "SENT" <=> row[d].status = "SENT",
             \A t \in Senders \ {s} : sender'[t] = sender[t]
      PROVE  AcceptedInv'
  BY <1>m, <1>k
<1>1. ASSUME NEW s \in Senders, SendStep(s) PROVE AcceptedInv'
  <2>o. /\ \A t \in Senders \ {s} : sender'[t] = sender[t]
        /\ sender[s].pc # "idle" /\ RequestInv(s)
    BY <1>a, <1>1, <1>i, SendKeeps
  <2>1. CASE \/ ReadAnnouncement(s) \/ ListRecipients(s) \/ OpenSending(s) \/ CountResults(s)
             \/ FinishSend(s)
    BY <2>1, <2>o, <1>m DEF ReadAnnouncement, ListRecipients, OpenSending, CountResults,
       FinishSend, At
  <2>2. CASE RecoverInterrupted(s)
    <3>1. \A d \in Destinations : row'[d].status = "SENT" <=> row[d].status = "SENT"
      BY <2>2, <1>t DEF RecoverInterrupted, Row
    <3> QED
      BY <2>2, <3>1, <2>o, <1>m DEF RecoverInterrupted, At
  <2>3. CASE BeginAttempt(s)
    <3>1. CASE row' = row
      BY <2>3, <3>1, <2>o, <1>m DEF BeginAttempt, At
    <3>2. ASSUME NEW d \in sender[s].list, sender[s].audience = edition,
                 row' = [row EXCEPT ![d] = [status |-> "SENDING", attempted |-> TRUE,
                                            stale |-> FALSE]]
          PROVE  AcceptedInv'
      <4>1. row[d].status # "SENT" /\ d \in Destinations
        BY <2>3, <3>2, <2>o, <1>t DEF BeginAttempt, At, RequestInv, Sender
      <4>2. \A x \in Destinations : row'[x].status = "SENT" <=> row[x].status = "SENT"
        BY <3>2, <4>1, <1>t
      <4> QED
        BY <2>3, <4>2, <2>o, <1>m DEF BeginAttempt, At
    <3> QED
      BY <2>3, <3>1, <3>2 DEF BeginAttempt, RowsReplaced
  <2>4. ASSUME NEW d \in Destinations, NEW took \in BOOLEAN, Deliver(s, d, took)
        PROVE  AcceptedInv'
    <3>1. CASE took
      <4>1. /\ accepted' = accepted \cup {d} /\ UNCHANGED <<row, crashes, faults>>
            /\ Goto(s, "accepted") /\ sender[s].pc = "deliver" /\ sender[s].to = {d}
        BY <2>4, <3>1 DEF Deliver, At
      <4>2. sender'[s].pc = "accepted" /\ d \in sender'[s].to
        BY <4>1, <1>t, <1>p, Moves
      <4>3. AcceptanceKnown => AcceptanceKnown'
        BY <4>1, <4>2, <2>o, <1>t DEF AcceptanceKnown, At
      <4> QED
        BY <4>1, <4>3 DEF AcceptedInv
    <3>2. CASE ~took
      BY <2>4, <3>2, <2>o, <1>m DEF Deliver, At
    <3> QED
      BY <3>1, <3>2
  <2>5. ASSUME NEW d \in Destinations, RecordResult(s, d)
        PROVE  AcceptedInv'
    <3>1. /\ sender[s].to = {d} /\ sender[s].pc \in {"accepted", "refused"}
          /\ UNCHANGED <<accepted, crashes, faults>>
          /\ row[d].status = "SENDING"
          /\ At(s, "accepted") => d \in accepted
      BY <2>5, <2>o DEF RecordResult, RequestInv, At
    <3>2. /\ row'[d].status = IF At(s, "accepted") THEN "SENT" ELSE "FAILED"
          /\ \A x \in Destinations \ {d} : row'[x] = row[x]
      BY <2>5, <1>t DEF RecordResult, Row
    <3>3. \A x \in Destinations : row'[x].status = "SENT" => x \in accepted'
      BY <3>1, <3>2 DEF AcceptedInv
    <3>4. AcceptanceKnown => AcceptanceKnown'
      BY <3>1, <3>2, <2>o, <1>t DEF AcceptanceKnown, At
    <3> QED
      BY <3>1, <3>3, <3>4 DEF AcceptedInv
  <2> QED
    BY <1>1, <2>1, <2>2, <2>3, <2>4, <2>5 DEF SendStep
<1>2. ASSUME NEW w \in Workers, WorkerStep(w) PROVE AcceptedInv'
  <2>1. CASE SendStep(w)
    BY <2>1, <1>t, <1>1
  <2>2. CASE ExpireLeases(w) \/ MarkOverdue(w) \/ FindDue(w) \/ LeaseJob(w) \/ FailJob(w)
    <3>1. \A t \in Senders \ {w} : sender'[t] = sender[t]
      BY <2>2, <1>t
         DEF ExpireLeases, MarkOverdue, FindDue, LeaseJob, FailJob, Goto, Leave
    <3> QED
      BY <2>2, <3>1, <1>t, <1>m
         DEF ExpireLeases, MarkOverdue, FindDue, LeaseJob, FailJob, At
  <2> QED
    BY <1>2, <2>1, <2>2 DEF WorkerStep
<1>3. ASSUME NEW s \in Staff, StaffStep(s) PROVE AcceptedInv'
  <2>1. CASE SendStep(s)
    BY <2>1, <1>t, <1>1
  <2>2. CASE RequestSend(s) \/ FindOverdue(s) \/ ConfirmOverdue(s)
    <3>1. \A t \in Senders \ {s} : sender'[t] = sender[t]
      BY <2>2, <1>t DEF RequestSend, FindOverdue, ConfirmOverdue, Goto, Leave
    <3> QED
      BY <2>2, <3>1, <1>t, <1>m DEF RequestSend, FindOverdue, ConfirmOverdue, At
  <2> QED
    BY <1>3, <2>1, <2>2 DEF StaffStep
\* Fresh rows are made only while nothing has been accepted or something failed.
<1>4. ASSUME NEW eligible \in SUBSET Destinations, NEW held \in SUBSET Destinations,
             row' = Snapshot(eligible, held), UNCHANGED history,
             \A d \in Destinations : row[d].status # "SENT",
             \A s \in Senders : sender[s].to = {}
      PROVE  AcceptedInv'
  <2>1. \A d \in Destinations : row'[d].status # "SENT"
    BY <1>4, FreshRows, <1>t, 0 \in 0 .. MaxEdition DEF EmailAssumption
  <2>2. crashes + faults = 0 => accepted = {}
    BY <1>4, <1>t DEF AcceptedInv, AcceptanceKnown
  <2> QED
    BY <1>4, <2>1, <2>2 DEF AcceptedInv, AcceptanceKnown
<1>5. CASE Handler
  <2>1. CASE SaveConnection \/ (\E ok \in BOOLEAN : TestConnection(ok)) \/ CancelAnnouncement
    BY <2>1, <1>k DEF SaveConnection, TestConnection, CancelAnnouncement
  <2>2. ASSUME NEW eligible \in SUBSET Destinations, NEW held \in SUBSET Destinations,
               NEW scheduled \in BOOLEAN,
               \/ CreateAnnouncement(eligible, held, scheduled)
               \/ UpdateAnnouncement(eligible, held, scheduled)
        PROVE  AcceptedInv'
    <3>1. \A d \in Destinations : row[d].status # "SENT"
      BY <2>2, <1>i DEF CreateAnnouncement, UpdateAnnouncement, NothingBeforeCreation
    <3>2. CASE CreateAnnouncement(eligible, held, scheduled)
      <4>1. \A s \in Senders : sender[s].to = {}
        BY <3>2, <1>i DEF CreateAnnouncement, NothingBeforeCreation, RequestInv, InHand
      <4> QED
        BY <3>1, <3>2, <4>1, <1>4 DEF CreateAnnouncement
    <3>3. CASE UpdateAnnouncement(eligible, held, scheduled)
      <4>1. \A s \in Senders : sender[s].to \subseteq Destinations
        BY <1>t DEF Sender
      <4>2. \A s \in Senders : sender[s].to = {}
        BY <3>3, <4>1, <1>i DEF UpdateAnnouncement, RequestInv
      <4> QED
        BY <3>1, <3>3, <4>2, <1>4 DEF UpdateAnnouncement
    <3> QED
      BY <2>2, <3>2, <3>3
  <2> QED
    BY <1>5, <2>1, <2>2 DEF Handler
<1>6. CASE Environment
  <2>1. CASE JobComesDue \/ LeaseEnds
    BY <2>1, <1>k DEF JobComesDue, LeaseEnds
  <2>2. ASSUME NEW d \in Destinations, AttemptGrowsStale(d) PROVE AcceptedInv'
    <3>1. \A x \in Destinations : row'[x].status = row[x].status
      BY <2>2, <1>t DEF AttemptGrowsStale, Row
    <3> QED
      BY <2>2, <3>1, <1>k DEF AttemptGrowsStale
  <2>3. CASE \/ Restart
             \/ \E s \in Senders : \/ \E d \in Destinations : LoseAnswer(s, d)
                                   \/ RecordFails(s) \/ StatementFails(s)
    <3>1. row' = row /\ accepted \subseteq accepted' /\ crashes' + faults' # 0
      BY <2>3, <1>t DEF Restart, LoseAnswer, RecordFails, StatementFails, Fault
    <3> QED
      BY <3>1 DEF AcceptedInv
  <2> QED
    BY <1>6, <2>1, <2>2, <2>3 DEF Environment
<1> QED
  BY <1>a, <1>2, <1>3, <1>5, <1>6 DEF Step

\* The provider takes nothing back.
LEMMA AcceptedGrows == [Step /\ Alone']_deliveryVars => accepted \subseteq accepted'
<1>1. ASSUME Handler PROVE UNCHANGED accepted
  BY <1>1 DEF Handler, SaveConnection, TestConnection, CreateAnnouncement,
     UpdateAnnouncement, CancelAnnouncement
<1>2. ASSUME Environment PROVE accepted \subseteq accepted'
  BY <1>2 DEF Environment, JobComesDue, LeaseEnds, AttemptGrowsStale, LoseAnswer,
     RecordFails, StatementFails, Restart
<1>3. ASSUME NEW s, SendStep(s) PROVE accepted \subseteq accepted'
  BY <1>3
     DEF SendStep, ReadAnnouncement, RecoverInterrupted, ListRecipients, OpenSending,
     BeginAttempt, Deliver, RecordResult, CountResults, FinishSend
<1>4. ASSUME NEW s, WorkerStep(s) \/ StaffStep(s) PROVE accepted \subseteq accepted'
  BY <1>3, <1>4 DEF WorkerStep, StaffStep, ExpireLeases, MarkOverdue, FindDue, LeaseJob,
     FailJob, RequestSend, FindOverdue, ConfirmOverdue
<1> QED
  BY <1>1, <1>2, <1>3, <1>4 DEF Step, deliveryVars

\* Whoever is about to deliver while nothing has failed delivers a message that
\* has not been accepted: its row is SENDING and nobody else has it in hand.
ResendNoticed == \A d \in accepted : AboutToDeliver(d) => crashes + faults > 0

LEMMA ResendIsNoticed ==
  EmailAssumption /\ TypeOK /\ DeliveryInv /\ AcceptedInv => ResendNoticed
<1> SUFFICES ASSUME EmailAssumption, TypeOK, DeliveryInv, AcceptedInv,
                    NEW d \in accepted, AboutToDeliver(d)
             PROVE  crashes + faults > 0
  BY DEF ResendNoticed
<1>1. PICK s \in Senders : sender[s].pc = "deliver" /\ d \in sender[s].to
  BY DEF AboutToDeliver, At
<1>2. row[d].status = "SENDING"
  BY <1>1 DEF DeliveryInv, RequestInv
<1>3. \A t \in Senders : t # s => sender[t].pc = "idle"
  BY <1>1 DEF DeliveryInv, Alone
<1>4. ~AcceptanceKnown
  BY <1>1, <1>2, <1>3 DEF AcceptanceKnown, At
<1> QED
  BY <1>4 DEF AcceptedInv, TypeOK, EmailAssumption

-----------------------------------------------------------------------------
(***************************************************************************)
(* HeldNeverSent needs no serial requests.  What a request has listed is   *)
(* the edition its list was made from; rows are put on hold by an edit     *)
(* only, which starts a new edition, and an attempt is made on a row of    *)
(* the list's own edition only.                                            *)
(***************************************************************************)
Listing == {"open", "attempt", "deliver", "accepted", "refused"}

NoRowsBeforeCreation ==
  status = "ABSENT" => \A d \in Destinations : row[d].status = "NONE"

\* The rows s has listed exist and none of them is on hold, as long as no edit
\* has replaced them.
ListedInv(s) ==
  /\ sender[s].audience <= edition
  /\ sender[s].pc \in Listing =>
       /\ status # "ABSENT"
       /\ sender[s].audience = edition => \A d \in sender[s].list : row[d].status # "HELD"

EditionInv == NoRowsBeforeCreation /\ \A s \in Senders : ListedInv(s)

\* No row on hold is attempted by this step.
HeldUntouched ==
  \A d \in Destinations : row'[d].attempted /\ ~row[d].attempted => row[d].status # "HELD"

\* What a step within one edition may do to the rows.
RowsWithinEdition ==
  /\ edition' = edition
  /\ status' = "ABSENT" => status = "ABSENT" /\ row' = row
  /\ \A d \in Destinations : row'[d].status = "HELD" => row[d].status = "HELD"

\* Within one edition only the moving request has to be looked at.
LEMMA WithinEdition ==
  ASSUME TypeOK, EditionInv, RowsWithinEdition, NEW s \in Senders,
         \A t \in Senders \ {s} : sender'[t] = sender[t],
         sender'[s].list \subseteq Destinations, sender'[s].audience <= edition,
         sender'[s].pc \in Listing =>
           /\ status # "ABSENT"
           /\ sender'[s].audience = edition => \A d \in sender'[s].list : row[d].status # "HELD"
  PROVE  EditionInv'
<1>1. NoRowsBeforeCreation'
  BY DEF EditionInv, NoRowsBeforeCreation, RowsWithinEdition
<1>2. ListedInv(s)'
  BY DEF ListedInv, RowsWithinEdition
<1>3. ASSUME NEW t \in Senders \ {s} PROVE ListedInv(t)'
  <2>1. sender[t].list \subseteq Destinations
    BY DEF TypeOK, Sender
  <2>2. ListedInv(t) /\ sender'[t] = sender[t]
    BY DEF EditionInv
  <2> QED
    BY <2>1, <2>2 DEF ListedInv, RowsWithinEdition
<1> QED
  BY <1>1, <1>2, <1>3 DEF EditionInv

\* A request that leaves, throws or moves outside the listing steps.
LEMMA OutsideListing ==
  ASSUME EmailAssumption, TypeOK, TypeOK', EditionInv, RowsWithinEdition,
         NEW s \in Senders,
         NEW step \in Steps \ Listing, Goto(s, step) \/ Leave(s) \/ Throw(s)
  PROVE  EditionInv'
<1>1. /\ \A t \in Senders \ {s} : sender'[t] = sender[t]
      /\ sender'[s] = Idle \/ sender'[s].pc = "fail" \/ sender'[s].pc = step
      /\ sender'[s] = Idle \/ sender'[s].audience \in {0, sender[s].audience}
  BY Moves DEF TypeOK
<1>2. sender'[s].audience <= edition
  BY <1>1 DEF EditionInv, ListedInv, Idle, TypeOK
<1>3. sender'[s].pc \notin Listing
  BY <1>1 DEF Listing, Idle
<1>4. sender'[s].list \subseteq Destinations
  BY DEF TypeOK, Sender
<1> QED
  BY <1>1, <1>2, <1>3, <1>4, WithinEdition

\* A request that goes from one listing step to another with the same list.
LEMMA StillListing ==
  ASSUME TypeOK, EditionInv, RowsWithinEdition, NEW s \in Senders,
         sender[s].pc \in Listing,
         NEW step \in Listing, Goto(s, step)
  PROVE  EditionInv'
<1>1. /\ sender'[s].list = sender[s].list /\ sender'[s].audience = sender[s].audience
      /\ \A t \in Senders \ {s} : sender'[t] = sender[t]
  BY Moves DEF TypeOK, Listing, Steps
<1>2. sender[s].list \subseteq Destinations /\ ListedInv(s)
  BY DEF TypeOK, Sender, EditionInv
<1> QED
  BY <1>1, <1>2, WithinEdition DEF ListedInv

\* Every step keeps the listed rows free of rows on hold, and attempts none.
LEMMA StepEdition ==
  ASSUME EmailAssumption, TypeOK, EditionInv, [Next]_vars
  PROVE  EditionInv' /\ HeldUntouched
<1>T. TypeOK'
  BY StepTypeOK
<1>t. /\ sender \in [Senders -> Sender] /\ row \in [Destinations -> Row]
      /\ edition \in 0 .. MaxEdition /\ row' \in [Destinations -> Row]
      /\ Senders = Workers \cup Staff
  BY <1>T DEF TypeOK, Senders
<1>l. \A s \in Senders : ListedInv(s) /\ sender[s] \in Sender /\ sender[s].list \subseteq Destinations
  BY <1>t DEF EditionInv, Sender
<1>p. {"confirm", "mark", "find", "lease", "read", "recover", "list", "count", "finish", "fail"}
        \subseteq Steps \ Listing
  BY DEF Steps, Listing
\* A step that leaves the rows and the announcement alone.
<1>u. row' = row /\ edition' = edition /\ status' = status => RowsWithinEdition /\ HeldUntouched
  BY DEF RowsWithinEdition, HeldUntouched
<1>1. ASSUME NEW s \in Senders, SendStep(s) PROVE EditionInv' /\ HeldUntouched
  <2>1. CASE ReadAnnouncement(s)
    BY <2>1, <1>u, <1>p, <1>T, OutsideListing DEF ReadAnnouncement
  <2>2. CASE RecoverInterrupted(s)
    <3>1. \A d \in Destinations : /\ row'[d].status = "HELD" => row[d].status = "HELD"
                                  /\ row[d].status = "HELD" => row'[d] = row[d]
                                  /\ row[d].status = "NONE" => row'[d] = row[d]
      BY <2>2, <1>t DEF RecoverInterrupted, Row
    <3>2. status = "ABSENT" => row' = row
      BY <3>1, <1>t DEF EditionInv, NoRowsBeforeCreation
    <3>3. RowsWithinEdition /\ HeldUntouched
      BY <2>2, <3>1, <3>2 DEF RecoverInterrupted, RowsWithinEdition, HeldUntouched
    <3> QED
      BY <2>2, <3>3, <1>p, <1>T, OutsideListing DEF RecoverInterrupted
  <2>3. CASE ListRecipients(s)
    <3>1. CASE Undelivered = {}
      BY <2>3, <3>1, <1>u, <1>p, <1>T, OutsideListing DEF ListRecipients
    <3>2. CASE Undelivered # {}
      <4>1. /\ sender'[s] = [sender[s] EXCEPT !.pc = "open", !.audience = edition,
                                              !.list = Undelivered]
            /\ \A t \in Senders \ {s} : sender'[t] = sender[t]
        BY <2>3, <3>2, <1>t DEF ListRecipients
      <4>2. sender'[s].audience = edition /\ sender'[s].list = Undelivered
        BY <4>1, <1>l DEF Sender
      <4>3. /\ Undelivered \subseteq Destinations
            /\ \A d \in Undelivered : row[d].status \in {"PENDING", "FAILED"}
        BY DEF Undelivered, RowsWith
      <4>4. status # "ABSENT"
        BY <3>2, <4>3 DEF EditionInv, NoRowsBeforeCreation
      <4>5. edition <= edition
        BY <1>t
      <4> QED
        BY <2>3, <1>u, <4>1, <4>2, <4>3, <4>4, <4>5, WithinEdition DEF ListRecipients
    <3> QED
      BY <3>1, <3>2
  <2>4. CASE OpenSending(s)
    <3>1. /\ sender[s].pc = "open" /\ sender'[s].list = sender[s].list
          /\ sender'[s].audience = sender[s].audience
          /\ \A t \in Senders \ {s} : sender'[t] = sender[t]
      BY <2>4, <1>t, Moves DEF OpenSending, At, Steps
    <3>2. /\ status # "ABSENT" /\ sender[s].audience <= edition
          /\ sender[s].audience = edition => \A d \in sender[s].list : row[d].status # "HELD"
      BY <3>1, <1>l DEF ListedInv, Listing
    <3>3. RowsWithinEdition /\ HeldUntouched
      BY <2>4 DEF OpenSending, RowsWithinEdition, HeldUntouched
    <3> QED
      BY <3>1, <3>2, <3>3, <1>l, WithinEdition
  <2>5. CASE BeginAttempt(s)
    <3>1. CASE sender[s].audience # edition
      BY <2>5, <3>1, <1>u, <1>p, <1>T, OutsideListing DEF BeginAttempt, RowsReplaced
    <3>2. CASE sender[s].audience = edition
      <4>1. PICK d \in sender[s].list :
              /\ sender' = [sender EXCEPT ![s].pc = "deliver", ![s].to = {d}]
              /\ row' = [row EXCEPT ![d] = [status |-> "SENDING", attempted |-> TRUE,
                                            stale |-> FALSE]]
        BY <2>5, <3>2 DEF BeginAttempt, RowsReplaced
      <4>2. /\ sender'[s] = [sender[s] EXCEPT !.pc = "deliver", !.to = {d}]
            /\ \A t \in Senders \ {s} : sender'[t] = sender[t]
        BY <4>1, <1>t
      <4>3. sender'[s].list = sender[s].list /\ sender'[s].audience = sender[s].audience
        BY <4>2, <1>l DEF Sender
      <4>4. /\ status # "ABSENT" /\ sender[s].audience <= edition /\ d \in Destinations
            /\ \A x \in sender[s].list : row[x].status # "HELD"
        BY <2>5, <3>2, <1>l DEF BeginAttempt, At, ListedInv, Listing
      <4>5. /\ row'[d].status = "SENDING" /\ row[d].status # "HELD"
            /\ \A x \in Destinations \ {d} : row'[x] = row[x]
        BY <4>1, <4>4, <1>t
      <4>6. RowsWithinEdition /\ HeldUntouched
        BY <2>5, <4>4, <4>5 DEF BeginAttempt, RowsWithinEdition, HeldUntouched
      <4> QED
        BY <4>2, <4>3, <4>4, <4>6, <1>l, WithinEdition
    <3> QED
      BY <3>1, <3>2
  <2>9. ASSUME NEW d \in Destinations, NEW took \in BOOLEAN, Deliver(s, d, took)
        PROVE EditionInv' /\ HeldUntouched
    <3>1. \E p \in {"accepted", "refused"} : Goto(s, p)
      BY <2>9 DEF Deliver
    <3>2. sender[s].pc = "deliver"
      BY <2>9 DEF Deliver, At
    <3> QED
      BY <2>9, <3>1, <3>2, <1>u, StillListing DEF Deliver, Listing
  <2>6. ASSUME NEW d \in Destinations, RecordResult(s, d)
        PROVE EditionInv' /\ HeldUntouched
    <3>1. PICK p \in {"count", "attempt"} :
            sender' = [sender EXCEPT ![s].pc = p, ![s].list = sender[s].list \ {d}, ![s].to = {}]
      BY <2>6 DEF RecordResult
    <3>2. /\ sender'[s] = [sender[s] EXCEPT !.pc = p, !.list = sender[s].list \ {d}, !.to = {}]
          /\ \A t \in Senders \ {s} : sender'[t] = sender[t]
      BY <3>1, <1>t
    <3>3. sender'[s].list = sender[s].list \ {d} /\ sender'[s].audience = sender[s].audience
      BY <3>2, <1>l DEF Sender
    <3>4. /\ status # "ABSENT" /\ sender[s].audience <= edition
          /\ sender[s].audience = edition => \A x \in sender[s].list : row[x].status # "HELD"
      BY <2>6, <1>l DEF RecordResult, ListedInv, Listing
    <3>5. PICK st \in {"SENT", "FAILED"} : row' = [row EXCEPT ![d].status = st]
      BY <2>6 DEF RecordResult
    <3>6. /\ row'[d].status = st /\ row'[d].attempted = row[d].attempted
          /\ \A x \in Destinations \ {d} : row'[x] = row[x]
      BY <3>5, <1>t DEF Row
    <3>7. RowsWithinEdition /\ HeldUntouched
      BY <2>6, <3>4, <3>6 DEF RecordResult, RowsWithinEdition, HeldUntouched
    <3> QED
      BY <3>2, <3>3, <3>4, <3>7, <1>l, WithinEdition
  <2>7. CASE CountResults(s)
    <3>1. PICK x, y \in BOOLEAN :
            sender' = [sender EXCEPT ![s].pc = "finish", ![s].sent = x, ![s].failed = y]
      BY <2>7 DEF CountResults
    <3>2. /\ sender'[s] = [sender[s] EXCEPT !.pc = "finish", !.sent = x, !.failed = y]
          /\ \A t \in Senders \ {s} : sender'[t] = sender[t]
      BY <3>1, <1>t
    <3>3. /\ sender'[s].pc = "finish" /\ sender'[s].list = sender[s].list
          /\ sender'[s].audience = sender[s].audience
      BY <3>2, <1>l DEF Sender
    <3> QED
      BY <2>7, <1>u, <3>2, <3>3, <1>l, WithinEdition
         DEF CountResults, ListedInv, Listing
  <2>8. CASE FinishSend(s)
    <3>1. RowsWithinEdition /\ HeldUntouched
      BY <2>8 DEF FinishSend, Outcome, RowsWithinEdition, HeldUntouched
    <3> QED
      BY <2>8, <3>1, <1>p, <1>T, OutsideListing DEF FinishSend
  <2> QED
    BY <1>1, <2>1, <2>2, <2>3, <2>4, <2>5, <2>6, <2>7, <2>8, <2>9 DEF SendStep
\* A tick and a confirmation leave the rows alone and list nothing.
<1>2. ASSUME NEW s \in Senders, UNCHANGED <<status, edition, row>>,
             \/ \E p \in Steps \ Listing : Goto(s, p)
             \/ Leave(s)
             \/ \E p \in Steps \ Listing, e \in 0 .. MaxEdition :
                  sender' = [sender EXCEPT ![s].pc = p, ![s].jobEdition = e]
      PROVE  EditionInv' /\ HeldUntouched
  <2>1. CASE (\E p \in Steps \ Listing : Goto(s, p)) \/ Leave(s)
    BY <1>2, <2>1, <1>u, <1>p, <1>T, OutsideListing
  <2>2. ASSUME NEW p \in Steps \ Listing, NEW e \in 0 .. MaxEdition,
               sender' = [sender EXCEPT ![s].pc = p, ![s].jobEdition = e]
        PROVE  EditionInv' /\ HeldUntouched
    <3>1. /\ sender'[s] = [sender[s] EXCEPT !.pc = p, !.jobEdition = e]
          /\ \A t \in Senders \ {s} : sender'[t] = sender[t]
      BY <2>2, <1>t
    <3>2. /\ sender'[s].pc = p /\ sender'[s].list = sender[s].list
          /\ sender'[s].audience = sender[s].audience
      BY <3>1, <1>l DEF Sender
    <3> QED
      BY <1>2, <1>u, <3>1, <3>2, <1>l, WithinEdition DEF ListedInv
  <2> QED
    BY <1>2, <2>1, <2>2
<1>e. job.edition \in 0 .. MaxEdition
  BY DEF TypeOK, Job
<1>3. ASSUME NEW w \in Workers, WorkerStep(w) PROVE EditionInv' /\ HeldUntouched
  <2>w. w \in Senders
    BY <1>t
  <2>1. CASE ExpireLeases(w) \/ MarkOverdue(w)
    BY <2>1, <2>w, <1>2, <1>p DEF ExpireLeases, MarkOverdue
  <2>2. CASE FindDue(w)
    BY <2>2, <2>w, <1>2, <1>p, <1>e DEF FindDue
  <2>3. CASE LeaseJob(w) \/ FailJob(w)
    BY <2>3, <2>w, <1>2, <1>p DEF LeaseJob, FailJob
  <2> QED
    BY <1>1, <1>3, <2>w, <2>1, <2>2, <2>3 DEF WorkerStep
<1>4. ASSUME NEW s \in Staff, StaffStep(s) PROVE EditionInv' /\ HeldUntouched
  <2>w. s \in Senders
    BY <1>t
  <2>1. CASE RequestSend(s)
    BY <2>1, <2>w, <1>2, <1>p DEF RequestSend
  <2>2. CASE FindOverdue(s)
    BY <2>2, <2>w, <1>2, <1>p, <1>e DEF FindOverdue
  <2>3. CASE ConfirmOverdue(s)
    BY <2>3, <2>w, <1>2, <1>p DEF ConfirmOverdue
  <2> QED
    BY <1>1, <1>4, <2>w, <2>1, <2>2, <2>3 DEF StaffStep
\* Steps that move no request and start no edition.
<1>5. ASSUME RowsWithinEdition, status' = "ABSENT" <=> status = "ABSENT",
             sender' = sender
      PROVE  EditionInv'
  BY <1>5, <1>l DEF RowsWithinEdition, EditionInv, NoRowsBeforeCreation, ListedInv
\* The rows of a new edition: nobody has listed them, and none is attempted.
<1>6. ASSUME NEW eligible \in SUBSET Destinations, NEW held \in SUBSET Destinations,
             NEW d \in Destinations, row' = Snapshot(eligible, held)
      PROVE  ~row'[d].attempted
  <2>1. \A st : ~[NoRow EXCEPT !.status = st].attempted
    BY DEF NoRow
  <2> QED
    BY <1>6, <2>1 DEF Snapshot
<1>7. CASE Handler
  <2>1. CASE SaveConnection \/ \E ok \in BOOLEAN : TestConnection(ok)
    BY <2>1, <1>u, <1>5 DEF SaveConnection, TestConnection
  <2>2. ASSUME NEW eligible \in SUBSET Destinations, NEW held \in SUBSET Destinations,
               NEW scheduled \in BOOLEAN, CreateAnnouncement(eligible, held, scheduled)
        PROVE EditionInv' /\ HeldUntouched
    <3>1. \A s \in Senders : sender[s].pc \notin Listing /\ sender[s].audience <= edition
      BY <2>2, <1>l DEF CreateAnnouncement, ListedInv
    <3>2. EditionInv'
      BY <2>2, <3>1 DEF CreateAnnouncement, EditionInv, NoRowsBeforeCreation, ListedInv
    <3>3. HeldUntouched
      BY <2>2, <1>6 DEF CreateAnnouncement, HeldUntouched
    <3> QED
      BY <3>2, <3>3
  <2>3. ASSUME NEW eligible \in SUBSET Destinations, NEW held \in SUBSET Destinations,
               NEW scheduled \in BOOLEAN, UpdateAnnouncement(eligible, held, scheduled)
        PROVE EditionInv' /\ HeldUntouched
    <3>1. /\ edition' = edition + 1 /\ sender' = sender
          /\ status # "ABSENT" /\ status' # "ABSENT"
      BY <2>3 DEF UpdateAnnouncement
    <3>2. \A s \in Senders : /\ sender[s].audience <= edition /\ sender[s].audience \in Nat
                             /\ edition \in Nat
      BY <1>l, <1>t DEF ListedInv, Sender
    <3>3. \A s \in Senders : sender'[s].audience <= edition' /\ sender'[s].audience # edition'
      BY <3>1, <3>2
    <3>4. EditionInv'
      BY <3>1, <3>3 DEF EditionInv, NoRowsBeforeCreation, ListedInv
    <3>5. HeldUntouched
      BY <2>3, <1>6 DEF UpdateAnnouncement, HeldUntouched
    <3> QED
      BY <3>4, <3>5
  <2>4. CASE CancelAnnouncement
    <3>1. RowsWithinEdition /\ HeldUntouched
      BY <2>4 DEF CancelAnnouncement, RowsWithinEdition, HeldUntouched
    <3> QED
      BY <2>4, <3>1, <1>5 DEF CancelAnnouncement
  <2> QED
    BY <1>7, <2>1, <2>2, <2>3, <2>4 DEF Handler
<1>8. CASE Environment
  <2>1. CASE JobComesDue \/ LeaseEnds
    BY <2>1, <1>u, <1>5 DEF JobComesDue, LeaseEnds
  <2>2. ASSUME NEW d \in Destinations,
               AttemptGrowsStale(d) PROVE EditionInv' /\ HeldUntouched
    <3>1. \A x \in Destinations : /\ row'[x].status = row[x].status
                                  /\ row'[x].attempted = row[x].attempted
      BY <2>2, <1>t DEF AttemptGrowsStale, Row
    <3>2. status # "ABSENT"
      BY <2>2 DEF AttemptGrowsStale, EditionInv, NoRowsBeforeCreation
    <3>3. RowsWithinEdition /\ HeldUntouched
      BY <2>2, <3>1, <3>2 DEF AttemptGrowsStale, RowsWithinEdition, HeldUntouched
    <3> QED
      BY <2>2, <3>3, <1>5 DEF AttemptGrowsStale
  <2>3. CASE Restart
    <3>1. /\ \A s \in Senders : sender'[s] = Idle
          /\ status' = status /\ row' = row /\ edition' = edition
      BY <2>3 DEF Restart
    <3>2. \A s \in Senders : sender'[s].audience <= edition /\ sender'[s].pc \notin Listing
      BY <3>1, <1>t DEF Idle, Listing
    <3> QED
      BY <3>1, <3>2, <1>u DEF EditionInv, NoRowsBeforeCreation, ListedInv
  <2>4. ASSUME NEW s \in Senders, NEW d \in Destinations, LoseAnswer(s, d)
        PROVE EditionInv' /\ HeldUntouched
    BY <2>4, <1>u, StillListing DEF LoseAnswer, Fault, At, Listing
  <2>5. ASSUME NEW s \in Senders, StatementFails(s)
        PROVE EditionInv' /\ HeldUntouched
    BY <2>5, <1>u, <1>p, <1>T, OutsideListing DEF StatementFails, Fault
  <2>6. ASSUME NEW s \in Senders, RecordFails(s)
        PROVE EditionInv' /\ HeldUntouched
    BY <2>6, <1>u, StillListing DEF RecordFails, Fault, At, Listing
  <2> QED
    BY <1>8, <2>1, <2>2, <2>3, <2>4, <2>5, <2>6 DEF Environment
<1>9. CASE UNCHANGED vars
  BY <1>9, <1>u, <1>5 DEF vars, deliveryVars
<1> QED
  BY <1>3, <1>4, <1>7, <1>8, <1>9 DEF Next, Step

\* At the start nothing is listed.
LEMMA InitEdition == EmailAssumption /\ Init => EditionInv
<1> SUFFICES ASSUME EmailAssumption, Init PROVE EditionInv
  OBVIOUS
<1>1. \A s \in Senders : sender[s].audience = 0 /\ sender[s].pc = "idle"
  BY DEF Init, Idle
<1>2. \A d \in Destinations : row[d].status = "NONE"
  BY DEF Init, NoRow
<1> QED
  BY <1>1, <1>2 DEF Init, EditionInv, NoRowsBeforeCreation, ListedInv, Listing

\* Also when requests overlap, a destination on hold in the current audience is
\* not attempted: a list made before the edit that put it on hold is of another
\* edition, and the attempt on a replaced row throws.
THEOREM HoldsAreKept == Spec => HeldNeverSent
<1>1. Init => TypeOK /\ EditionInv
  BY InitTypeOK, InitEdition, EmailAssumption
<1>2. TypeOK /\ EditionInv /\ [Next]_vars => (TypeOK /\ EditionInv)'
  BY StepTypeOK, StepEdition, EmailAssumption
<1>3. TypeOK /\ EditionInv /\ [Next]_vars
        => [\A d \in Destinations :
              row'[d].attempted /\ ~row[d].attempted => row[d].status # "HELD"]_vars
  BY StepEdition, EmailAssumption DEF HeldUntouched
<1> QED
  BY <1>1, <1>2, <1>3, PTL DEF Spec, HeldNeverSent

-----------------------------------------------------------------------------
(***************************************************************************)
(* What the announcement page reports.  SendInv says what a send in        *)
(* progress knows: the announcement stays SENDING from the first attempt   *)
(* to the closing transaction, whatever is still PENDING is on its list,   *)
(* and what it has counted is what the rows say.  Only a crash or a        *)
(* failing statement leaves a row SENDING that no request has in hand.     *)
(***************************************************************************)
SendInv(s) ==
  /\ sender[s].pc \in {"recover", "list", "open"} => status # "SENT"
  /\ sender[s].pc \in {"attempt", "count", "finish"} \cup InHand => status = "SENDING"
  /\ sender[s].pc \in {"open", "attempt", "count"} \cup InHand /\ sender[s].audience = edition
       => \A d \in Destinations : row[d].status = "PENDING" => d \in sender[s].list
  /\ sender[s].pc = "count" => sender[s].list = {} /\ sender[s].audience = edition
  /\ sender[s].pc = "finish" =>
       \A d \in Destinations : /\ row[d].status # "PENDING"
                               /\ row[d].status = "FAILED" => sender[s].failed

SendingInHand ==
  \A d \in Destinations : row[d].status = "SENDING" => \E s \in Senders : d \in sender[s].to

Settled == {"NONE", "HELD", "SENT"}

NoneSending == \A d \in Destinations : row[d].status # "SENDING"

SentIsSettled ==
  status = "SENT" => \A d \in Destinations : row[d].status \in Settled \cup {"SENDING"}

ReportInv ==
  /\ \A s \in Senders : SendInv(s)
  /\ job.status = "COMPLETED" => status = "SENT"
  /\ SentIsSettled
  /\ crashes + faults = 0 => SendingInHand /\ (status = "SENT" => NoneSending)

\* An idle request knows nothing.
LEMMA IdleKnows ==
  ASSUME NEW s \in Senders, sender'[s] = Idle
  PROVE  SendInv(s)'
BY DEF SendInv, InHand, Idle

\* A request that leaves, throws or turns to a step outside a send.
LEMMA OutsideSend ==
  ASSUME NEW s \in Senders,
         sender'[s].pc \in {"idle", "confirm", "mark", "find", "lease", "read", "fail"}
  PROVE  SendInv(s)'
BY DEF SendInv, InHand

\* When the moving request keeps what it knows, so does every request.
LEMMA AllKnow ==
  ASSUME DeliveryInv, Alone', NEW s \in Senders, SendInv(s)',
         sender[s].pc # "idle" \/ sender'[s].pc # "idle",
         \A t \in Senders \ {s} : sender'[t] = sender[t]
  PROVE  \A t \in Senders : SendInv(t)'
<1> TAKE t \in Senders
<1>1. CASE t = s
  BY <1>1
<1>2. CASE t # s
  <2>1. sender'[t] = Idle
    BY <1>2, OthersIdle
  <2> QED
    BY <2>1, IdleKnows
<1> QED
  BY <1>1, <1>2

\* A step of a send keeps the report true.
LEMMA SendReports ==
  ASSUME EmailAssumption, TypeOK, DeliveryInv, EditionInv, ReportInv, Alone',
         NEW s \in Senders, SendStep(s)
  PROVE  ReportInv'
<1>t. /\ sender \in [Senders -> Sender] /\ row \in [Destinations -> Row] /\ job \in Job
      /\ sender[s] \in Sender /\ sender[s].list \subseteq Destinations
      /\ edition \in 0 .. MaxEdition
  BY DEF TypeOK, Sender
<1>i. /\ SendInv(s) /\ RequestInv(s)
      /\ job.status = "COMPLETED" => status = "SENT"
      /\ SentIsSettled
      /\ crashes + faults = 0 => SendingInHand /\ (status = "SENT" => NoneSending)
  BY DEF DeliveryInv, ReportInv
<1>k. sender[s].pc # "idle" /\ \A t \in Senders \ {s} : sender'[t] = sender[t]
  BY SendKeeps
<1>o. \A t \in Senders \ {s} : sender[t].to = {} /\ sender'[t] = sender[t]
  <2>1. \A t \in Senders \ {s} : sender[t] = Idle
    BY <1>k, OthersIdle
  <2> QED
    BY <2>1, <1>k DEF Idle
<1>e. sender[s].pc \notin InHand => sender[s].to = {}
  BY <1>i DEF RequestInv
<1>p. {"recover", "list", "open", "attempt", "deliver", "accepted", "refused", "count",
       "finish", "fail"} \subseteq Steps
  BY DEF Steps
\* While nothing failed no row is SENDING but the one s has in hand.
<1>h. crashes + faults = 0 => \A d \in Destinations : row[d].status = "SENDING" => d \in sender[s].to
  BY <1>i, <1>o DEF SendingInHand
\* It suffices that s keeps what it knows and the rows stay what they should be.
<1>q. ASSUME SendInv(s)', job'.status = "COMPLETED" => status' = "SENT",
             SentIsSettled',
             crashes + faults = 0 =>
               /\ \A d \in Destinations : row'[d].status = "SENDING" => d \in sender'[s].to
               /\ status' = "SENT" => NoneSending'
      PROVE  ReportInv'
  <2>1. crashes' = crashes /\ faults' = faults
    BY DEF SendStep, ReadAnnouncement, RecoverInterrupted, ListRecipients, OpenSending,
       BeginAttempt, Deliver, RecordResult, CountResults, FinishSend
  <2>2. \A t \in Senders : SendInv(t)'
    BY <1>k, <1>q, AllKnow
  <2> QED
    BY <1>q, <2>1, <2>2 DEF ReportInv, SendingInHand
\* The steps that leave announcement, rows and job alone and hold nothing.
<1>r. ASSUME UNCHANGED <<status, row, job>>, sender[s].pc \notin InHand, SendInv(s)'
      PROVE  ReportInv'
  BY <1>q, <1>r, <1>h, <1>e, <1>i DEF SentIsSettled, NoneSending, InHand
<1>1. CASE ReadAnnouncement(s)
  <2>1. CASE Throw(s)
    <3>1. sender'[s].pc \in {"idle", "fail"}
      BY <2>1, <1>t, <1>p, Moves DEF Idle
    <3> QED
      BY <1>1, <3>1, <1>r, OutsideSend DEF ReadAnnouncement, At, InHand
  <2>2. CASE status # "SENT" /\ Goto(s, "recover")
    <3>1. sender'[s].pc = "recover"
      BY <2>2, <1>t, <1>p, Moves
    <3>2. SendInv(s)'
      BY <1>1, <2>2, <3>1 DEF ReadAnnouncement, SendInv, InHand
    <3> QED
      BY <1>1, <3>2, <1>r DEF ReadAnnouncement, At, InHand
  <2> QED
    BY <1>1, <2>1, <2>2 DEF ReadAnnouncement
<1>2. CASE RecoverInterrupted(s)
  <2>1. sender'[s].pc = "list" /\ sender[s].pc = "recover" /\ status' = status /\ job' = job
    BY <1>2, <1>t, <1>p, Moves DEF RecoverInterrupted, At
  <2>2. status # "SENT"
    BY <2>1, <1>i DEF SendInv, InHand
  <2>3. \A d \in Destinations : row'[d].status = "SENDING" => row[d].status = "SENDING"
    BY <1>2, <1>t DEF RecoverInterrupted, Row
  <2>4. SendInv(s)'
    BY <2>1, <2>2 DEF SendInv, InHand
  <2> QED
    BY <2>1, <2>2, <2>3, <2>4, <1>q, <1>h, <1>e, <1>i
       DEF SentIsSettled, NoneSending, InHand
<1>3. CASE ListRecipients(s)
  <2>1. CASE Throw(s)
    <3>1. sender'[s].pc \in {"idle", "fail"}
      BY <2>1, <1>t, <1>p, Moves DEF Idle
    <3> QED
      BY <1>3, <3>1, <1>r, OutsideSend DEF ListRecipients, At, InHand
  <2>2. CASE sender' = [sender EXCEPT ![s].pc = "open", ![s].audience = edition,
                                      ![s].list = Undelivered]
    <3>1. sender'[s] = [sender[s] EXCEPT !.pc = "open", !.audience = edition,
                                         !.list = Undelivered]
      BY <2>2, <1>t
    <3>2. sender'[s].pc = "open" /\ sender'[s].list = Undelivered
      BY <3>1, <1>t DEF Sender
    <3>3. \A d \in Destinations : row[d].status = "PENDING" => d \in Undelivered
      BY DEF Undelivered, RowsWith
    <3>4. status # "SENT" /\ sender[s].pc = "list"
      BY <1>3, <1>i DEF ListRecipients, At, SendInv, InHand
    <3>5. SendInv(s)'
      BY <1>3, <3>2, <3>3, <3>4 DEF ListRecipients, SendInv, InHand
    <3> QED
      BY <1>3, <3>4, <3>5, <1>r DEF ListRecipients, InHand
  <2> QED
    BY <1>3, <2>1, <2>2 DEF ListRecipients
<1>4. CASE OpenSending(s)
  <2>1. /\ sender'[s].pc = "attempt" /\ sender[s].pc = "open"
        /\ sender'[s].list = sender[s].list /\ sender'[s].audience = sender[s].audience
    BY <1>4, <1>t, <1>p, Moves DEF OpenSending, At
  <2>2. SendInv(s)'
    BY <1>4, <2>1, <1>i DEF OpenSending, SendInv, InHand
  <2>3. job.status # "COMPLETED"
    BY <2>1, <1>i DEF SendInv, InHand
  <2> QED
    BY <1>4, <2>1, <2>2, <2>3, <1>q, <1>h, <1>e
       DEF OpenSending, SentIsSettled, NoneSending, InHand
<1>5. CASE BeginAttempt(s)
  <2>0. sender[s].pc = "attempt" /\ status = "SENDING"
    BY <1>5, <1>i DEF BeginAttempt, At, SendInv, InHand
  <2>1. CASE sender[s].audience # edition
    <3>1. Throw(s) /\ UNCHANGED <<status, row, job>>
      BY <1>5, <2>1 DEF BeginAttempt, RowsReplaced
    <3>2. sender'[s].pc \in {"idle", "fail"}
      BY <3>1, <1>t, <1>p, Moves DEF Idle
    <3> QED
      BY <2>0, <3>1, <3>2, <1>r, OutsideSend DEF InHand
  <2>2. CASE sender[s].audience = edition
    <3>1. PICK d \in sender[s].list :
            /\ sender' = [sender EXCEPT ![s].pc = "deliver", ![s].to = {d}]
            /\ row' = [row EXCEPT ![d] = [status |-> "SENDING", attempted |-> TRUE,
                                          stale |-> FALSE]]
      BY <1>5, <2>2 DEF BeginAttempt, RowsReplaced
    <3>2. sender'[s] = [sender[s] EXCEPT !.pc = "deliver", !.to = {d}]
      BY <3>1, <1>t
    <3>3. /\ sender'[s].pc = "deliver" /\ sender'[s].to = {d}
          /\ sender'[s].list = sender[s].list
      BY <3>2, <1>t DEF Sender
    <3>4. /\ row'[d].status = "SENDING"
          /\ \A x \in Destinations \ {d} : row'[x] = row[x]
      BY <3>1, <1>t
    <3>5. SendInv(s)'
      BY <1>5, <2>0, <2>2, <3>3, <3>4, <1>i DEF BeginAttempt, SendInv, InHand
    <3> QED
      BY <1>5, <2>0, <3>3, <3>4, <3>5, <1>q, <1>h, <1>e, <1>i
         DEF BeginAttempt, SentIsSettled, NoneSending, InHand
  <2> QED
    BY <2>1, <2>2
<1>6. ASSUME NEW d \in Destinations, RecordResult(s, d)
      PROVE  ReportInv'
  <2>1. /\ sender[s].pc \in InHand /\ sender[s].to = {d} /\ edition' = edition
        /\ status = "SENDING" /\ status' = status /\ job' = job
        /\ sender[s].audience = edition
    BY <1>6, <1>i DEF RecordResult, RequestInv, SendInv, InHand
  <2>2. row'[d].status \in {"SENT", "FAILED"} /\ \A x \in Destinations \ {d} : row'[x] = row[x]
    BY <1>6, <1>t DEF RecordResult, Row
  <2>3. PICK p \in {"count", "attempt"} :
          /\ p = "count" => sender[s].list = {d}
          /\ sender' = [sender EXCEPT ![s].pc = p, ![s].list = sender[s].list \ {d},
                                      ![s].to = {}]
    BY <1>6 DEF RecordResult
  <2>4. sender'[s] = [sender[s] EXCEPT !.pc = p, !.list = sender[s].list \ {d}, !.to = {}]
    BY <2>3, <1>t
  <2>5. /\ sender'[s].pc = p /\ sender'[s].list = sender[s].list \ {d}
        /\ sender'[s].audience = sender[s].audience /\ sender'[s].to = {}
    BY <2>4, <1>t DEF Sender
  <2>6. \A x \in Destinations : row'[x].status = "PENDING" => x \in sender'[s].list
    BY <2>1, <2>2, <2>5, <1>i DEF SendInv, InHand
  <2>7. SendInv(s)'
    BY <2>1, <2>3, <2>5, <2>6 DEF SendInv, InHand
  <2>8. crashes + faults = 0 => NoneSending'
    BY <2>1, <2>2, <1>h DEF NoneSending
  <2> QED
    BY <2>1, <2>7, <2>8, <1>q, <1>i DEF SentIsSettled, NoneSending, InHand
<1>9. ASSUME NEW d \in Destinations, NEW took \in BOOLEAN, Deliver(s, d, took)
      PROVE  ReportInv'
  <2>1. /\ sender[s].pc = "deliver" /\ status = "SENDING" /\ UNCHANGED <<status, edition, row, job>>
    BY <1>9, <1>i DEF Deliver, At, SendInv, InHand
  <2>2. PICK p \in {"accepted", "refused"} : Goto(s, p)
    BY <1>9 DEF Deliver
  <2>3. /\ sender'[s].pc = p /\ sender'[s].list = sender[s].list
        /\ sender'[s].audience = sender[s].audience /\ sender'[s].to = sender[s].to
    BY <2>2, <1>t, <1>p, Moves
  <2>4. SendInv(s)'
    BY <2>1, <2>3, <1>i DEF SendInv, InHand
  <2> QED
    BY <2>1, <2>3, <2>4, <1>q, <1>h, <1>i DEF SentIsSettled
<1>7. CASE CountResults(s)
  <2>1. PICK x \in BOOLEAN :
          sender' = [sender EXCEPT ![s].pc = "finish", ![s].sent = x,
                                   ![s].failed = (RowsWith({"FAILED"}) # {})]
    BY <1>7 DEF CountResults
  <2>2. sender'[s] = [sender[s] EXCEPT !.pc = "finish", !.sent = x,
                                       !.failed = (RowsWith({"FAILED"}) # {})]
    BY <2>1, <1>t
  <2>3. sender'[s].pc = "finish" /\ sender'[s].failed = (RowsWith({"FAILED"}) # {})
    BY <2>2, <1>t DEF Sender
  <2>4. \A d \in Destinations : row[d].status = "FAILED" => RowsWith({"FAILED"}) # {}
    BY DEF RowsWith
  <2>5. /\ sender[s].pc = "count" /\ status = "SENDING"
        /\ \A d \in Destinations : row[d].status # "PENDING"
    BY <1>7, <1>i DEF CountResults, At, SendInv, InHand
  <2>6. SendInv(s)'
    BY <1>7, <2>3, <2>4, <2>5 DEF CountResults, SendInv, InHand
  <2> QED
    BY <1>7, <2>5, <2>6, <1>r DEF CountResults, InHand
<1>8. CASE FinishSend(s)
  <2>1. sender'[s] = Idle
    BY <1>8, <1>t, <1>p, Moves DEF FinishSend
  <2>2. /\ sender[s].pc = "finish" /\ row' = row /\ status = "SENDING"
        /\ \A d \in Destinations : /\ row[d].status # "PENDING"
                                   /\ row[d].status = "FAILED" => sender[s].failed
    BY <1>8, <1>i DEF FinishSend, At, SendInv, InHand
  <2>3. crashes + faults = 0 => NoneSending
    BY <2>2, <1>h, <1>e DEF NoneSending, InHand
  <2>4. status' = "SENT" => ~sender[s].failed
    BY <1>8 DEF FinishSend, Outcome
  <2>5. ~sender[s].failed => status' = "SENT"
    BY <1>8 DEF FinishSend, Outcome
  <2>6. SentIsSettled'
    <3>1. \A d \in Destinations : row[d].status \in RowStatus
      BY <1>t DEF Row
    <3> QED
      BY <2>2, <2>4, <3>1 DEF SentIsSettled, Settled, RowStatus
  <2>7. job'.status = "COMPLETED" => status' = "SENT"
    <3>1. CASE job.status = "LEASED"
      <4>1. job'.status = IF sender[s].failed THEN "FAILED" ELSE "COMPLETED"
        BY <1>8, <3>1, <1>t DEF FinishSend, Job
      <4> QED
        BY <4>1, <2>5
    <3>2. CASE job.status # "LEASED"
      BY <1>8, <3>2, <2>2, <1>i DEF FinishSend
    <3> QED
      BY <3>1, <3>2
  <2>8. SendInv(s)'
    BY <2>1, IdleKnows
  <2> QED
    BY <2>2, <2>3, <2>6, <2>7, <2>8, <1>q DEF NoneSending
<1> QED
  BY <1>1, <1>2, <1>3, <1>4, <1>5, <1>6, <1>7, <1>8, <1>9 DEF SendStep

\* Every step of requests that do not overlap keeps the report true.
LEMMA StepReport ==
  ASSUME EmailAssumption, TypeOK, DeliveryInv, EditionInv, ReportInv,
         [Step /\ Alone']_deliveryVars
  PROVE  ReportInv'
<1>t. /\ sender \in [Senders -> Sender] /\ row \in [Destinations -> Row] /\ job \in Job
      /\ Senders = Workers \cup Staff /\ crashes \in Nat /\ faults \in Nat
  BY DEF TypeOK, Senders, EmailAssumption
<1>i. /\ \A s \in Senders : SendInv(s) /\ RequestInv(s) /\ ListedInv(s)
      /\ NothingBeforeCreation
      /\ job.status = "COMPLETED" => status = "SENT"
      /\ SentIsSettled
      /\ crashes + faults = 0 => SendingInHand /\ (status = "SENT" => NoneSending)
  BY DEF DeliveryInv, EditionInv, ReportInv
<1>p. {"confirm", "mark", "find", "lease", "read", "refused", "fail"} \subseteq Steps
  BY DEF Steps
<1>0. CASE UNCHANGED deliveryVars
  BY <1>0, <1>i DEF deliveryVars, ReportInv, SendInv, SendingInHand,
       SentIsSettled, NoneSending, InHand
<1>a. SUFFICES ASSUME Step, Alone' PROVE ReportInv'
  BY <1>0
\* A tick or a confirmation: outside every send, and no job is completed.
<1>2. ASSUME NEW s \in Senders, UNCHANGED <<status, row, crashes, faults>>,
             job'.status = "COMPLETED" => job.status = "COMPLETED",
             sender[s].pc # "idle" \/ sender'[s].pc # "idle", sender[s].pc \notin InHand,
             sender'[s].pc \in {"idle", "confirm", "mark", "find", "lease", "read", "fail"},
             \A t \in Senders \ {s} : sender'[t] = sender[t]
      PROVE  ReportInv'
  <2>1. \A t \in Senders : SendInv(t)'
    BY <1>a, <1>2, OutsideSend, AllKnow
  <2>2. sender[s].to = {}
    BY <1>2, <1>i DEF RequestInv
  <2>3. SendingInHand => SendingInHand'
    BY <1>2, <2>2 DEF SendingInHand
  <2> QED
    BY <1>2, <2>1, <2>3, <1>i DEF ReportInv, SentIsSettled, NoneSending, InHand
<1>3. ASSUME NEW w \in Workers, WorkerStep(w) PROVE ReportInv'
  <2>w. w \in Senders
    BY <1>t
  <2>g. ASSUME NEW q \in Steps, Goto(w, q)
        PROVE  sender'[w].pc = q /\ \A t \in Senders \ {w} : sender'[t] = sender[t]
    BY <2>w, <2>g, <1>t, Moves
  <2>l. ASSUME Leave(w)
        PROVE  sender'[w].pc = "idle" /\ \A t \in Senders \ {w} : sender'[t] = sender[t]
    BY <2>w, <2>l, <1>t, <1>p, Moves DEF Idle
  <2>1. CASE SendStep(w)
    BY <1>a, <2>1, <2>w, SendReports
  <2>2. CASE ExpireLeases(w)
    <3>1. job'.status = "COMPLETED" => job.status = "COMPLETED"
      BY <2>2, <1>t DEF ExpireLeases, ExpiredLeases, Job
    <3> QED
      BY <2>2, <3>1, <2>w, <2>g, <1>2, <1>p DEF ExpireLeases, At, InHand
  <2>3. CASE MarkOverdue(w)
    <3>1. job'.status = "COMPLETED" => job.status = "COMPLETED"
      BY <2>3, <1>t DEF MarkOverdue, MarkedOverdue, Job
    <3> QED
      BY <2>3, <3>1, <2>w, <2>g, <1>2, <1>p DEF MarkOverdue, At, InHand
  <2>4. CASE FindDue(w)
    <3>1. CASE Leave(w)
      BY <2>4, <3>1, <2>w, <2>l, <1>2 DEF FindDue, At, InHand
    <3>2. CASE sender' = [sender EXCEPT ![w].pc = "lease", ![w].jobEdition = job.edition]
      <4>1. /\ sender'[w] = [sender[w] EXCEPT !.pc = "lease", !.jobEdition = job.edition]
            /\ \A t \in Senders \ {w} : sender'[t] = sender[t]
            /\ sender[w] \in Sender
        BY <3>2, <2>w, <1>t
      <4>2. sender'[w].pc = "lease"
        BY <4>1 DEF Sender
      <4> QED
        BY <2>4, <2>w, <4>1, <4>2, <1>2 DEF FindDue, At, InHand
    <3> QED
      BY <2>4, <3>1, <3>2 DEF FindDue
  <2>5. CASE LeaseJob(w)
    <3>1. job'.status = "COMPLETED" => job.status = "COMPLETED"
      BY <2>5, <1>t DEF LeaseJob, Job
    <3>2. /\ sender'[w].pc \in {"idle", "read"}
          /\ \A t \in Senders \ {w} : sender'[t] = sender[t]
      BY <2>5, <2>g, <2>l, <1>p DEF LeaseJob
    <3> QED
      BY <2>5, <3>1, <3>2, <2>w, <1>2 DEF LeaseJob, At, InHand
  <2>6. CASE FailJob(w)
    <3>1. job'.status = "COMPLETED" => job.status = "COMPLETED"
      BY <2>6, <1>t DEF FailJob, Job
    <3> QED
      BY <2>6, <3>1, <2>w, <2>l, <1>2 DEF FailJob, At, InHand
  <2> QED
    BY <1>3, <2>1, <2>2, <2>3, <2>4, <2>5, <2>6 DEF WorkerStep
<1>4. ASSUME NEW s \in Staff, StaffStep(s) PROVE ReportInv'
  <2>w. s \in Senders
    BY <1>t
  <2>g. ASSUME NEW q \in Steps, Goto(s, q)
        PROVE  sender'[s].pc = q /\ \A t \in Senders \ {s} : sender'[t] = sender[t]
    BY <2>w, <2>g, <1>t, Moves
  <2>l. ASSUME Leave(s)
        PROVE  sender'[s].pc = "idle" /\ \A t \in Senders \ {s} : sender'[t] = sender[t]
    BY <2>w, <2>l, <1>t, <1>p, Moves DEF Idle
  <2>1. CASE SendStep(s)
    BY <1>a, <2>1, <2>w, SendReports
  <2>2. CASE RequestSend(s)
    BY <2>2, <2>w, <2>g, <1>2, <1>p DEF RequestSend, At, InHand
  <2>3. CASE FindOverdue(s)
    <3>1. /\ sender'[s] = [sender[s] EXCEPT !.pc = "confirm", !.jobEdition = job.edition]
          /\ \A t \in Senders \ {s} : sender'[t] = sender[t]
          /\ sender[s] \in Sender
      BY <2>3, <2>w, <1>t DEF FindOverdue
    <3>2. sender'[s].pc = "confirm"
      BY <3>1 DEF Sender
    <3> QED
      BY <2>3, <2>w, <3>1, <3>2, <1>2 DEF FindOverdue, At, InHand
  <2>4. CASE ConfirmOverdue(s)
    <3>1. job'.status = "COMPLETED" => job.status = "COMPLETED"
      BY <2>4, <1>t DEF ConfirmOverdue, Job
    <3>2. /\ sender'[s].pc \in {"idle", "read"}
          /\ \A t \in Senders \ {s} : sender'[t] = sender[t]
      BY <2>4, <2>g, <2>l, <1>p DEF ConfirmOverdue
    <3> QED
      BY <2>4, <3>1, <3>2, <2>w, <1>2 DEF ConfirmOverdue, At, InHand
  <2> QED
    BY <1>4, <2>1, <2>2, <2>3, <2>4 DEF StaffStep
<1>5. ASSUME NEW eligible \in SUBSET Destinations, NEW held \in SUBSET Destinations,
             row' = Snapshot(eligible, held)
      PROVE  \A d \in Destinations : row'[d].status # "SENDING"
  <2>1. \A st \in {"PENDING", "HELD", "NONE"} : [NoRow EXCEPT !.status = st].status # "SENDING"
    BY DEF NoRow
  <2> QED
    BY <1>5, <2>1 DEF Snapshot
<1>6. \A scheduled \in BOOLEAN : \A ed : ScheduledJob(scheduled, ed).status # "COMPLETED"
  BY DEF ScheduledJob, NoJob
<1>7. CASE Handler
  <2>1. CASE SaveConnection \/ \E ok \in BOOLEAN : TestConnection(ok)
    BY <2>1, <1>i DEF SaveConnection, TestConnection, ReportInv, SendInv, SendingInHand,
       SentIsSettled, NoneSending, InHand
  <2>2. ASSUME NEW eligible \in SUBSET Destinations, NEW held \in SUBSET Destinations,
               NEW scheduled \in BOOLEAN, CreateAnnouncement(eligible, held, scheduled)
        PROVE ReportInv'
    <3>1. \A s \in Senders : sender[s].pc \in {"idle", "mark", "find"}
      BY <2>2, <1>i DEF CreateAnnouncement, NothingBeforeCreation
    <3>2. \A s \in Senders : SendInv(s)'
      BY <2>2, <3>1 DEF CreateAnnouncement, SendInv, InHand
    <3>3. SendingInHand' /\ status' # "SENT" /\ job'.status # "COMPLETED"
      BY <2>2, <1>5, <1>6 DEF CreateAnnouncement, SendingInHand
    <3> QED
      BY <3>2, <3>3 DEF ReportInv, SentIsSettled, NoneSending, InHand
  <2>3. ASSUME NEW eligible \in SUBSET Destinations, NEW held \in SUBSET Destinations,
               NEW scheduled \in BOOLEAN, UpdateAnnouncement(eligible, held, scheduled)
        PROVE ReportInv'
    <3>1. /\ edition' = edition + 1 /\ sender' = sender
          /\ status \in {"READY", "SCHEDULED"} /\ status' \in {"READY", "SCHEDULED"}
      BY <2>3 DEF UpdateAnnouncement
    <3>2. \A s \in Senders : sender[s].audience # edition'
      <4>1. edition \in Nat /\ \A s \in Senders : sender[s].audience \in Nat
        BY DEF TypeOK, Sender
      <4> QED
        BY <3>1, <4>1, <1>i DEF ListedInv
    <3>3. \A s \in Senders : SendInv(s)'
      BY <3>1, <3>2, <1>i DEF SendInv, InHand
    <3>4. SendingInHand' /\ job'.status # "COMPLETED"
      BY <2>3, <1>5, <1>6 DEF UpdateAnnouncement, SendingInHand
    <3> QED
      BY <3>1, <3>3, <3>4 DEF ReportInv, SentIsSettled, NoneSending, InHand
  <2>4. CASE CancelAnnouncement
    <3>1. /\ status \notin {"SENT", "SENDING"} /\ status' = "CANCELED"
          /\ UNCHANGED <<edition, row, sender, crashes, faults>>
      BY <2>4 DEF CancelAnnouncement
    <3>2. job'.status # "COMPLETED"
      BY <2>4, <3>1, <1>t, <1>i DEF CancelAnnouncement, Job
    <3>3. \A s \in Senders : SendInv(s)'
      BY <3>1, <1>i DEF SendInv, InHand
    <3> QED
      BY <3>1, <3>2, <3>3, <1>i
         DEF ReportInv, SendingInHand, SentIsSettled, NoneSending, InHand
  <2> QED
    BY <1>7, <2>1, <2>2, <2>3, <2>4 DEF Handler
<1>8. CASE Environment
  <2>1. CASE JobComesDue \/ LeaseEnds
    <3>1. job'.status = job.status /\ UNCHANGED <<status, edition, row, sender, crashes, faults>>
      BY <2>1, <1>t DEF JobComesDue, LeaseEnds, Job
    <3> QED
      BY <3>1, <1>i DEF ReportInv, SendInv, SendingInHand,
       SentIsSettled, NoneSending, InHand
  <2>2. ASSUME NEW d \in Destinations, AttemptGrowsStale(d) PROVE ReportInv'
    <3>1. \A x \in Destinations : row'[x].status = row[x].status
      BY <2>2, <1>t DEF AttemptGrowsStale, Row
    <3> QED
      BY <2>2, <3>1, <1>i DEF AttemptGrowsStale, ReportInv, SendInv, SendingInHand,
       SentIsSettled, NoneSending, InHand
  <2>3. CASE Restart
    <3>1. /\ \A s \in Senders : sender'[s] = Idle
          /\ status' = status /\ row' = row /\ crashes' + faults' # 0
      BY <2>3, <1>t DEF Restart
    <3>2. job'.status = job.status
      BY <2>3, <1>t DEF Restart, Job
    <3> QED
      BY <3>1, <3>2, <1>i, IdleKnows DEF ReportInv, SentIsSettled
  <2>4. ASSUME NEW s \in Senders,
               (\E d \in Destinations : LoseAnswer(s, d)) \/ RecordFails(s) \/ StatementFails(s)
        PROVE ReportInv'
    <3>1. /\ UNCHANGED <<status, edition, row, job>> /\ crashes' + faults' # 0
          /\ sender[s].pc # "idle"
          /\ (Goto(s, "refused") /\ sender[s].pc \in InHand) \/ Throw(s)
      BY <2>4, <1>t DEF LoseAnswer, RecordFails, StatementFails, Fault, At, InHand
    <3>2. \A t \in Senders \ {s} : sender'[t] = sender[t]
      BY <3>1, <1>t, <1>p, Moves
    <3>3. SendInv(s)'
      <4>1. CASE Goto(s, "refused") /\ sender[s].pc \in InHand
        <5>1. /\ sender'[s].pc = "refused" /\ sender'[s].list = sender[s].list
              /\ sender'[s].audience = sender[s].audience
          BY <4>1, <1>t, <1>p, Moves
        <5> QED
          BY <3>1, <4>1, <5>1, <1>i DEF SendInv, InHand
      <4>2. CASE Throw(s)
        <5>1. sender'[s].pc \in {"idle", "fail"}
          BY <4>2, <1>t, <1>p, Moves DEF Idle
        <5> QED
          BY <5>1, OutsideSend
      <4> QED
        BY <3>1, <4>1, <4>2
    <3>4. \A t \in Senders : SendInv(t)'
      BY <1>a, <3>1, <3>2, <3>3, AllKnow
    <3> QED
      BY <3>1, <3>4, <1>i DEF ReportInv, SentIsSettled
  <2> QED
    BY <1>8, <2>1, <2>2, <2>3, <2>4 DEF Environment
<1> QED
  BY <1>a, <1>3, <1>4, <1>7, <1>8 DEF Step

-----------------------------------------------------------------------------
\* What holds as long as no two requests have been under way together.
SerialInv == DeliveryInv /\ MissedIsHeld /\ AcceptedInv /\ ReportInv

EmailInv == TypeOK /\ EditionInv /\ (~overlapped => SerialInv)

LEMMA InitEmail == EmailAssumption /\ Init => EmailInv
<1> SUFFICES ASSUME EmailAssumption, Init PROVE EmailInv
  OBVIOUS
<1>1. TypeOK /\ EditionInv
  BY InitTypeOK, InitEdition
<1>2. /\ \A s \in Senders : sender[s] = Idle
      /\ status = "ABSENT" /\ job.status = "NONE" /\ accepted = {}
      /\ \A d \in Destinations : row[d].status = "NONE"
  BY DEF Init, NoJob, NoRow
<1>3. DeliveryInv
  BY <1>2 DEF DeliveryInv, Alone, RequestInv, NothingBeforeCreation, Idle, InHand
<1>4. MissedIsHeld /\ AcceptedInv
  BY <1>2 DEF MissedIsHeld, AcceptedInv, AcceptanceKnown
<1>5. ReportInv
  BY <1>2 DEF ReportInv, SendInv, SendingInHand, SentIsSettled, Idle, InHand
<1> QED
  BY <1>1, <1>3, <1>4, <1>5 DEF EmailInv, SerialInv

\* A step after which no two requests have been under way together is a step of
\* requests that do not overlap.
LEMMA StepEmail == EmailAssumption /\ EmailInv /\ [Next]_vars => EmailInv'
<1> SUFFICES ASSUME EmailAssumption, EmailInv, [Next]_vars PROVE EmailInv'
  OBVIOUS
<1>1. TypeOK' /\ EditionInv'
  BY StepTypeOK, StepEdition DEF EmailInv
<1>2. ASSUME ~overlapped' PROVE SerialInv'
  <2>1. SerialInv /\ [Step /\ Alone']_deliveryVars
    BY <1>2 DEF EmailInv, Next, vars
  <2>2. TypeOK /\ EditionInv
    BY DEF EmailInv
  <2>3. DeliveryInv' /\ MissedIsHeld'
    BY <2>1, <2>2, StepDelivery, StepMissed DEF SerialInv
  <2>4. AcceptedInv' /\ ReportInv'
    BY <2>1, <2>2, StepAccepted, StepReport DEF SerialInv
  <2> QED
    BY <2>3, <2>4 DEF SerialInv
<1> QED
  BY <1>1, <1>2 DEF EmailInv

THEOREM EmailInvariant == Spec => []EmailInv
<1>1. Init => EmailInv
  BY InitEmail, EmailAssumption
<1>2. EmailInv /\ [Next]_vars => EmailInv'
  BY StepEmail, EmailAssumption
<1> QED
  BY <1>1, <1>2, PTL DEF Spec

\* While requests do not overlap, a recorded destination is never sent to again -
\* not by a retry, an edit, an overdue confirmation or after a restart - and an
\* accepted one only when a crash, a lost answer or a failing statement may have
\* kept its acceptance from being recorded.
THEOREM AcceptedOnce == Spec => ResentOnlyIfUnrecorded
<1>1. EmailInv /\ (~overlapped => ResendNoticed)' /\ [Next]_vars
        => [~overlapped' =>
              \A d \in Destinations :
                /\ row[d].status = "SENT" => row'[d].status = "SENT"
                /\ d \in accepted /\ AboutToDeliver(d)' => (crashes + faults > 0)']_vars
  <2> SUFFICES ASSUME EmailInv, ResendNoticed', [Next]_vars, ~overlapped', NEW d \in Destinations
               PROVE  /\ row[d].status = "SENT" => row'[d].status = "SENT"
                      /\ d \in accepted /\ AboutToDeliver(d)' => (crashes + faults > 0)'
    OBVIOUS
  <2>1. SerialInv /\ TypeOK /\ [Step /\ Alone']_deliveryVars
    BY DEF EmailInv, Next, vars
  <2>2. RecordKept
    BY <2>1, StepDelivery, EmailAssumption DEF SerialInv
  <2>3. ASSUME d \in accepted, AboutToDeliver(d)' PROVE (crashes + faults > 0)'
    <3>1. d \in accepted'
      BY <2>1, <2>3, AcceptedGrows
    <3> QED
      BY <2>3, <3>1 DEF ResendNoticed
  <2> QED
    BY <2>2, <2>3 DEF RecordKept
<1>2. EmailInv => (~overlapped => ResendNoticed)
  BY ResendIsNoticed, EmailAssumption DEF EmailInv, SerialInv
<1> QED
  BY <1>1, <1>2, EmailInvariant, PTL DEF Spec, ResentOnlyIfUnrecorded

\* While requests do not overlap, no worker takes a job that came due while
\* nothing ran.
THEOREM MissedJobsWait == Spec => OverdueNeedsConfirmation
<1>1. EmailInv /\ [Next]_vars
        => [~overlapped' =>
              \A w \in Workers :
                At(w, "lease") /\ sender'[w].pc = "read" => job.runAt # "missed"]_vars
  <2> SUFFICES ASSUME EmailInv, Next, ~overlapped',
                      NEW w \in Workers, At(w, "lease"), sender'[w].pc = "read"
               PROVE  job.runAt # "missed"
    OBVIOUS
  <2>0. TypeOK /\ DeliveryInv /\ MissedIsHeld /\ Step
    BY DEF EmailInv, SerialInv, Next
  <2>1. sender \in [Senders -> Sender] /\ w \in Senders /\ sender[w].pc = "lease"
    BY <2>0 DEF TypeOK, Senders, At
  <2>2. \A s \in Senders \ {w} : sender[s].pc = "idle"
    BY <2>0, <2>1 DEF DeliveryInv, Alone
  <2>3. CASE LeaseJob(w)
    BY <2>0, <2>3, <2>1 DEF LeaseJob, Leave, Idle, MissedIsHeld
  <2>4. ASSUME NEW s \in Senders \ {w},
               ExpireLeases(s) \/ RequestSend(s) \/ FindOverdue(s)
        PROVE  FALSE
    BY <2>1, <2>4 DEF ExpireLeases, RequestSend, FindOverdue, Goto
  <2>5. ASSUME NEW s \in Senders, SendStep(s)
        PROVE  FALSE
    BY <2>1, <2>2, <2>5 DEF SendStep, At, ReadAnnouncement, RecoverInterrupted,
       ListRecipients, OpenSending, BeginAttempt, Deliver, RecordResult, CountResults, FinishSend
  <2>6. ASSUME NEW v \in Workers, WorkerStep(v)
        PROVE  LeaseJob(w)
    BY <2>1, <2>2, <2>4, <2>5, <2>6
       DEF WorkerStep, Senders, At, ExpireLeases, MarkOverdue,
       FindDue, LeaseJob, FailJob
  <2>7. ASSUME NEW s \in Staff, StaffStep(s)
        PROVE  FALSE
    <3>1. s \in Senders \ {w}
      BY EmailAssumption DEF EmailAssumption, Senders
    <3> QED
      BY <2>2, <2>4, <2>5, <2>7, <3>1 DEF StaffStep, ConfirmOverdue, At
  <2>8. CASE Handler
    BY <2>1, <2>8 DEF Handler, SaveConnection, TestConnection, CreateAnnouncement,
       UpdateAnnouncement, CancelAnnouncement
  <2>9. CASE Environment
    <3>1. ASSUME NEW s \in Senders,
                 \/ \E d \in Destinations : LoseAnswer(s, d)
                 \/ RecordFails(s) \/ StatementFails(s)
          PROVE  s = w
      BY <2>2, <3>1 DEF LoseAnswer, RecordFails, StatementFails, At
    <3>2. (\A d : ~LoseAnswer(w, d)) /\ ~RecordFails(w) /\ ~StatementFails(w)
      BY <2>1 DEF LoseAnswer, RecordFails, StatementFails, At
    <3> QED
      BY <2>1, <2>9, <3>1, <3>2
         DEF Environment, JobComesDue, LeaseEnds, AttemptGrowsStale,
         Restart, Idle
  <2> QED
    BY <2>0, <2>3, <2>6, <2>7, <2>8, <2>9 DEF Step
<1> QED
  BY <1>1, EmailInvariant, PTL DEF Spec, OverdueNeedsConfirmation

\* While requests do not overlap, a destination reported accepted was, an
\* announcement reported SENT was accepted for every eligible destination but
\* those a crash or a failing statement left without a result, and a COMPLETED
\* job belongs to such an announcement, after any retries and edits.
THEOREM ReportIsTruthful == Spec => []ReportIsTrue
<1>1. EmailInv => ReportIsTrue
  <2> SUFFICES ASSUME EmailInv, ~overlapped PROVE
        /\ \A d \in Destinations :
             /\ row[d].status = "SENT" => d \in accepted
             /\ status = "SENT" =>
                  \/ row[d].status \in {"NONE", "HELD", "SENT"}
                  \/ row[d].status = "SENDING" /\ crashes + faults > 0
        /\ job.status = "COMPLETED" => status = "SENT"
    BY DEF ReportIsTrue
  <2>1. ReportInv /\ AcceptedInv /\ crashes \in Nat /\ faults \in Nat
    BY DEF EmailInv, SerialInv, TypeOK, EmailAssumption
  <2>2. crashes + faults = 0 \/ crashes + faults > 0
    BY <2>1
  <2> QED
    BY <2>1, <2>2 DEF ReportInv, AcceptedInv, SentIsSettled, NoneSending, Settled
<1> QED
  BY <1>1, EmailInvariant, PTL
=============================================================================
