----------------------------- MODULE MCRecords -----------------------------
EXTENDS EventRoster, FinancialLedger, FormLifecycle, TLC
CONSTANTS v1, o1, p1, p2

MCEventOf == [o \in {o1} |-> v1]

\* Events, the ledger and the forms read the same directory and nothing of each other.
\* They, and the operations on separate parts of an event or a form, are explored side
\* by side and not in every combination: a behaviour keeps to one part.
VARIABLE part

OwnEventVars == <<event, rosterVars, items, volunteerVars, reminders, calendarVars>>
OwnFormVars == <<templateVars, campaign, responseVars, saving, reminderVars>>

OpenEvent == \E e \in Events, details \in Details : CreateEvent(e, details, {})

\* A form version of one required question and, perhaps, one upload.
OpenTemplate ==
  \/ \E keepsTime \in BOOLEAN : CreateFormTemplate(keepsTime)
  \/ \E q \in Questions :
       \/ QuestionsOf(1) = {} /\ AddFormQuestion(1, q, TRUE, FALSE)
       \/ /\ Cardinality(QuestionsOf(1)) = 1
          /\ \E required \in BOOLEAN : AddFormQuestion(1, q, required, TRUE)
  \/ PublishFormVersion(1)

MCInit ==
  /\ EventInit /\ LedgerInit /\ FormInit
  /\ part \in {"ledger", "roster", "calendar", "equipment", "volunteers", "template", "campaign"}

LedgerPart ==
  \/ LedgerNext /\ UNCHANGED eventVars
  \/ DirectoryNext /\ UNCHANGED <<ledgerVars, OwnEventVars>>

EventParts ==
  \/ part = "roster" /\ (EventDirectoryNext \/ RosterNext \/ ReminderNext)
  \/ part = "calendar" /\ (OpenEvent \/ CalendarNext)
  \/ part = "equipment" /\ (OpenEvent \/ EquipmentNext)
  \/ part = "volunteers" /\ (EventDirectoryNext \/ OpenEvent \/ VolunteerNext \/ ReminderNext)

\* A campaign reads the directory when it is created, and afterwards only a reminder
\* asks who is ACTIVE: people may change between its read and its announcement.
FormParts ==
  \/ part = "template" /\ TemplateNext
  \/ /\ part = "campaign"
     /\ \/ (\A c \in Campaigns : campaign[c] = 0) /\ FormDirectoryNext
        \/ /\ \E a \in Announcements : reminding[a].step = "read"
           /\ \E p \in People, status \in {"ACTIVE", "INACTIVE"} : UpdatePerson(p, status, FALSE)
           /\ UNCHANGED OwnFormVars
        \/ OpenTemplate \/ CampaignNext \/ FormReminderNext

MCNext ==
  /\ \/ part = "ledger" /\ LedgerPart /\ UNCHANGED OwnFormVars
     \/ EventParts /\ UNCHANGED <<ledgerVars, OwnFormVars>>
     \/ FormParts /\ UNCHANGED <<ledgerVars, OwnEventVars>>
  /\ UNCHANGED part

MCSpec == MCInit /\ [][MCNext]_<<eventVars, ledgerVars, OwnFormVars, part>>

\* An event reminder changes nothing but the list of reminders, so a behaviour ends with
\* its first; where the roster is explored the event is private and has one switch for
\* RSVPs and attendance.
EventBound ==
  /\ reminders = {}
  /\ part \in {"roster", "volunteers"} =>
       \A e \in Events : ~event[e].public /\ event[e].rsvp = event[e].attendance

\* In the template part every question is a required one without a file.  In the
\* campaign part one person may be a student, who has the two requests of a campaign to
\* students and guardians, and the groups, which only choose students, stay empty; a
\* reminder, which reads the requests and of which nothing reads anything, is made where
\* no retention runs, and a behaviour ends with the first that is through.
FormBound ==
  /\ part = "template" =>
       \A q \in Questions :
         /\ ~question[q].file
         /\ question[q] # NoQuestion => question[q].required
  /\ part = "campaign" =>
       /\ Cardinality(students) <= 1
       /\ \A g \in Groups : groupStatus[g] = "ABSENT"
       /\ \A a \in Announcements : /\ reminding[a].step # "ended"
                                   /\ timed # {} => reminding[a] = Unused

Bound == EventBound /\ FormBound

\* Unused keys are interchangeable: taking the lowest stands for taking any.
LowestKeys ==
  \A q \in Questions : question[q] = NoQuestion /\ question'[q] # NoQuestion =>
    \A r \in 1 .. q - 1 : question'[r] # NoQuestion

Symmetry == Permutations({p1, p2}) \cup Permutations(EntryIds)
=============================================================================
