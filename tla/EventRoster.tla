----------------------------- MODULE EventRoster -----------------------------
(***************************************************************************)
(* Events: the roster snapshot taken from groups, RSVPs and attendance,    *)
(* volunteers, the packing list, reminders and the calendar feeds          *)
(* (src/lib/events-service.ts with the handlers of                         *)
(* src/app/events-actions.ts, src/lib/calendar-feed.ts and the calendar    *)
(* routes).  Every transaction is a step; the attendance handler and the   *)
(* private feed read before a later statement and take two.  Event files   *)
(* are in ManagedFiles, the delivery of a reminder in EmailDelivery.       *)
(***************************************************************************)
EXTENDS Directory

CONSTANTS Events, Opportunities, Items, Tokens,
          EventOf,      \* the event an opportunity is created for
          MaxQuantity   \* the 999 of the packing list and the 500 of a capacity

ASSUME EventAssumption == /\ EventOf \in [Opportunities -> Events]
                          /\ MaxQuantity \in Nat \ {0}
                          /\ IsFiniteSet(People)

VARIABLES event,         \* Event rows: [status, public, rsvp, attendance]
          sources,       \* EventGroup rows not removed: <<event, group>>
          roster,        \* EventParticipant.status by event and person
          rsvp,          \* EventRsvp.status
          attendance,    \* AttendanceRecord.status
          marking,       \* people on the roster an attendance request has read
          items,         \* EventEquipmentItem rows: [quantity, packed]
          opportunity,   \* VolunteerOpportunity rows: [status, capacity]
          signup,        \* VolunteerSignup.status by opportunity and person
          reminders,     \* EventReminder rows with the people their announcement targets
          subscription,  \* CalendarSubscription: "ABSENT", "LIVE", "REVOKED"
          serving        \* tokens whose request has passed the lookup

rosterVars == <<sources, roster, rsvp, attendance, marking>>
volunteerVars == <<opportunity, signup>>
calendarVars == <<subscription, serving>>
eventVars == <<directoryVars, event, rosterVars, items, volunteerVars, reminders,
               calendarVars>>

EventStatus == {"ABSENT", "DRAFT", "PUBLISHED", "COMPLETED", "CANCELED"}
Audience == {"PARTICIPANTS", "GUARDIANS", "VOLUNTEERS"}
Details == [public : BOOLEAN, rsvp : BOOLEAN, attendance : BOOLEAN]

Held(e) == event[e].status # "ABSENT"
OnRoster(e) == {p \in People : roster[e][p] = "ACTIVE"}
Confirmed(o) == {p \in People : signup[o][p] = "CONFIRMED"}
SourcesOf(e) == {g \in Groups : <<e, g>> \in sources}

EventInit ==
  /\ DirectoryInit
  /\ event = [e \in Events |->
       [status |-> "ABSENT", public |-> FALSE, rsvp |-> FALSE, attendance |-> FALSE]]
  /\ sources = {}
  /\ roster = [e \in Events |-> [p \in People |-> "NONE"]]
  /\ rsvp = [e \in Events |-> [p \in People |-> "PENDING"]]
  /\ attendance = [e \in Events |-> [p \in People |-> "NOT_RECORDED"]]
  /\ marking = [e \in Events |-> {}]
  /\ items = [i \in Items |-> [quantity |-> 0, packed |-> 0]]
  /\ opportunity = [o \in Opportunities |-> [status |-> "ABSENT", capacity |-> 0]]
  /\ signup = [o \in Opportunities |-> [p \in People |-> "NONE"]]
  /\ reminders = {}
  /\ subscription = [t \in Tokens |-> "ABSENT"]
  /\ serving = {}

-----------------------------------------------------------------------------
(* The roster. *)

\* activeStudentIdsForGroups: every group asked for has to be active.
ActiveGroups(gs) == \A g \in gs : groupStatus[g] = "ACTIVE"
StudentsOfGroups(gs) == UNION {ActiveStudentsOf(g) : g \in gs}

\* Mistake: a new row takes the place of a removed one, with new answers.
Renewed(e, ps, restore) ==
  /\ roster' = [roster EXCEPT ![e] = [p \in People |->
       IF p \in ps /\ (@[p] = "NONE" \/ restore) THEN "ACTIVE" ELSE @[p]]]
  /\ rsvp' = [rsvp EXCEPT ![e] = [p \in People |->
       IF p \in ps \ OnRoster(e) THEN "PENDING" ELSE @[p]]]
  /\ UNCHANGED attendance

\* Mistake: a refresh brings back whoever staff took off the roster.
AlwaysRestored(e, ps, restore) ==
  /\ roster' = [roster EXCEPT ![e] = [p \in People |->
       IF p \in ps THEN "ACTIVE" ELSE @[p]]]
  /\ UNCHANGED <<rsvp, attendance>>

\* createParticipantRecords: a person without a row gets one, with an RSVP and an
\* attendance record that say nothing yet; a REMOVED row is restored on request only.
CreateParticipantRecords(e, ps, restore) ==
  /\ roster' = [roster EXCEPT ![e] = [p \in People |->
       IF p \in ps /\ (@[p] = "NONE" \/ restore) THEN "ACTIVE" ELSE @[p]]]
  /\ UNCHANGED <<rsvp, attendance>>

CreateEvent(e, details, gs) ==
  /\ ~Held(e)
  /\ ActiveGroups(gs)
  /\ event' = [event EXCEPT ![e] =
       [status |-> "DRAFT", public |-> details.public, rsvp |-> details.rsvp,
        attendance |-> details.attendance]]
  /\ sources' = sources \cup ({e} \X gs)
  /\ CreateParticipantRecords(e, StudentsOfGroups(gs), FALSE)
  /\ UNCHANGED <<directoryVars, marking, items, volunteerVars, reminders, calendarVars>>

\* None of the operations on an event below asks for its status.
RosterStep(e) ==
  /\ Held(e)
  /\ UNCHANGED <<directoryVars, event, items, volunteerVars, reminders, calendarVars>>

AddEventGroup(e, g) ==
  /\ RosterStep(e)
  /\ ActiveGroups({g})
  /\ sources' = sources \cup {<<e, g>>}
  /\ CreateParticipantRecords(e, ActiveStudentsOf(g), FALSE)
  /\ UNCHANGED marking

\* The people the group brought stay.
RemoveEventGroup(e, g) ==
  /\ RosterStep(e)
  /\ <<e, g>> \in sources
  /\ sources' = sources \ {<<e, g>>}
  /\ UNCHANGED <<roster, rsvp, attendance, marking>>

\* Refused as a whole when one of the event's groups has become inactive.
RefreshEventRoster(e) ==
  /\ RosterStep(e)
  /\ ActiveGroups(SourcesOf(e))
  /\ CreateParticipantRecords(e, StudentsOfGroups(SourcesOf(e)), FALSE)
  /\ UNCHANGED <<sources, marking>>

\* Any active person, a student or not.
AddEventParticipant(e, p) ==
  /\ RosterStep(e)
  /\ personStatus[p] = "ACTIVE"
  /\ p \notin OnRoster(e)
  /\ CreateParticipantRecords(e, {p}, TRUE)
  /\ UNCHANGED <<sources, marking>>

RemoveEventParticipant(e, p) ==
  /\ RosterStep(e)
  /\ p \in OnRoster(e)
  /\ roster' = [roster EXCEPT ![e][p] = "REMOVED"]
  /\ UNCHANGED <<sources, rsvp, attendance, marking>>

RecordEventRsvp(e, p, answer) ==
  /\ RosterStep(e)
  /\ event[e].rsvp
  /\ p \in OnRoster(e)
  /\ rsvp' = [rsvp EXCEPT ![e][p] = answer]
  /\ UNCHANGED <<sources, roster, attendance, marking>>

\* recordAttendanceAction takes the roster to mark from a read of its own.
ReadAttendanceRoster(e) ==
  /\ RosterStep(e)
  /\ marking[e] = {}
  /\ marking' = [marking EXCEPT ![e] = OnRoster(e)]
  /\ UNCHANGED <<sources, roster, rsvp, attendance>>

\* Mistake: who has left the roster meanwhile is passed over.
SomeStillOnRoster(e) == marking[e] \cap OnRoster(e) # {}

\* The whole sheet is refused when one of its people has left the roster.
AllStillOnRoster(e) == marking[e] \subseteq OnRoster(e)

RecordAttendance(e, marks) ==
  /\ RosterStep(e)
  /\ marking[e] # {}
  /\ attendance' =
       IF event[e].attendance /\ AllStillOnRoster(e)
       THEN [attendance EXCEPT ![e] = [p \in People |->
               IF p \in marking[e] THEN marks[p] ELSE @[p]]]
       ELSE attendance
  /\ marking' = [marking EXCEPT ![e] = {}]
  /\ UNCHANGED <<sources, roster, rsvp>>

RosterNext ==
  \E e \in Events :
    \/ \E details \in Details, gs \in SUBSET Groups : CreateEvent(e, details, gs)
    \/ \E g \in Groups : AddEventGroup(e, g) \/ RemoveEventGroup(e, g)
    \/ RefreshEventRoster(e)
    \/ \E p \in People :
         \/ AddEventParticipant(e, p)
         \/ RemoveEventParticipant(e, p)
         \/ \E answer \in {"PENDING", "YES"} : RecordEventRsvp(e, p, answer)
    \/ ReadAttendanceRoster(e)
    \/ \E marks \in [People -> {"NOT_RECORDED", "PRESENT"}] : RecordAttendance(e, marks)

-----------------------------------------------------------------------------
(* Details, status and calendars. *)

UpdateEvent(e, details) ==
  /\ Held(e)
  /\ event' = [event EXCEPT ![e] =
       [status |-> @.status, public |-> details.public, rsvp |-> details.rsvp,
        attendance |-> details.attendance]]
  /\ UNCHANGED <<directoryVars, rosterVars, items, volunteerVars, reminders, calendarVars>>

\* Mistake: a published event can be taken back to a draft.
MovesBack(from) == IF from = "PUBLISHED" THEN {"DRAFT", "COMPLETED", "CANCELED"}
                   ELSE IF from = "DRAFT" THEN {"PUBLISHED", "CANCELED"} ELSE {}

AllowedTransitions(from) ==
  CASE from = "DRAFT" -> {"PUBLISHED", "CANCELED"}
    [] from = "PUBLISHED" -> {"COMPLETED", "CANCELED"}
    [] OTHER -> {}

SetEventStatus(e, status) ==
  /\ status \in AllowedTransitions(event[e].status)
  /\ event' = [event EXCEPT ![e].status = status]
  /\ UNCHANGED <<directoryVars, rosterVars, items, volunteerVars, reminders, calendarVars>>

\* buildCalendarFeed; the embedded page lists the public ones too.
Feed(visibility) ==
  {e \in Events : /\ event[e].status \in {"PUBLISHED", "COMPLETED"}
                  /\ visibility = "public" => event[e].public}

CalendarStep == UNCHANGED <<directoryVars, event, rosterVars, items, volunteerVars, reminders>>

CreateCalendarSubscription(t) ==
  /\ CalendarStep
  /\ subscription[t] = "ABSENT"
  /\ subscription' = [subscription EXCEPT ![t] = "LIVE"]
  /\ UNCHANGED serving

RevokeCalendarSubscription(t) ==
  /\ CalendarStep
  /\ subscription[t] # "ABSENT"
  /\ subscription' = [subscription EXCEPT ![t] = "REVOKED"]
  /\ UNCHANGED serving

FindCalendarSubscription(t) ==
  /\ CalendarStep
  /\ subscription[t] = "LIVE"
  /\ serving' = serving \cup {t}
  /\ UNCHANGED subscription

\* The feed is read and sent whatever has become of the subscription; its row
\* takes the time of use.
ServePrivateFeed(t) ==
  /\ CalendarStep
  /\ t \in serving
  /\ serving' = serving \ {t}
  /\ UNCHANGED subscription

CalendarNext ==
  \/ \E e \in Events :
       \/ \E details \in Details : UpdateEvent(e, details)
       \/ \E status \in EventStatus : SetEventStatus(e, status)
  \/ \E t \in Tokens :
       \/ CreateCalendarSubscription(t)
       \/ RevokeCalendarSubscription(t)
       \/ FindCalendarSubscription(t)
       \/ ServePrivateFeed(t)

-----------------------------------------------------------------------------
(* The packing list. *)

EquipmentStep ==
  UNCHANGED <<directoryVars, event, rosterVars, volunteerVars, reminders, calendarVars>>

AddEventEquipmentItem(e, i, quantity) ==
  /\ EquipmentStep
  /\ Held(e)
  /\ items[i].quantity = 0
  /\ items' = [items EXCEPT ![i] = [quantity |-> quantity, packed |-> 0]]

\* Mistake: the count is checked against the form's limit, not the item's quantity.
WithinForm(i, packed) == packed <= MaxQuantity

WithinQuantity(i, packed) == packed <= items[i].quantity

UpdateEventEquipmentPacking(i, packed) ==
  /\ EquipmentStep
  /\ items[i].quantity > 0
  /\ WithinQuantity(i, packed)
  /\ items' = [items EXCEPT ![i].packed = packed]

RemoveEventEquipmentItem(i) ==
  /\ EquipmentStep
  /\ items[i].quantity > 0
  /\ items' = [items EXCEPT ![i] = [quantity |-> 0, packed |-> 0]]

EquipmentNext ==
  \E i \in Items :
    \/ \E e \in Events, quantity \in 1..MaxQuantity : AddEventEquipmentItem(e, i, quantity)
    \/ \E packed \in 0..MaxQuantity : UpdateEventEquipmentPacking(i, packed)
    \/ RemoveEventEquipmentItem(i)

-----------------------------------------------------------------------------
(* Volunteers and reminders. *)

VolunteerStep ==
  UNCHANGED <<directoryVars, event, rosterVars, items, reminders, calendarVars>>

CreateVolunteerOpportunity(o, capacity) ==
  /\ VolunteerStep
  /\ Held(EventOf[o])
  /\ opportunity[o].status = "ABSENT"
  /\ opportunity' = [opportunity EXCEPT ![o] = [status |-> "OPEN", capacity |-> capacity]]
  /\ UNCHANGED signup

\* CLOSED stands for CLOSED and CANCELED: signing up asks for OPEN.
OpportunityStatus == {"ABSENT", "OPEN", "CLOSED"}

\* Any status from any status; the signups stay.
SetVolunteerOpportunityStatus(o, status) ==
  /\ VolunteerStep
  /\ opportunity[o].status # "ABSENT"
  /\ opportunity' = [opportunity EXCEPT ![o].status = status]
  /\ UNCHANGED signup

\* Mistake: a volunteer who comes back gets the old place.
PlaceKept(o, p) ==
  Cardinality(Confirmed(o)) < opportunity[o].capacity \/ signup[o][p] = "CANCELED"

\* Asked of a volunteer already confirmed as well.
PlaceLeft(o, p) == Cardinality(Confirmed(o)) < opportunity[o].capacity

AddVolunteerSignup(o, p) ==
  /\ VolunteerStep
  /\ opportunity[o].status = "OPEN"
  /\ PlaceLeft(o, p)
  /\ personStatus[p] = "ACTIVE"
  /\ signup' = [signup EXCEPT ![o][p] = "CONFIRMED"]
  /\ UNCHANGED opportunity

CancelVolunteerSignup(o, p) ==
  /\ VolunteerStep
  /\ signup[o][p] # "NONE"
  /\ signup' = [signup EXCEPT ![o][p] = "CANCELED"]
  /\ UNCHANGED opportunity

\* The people a reminder is about: PARTICIPANTS and GUARDIANS start from the roster.
ReminderPeople(e, audience) ==
  IF audience = "VOLUNTEERS"
  THEN UNION {Confirmed(o) : o \in {o \in Opportunities : EventOf[o] = e}}
  ELSE OnRoster(e)

\* createEventReminderAnnouncement: the announcement and the reminder in one
\* transaction, refused when the audience is empty.
CreateEventReminder(e, audience) ==
  /\ Held(e)
  /\ ReminderPeople(e, audience) # {}
  /\ reminders' = reminders \cup
       {[event |-> e, audience |-> audience, people |-> ReminderPeople(e, audience)]}
  /\ UNCHANGED <<directoryVars, event, rosterVars, items, volunteerVars, calendarVars>>

VolunteerNext ==
  \E o \in Opportunities :
    \/ \E capacity \in 1..MaxQuantity : CreateVolunteerOpportunity(o, capacity)
    \/ \E status \in OpportunityStatus \ {"ABSENT"} : SetVolunteerOpportunityStatus(o, status)
    \/ \E p \in People : AddVolunteerSignup(o, p) \/ CancelVolunteerSignup(o, p)

ReminderNext ==
  \E e \in Events, audience \in Audience : CreateEventReminder(e, audience)

EventDirectoryNext ==
  /\ PersonNext \/ GroupNext
  /\ UNCHANGED <<event, rosterVars, items, volunteerVars, reminders, calendarVars>>

EventNext == \/ EventDirectoryNext \/ RosterNext \/ CalendarNext
             \/ EquipmentNext \/ VolunteerNext \/ ReminderNext

EventSpec == EventInit /\ [][EventNext]_eventVars

-----------------------------------------------------------------------------
(* Properties. *)

\* Type invariant.  A row of the roster belongs to a record that exists, answers and
\* marks to a row, and no more is packed than the packing list asks for.
EventTypeOK ==
  /\ DirectoryTypeOK
  /\ \A e \in Events :
       /\ event[e].status \in EventStatus
       /\ \A p \in People :
            /\ roster[e][p] \in {"NONE", "ACTIVE", "REMOVED"}
            /\ roster[e][p] # "NONE" => Held(e) /\ Person(p)
            /\ rsvp[e][p] # "PENDING" \/ attendance[e][p] # "NOT_RECORDED"
                 => roster[e][p] # "NONE"
       /\ \A p \in marking[e] : roster[e][p] # "NONE"
  /\ \A es \in sources : Held(es[1]) /\ Group(es[2])
  /\ \A i \in Items : items[i].packed <= items[i].quantity
  /\ \A o \in Opportunities :
       /\ opportunity[o].status \in OpportunityStatus
       /\ opportunity[o].status # "ABSENT" => Held(EventOf[o])
  /\ \A r \in reminders : r.people # {} /\ Held(r.event)

\* A volunteer opportunity never has more confirmed people than places, whoever
\* cancels, comes back or signs up again in whatever order (addVolunteerSignup).
NoOverbooking ==
  \A o \in Opportunities : Cardinality(Confirmed(o)) <= opportunity[o].capacity

\* What was answered and marked for a person outlives the person's removal from the
\* roster, the return and every refresh: a row never goes away and a step that moves
\* it leaves its RSVP and its attendance alone ("preserving history",
\* removeEventParticipant; createParticipantRecords keeps the row of a person it restores).
HistoryKept ==
  [][\A e \in Events, p \in People :
       roster'[e][p] # roster[e][p] =>
         /\ roster'[e][p] # "NONE"
         /\ rsvp'[e][p] = rsvp[e][p]
         /\ attendance'[e][p] = attendance[e][p]]_<<roster, rsvp, attendance>>

\* Whoever staff took off the roster comes back only by hand, alone and as an active
\* person: taking in a group again or refreshing the snapshot restores nobody.
RemovedComesBackByHand ==
  [][\A e \in Events, p \in People :
       roster[e][p] = "REMOVED" /\ roster'[e][p] = "ACTIVE" =>
         /\ personStatus[p] = "ACTIVE"
         /\ roster' = [roster EXCEPT ![e][p] = "ACTIVE"]
         /\ sources' = sources]_<<roster, sources>>

\* An attendance sheet is saved for all the people it was made out for or for none:
\* a mark that changes belongs to a sheet that was read and whose people are all
\* still on the roster (recordAttendanceAction, recordAttendance).
AttendanceSavedWhole ==
  [][\A e \in Events :
       attendance'[e] # attendance[e] =>
         /\ event[e].attendance
         /\ marking[e] \subseteq OnRoster(e)
         /\ \A p \in People \ marking[e] : attendance'[e][p] = attendance[e][p]]_attendance

\* An event that has appeared on the private calendar leaves it only by being
\* canceled, and one canceled or completed has the status for good (setEventStatus
\* read with buildCalendarFeed).
CalendarKeepsEvents ==
  [][/\ \A e \in Feed("private") \ Feed("private")' : event'[e].status = "CANCELED"
     /\ \A e \in Events : event[e].status \in {"COMPLETED", "CANCELED"} =>
          event'[e].status = event[e].status]_event

\* What was entered for an event, and staff's word about who takes part in it, is not
\* undone by a later step.
EventRecordsKept == HistoryKept /\ RemovedComesBackByHand /\ CalendarKeepsEvents
=============================================================================
