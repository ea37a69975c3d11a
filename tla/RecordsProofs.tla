---------------------------- MODULE RecordsProofs ----------------------------
(***************************************************************************)
(* Proofs about the records that hang on the directory: EventRoster, for   *)
(* any number of events, groups and volunteer opportunities and any finite *)
(* number of people, and FormLifecycle, for any number of versions,        *)
(* campaigns and announcements and any finite number of people and         *)
(* questions.  The directory's own steps are proved in LedgerProofs.       *)
(*                                                                         *)
(* EInv is inductive.  Beyond the checked type invariant it has the types  *)
(* of the rows, and that an opportunity has no places before it exists.    *)
(*                                                                         *)
(* FormInv is inductive.  It says more of the template than the checked    *)
(* invariants: versions are numbered without a gap, and no two questions   *)
(* of a version are on one position, without which a removal or a copy     *)
(* could leave a gap behind.                                               *)
(***************************************************************************)
EXTENDS EventRoster, FormLifecycle, LedgerProofs, FiniteSetTheorems

-----------------------------------------------------------------------------
\* Events.

\* The rows of the events.
EventRows ==
  event \in [Events -> [status : EventStatus, public : BOOLEAN,
                        rsvp : BOOLEAN, attendance : BOOLEAN]]

\* The rows that hang on a roster, and what they refer to.
RosterRows ==
  /\ roster \in [Events -> [People -> {"NONE", "ACTIVE", "REMOVED"}]]
  /\ rsvp \in [Events -> [People -> {"PENDING", "YES"}]]
  /\ attendance \in [Events -> [People -> {"NOT_RECORDED", "PRESENT"}]]
  /\ marking \in [Events -> SUBSET People]
  /\ sources \subseteq Events \X Groups

RosterRefers ==
  /\ \A e \in Events, p \in People :
       /\ roster[e][p] # "NONE" => Held(e) /\ Person(p)
       /\ rsvp[e][p] # "PENDING" \/ attendance[e][p] # "NOT_RECORDED" => roster[e][p] # "NONE"
       /\ p \in marking[e] => roster[e][p] # "NONE"
  /\ \A e \in Events, g \in Groups : <<e, g>> \in sources => Held(e) /\ Group(g)

\* The packing list.
ItemsInv ==
  /\ items \in [Items -> [quantity : Nat, packed : Nat]]
  /\ \A i \in Items : items[i].packed <= items[i].quantity

\* Volunteers.
VolunteerInv ==
  /\ opportunity \in [Opportunities -> [status : OpportunityStatus, capacity : Nat]]
  /\ signup \in [Opportunities -> [People -> {"NONE", "CONFIRMED", "CANCELED"}]]
  /\ \A o \in Opportunities :
       /\ opportunity[o].status = "ABSENT" => opportunity[o].capacity = 0
       /\ opportunity[o].status # "ABSENT" => Held(EventOf[o])
       /\ Cardinality(Confirmed(o)) <= opportunity[o].capacity

\* Reminders.
RemindersInv ==
  \A r \in reminders : r.people # {} /\ r.event \in Events /\ Held(r.event)

EInv == /\ DirectoryTypeOK /\ EventRows
        /\ RosterRows /\ RosterRefers
        /\ ItemsInv /\ VolunteerInv /\ RemindersInv

-----------------------------------------------------------------------------
\* The inductive invariant is what the runs check, and more.
LEMMA EInvImplies == EInv => EventTypeOK /\ NoOverbooking
<1> SUFFICES ASSUME EInv PROVE EventTypeOK /\ NoOverbooking
  OBVIOUS
<1>1. \A e \in Events : event[e].status \in EventStatus
  BY DEF EInv, EventRows
<1>2. \A e \in Events, p \in People : roster[e][p] \in {"NONE", "ACTIVE", "REMOVED"}
  BY DEF EInv, RosterRows
<1>3. \A e \in Events : \A p \in marking[e] : roster[e][p] # "NONE"
  BY DEF EInv, RosterRows, RosterRefers
<1>4. \A es \in sources : Held(es[1]) /\ Group(es[2])
  BY DEF EInv, RosterRows, RosterRefers
<1>5. \A o \in Opportunities : opportunity[o].status \in OpportunityStatus
  BY DEF EInv, VolunteerInv
<1> QED
  BY <1>1, <1>2, <1>3, <1>4, <1>5
     DEF EInv, EventTypeOK, RosterRefers, ItemsInv, VolunteerInv, RemindersInv, NoOverbooking

\* The empty program of first-run set-up.
LEMMA EInvInit == EventInit => EInv
<1> SUFFICES ASSUME EventInit PROVE EInv
  OBVIOUS
<1>1. DirectoryTypeOK
  BY DEF EventInit, DirectoryInit, DirectoryTypeOK, RecordStatus
<1>2. EventRows /\ RosterRows /\ RosterRefers /\ ItemsInv /\ RemindersInv
  BY DEF EventInit, EventRows, EventStatus, RosterRows, RosterRefers, ItemsInv, RemindersInv
<1>3. VolunteerInv
  <2>1. \A o \in Opportunities : Confirmed(o) = {}
    BY DEF EventInit, Confirmed
  <2>2. \A o \in Opportunities : /\ opportunity[o] = [status |-> "ABSENT", capacity |-> 0]
                                 /\ Cardinality(Confirmed(o)) = 0
    BY <2>1, FS_EmptySet DEF EventInit
  <2>3. /\ opportunity \in [Opportunities -> [status : OpportunityStatus, capacity : Nat]]
        /\ signup \in [Opportunities -> [People -> {"NONE", "CONFIRMED", "CANCELED"}]]
    BY DEF EventInit, OpportunityStatus
  <2> QED
    BY <2>2, <2>3 DEF VolunteerInv
<1> QED
  BY <1>1, <1>2, <1>3 DEF EInv

\* People and groups that exist go on to exist.
LEMMA RecordsStay ==
  ASSUME DirectoryTypeOK, PersonNext \/ GroupNext
  PROVE  /\ DirectoryTypeOK'
         /\ \A p \in People : Person(p) => Person(p)'
         /\ \A g \in Groups : Group(g) => Group(g)'
<1>1. DirectoryTypeOK'
  BY DirectoryStep DEF DirectoryNext
<1>2. \A p \in People : Person(p) => Person(p)'
  BY DEF DirectoryTypeOK, PersonNext, GroupNext, CreatePerson, UpdatePerson, ClassifyStudent,
     CreateGroup, UpdateGroup, AddGroupMembership, EndGroupMembership, Person
<1>3. \A g \in Groups : Group(g) => Group(g)'
  BY DEF DirectoryTypeOK, PersonNext, GroupNext, CreatePerson, UpdatePerson, ClassifyStudent,
     CreateGroup, UpdateGroup, AddGroupMembership, EndGroupMembership, Group
<1> QED
  BY <1>1, <1>2, <1>3

\* Each group of handlers writes rows of its own.
LEMMA OwnRows ==
  ASSUME [EventNext]_eventVars
  PROVE  /\ ~EventDirectoryNext => UNCHANGED directoryVars
         /\ ~(RosterNext \/ CalendarNext) => UNCHANGED event
         /\ ~RosterNext => UNCHANGED rosterVars
         /\ ~EquipmentNext => UNCHANGED items
         /\ ~VolunteerNext => UNCHANGED volunteerVars
         /\ ~ReminderNext => UNCHANGED reminders
<1>1. EventDirectoryNext =>
        UNCHANGED <<event, rosterVars, items, volunteerVars, reminders>>
  BY DEF EventDirectoryNext
<1>2. RosterNext => UNCHANGED <<directoryVars, items, volunteerVars, reminders>>
  BY DEF RosterNext, CreateEvent, AddEventGroup, RemoveEventGroup, RefreshEventRoster,
     AddEventParticipant, RemoveEventParticipant, RecordEventRsvp, ReadAttendanceRoster,
     RecordAttendance, RosterStep
<1>3. CalendarNext => UNCHANGED <<directoryVars, rosterVars, items, volunteerVars, reminders>>
  BY DEF CalendarNext, UpdateEvent, SetEventStatus, CreateCalendarSubscription,
     RevokeCalendarSubscription, FindCalendarSubscription, ServePrivateFeed, CalendarStep
<1>4. EquipmentNext => UNCHANGED <<directoryVars, event, rosterVars, volunteerVars, reminders>>
  BY DEF EquipmentNext, AddEventEquipmentItem, UpdateEventEquipmentPacking,
     RemoveEventEquipmentItem, EquipmentStep
<1>5. VolunteerNext => UNCHANGED <<directoryVars, event, rosterVars, items, reminders>>
  BY DEF VolunteerNext, CreateVolunteerOpportunity, SetVolunteerOpportunityStatus,
     AddVolunteerSignup, CancelVolunteerSignup, VolunteerStep
<1>6. ReminderNext => UNCHANGED <<directoryVars, event, rosterVars, items, volunteerVars>>
  BY DEF ReminderNext, CreateEventReminder
<1>7. UNCHANGED eventVars =>
        UNCHANGED <<directoryVars, event, rosterVars, items, volunteerVars, reminders>>
  BY DEF eventVars
<1> QED
  BY <1>1, <1>2, <1>3, <1>4, <1>5, <1>6, <1>7 DEF EventNext

\* An event never leaves the table, and its row keeps its type.
LEMMA EventsStay ==
  ASSUME EventRows, [EventNext]_eventVars
  PROVE  EventRows' /\ \A e \in Events : Held(e) => Held(e)'
<1>1. ASSUME NEW e \in Events, NEW details \in Details, NEW gs \in SUBSET Groups,
             CreateEvent(e, details, gs)
      PROVE  EventRows' /\ \A f \in Events : Held(f) => Held(f)'
  BY <1>1 DEF CreateEvent, EventRows, EventStatus, Details, Held
<1>2. ASSUME NEW e \in Events, NEW details \in Details, UpdateEvent(e, details)
      PROVE  EventRows' /\ \A f \in Events : Held(f) => Held(f)'
  BY <1>2 DEF UpdateEvent, EventRows, EventStatus, Details, Held
<1>3. ASSUME NEW e \in Events, NEW status \in EventStatus, SetEventStatus(e, status)
      PROVE  EventRows' /\ \A f \in Events : Held(f) => Held(f)'
  <2>1. status # "ABSENT"
    BY <1>3 DEF SetEventStatus, AllowedTransitions
  <2> QED
    BY <1>3, <2>1 DEF SetEventStatus, EventRows, Held
<1>4. CASE event' = event
  BY <1>4 DEF EventRows, Held
<1>5. CASE RosterNext
  <2>1. event' = event \/ \E e \in Events, details \in Details, gs \in SUBSET Groups :
                            CreateEvent(e, details, gs)
    BY <1>5 DEF RosterNext, AddEventGroup, RemoveEventGroup, RefreshEventRoster,
       AddEventParticipant, RemoveEventParticipant, RecordEventRsvp, ReadAttendanceRoster,
       RecordAttendance, RosterStep
  <2> QED
    BY <1>1, <1>4, <2>1
<1>6. CASE CalendarNext
  <2>1. \/ event' = event
        \/ \E e \in Events : \/ \E details \in Details : UpdateEvent(e, details)
                             \/ \E status \in EventStatus : SetEventStatus(e, status)
    BY <1>6 DEF CalendarNext, CreateCalendarSubscription, RevokeCalendarSubscription,
       FindCalendarSubscription, ServePrivateFeed, CalendarStep
  <2> QED
    BY <1>2, <1>3, <1>4, <2>1
<1>7. CASE ~(RosterNext \/ CalendarNext)
  BY <1>4, <1>7, OwnRows
<1> QED
  BY <1>5, <1>6, <1>7

-----------------------------------------------------------------------------
\* Rosters.

\* Students of groups are people.
LEMMA StudentsArePeople ==
  ASSUME DirectoryTypeOK, NEW gs \in SUBSET Groups
  PROVE  /\ StudentsOfGroups(gs) \in SUBSET People
         /\ \A p \in StudentsOfGroups(gs) : Person(p)
         /\ ActiveGroups(gs) => \A g \in gs : Group(g)
BY DEF DirectoryTypeOK, StudentsOfGroups, ActiveStudentsOf, ActiveStudents, ActiveGroups,
       Person, Group, RecordStatus

\* The rosters, answers, marks and sources after any step.
LEMMA RosterKept ==
  ASSUME EInv, [EventNext]_eventVars
  PROVE  RosterRows' /\ RosterRefers'
<1> DEFINE Goal == RosterRows' /\ RosterRefers'
<1>0. /\ DirectoryTypeOK /\ EventRows /\ RosterRows /\ RosterRefers
      /\ \A e \in Events : Held(e) => Held(e)'
  BY EventsStay DEF EInv
<1>1. ASSUME \A p \in People : Person(p) => Person(p)', \A g \in Groups : Group(g) => Group(g)',
             UNCHANGED rosterVars
      PROVE  Goal
  BY <1>0, <1>1 DEF rosterVars, RosterRows, RosterRefers
<1>2. ASSUME UNCHANGED <<personStatus, groupStatus>>
      PROVE  /\ \A p \in People : Person(p) => Person(p)'
             /\ \A g \in Groups : Group(g) => Group(g)'
  BY <1>2 DEF Person, Group
<1>3. CASE UNCHANGED rosterVars
  <2>1. CASE EventDirectoryNext
    BY <1>0, <1>1, <1>3, <2>1, RecordsStay DEF EventDirectoryNext
  <2>2. CASE ~EventDirectoryNext
    <3>1. UNCHANGED <<personStatus, groupStatus>>
      BY <2>2, OwnRows DEF directoryVars
    <3> QED
      BY <1>1, <1>2, <1>3, <3>1
  <2> QED
    BY <2>1, <2>2
<1>4. ASSUME NEW e \in Events, Held(e)', NEW ps \in SUBSET People, NEW restore \in BOOLEAN,
             \A p \in ps : Person(p),
             CreateParticipantRecords(e, ps, restore),
             sources' \subseteq sources \cup ({e} \X {g \in Groups : Group(g)}),
             UNCHANGED <<marking, personStatus, groupStatus>>
      PROVE  Goal
  <2>0. /\ roster' \in [Events -> [People -> {"NONE", "ACTIVE", "REMOVED"}]]
        /\ \A f \in Events, p \in People :
             /\ roster[f][p] # "NONE" => roster'[f][p] # "NONE"
             /\ roster'[f][p] # roster[f][p] => f = e /\ p \in ps
        /\ UNCHANGED <<rsvp, attendance>>
    <3>1. RosterRows /\ CreateParticipantRecords(e, ps, restore)
      BY <1>0, <1>4
    <3> QED
      BY <3>1 DEF CreateParticipantRecords, RosterRows
  <2>1. RosterRows'
    BY <1>0, <1>4, <2>0 DEF RosterRows
  <2>2. \A f \in Events, p \in People :
          /\ roster'[f][p] # "NONE" => Held(f)' /\ Person(p)'
          /\ rsvp'[f][p] # "PENDING" \/ attendance'[f][p] # "NOT_RECORDED"
               => roster'[f][p] # "NONE"
          /\ p \in marking'[f] => roster'[f][p] # "NONE"
    BY <1>0, <1>2, <1>4, <2>0 DEF RosterRefers
  <2>3. \A f \in Events, g \in Groups : <<f, g>> \in sources' => Held(f)' /\ Group(g)'
    BY <1>0, <1>2, <1>4 DEF RosterRefers
  <2> QED
    BY <2>1, <2>2, <2>3 DEF RosterRefers
<1>5. ASSUME NEW e \in Events, NEW details \in Details, NEW gs \in SUBSET Groups,
             CreateEvent(e, details, gs)
      PROVE  Goal
  <2>1. Held(e)'
    BY <1>0, <1>5 DEF CreateEvent, EventRows, Held
  <2>2. sources' \subseteq sources \cup ({e} \X {g \in Groups : Group(g)})
    BY <1>0, <1>5, StudentsArePeople DEF CreateEvent
  <2> QED
    BY <1>0, <1>4, <1>5, <2>1, <2>2, StudentsArePeople DEF CreateEvent, directoryVars
<1>6. ASSUME NEW e \in Events, NEW g \in Groups, AddEventGroup(e, g)
      PROVE  Goal
  <2>1. ActiveStudentsOf(g) = StudentsOfGroups({g}) /\ {g} \in SUBSET Groups
    BY DEF StudentsOfGroups
  <2>2. Held(e)' /\ UNCHANGED <<marking, personStatus, groupStatus>>
    BY <1>0, <1>6 DEF AddEventGroup, RosterStep, directoryVars
  <2>3. /\ ActiveStudentsOf(g) \in SUBSET People
        /\ \A p \in ActiveStudentsOf(g) : Person(p)
        /\ Group(g)
    BY <1>0, <1>6, <2>1, StudentsArePeople DEF AddEventGroup
  <2>4. sources' \subseteq sources \cup ({e} \X {h \in Groups : Group(h)})
    BY <1>6, <2>3 DEF AddEventGroup
  <2> QED
    BY <1>4, <1>6, <2>2, <2>3, <2>4 DEF AddEventGroup
<1>7. ASSUME NEW e \in Events, NEW g \in Groups, RemoveEventGroup(e, g)
      PROVE  Goal
  BY <1>0, <1>2, <1>7 DEF RemoveEventGroup, RosterStep, directoryVars, RosterRows, RosterRefers
<1>8. ASSUME NEW e \in Events, RefreshEventRoster(e)
      PROVE  Goal
  <2>1. SourcesOf(e) \in SUBSET Groups
    BY DEF SourcesOf
  <2> QED
    BY <1>0, <1>4, <1>8, <2>1, StudentsArePeople DEF RefreshEventRoster, RosterStep, directoryVars
<1>9. ASSUME NEW e \in Events, NEW p \in People, AddEventParticipant(e, p)
      PROVE  Goal
  <2>1. Person(p)
    BY <1>9 DEF AddEventParticipant, Person
  <2>2. /\ Held(e)' /\ {p} \in SUBSET People /\ CreateParticipantRecords(e, {p}, TRUE)
        /\ sources' \subseteq sources \cup ({e} \X {g \in Groups : Group(g)})
        /\ UNCHANGED <<marking, personStatus, groupStatus>>
    BY <1>0, <1>9 DEF AddEventParticipant, RosterStep, directoryVars
  <2>3. \A q \in {p} : Person(q)
    BY <2>1
  <2> QED
    BY <1>4, <2>2, <2>3
<1>10. ASSUME NEW e \in Events, NEW p \in People, RemoveEventParticipant(e, p)
       PROVE  Goal
  BY <1>0, <1>2, <1>10 DEF RemoveEventParticipant, OnRoster, RosterStep, directoryVars,
     RosterRows, RosterRefers
<1>11. ASSUME NEW e \in Events, NEW p \in People, NEW answer \in {"PENDING", "YES"},
              RecordEventRsvp(e, p, answer)
       PROVE  Goal
  BY <1>0, <1>2, <1>11 DEF RecordEventRsvp, OnRoster, RosterStep, directoryVars,
     RosterRows, RosterRefers
<1>12. ASSUME NEW e \in Events, ReadAttendanceRoster(e)
       PROVE  Goal
  BY <1>0, <1>2, <1>12 DEF ReadAttendanceRoster, OnRoster, RosterStep, directoryVars,
     RosterRows, RosterRefers
<1>13. ASSUME NEW e \in Events, NEW marks \in [People -> {"NOT_RECORDED", "PRESENT"}],
              RecordAttendance(e, marks)
       PROVE  Goal
  <2>1. /\ attendance' \in [Events -> [People -> {"NOT_RECORDED", "PRESENT"}]]
        /\ \A f \in Events, p \in People :
             attendance'[f][p] # attendance[f][p] => p \in marking[f]
    BY <1>0, <1>13 DEF RecordAttendance, RosterRows
  <2> QED
    BY <1>0, <1>2, <1>13, <2>1 DEF RecordAttendance, RosterStep, directoryVars,
       RosterRows, RosterRefers
<1>14. CASE RosterNext
  BY <1>5, <1>6, <1>7, <1>8, <1>9, <1>10, <1>11, <1>12, <1>13, <1>14 DEF RosterNext
<1>15. CASE ~RosterNext
  BY <1>3, <1>15, OwnRows
<1> QED
  BY <1>14, <1>15

-----------------------------------------------------------------------------
\* The packing list, volunteers and reminders.

\* Every step keeps what is packed within what is asked for.
LEMMA ItemsKept ==
  ASSUME ItemsInv, [EventNext]_eventVars
  PROVE  ItemsInv'
<1>1. CASE EquipmentNext
  BY <1>1, EventAssumption DEF EquipmentNext, AddEventEquipmentItem, UpdateEventEquipmentPacking,
     WithinQuantity, RemoveEventEquipmentItem, ItemsInv
<1>2. CASE ~EquipmentNext
  <2>1. items' = items
    BY <1>2, OwnRows
  <2> QED
    BY <2>1 DEF ItemsInv
<1> QED
  BY <1>1, <1>2

\* One more person on a list of people is at most one more.
LEMMA OneMore ==
  ASSUME NEW S \in SUBSET People, NEW T \in SUBSET People, NEW p \in People
  PROVE  /\ Cardinality(S) \in Nat /\ Cardinality(T) \in Nat
         /\ T \subseteq S => Cardinality(T) <= Cardinality(S)
         /\ T \subseteq S \cup {p} => Cardinality(T) <= Cardinality(S) + 1
<1>1. IsFiniteSet(S) /\ IsFiniteSet(T) /\ IsFiniteSet(S \cup {p})
  BY EventAssumption, FS_Subset, FS_AddElement
<1>2. /\ Cardinality(S) \in Nat /\ Cardinality(T) \in Nat /\ Cardinality(S \cup {p}) \in Nat
      /\ Cardinality(S \cup {p}) <= Cardinality(S) + 1
  BY <1>1, FS_CardinalityType, FS_AddElement
<1>3. /\ T \subseteq S => Cardinality(T) <= Cardinality(S)
      /\ T \subseteq S \cup {p} => Cardinality(T) <= Cardinality(S \cup {p})
  BY <1>1, FS_Subset
<1> QED
  BY <1>2, <1>3

\* Every step keeps the confirmed people within the places.
LEMMA VolunteersKept ==
  ASSUME EventRows, VolunteerInv, [EventNext]_eventVars
  PROVE  VolunteerInv'
<1>0. \A e \in Events : Held(e) => Held(e)'
  BY EventsStay
<1>1. CASE UNCHANGED volunteerVars
  <2>1. \A o \in Opportunities : Confirmed(o)' = Confirmed(o)
    BY <1>1 DEF Confirmed, volunteerVars
  <2> QED
    BY <1>0, <1>1, <2>1, EventAssumption DEF VolunteerInv, volunteerVars
<1>2. ASSUME NEW o \in Opportunities, NEW capacity \in 1..MaxQuantity,
             CreateVolunteerOpportunity(o, capacity)
      PROVE  VolunteerInv'
  <2>1. \A q \in Opportunities : Confirmed(q)' = Confirmed(q)
    BY <1>2 DEF CreateVolunteerOpportunity, Confirmed
  <2>2. Cardinality(Confirmed(o)) <= 0
    BY <1>2 DEF CreateVolunteerOpportunity, VolunteerInv
  <2>3. Cardinality(Confirmed(o)) \in Nat
    <3>1. CASE People = {}
      <4>1. Confirmed(o) = {}
        BY <3>1 DEF Confirmed
      <4> QED
        BY <4>1, FS_EmptySet
    <3>2. CASE People # {}
      BY <3>2, OneMore DEF Confirmed
    <3> QED
      BY <3>1, <3>2
  <2>4. capacity \in Nat /\ Cardinality(Confirmed(o)) <= capacity
    BY <2>2, <2>3, EventAssumption
  <2> QED
    BY <1>0, <1>2, <2>1, <2>4, EventAssumption
       DEF CreateVolunteerOpportunity, VolunteerInv, OpportunityStatus
<1>3. ASSUME NEW o \in Opportunities, NEW status \in OpportunityStatus \ {"ABSENT"},
             SetVolunteerOpportunityStatus(o, status)
      PROVE  VolunteerInv'
  <2>1. \A q \in Opportunities : Confirmed(q)' = Confirmed(q)
    BY <1>3 DEF SetVolunteerOpportunityStatus, Confirmed
  <2> QED
    BY <1>0, <1>3, <2>1, EventAssumption DEF SetVolunteerOpportunityStatus, VolunteerInv
<1>4. ASSUME NEW o \in Opportunities, NEW p \in People, AddVolunteerSignup(o, p)
      PROVE  VolunteerInv'
  <2>1. \A q \in Opportunities \ {o} : Confirmed(q)' = Confirmed(q)
    BY <1>4 DEF AddVolunteerSignup, VolunteerInv, Confirmed
  <2>2. Confirmed(o)' \subseteq Confirmed(o) \cup {p}
    BY <1>4 DEF AddVolunteerSignup, VolunteerInv, Confirmed
  <2>3. Cardinality(Confirmed(o)) < opportunity[o].capacity /\ opportunity[o].capacity \in Nat
    BY <1>4 DEF AddVolunteerSignup, PlaceLeft, VolunteerInv
  <2>4. Cardinality(Confirmed(o)') <= opportunity[o].capacity
    <3>1. Confirmed(o) \in SUBSET People /\ Confirmed(o)' \in SUBSET People
      BY DEF Confirmed
    <3>2. /\ Cardinality(Confirmed(o)) \in Nat /\ Cardinality(Confirmed(o)') \in Nat
          /\ Cardinality(Confirmed(o)') <= Cardinality(Confirmed(o)) + 1
      BY <2>2, <3>1, OneMore
    <3> QED
      BY <2>3, <3>2
  <2> QED
    BY <1>0, <1>4, <2>1, <2>4, EventAssumption DEF AddVolunteerSignup, VolunteerInv
<1>5. ASSUME NEW o \in Opportunities, NEW p \in People, CancelVolunteerSignup(o, p)
      PROVE  VolunteerInv'
  <2>1. \A q \in Opportunities \ {o} : Confirmed(q)' = Confirmed(q)
    BY <1>5 DEF CancelVolunteerSignup, VolunteerInv, Confirmed
  <2>2. Confirmed(o)' \subseteq Confirmed(o)
    BY <1>5 DEF CancelVolunteerSignup, VolunteerInv, Confirmed
  <2>3. Cardinality(Confirmed(o)') <= opportunity[o].capacity
    <3>1. Confirmed(o) \in SUBSET People /\ Confirmed(o)' \in SUBSET People
      BY DEF Confirmed
    <3>2. /\ Cardinality(Confirmed(o)) \in Nat /\ Cardinality(Confirmed(o)') \in Nat
          /\ Cardinality(Confirmed(o)') <= Cardinality(Confirmed(o))
      BY <2>2, <3>1, OneMore
    <3>3. opportunity[o].capacity \in Nat /\ Cardinality(Confirmed(o)) <= opportunity[o].capacity
      BY DEF VolunteerInv
    <3> QED
      BY <3>2, <3>3
  <2> QED
    BY <1>0, <1>5, <2>1, <2>3, EventAssumption DEF CancelVolunteerSignup, VolunteerInv
<1>6. CASE VolunteerNext
  BY <1>2, <1>3, <1>4, <1>5, <1>6 DEF VolunteerNext
<1>7. CASE ~VolunteerNext
  <2>1. UNCHANGED volunteerVars
    BY <1>7, OwnRows
  <2> QED
    BY <1>1, <2>1
<1> QED
  BY <1>6, <1>7

\* Every step keeps reminders with an audience.
LEMMA EventRemindersKept ==
  ASSUME EventRows, RemindersInv, [EventNext]_eventVars
  PROVE  RemindersInv'
<1>0. \A e \in Events : Held(e) => Held(e)'
  BY EventsStay
<1>1. CASE ReminderNext
  BY <1>0, <1>1 DEF ReminderNext, CreateEventReminder, RemindersInv
<1>2. CASE ~ReminderNext
  <2>1. reminders' = reminders
    BY <1>2, OwnRows
  <2> QED
    BY <1>0, <2>1 DEF RemindersInv
<1> QED
  BY <1>1, <1>2

-----------------------------------------------------------------------------
\* The inductive invariant and what follows from it.

\* Every step keeps the inductive invariant.
LEMMA EInvStep == EInv /\ [EventNext]_eventVars => EInv'
<1> SUFFICES ASSUME EInv, [EventNext]_eventVars PROVE EInv'
  OBVIOUS
<1>1. DirectoryTypeOK'
  <2>1. CASE EventDirectoryNext
    BY <2>1, RecordsStay DEF EInv, EventDirectoryNext
  <2>2. CASE ~EventDirectoryNext
    <3>1. UNCHANGED directoryVars
      BY <2>2, OwnRows
    <3> QED
      BY <3>1 DEF EInv, DirectoryTypeOK, directoryVars, Person, Group
  <2> QED
    BY <2>1, <2>2
<1>2. EventRows' /\ RosterRows' /\ RosterRefers'
  BY EventsStay, RosterKept DEF EInv
<1>3. ItemsInv' /\ VolunteerInv' /\ RemindersInv'
  BY ItemsKept, VolunteersKept, EventRemindersKept DEF EInv
<1> QED
  BY <1>1, <1>2, <1>3 DEF EInv

\* The inductive invariant holds in every reachable state.
THEOREM EventInvariant == EventSpec => []EInv
  BY EInvInit, EInvStep, PTL DEF EventSpec

\* Rosters, answers, marks, packing lists and reminders refer to what exists.
THEOREM EventTyped == EventSpec => []EventTypeOK
  BY EventInvariant, EInvImplies, PTL

\* No opportunity has more confirmed people than places (addVolunteerSignup).
THEOREM NeverOverbooked == EventSpec => []NoOverbooking
  BY EventInvariant, EInvImplies, PTL

\* A step that moves somebody's row on a roster is one that creates rows, or a removal.
LEMMA RosterMoves ==
  ASSUME RosterRows, [EventNext]_eventVars, NEW e \in Events, NEW p \in People,
         roster'[e][p] # roster[e][p]
  PROVE  /\ roster'[e][p] # "NONE"
         /\ UNCHANGED <<rsvp, attendance>>
         /\ roster[e][p] = "REMOVED" => AddEventParticipant(e, p)
<1> DEFINE Goal == /\ roster'[e][p] # "NONE"
                   /\ UNCHANGED <<rsvp, attendance>>
                   /\ roster[e][p] = "REMOVED" => AddEventParticipant(e, p)
<1>1. RosterNext
  BY OwnRows DEF rosterVars
<1>2. ASSUME NEW f \in Events, NEW ps, CreateParticipantRecords(f, ps, FALSE)
      PROVE  Goal
  BY <1>2 DEF CreateParticipantRecords, RosterRows
<1>3. ASSUME NEW f \in Events, NEW q \in People, AddEventParticipant(f, q)
      PROVE  Goal
  <2>1. f = e /\ q = p /\ roster'[e][p] = "ACTIVE" /\ UNCHANGED <<rsvp, attendance>>
    BY <1>3 DEF AddEventParticipant, CreateParticipantRecords, RosterRows
  <2> QED
    BY <1>3, <2>1
<1>4. ASSUME NEW f \in Events, NEW q \in People, RemoveEventParticipant(f, q)
      PROVE  Goal
  BY <1>4 DEF RemoveEventParticipant, OnRoster, RosterRows
<1>5. ASSUME roster' = roster
      PROVE  Goal
  BY <1>5
<1> QED
  BY <1>1, <1>2, <1>3, <1>4, <1>5
     DEF RosterNext, CreateEvent, AddEventGroup, RemoveEventGroup, RefreshEventRoster,
         RecordEventRsvp, ReadAttendanceRoster, RecordAttendance

\* Removals, returns and refreshes leave what was answered and marked, nobody who was
\* removed comes back but by hand, and an event keeps to its final status and to the
\* calendar.
THEOREM RecordsOutliveSteps == EventSpec => EventRecordsKept
<1>1. ASSUME EInv, [EventNext]_eventVars, NEW e \in Events, NEW p \in People,
             roster'[e][p] # roster[e][p]
      PROVE  /\ roster'[e][p] # "NONE"
             /\ rsvp'[e][p] = rsvp[e][p] /\ attendance'[e][p] = attendance[e][p]
  BY <1>1, RosterMoves DEF EInv
<1>2. EInv /\ [EventNext]_eventVars =>
        [\A e \in Events, p \in People :
           roster'[e][p] # roster[e][p] =>
             /\ roster'[e][p] # "NONE"
             /\ rsvp'[e][p] = rsvp[e][p]
             /\ attendance'[e][p] = attendance[e][p]]_<<roster, rsvp, attendance>>
  BY <1>1
<1>3. ASSUME EInv, [EventNext]_eventVars, NEW e \in Events, NEW p \in People,
             roster[e][p] = "REMOVED", roster'[e][p] = "ACTIVE"
      PROVE  /\ personStatus[p] = "ACTIVE"
             /\ roster' = [roster EXCEPT ![e][p] = "ACTIVE"]
             /\ sources' = sources
  <2>1. AddEventParticipant(e, p) /\ RosterRows
    BY <1>3, RosterMoves DEF EInv
  <2>2. roster' = [roster EXCEPT ![e] = [q \in People |-> IF q = p THEN "ACTIVE" ELSE @[q]]]
    BY <2>1 DEF AddEventParticipant, CreateParticipantRecords
  <2>3. [roster EXCEPT ![e] = [q \in People |-> IF q = p THEN "ACTIVE" ELSE @[q]]]
          = [roster EXCEPT ![e][p] = "ACTIVE"]
    BY <2>1 DEF RosterRows
  <2> QED
    BY <2>1, <2>2, <2>3 DEF AddEventParticipant
<1>4. EInv /\ [EventNext]_eventVars =>
        [\A e \in Events, p \in People :
           roster[e][p] = "REMOVED" /\ roster'[e][p] = "ACTIVE" =>
             /\ personStatus[p] = "ACTIVE"
             /\ roster' = [roster EXCEPT ![e][p] = "ACTIVE"]
             /\ sources' = sources]_<<roster, sources>>
  BY <1>3
<1>5. ASSUME EInv, [EventNext]_eventVars, NEW e \in Events,
             event'[e].status # event[e].status
      PROVE  event'[e].status \in AllowedTransitions(event[e].status) \/ ~Held(e)
  <2>1. EventRows
    BY <1>5 DEF EInv
  <2>2. ASSUME NEW f \in Events, NEW details \in Details, NEW gs \in SUBSET Groups,
               CreateEvent(f, details, gs)
        PROVE  ~Held(e)
    BY <1>5, <2>1, <2>2 DEF CreateEvent, EventRows
  <2>3. ASSUME NEW f \in Events, NEW details \in Details, UpdateEvent(f, details)
        PROVE  FALSE
    BY <1>5, <2>1, <2>3 DEF UpdateEvent, EventRows
  <2>4. ASSUME NEW f \in Events, NEW status \in EventStatus, SetEventStatus(f, status)
        PROVE  event'[e].status \in AllowedTransitions(event[e].status)
    <3>1. f = e /\ event'[e].status = status
      BY <1>5, <2>1, <2>4 DEF SetEventStatus, EventRows
    <3> QED
      BY <2>4, <3>1 DEF SetEventStatus
  <2>5. event' # event
    BY <1>5
  <2>6. CASE RosterNext
    BY <2>2, <2>5, <2>6 DEF RosterNext, AddEventGroup, RemoveEventGroup, RefreshEventRoster,
       AddEventParticipant, RemoveEventParticipant, RecordEventRsvp, ReadAttendanceRoster,
       RecordAttendance, RosterStep
  <2>7. CASE CalendarNext
    BY <2>3, <2>4, <2>5, <2>7 DEF CalendarNext, CreateCalendarSubscription,
       RevokeCalendarSubscription, FindCalendarSubscription, ServePrivateFeed, CalendarStep
  <2> QED
    BY <1>5, <2>5, <2>6, <2>7, OwnRows
<1>6. ASSUME EInv, [EventNext]_eventVars, NEW e \in Events
      PROVE  /\ event[e].status \in {"COMPLETED", "CANCELED"} =>
                  event'[e].status = event[e].status
             /\ event[e].status = "PUBLISHED" =>
                  event'[e].status \in {"PUBLISHED", "COMPLETED", "CANCELED"}
  <2>1. /\ AllowedTransitions("COMPLETED") = {} /\ AllowedTransitions("CANCELED") = {}
        /\ AllowedTransitions("PUBLISHED") = {"COMPLETED", "CANCELED"}
    BY DEF AllowedTransitions
  <2> QED
    BY <1>5, <1>6, <2>1 DEF Held
<1>7. EInv /\ [EventNext]_eventVars =>
        [/\ \A e \in Feed("private") \ Feed("private")' : event'[e].status = "CANCELED"
         /\ \A e \in Events : event[e].status \in {"COMPLETED", "CANCELED"} =>
              event'[e].status = event[e].status]_event
  BY <1>6 DEF Feed
<1> QED
  BY <1>2, <1>4, <1>7, EventInvariant, PTL
     DEF EventSpec, EventRecordsKept, HistoryKept, RemovedComesBackByHand, CalendarKeepsEvents

\* An attendance sheet is saved for all the people it was made out for, while they are
\* all on the roster, or for none (recordAttendanceAction).
THEOREM SheetsSavedWhole == EventSpec => AttendanceSavedWhole
<1>1. ASSUME EInv, [EventNext]_eventVars, NEW e \in Events, attendance'[e] # attendance[e]
      PROVE  /\ event[e].attendance
             /\ marking[e] \subseteq OnRoster(e)
             /\ \A p \in People \ marking[e] : attendance'[e][p] = attendance[e][p]
  <2>1. RosterRows
    BY <1>1 DEF EInv
  <2>2. RosterNext
    BY <1>1, OwnRows DEF rosterVars
  <2>3. PICK f \in Events, marks \in [People -> {"NOT_RECORDED", "PRESENT"}] :
          RecordAttendance(f, marks)
    BY <1>1, <2>2 DEF RosterNext, CreateEvent, AddEventGroup, RemoveEventGroup,
       RefreshEventRoster, AddEventParticipant, RemoveEventParticipant, RecordEventRsvp,
       ReadAttendanceRoster, CreateParticipantRecords
  <2> QED
    BY <1>1, <2>1, <2>3 DEF RecordAttendance, AllStillOnRoster, RosterRows
<1>2. EInv /\ [EventNext]_eventVars =>
        [\A e \in Events :
           attendance'[e] # attendance[e] =>
             /\ event[e].attendance
             /\ marking[e] \subseteq OnRoster(e)
             /\ \A p \in People \ marking[e] : attendance'[e][p] = attendance[e][p]]_attendance
  BY <1>1
<1> QED
  BY <1>2, EventInvariant, PTL DEF EventSpec, AttendanceSavedWhole

-----------------------------------------------------------------------------
\* Forms.

\* The rows of the template.
VersionStatus == {"ABSENT", "DRAFT", "PUBLISHED", "RETIRED"}
QuestionRows == [version : 0..MaxVersion, position : Nat, required : BOOLEAN, file : BOOLEAN]

TemplateRows ==
  /\ version \in [Versions -> VersionStatus]
  /\ timed \subseteq HeldVersions
  /\ question \in [Questions -> QuestionRows]
  /\ \A q \in Questions : question[q] = NoQuestion \/ question[q].version \in HeldVersions

\* Versions are numbered from 1, one at most is a draft and one is in use.
VersionsCounted == \E n \in 0..MaxVersion : HeldVersions = 1..n
OneOfEach ==
  \A v, w \in Versions : version[v] = version[w] /\ version[v] \in {"DRAFT", "PUBLISHED"} => v = w
UsedVersionsAsk == \A v \in Versions : version[v] = "PUBLISHED" => QuestionsOf(v) # {}

\* The questions of a version are on the positions 1 to their number, one on each.
Ordered(v) ==
  LET n == Cardinality(QuestionsOf(v)) IN
  /\ \A q \in QuestionsOf(v) : question[q].position \in 1..n
  /\ \A k \in 1..n : \E q \in QuestionsOf(v) : question[q].position = k
  /\ \A q, r \in QuestionsOf(v) : question[q].position = question[r].position => q = r

TemplateInv ==
  /\ TemplateRows /\ VersionsCounted /\ OneOfEach /\ UsedVersionsAsk
  /\ \A v \in Versions : Ordered(v)

\* The rows of campaigns and responses, and what they refer to.
ResponseRows ==
  /\ campaign \in [Campaigns -> 0..MaxVersion]
  /\ request \in [Campaigns -> [Requests ->
       {"NONE", "OUTSTANDING", "IN_PROGRESS", "COMPLETE", "WAIVED"}]]
  /\ response \in [Campaigns -> [Requests -> {"NONE", "DRAFT", "SUBMITTED", "PURGED"}]]
  /\ retention \in [Campaigns -> [Requests -> {"NONE", "RUNNING", "EXPIRED"}]]
  /\ answers \in [Campaigns -> [Requests -> SUBSET Questions]]

ResponseRefers ==
  /\ \A c \in Campaigns : campaign[c] # 0 => version[campaign[c]] \in {"PUBLISHED", "RETIRED"}
  /\ \A c \in Campaigns, r \in Requests :
       /\ request[c][r] # "NONE" => campaign[c] # 0 /\ Person(r[1]) /\ r[2] \in students
       /\ request[c][r] = "NONE" =>
            response[c][r] = "NONE" /\ retention[c][r] = "NONE" /\ answers[c][r] = {}
       /\ answers[c][r] \subseteq QuestionsOf(campaign[c])
       /\ <<c, r>> \in saving => request[c][r] # "NONE"

ResponseInv ==
  ResponseRows /\ ResponseRefers /\ SubmittedIsComplete /\ RequestTellsResponse

\* A handler that has created an announcement reminds people it addressed or left out,
\* and rows are written when it is done with both.
ReminderInv ==
  /\ audience \in [Announcements -> SUBSET People]
  /\ leftOut \in [Announcements -> SUBSET People]
  /\ reminding = [a \in Announcements |-> reminding[a]]
  /\ \A a \in Announcements :
       /\ reminding[a] = [step |-> reminding[a].step, campaign |-> reminding[a].campaign,
                          requests |-> reminding[a].requests]
       /\ reminding[a].requests \subseteq Requests
       /\ reminding[a].step = "created" =>
            \A r \in reminding[a].requests : r[1] \in audience[a] \cup leftOut[a]
  /\ \A m \in reminded : /\ m[1] \in Announcements /\ reminding[m[1]].step = "ended"
                         /\ m[3][1] \in audience[m[1]] \cup leftOut[m[1]]

FormInv == DirectoryTypeOK /\ TemplateInv /\ ResponseInv /\ ReminderInv

-----------------------------------------------------------------------------
\* The template.

\* There are finitely many questions.
LEMMA QuestionsFinite ==
  ASSUME NEW S \in SUBSET Questions
  PROVE  IsFiniteSet(S) /\ Cardinality(S) \in Nat
BY FormAssumption, FS_Subset, FS_CardinalityType

\* The latest version is the last number in use.
LEMMA LatestIsLast ==
  ASSUME NEW n \in 1..MaxVersion, HeldVersions = 1..n
  PROVE  Latest = n
BY FormAssumption DEF Latest

\* Copies of the questions of the latest version are made one for each.
LEMMA CopiesAreOneToOne ==
  ASSUME TemplateRows, NEW copyOf \in Copies, HeldVersions # {},
         {copyOf[q] : q \in DOMAIN copyOf} = QuestionsOf(Latest)
  PROVE  /\ DOMAIN copyOf \in SUBSET Questions
         /\ \A q \in DOMAIN copyOf : question[q] = NoQuestion /\ copyOf[q] \in QuestionsOf(Latest)
         /\ \A q, r \in DOMAIN copyOf : copyOf[q] = copyOf[r] => q = r
         /\ Cardinality(DOMAIN copyOf) = Cardinality(QuestionsOf(Latest))
<1>1. PICK new \in SUBSET {q \in Questions : question[q] = NoQuestion} :
        /\ Cardinality(new) = Cardinality(QuestionsOf(Latest))
        /\ copyOf \in [new -> QuestionsOf(Latest)]
  BY DEF Copies
<1>2. DOMAIN copyOf = new
  BY <1>1
<1>3. IsFiniteSet(new)
  BY <1>1, QuestionsFinite
<1>4. copyOf \in Surjection(new, QuestionsOf(Latest))
  BY <1>1, <1>2 DEF Surjection
<1>5. copyOf \in Injection(new, QuestionsOf(Latest))
  BY <1>1, <1>3, <1>4, FS_SurjSameCardinalityImpliesInj
<1> QED
  BY <1>1, <1>2, <1>5 DEF Injection, IsInjective

\* Once published, a version is fixed.
LEMMA PublishedFixed ==
  ASSUME TemplateInv, TemplateNext, NEW v \in Versions, version[v] \in {"PUBLISHED", "RETIRED"}
  PROVE  /\ QuestionsOf(v)' = QuestionsOf(v)
         /\ \A q \in QuestionsOf(v) : question'[q] = question[q]
         /\ v \in timed' <=> v \in timed
         /\ version'[v] \in {"PUBLISHED", "RETIRED"}
<1> DEFINE Goal == /\ QuestionsOf(v)' = QuestionsOf(v)
                   /\ \A q \in QuestionsOf(v) : question'[q] = question[q]
                   /\ v \in timed' <=> v \in timed
                   /\ version'[v] \in {"PUBLISHED", "RETIRED"}
<1>0. TemplateRows /\ v \in HeldVersions /\ v # 0 /\ 0 \notin Versions
  BY FormAssumption DEF TemplateInv, HeldVersions, Versions
<1>1. ASSUME NEW keepsTime \in BOOLEAN, CreateFormTemplate(keepsTime)
      PROVE  Goal
  BY <1>0, <1>1 DEF CreateFormTemplate
<1>2. ASSUME NEW keepsTime \in BOOLEAN, NEW w \in Versions, UpdateDraftFormVersion(w, keepsTime)
      PROVE  Goal
  BY <1>2 DEF UpdateDraftFormVersion, Editable, QuestionsOf
<1>3. ASSUME NEW w \in Versions, NEW q \in Questions, NEW required \in BOOLEAN,
             NEW file \in BOOLEAN, AddFormQuestion(w, q, required, file)
      PROVE  Goal
  <2>1. w # v /\ question[q].version # v /\ UNCHANGED <<version, timed>>
    BY <1>0, <1>3 DEF AddFormQuestion, Editable, NoQuestion
  <2>2. question'[q].version = w /\ \A r \in Questions \ {q} : question'[r] = question[r]
    BY <1>0, <1>3 DEF AddFormQuestion, TemplateRows
  <2> QED
    BY <2>1, <2>2 DEF QuestionsOf
<1>4. ASSUME NEW w \in Versions, PublishFormVersion(w)
      PROVE  Goal
  BY <1>0, <1>4 DEF PublishFormVersion, Published, QuestionsOf
<1>5. ASSUME NEW q \in Questions, NEW other \in Questions, MoveFormQuestion(q, other)
      PROVE  Goal
  <2>1. /\ question[q].version # v /\ question[other].version # v
        /\ question'[q].version = question[q].version
        /\ question'[other].version = question[other].version
        /\ \A r \in Questions \ {q, other} : question'[r] = question[r]
    BY <1>0, <1>5 DEF MoveFormQuestion, Editable, TemplateRows, QuestionRows
  <2> QED
    BY <1>5, <2>1 DEF MoveFormQuestion, QuestionsOf
<1>6. ASSUME NEW q \in Questions, RemoveFormQuestion(q)
      PROVE  Goal
  <2>1. question[q].version # v /\ UNCHANGED <<version, timed>>
    BY <1>6 DEF RemoveFormQuestion, Editable
  <2>2. /\ question'[q].version = 0
        /\ \A r \in Questions \ {q} :
             /\ question'[r].version = question[r].version
             /\ question[r].version # question[q].version => question'[r] = question[r]
    BY <1>0, <1>6 DEF RemoveFormQuestion, PositionAfterRemoval, NoQuestion, TemplateRows,
       QuestionRows
  <2> QED
    BY <1>0, <2>1, <2>2 DEF QuestionsOf
<1>7. ASSUME NEW copyOf \in Copies, CreateFormRevision(copyOf)
      PROVE  Goal
  <2>1. PICK n \in 1..MaxVersion : HeldVersions = 1..n
    BY <1>0, FormAssumption DEF TemplateInv, VersionsCounted
  <2>2. Latest + 1 # v /\ Latest + 1 # 0
    BY <1>0, <2>1, LatestIsLast
  <2>3. \A q \in DOMAIN copyOf : q \in Questions /\ question[q].version = 0
    BY <1>0, <1>7, CopiesAreOneToOne DEF CreateFormRevision, NoQuestion
  <2>4. /\ \A q \in DOMAIN copyOf : question'[q].version = Latest + 1
        /\ \A q \in Questions \ DOMAIN copyOf : question'[q] = question[q]
    <3>1. \A q \in DOMAIN copyOf : q \in Questions /\ copyOf[q] \in Questions
      BY <1>0, <1>7, CopiesAreOneToOne DEF CreateFormRevision, QuestionsOf
    <3> QED
      BY <1>0, <1>7, <3>1 DEF CreateFormRevision, TemplateRows, QuestionRows
  <2>5. version'[v] = version[v] /\ (v \in timed' <=> v \in timed)
    BY <1>0, <1>7, <2>2 DEF CreateFormRevision, TemplateRows
  <2> QED
    BY <1>0, <2>2, <2>3, <2>4, <2>5 DEF QuestionsOf
<1> QED
  BY <1>1, <1>2, <1>3, <1>4, <1>5, <1>6, <1>7 DEF TemplateNext

-----------------------------------------------------------------------------
\* Versions and rows.

\* Every step on the template keeps its rows and the numbers of its versions.
LEMMA TemplateRowsKept ==
  ASSUME TemplateInv, TemplateNext
  PROVE  TemplateRows' /\ VersionsCounted' /\ OneOfEach' /\ UsedVersionsAsk'
<1> DEFINE Goal == TemplateRows' /\ VersionsCounted' /\ OneOfEach' /\ UsedVersionsAsk'
<1>0. /\ TemplateRows /\ VersionsCounted /\ OneOfEach /\ UsedVersionsAsk
      /\ 0 \notin Versions /\ 1 \in Versions
  BY FormAssumption DEF TemplateInv, Versions
<1>1. ASSUME version' = version
      PROVE  HeldVersions' = HeldVersions /\ VersionsCounted' /\ OneOfEach'
  BY <1>0, <1>1 DEF HeldVersions, VersionsCounted, OneOfEach
<1>2. ASSUME NEW keepsTime \in BOOLEAN, CreateFormTemplate(keepsTime)
      PROVE  Goal
  <2>1. \A v \in Versions :
          version[v] = "ABSENT" /\ version'[v] = IF v = 1 THEN "DRAFT" ELSE "ABSENT"
    BY <1>0, <1>2 DEF CreateFormTemplate, HeldVersions, TemplateRows
  <2>2. HeldVersions' = {1} /\ {1} = 1..1 /\ 1 \in 0..MaxVersion
    BY <1>0, <2>1, FormAssumption DEF HeldVersions
  <2>3. VersionsCounted'
    BY <2>2 DEF VersionsCounted
  <2>4. OneOfEach' /\ UsedVersionsAsk'
    BY <2>1 DEF OneOfEach, UsedVersionsAsk
  <2>5. TemplateRows'
    BY <1>0, <1>2, <2>2 DEF CreateFormTemplate, TemplateRows, VersionStatus
  <2> QED
    BY <2>3, <2>4, <2>5
<1>3. ASSUME NEW keepsTime \in BOOLEAN, NEW v \in Versions, UpdateDraftFormVersion(v, keepsTime)
      PROVE  Goal
  <2>1. v \in HeldVersions
    BY <1>3 DEF UpdateDraftFormVersion, Editable, HeldVersions
  <2> QED
    BY <1>0, <1>1, <1>3, <2>1
       DEF UpdateDraftFormVersion, TemplateRows, UsedVersionsAsk, QuestionsOf
<1>4. ASSUME NEW v \in Versions, NEW q \in Questions, NEW required \in BOOLEAN,
             NEW file \in BOOLEAN, AddFormQuestion(v, q, required, file)
      PROVE  Goal
  <2> DEFINE position == Cardinality(QuestionsOf(v)) + 1
  <2>1. position \in Nat
    BY QuestionsFinite DEF QuestionsOf
  <2>2. v \in HeldVersions /\ v \in 0..MaxVersion
    BY <1>4, FormAssumption DEF AddFormQuestion, Editable, HeldVersions, Versions
  <2>3. /\ question' \in [Questions -> QuestionRows]
        /\ question'[q].version = v
        /\ \A r \in Questions \ {q} : question'[r] = question[r]
    <3> HIDE DEF position
    <3>1. question' = [question EXCEPT ![q] =
            [version |-> v, position |-> position, required |-> required, file |-> file]]
      BY <1>4 DEF AddFormQuestion, position
    <3> QED
      BY <1>0, <2>1, <2>2, <3>1 DEF TemplateRows, QuestionRows
  <2>4. UNCHANGED <<version, timed>>
    BY <1>4 DEF AddFormQuestion
  <2>5. TemplateRows'
    BY <1>0, <1>1, <2>2, <2>3, <2>4 DEF TemplateRows
  <2>6. \A w \in Versions : QuestionsOf(w) \subseteq QuestionsOf(w)'
    BY <1>0, <1>4, <2>3 DEF AddFormQuestion, QuestionsOf, NoQuestion
  <2>7. UsedVersionsAsk'
    BY <1>0, <2>4, <2>6 DEF UsedVersionsAsk
  <2> QED
    BY <1>1, <2>4, <2>5, <2>7
<1>5. ASSUME NEW v \in Versions, PublishFormVersion(v)
      PROVE  Goal
  <2>1. /\ version' \in [Versions -> VersionStatus]
        /\ \A w \in Versions : /\ version'[w] = "ABSENT" <=> version[w] = "ABSENT"
                               /\ version'[w] = "PUBLISHED" <=> w = v
                               /\ version'[w] = "DRAFT" => version[w] = "DRAFT"
    BY <1>0, <1>5 DEF PublishFormVersion, Published, TemplateRows, VersionStatus
  <2>2. HeldVersions' = HeldVersions
    BY <2>1 DEF HeldVersions
  <2>3. TemplateRows'
    BY <1>0, <1>5, <2>1, <2>2 DEF PublishFormVersion, TemplateRows
  <2>4. VersionsCounted'
    BY <1>0, <2>2 DEF VersionsCounted
  <2>5. OneOfEach'
    BY <1>0, <2>1 DEF OneOfEach
  <2>6. UsedVersionsAsk'
    BY <1>5, <2>1 DEF PublishFormVersion, UsedVersionsAsk, QuestionsOf
  <2> QED
    BY <2>3, <2>4, <2>5, <2>6
<1>6. ASSUME NEW q \in Questions, NEW other \in Questions, MoveFormQuestion(q, other)
      PROVE  Goal
  <2>1. /\ question' \in [Questions -> QuestionRows]
        /\ \A r \in Questions : question'[r].version = question[r].version
        /\ \A r \in Questions \ {q, other} : question'[r] = question[r]
    BY <1>0, <1>6 DEF MoveFormQuestion, TemplateRows, QuestionRows
  <2>2. question[q].version \in HeldVersions /\ question[other].version \in HeldVersions
    BY <1>0, <1>6 DEF MoveFormQuestion, TemplateRows
  <2>3. UNCHANGED <<version, timed>>
    BY <1>6 DEF MoveFormQuestion
  <2>4. TemplateRows'
    BY <1>0, <1>1, <2>1, <2>2, <2>3 DEF TemplateRows
  <2>5. UsedVersionsAsk'
    BY <1>0, <2>1, <2>3 DEF UsedVersionsAsk, QuestionsOf
  <2> QED
    BY <1>1, <2>3, <2>4, <2>5
<1>7. ASSUME NEW q \in Questions, RemoveFormQuestion(q)
      PROVE  Goal
  <2>1. \A r \in Questions \ {q} :
          /\ question'[r] = [question[r] EXCEPT !.position = PositionAfterRemoval(q, r)]
          /\ PositionAfterRemoval(q, r) \in Nat
    BY <1>0, <1>7 DEF RemoveFormQuestion, PositionAfterRemoval, TemplateRows, QuestionRows
  <2>2. question'[q] = NoQuestion /\ NoQuestion \in QuestionRows
    BY <1>7, FormAssumption DEF RemoveFormQuestion, NoQuestion, QuestionRows
  <2>3. \A r \in Questions \ {q} : /\ question'[r] \in QuestionRows
                                   /\ question'[r].version = question[r].version
    BY <1>0, <2>1 DEF TemplateRows, QuestionRows
  <2>4. \A r \in Questions \ {q} : question[r] = NoQuestion => question'[r] = NoQuestion
    <3> SUFFICES ASSUME NEW r \in Questions \ {q}, question[r] = NoQuestion
                 PROVE  question'[r] = NoQuestion
      OBVIOUS
    <3>1. question[r].version = 0 /\ question[r].position = 0
      BY DEF NoQuestion
    <3>2. question[q].position \in Nat
      BY <1>0 DEF TemplateRows, QuestionRows
    <3>3. PositionAfterRemoval(q, r) = 0
      BY <3>1, <3>2 DEF PositionAfterRemoval
    <3> QED
      BY <2>1, <3>3 DEF NoQuestion
  <2>5. UNCHANGED <<version, timed>> /\ question' \in [Questions -> QuestionRows]
    BY <1>7, <2>2, <2>3 DEF RemoveFormQuestion
  <2>6. TemplateRows'
    BY <1>0, <1>1, <2>2, <2>3, <2>4, <2>5 DEF TemplateRows
  <2>7. \A v \in Versions : version[v] = "PUBLISHED" => QuestionsOf(v)' = QuestionsOf(v)
    BY <1>0, <1>7, <2>2, <2>3 DEF RemoveFormQuestion, Editable, QuestionsOf, NoQuestion
  <2>8. UsedVersionsAsk'
    BY <1>0, <2>5, <2>7 DEF UsedVersionsAsk
  <2> QED
    BY <1>1, <2>5, <2>6, <2>8
<1>8. ASSUME NEW copyOf \in Copies, CreateFormRevision(copyOf)
      PROVE  Goal
  <2>1. PICK n \in 1..MaxVersion : HeldVersions = 1..n
    BY <1>0, <1>8, FormAssumption DEF VersionsCounted, CreateFormRevision
  <2>2. Latest = n /\ n \in HeldVersions /\ n + 1 \in 1..MaxVersion
    BY <2>1, <1>8, LatestIsLast, FormAssumption DEF CreateFormRevision, Versions
  <2>3. /\ version' \in [Versions -> VersionStatus]
        /\ version'[n + 1] = "DRAFT"
        /\ \A v \in Versions \ {n + 1} : version'[v] = version[v]
    BY <1>0, <1>8, <2>2 DEF CreateFormRevision, TemplateRows, VersionStatus, Versions
  <2>4. HeldVersions' = 1..(n + 1)
    BY <2>1, <2>2, <2>3 DEF HeldVersions, Versions
  <2>5. VersionsCounted'
    BY <2>2, <2>4 DEF VersionsCounted
  <2>6. OneOfEach'
    BY <1>0, <1>8, <2>3 DEF CreateFormRevision, HeldVersions, OneOfEach
  <2>7. /\ \A q \in DOMAIN copyOf : /\ q \in Questions /\ question[q] = NoQuestion
                                    /\ copyOf[q] \in Questions
        /\ question' = [q \in Questions |->
             IF q \in DOMAIN copyOf THEN [question[copyOf[q]] EXCEPT !.version = n + 1]
             ELSE question[q]]
    BY <1>0, <1>8, <2>2, CopiesAreOneToOne DEF CreateFormRevision, QuestionsOf
  <2>8. /\ question' \in [Questions -> QuestionRows]
        /\ \A q \in DOMAIN copyOf : question'[q].version = n + 1
        /\ \A q \in Questions \ DOMAIN copyOf : question'[q] = question[q]
    BY <1>0, <2>2, <2>7, FormAssumption DEF TemplateRows, QuestionRows
  <2>9. timed' \subseteq HeldVersions'
    BY <1>0, <1>8, <2>1, <2>2, <2>4 DEF CreateFormRevision, TemplateRows
  <2>10. TemplateRows'
    BY <1>0, <2>1, <2>2, <2>3, <2>4, <2>8, <2>9 DEF TemplateRows
  <2>11. \A v \in Versions : QuestionsOf(v) \subseteq QuestionsOf(v)'
    BY <1>0, <2>7, <2>8 DEF QuestionsOf, NoQuestion
  <2>12. UsedVersionsAsk'
    BY <1>0, <2>3, <2>11 DEF UsedVersionsAsk
  <2> QED
    BY <2>5, <2>6, <2>10, <2>12
<1> QED
  BY <1>2, <1>3, <1>4, <1>5, <1>6, <1>7, <1>8 DEF TemplateNext

-----------------------------------------------------------------------------
\* Positions.

\* A version is in order when its questions and their positions are.
LEMMA SameOrder ==
  ASSUME NEW v \in Versions, Ordered(v), QuestionsOf(v)' = QuestionsOf(v),
         \A q \in QuestionsOf(v) : question'[q].position = question[q].position
  PROVE  Ordered(v)'
BY DEF Ordered

\* Every step on the template keeps the questions of its versions in order.
LEMMA OrderKept ==
  ASSUME TemplateInv, TemplateNext, NEW v \in Versions
  PROVE  Ordered(v)'
<1>0. /\ TemplateRows /\ VersionsCounted /\ Ordered(v)
      /\ v # 0 /\ 0 \notin Versions
  BY FormAssumption DEF TemplateInv, Versions
<1> DEFINE S == QuestionsOf(v)
           n == Cardinality(S)
<1>1. /\ S \in SUBSET Questions /\ IsFiniteSet(S) /\ n \in Nat
      /\ \A q \in S : question[q] # NoQuestion /\ question[q].position \in 1..n
      /\ \A k \in 1..n : \E q \in S : question[q].position = k
      /\ \A q, r \in S : question[q].position = question[r].position => q = r
  BY <1>0, QuestionsFinite DEF Ordered, QuestionsOf, NoQuestion
<1>2. ASSUME question' = question
      PROVE  Ordered(v)'
  BY <1>0, <1>2, SameOrder DEF QuestionsOf
<1>3. CASE \/ \E keepsTime \in BOOLEAN : \/ CreateFormTemplate(keepsTime)
                                         \/ \E w \in Versions : UpdateDraftFormVersion(w, keepsTime)
           \/ \E w \in Versions : PublishFormVersion(w)
  BY <1>2, <1>3 DEF CreateFormTemplate, UpdateDraftFormVersion, PublishFormVersion
<1>4. ASSUME NEW w \in Versions, NEW q \in Questions, NEW required \in BOOLEAN,
             NEW file \in BOOLEAN, AddFormQuestion(w, q, required, file)
      PROVE  Ordered(v)'
  <2> DEFINE position == Cardinality(QuestionsOf(w)) + 1
  <2>1. /\ question[q].version = 0 /\ question'[q].version = w
        /\ question'[q].position = position
        /\ \A r \in Questions \ {q} : question'[r] = question[r]
    BY <1>0, <1>4 DEF AddFormQuestion, TemplateRows, NoQuestion
  <2>2. CASE w # v
    <3>1. QuestionsOf(v)' = S /\ \A r \in S : question'[r] = question[r]
      BY <1>0, <2>1, <2>2 DEF QuestionsOf
    <3> QED
      BY <1>0, <3>1, SameOrder
  <2>3. CASE w = v
    <3>1. QuestionsOf(v)' = S \cup {q} /\ q \notin S
      BY <1>0, <2>1, <2>3 DEF QuestionsOf
    <3>2. Cardinality(S \cup {q}) = n + 1
      BY <1>1, <3>1, FS_AddElement
    <3>3. /\ question'[q].position = n + 1
          /\ \A r \in S : question'[r].position = question[r].position
      BY <1>1, <2>1, <2>3, <3>1
    <3> HIDE DEF n, S
    <3>4. \A r \in S \cup {q} : question'[r].position \in 1..(n + 1)
      BY <1>1, <3>3
    <3>5. \A k \in 1..(n + 1) : \E r \in S \cup {q} : question'[r].position = k
      <4> SUFFICES ASSUME NEW k \in 1..(n + 1)
                   PROVE  \E r \in S \cup {q} : question'[r].position = k
        OBVIOUS
      <4>1. CASE k = n + 1
        BY <3>3, <4>1
      <4>2. CASE k \in 1..n
        BY <1>1, <3>3, <4>2
      <4> QED
        BY <1>1, <4>1, <4>2
    <3>6. \A r, s \in S \cup {q} : question'[r].position = question'[s].position => r = s
      BY <1>1, <3>3
    <3> QED
      BY <3>1, <3>2, <3>4, <3>5, <3>6 DEF Ordered
  <2> QED
    BY <2>2, <2>3
<1>5. ASSUME NEW q \in Questions, NEW other \in Questions, MoveFormQuestion(q, other)
      PROVE  Ordered(v)'
  <2>1. /\ \A r \in Questions : question'[r].version = question[r].version
        /\ question'[q].position = question[other].position
        /\ question'[other].position = question[q].position
        /\ \A r \in Questions \ {q, other} : question'[r] = question[r]
        /\ question[q].version = question[other].version
    BY <1>0, <1>5 DEF MoveFormQuestion, TemplateRows, QuestionRows
  <2>2. QuestionsOf(v)' = S /\ (q \in S <=> other \in S)
    BY <2>1 DEF QuestionsOf
  <2>3. CASE q \notin S
    <3>1. \A r \in S : question'[r] = question[r]
      BY <1>1, <2>1, <2>2, <2>3
    <3> QED
      BY <1>0, <2>2, <3>1, SameOrder
  <2>4. CASE q \in S
    <3> HIDE DEF S, n
    <3>1. /\ other \in S
          /\ question'[q].position = question[other].position
          /\ question'[other].position = question[q].position
          /\ \A r \in S \ {q, other} : question'[r].position = question[r].position
      BY <1>1, <2>1, <2>2, <2>4
    <3>2. \A r \in S : question'[r].position \in 1..n
      BY <1>1, <2>4, <3>1
    <3>3. \A k \in 1..n : \E r \in S : question'[r].position = k
      BY <1>1, <2>4, <3>1
    <3>4. \A r, s \in S : question'[r].position = question'[s].position => r = s
      BY <1>1, <2>4, <3>1
    <3> QED
      BY <2>2, <3>2, <3>3, <3>4 DEF Ordered, n
  <2> QED
    BY <2>3, <2>4
<1>6. ASSUME NEW q \in Questions, RemoveFormQuestion(q)
      PROVE  Ordered(v)'
  <2>1. /\ question'[q].version = 0
        /\ \A r \in Questions \ {q} :
             /\ question'[r].version = question[r].version
             /\ question'[r].position = PositionAfterRemoval(q, r)
    BY <1>0, <1>6 DEF RemoveFormQuestion, NoQuestion, TemplateRows, QuestionRows
  <2>2. QuestionsOf(v)' = S \ {q}
    BY <1>0, <2>1 DEF QuestionsOf
  <2>3. CASE question[q].version # v
    <3>1. \A r \in S : r # q /\ question'[r].position = question[r].position
      BY <1>1, <2>1, <2>3 DEF PositionAfterRemoval, QuestionsOf
    <3> QED
      BY <1>0, <2>2, <3>1, SameOrder
  <2>4. CASE question[q].version = v
    <3>1. q \in S /\ Cardinality(S \ {q}) = n - 1
      BY <1>1, <2>4, FS_RemoveElement DEF QuestionsOf
    <3>2. \A r \in S \ {q} :
            question'[r].position = IF question[r].position > question[q].position
                                    THEN question[r].position - 1 ELSE question[r].position
      BY <1>1, <2>1, <2>4 DEF PositionAfterRemoval, QuestionsOf
    <3> HIDE DEF S, n
    <3>3. \A r \in S \ {q} : question'[r].position \in 1..(n - 1)
      BY <1>1, <3>1, <3>2
    <3>4. \A k \in 1..(n - 1) : \E r \in S \ {q} : question'[r].position = k
      <4> SUFFICES ASSUME NEW k \in 1..(n - 1)
                   PROVE  \E r \in S \ {q} : question'[r].position = k
        OBVIOUS
      <4>1. CASE k < question[q].position
        <5>1. PICK r \in S : question[r].position = k
          BY <1>1
        <5> QED
          BY <1>1, <3>1, <3>2, <4>1, <5>1
      <4>2. CASE k >= question[q].position
        <5>1. PICK r \in S : question[r].position = k + 1
          BY <1>1
        <5> QED
          BY <1>1, <3>1, <3>2, <4>2, <5>1
      <4> QED
        BY <1>1, <3>1, <4>1, <4>2
    <3>5. \A r, s \in S \ {q} : question'[r].position = question'[s].position => r = s
      BY <1>1, <3>1, <3>2
    <3> QED
      BY <2>2, <3>1, <3>3, <3>4, <3>5 DEF Ordered
  <2> QED
    BY <2>3, <2>4
<1>7. ASSUME NEW copyOf \in Copies, CreateFormRevision(copyOf)
      PROVE  Ordered(v)'
  <2> DEFINE new == DOMAIN copyOf
             old == QuestionsOf(Latest)
  <2>1. PICK m \in 1..MaxVersion : HeldVersions = 1..m
    BY <1>0, <1>7, FormAssumption DEF VersionsCounted, CreateFormRevision
  <2>2. Latest = m /\ Latest \in Versions /\ Latest + 1 \in Nat
    BY <2>1, LatestIsLast, FormAssumption DEF Versions
  <2>3. /\ new \in SUBSET Questions
        /\ \A q \in new : question[q] = NoQuestion /\ copyOf[q] \in old
        /\ \A q, r \in new : copyOf[q] = copyOf[r] => q = r
        /\ Cardinality(new) = Cardinality(old)
        /\ {copyOf[q] : q \in new} = old
        /\ old \subseteq Questions
    BY <1>0, <1>7, CopiesAreOneToOne DEF CreateFormRevision, QuestionsOf
  <2>4. /\ \A q \in new : /\ question'[q].version = Latest + 1
                          /\ question'[q].position = question[copyOf[q]].position
        /\ \A q \in Questions \ new : question'[q] = question[q]
    BY <1>0, <1>7, <2>2, <2>3 DEF CreateFormRevision, TemplateRows, QuestionRows
  <2>5. \A q \in new : question[q].version = 0
    BY <2>3 DEF NoQuestion
  <2>6. CASE v # Latest + 1
    <3>1. QuestionsOf(v)' = S /\ \A r \in S : question'[r] = question[r]
      BY <1>0, <2>3, <2>4, <2>5, <2>6 DEF QuestionsOf
    <3> QED
      BY <1>0, <3>1, SameOrder
  <2>7. CASE v = Latest + 1
    <3>1. \A q \in Questions : question[q].version # v
      <4>1. v = m + 1 /\ m \in Nat
        BY <2>2, <2>7, FormAssumption
      <4>2. \A q \in Questions : question[q].version = 0 \/ question[q].version \in 1..m
        BY <1>0, <2>1 DEF TemplateRows, NoQuestion
      <4> QED
        BY <1>0, <4>1, <4>2
    <3>2. QuestionsOf(v)' = new
      <4>1. \A q \in Questions : question'[q].version = v <=> q \in new
        BY <2>4, <2>7, <3>1
      <4>2. QuestionsOf(v)' = {q \in Questions : question'[q].version = v}
        BY DEF QuestionsOf
      <4> HIDE DEF new
      <4> QED
        BY <2>3, <4>1, <4>2
    <3>3. Ordered(Latest)
      BY <2>2 DEF TemplateInv
    <3>4. Ordered(Latest) <=>
            /\ \A q \in old : question[q].position \in 1..Cardinality(new)
            /\ \A k \in 1..Cardinality(new) : \E q \in old : question[q].position = k
            /\ \A q, r \in old : question[q].position = question[r].position => q = r
      BY <2>3 DEF Ordered
    <3> HIDE DEF new, old
    <3>5. \A q \in new : question'[q].position \in 1..Cardinality(new)
      BY <2>3, <2>4, <3>3, <3>4
    <3>6. \A k \in 1..Cardinality(new) : \E q \in new : question'[q].position = k
      <4> SUFFICES ASSUME NEW k \in 1..Cardinality(new)
                   PROVE  \E q \in new : question'[q].position = k
        OBVIOUS
      <4>1. PICK r \in old : question[r].position = k
        BY <3>3, <3>4
      <4>2. PICK q \in new : copyOf[q] = r
        BY <2>3
      <4> QED
        BY <2>4, <4>1, <4>2
    <3>7. \A q, r \in new : question'[q].position = question'[r].position => q = r
      BY <2>3, <2>4, <3>3, <3>4
    <3> QED
      BY <3>2, <3>5, <3>6, <3>7 DEF Ordered
  <2> QED
    BY <2>6, <2>7
<1> QED
  BY <1>3, <1>4, <1>5, <1>6, <1>7 DEF TemplateNext

-----------------------------------------------------------------------------
\* Responses.

\* A step on one request leaves the others as they are and its own row consistent.
TouchesOne(c, r) ==
  /\ UNCHANGED <<directoryVars, templateVars, campaign>>
  /\ saving' \subseteq saving \cup {<<c, r>>}
  /\ ResponseRows'
  /\ \A d \in Campaigns, u \in Requests : <<d, u>> # <<c, r>> =>
       /\ request'[d][u] = request[d][u] /\ response'[d][u] = response[d][u]
       /\ retention'[d][u] = retention[d][u] /\ answers'[d][u] = answers[d][u]
  /\ request[c][r] # "NONE" /\ request'[c][r] # "NONE"
  /\ request'[c][r] = "COMPLETE" <=> response'[c][r] \in {"SUBMITTED", "PURGED"}
  /\ request'[c][r] = "IN_PROGRESS" => response'[c][r] = "DRAFT"
  /\ retention'[c][r] # "NONE" => request'[c][r] = "COMPLETE"
  /\ response'[c][r] = "PURGED" => answers'[c][r] = {}
  /\ answers'[c][r] \subseteq QuestionsOf(campaign[c])
  /\ response'[c][r] = "SUBMITTED" =>
       \A x \in QuestionsOf(campaign[c]) : question[x].required => x \in answers'[c][r]

\* Such a step keeps what holds of all requests.
LEMMA OneRequest ==
  ASSUME ResponseInv, NEW c \in Campaigns, NEW r \in Requests, TouchesOne(c, r)
  PROVE  ResponseInv'
<1>0. ResponseRows /\ ResponseRefers /\ SubmittedIsComplete /\ RequestTellsResponse
  BY DEF ResponseInv
<1>2. ResponseRows'
  BY DEF TouchesOne
<1>3. /\ request[c][r] # "NONE" /\ request'[c][r] # "NONE"
      /\ request'[c][r] = "COMPLETE" <=> response'[c][r] \in {"SUBMITTED", "PURGED"}
      /\ request'[c][r] = "IN_PROGRESS" => response'[c][r] = "DRAFT"
      /\ retention'[c][r] # "NONE" => request'[c][r] = "COMPLETE"
      /\ response'[c][r] = "PURGED" => answers'[c][r] = {}
      /\ answers'[c][r] \subseteq QuestionsOf(campaign[c])
      /\ response'[c][r] = "SUBMITTED" =>
           \A x \in QuestionsOf(campaign[c]) : question[x].required => x \in answers'[c][r]
      /\ saving' \subseteq saving \cup {<<c, r>>}
      /\ \A d \in Campaigns, u \in Requests : <<d, u>> # <<c, r>> =>
           /\ request'[d][u] = request[d][u] /\ response'[d][u] = response[d][u]
           /\ retention'[d][u] = retention[d][u] /\ answers'[d][u] = answers[d][u]
  BY DEF TouchesOne
<1>4. /\ campaign' = campaign /\ version' = version /\ question' = question /\ students' = students
      /\ \A p \in People : Person(p)' = Person(p)
      /\ \A v : QuestionsOf(v)' = QuestionsOf(v)
  BY DEF TouchesOne, directoryVars, templateVars, Person, QuestionsOf
<1>5. ResponseRefers'
  <2>1. \A d \in Campaigns : campaign'[d] # 0 => version'[campaign'[d]] \in {"PUBLISHED", "RETIRED"}
    BY <1>0, <1>4 DEF ResponseRefers
  <2>2. ASSUME NEW d \in Campaigns, NEW u \in Requests
        PROVE  /\ request'[d][u] # "NONE" =>
                    campaign'[d] # 0 /\ Person(u[1])' /\ u[2] \in students'
               /\ request'[d][u] = "NONE" =>
                    response'[d][u] = "NONE" /\ retention'[d][u] = "NONE" /\ answers'[d][u] = {}
               /\ answers'[d][u] \subseteq {x \in Questions : question'[x].version = campaign'[d]}
               /\ <<d, u>> \in saving' => request'[d][u] # "NONE"
    <3>1. u[1] \in People
      BY DEF Requests
    <3>2. CASE <<d, u>> = <<c, r>>
      BY <1>0, <1>3, <1>4, <3>1, <3>2 DEF ResponseRefers, QuestionsOf
    <3>3. CASE <<d, u>> # <<c, r>>
      BY <1>0, <1>3, <1>4, <3>1, <3>3 DEF ResponseRefers, QuestionsOf
    <3> QED
      BY <3>2, <3>3
  <2> QED
    BY <2>1, <2>2 DEF ResponseRefers, QuestionsOf
<1>6. SubmittedIsComplete'
  <2> SUFFICES ASSUME NEW d \in Campaigns, NEW u \in Requests, response'[d][u] = "SUBMITTED",
                      NEW x \in QuestionsOf(campaign[d]), question[x].required
               PROVE  x \in answers'[d][u]
    BY <1>4 DEF SubmittedIsComplete
  <2>1. CASE <<d, u>> = <<c, r>>
    BY <1>0, <1>3, <2>1
  <2>2. CASE <<d, u>> # <<c, r>>
    BY <1>0, <1>3, <2>2 DEF SubmittedIsComplete
  <2> QED
    BY <2>1, <2>2
<1>7. RequestTellsResponse'
  <2> SUFFICES ASSUME NEW d \in Campaigns, NEW u \in Requests
               PROVE  /\ request'[d][u] = "COMPLETE" <=> response'[d][u] \in {"SUBMITTED", "PURGED"}
                      /\ request'[d][u] = "IN_PROGRESS" => response'[d][u] = "DRAFT"
                      /\ retention'[d][u] # "NONE" => request'[d][u] = "COMPLETE"
                      /\ response'[d][u] = "PURGED" => answers'[d][u] = {}
    BY DEF RequestTellsResponse
  <2>1. CASE <<d, u>> = <<c, r>>
    BY <1>0, <1>3, <2>1
  <2>2. CASE <<d, u>> # <<c, r>>
    BY <1>0, <1>3, <2>2 DEF RequestTellsResponse
  <2> QED
    BY <2>1, <2>2
<1> QED
  BY <1>2, <1>5, <1>6, <1>7 DEF ResponseInv

\* A new campaign asks people and students that exist.
LEMMA CampaignKept ==
  ASSUME DirectoryTypeOK, ResponseInv, NEW c \in Campaigns, NEW v \in Versions,
         NEW subjects \in CampaignSubjects, NEW mode \in {"STUDENTS", "GUARDIANS", "BOTH"},
         CreateFormCampaign(c, v, subjects, mode)
  PROVE  ResponseInv'
<1> USE DEF ResponseInv
<1>1. /\ campaign' = [campaign EXCEPT ![c] = v] /\ v \in 1..MaxVersion /\ MaxVersion \in Nat
      /\ version[v] = "PUBLISHED" /\ campaign[c] = 0
      /\ request' = [request EXCEPT ![c] = [r \in Requests |->
           IF r \in RequestsFor(subjects, mode) THEN "OUTSTANDING" ELSE "NONE"]]
      /\ UNCHANGED <<response, answers, retention, saving>>
  BY FormAssumption DEF CreateFormCampaign, InUse, Versions
<1>2. /\ version' = version /\ question' = question /\ students' = students
      /\ \A p \in People : Person(p)' = Person(p)
      /\ \A w : QuestionsOf(w)' = QuestionsOf(w)
  BY DEF CreateFormCampaign, directoryVars, templateVars, Person, QuestionsOf
<1>3. \A r \in Requests :
        /\ request[c][r] = "NONE" /\ response[c][r] = "NONE" /\ retention[c][r] = "NONE"
        /\ answers[c][r] = {} /\ <<c, r>> \notin saving
  BY <1>1 DEF ResponseRows, ResponseRefers
<1>4. \A r \in RequestsFor(subjects, mode) : r \in Requests /\ Person(r[1]) /\ r[2] \in students
  <2> SUFFICES ASSUME NEW r \in RequestsFor(subjects, mode)
               PROVE  r \in Requests /\ Person(r[1]) /\ r[2] \in students
    OBVIOUS
  <2>1. r \in Requests /\ r[2] \in subjects /\ r[1] \in People
    BY DEF RequestsFor, Requests
  <2>2. r[2] \in students
    BY <2>1 DEF CampaignSubjects, ActiveStudents
  <2>3. r[1] = r[2] \/ personStatus[r[1]] = "ACTIVE"
    BY DEF RequestsFor
  <2>4. Person(r[1])
    BY <2>2, <2>3 DEF DirectoryTypeOK, Person
  <2> QED
    BY <2>1, <2>2, <2>4
<1>5. /\ \A d \in Campaigns \ {c} : campaign'[d] = campaign[d] /\ request'[d] = request[d]
      /\ campaign'[c] = v
      /\ \A r \in Requests :
           request'[c][r] = IF r \in RequestsFor(subjects, mode) THEN "OUTSTANDING" ELSE "NONE"
      /\ campaign' \in [Campaigns -> 0..MaxVersion]
      /\ request' \in [Campaigns -> [Requests ->
           {"NONE", "OUTSTANDING", "IN_PROGRESS", "COMPLETE", "WAIVED"}]]
  BY <1>1 DEF ResponseRows
<1>6. ResponseRows'
  BY <1>1, <1>5 DEF ResponseRows
<1>7. ResponseRefers'
  <2>1. \A d \in Campaigns : campaign'[d] # 0 => version'[campaign'[d]] \in {"PUBLISHED", "RETIRED"}
    BY <1>1, <1>2, <1>5 DEF ResponseRefers
  <2>2. ASSUME NEW d \in Campaigns, NEW u \in Requests
        PROVE  /\ request'[d][u] # "NONE" =>
                    campaign'[d] # 0 /\ Person(u[1])' /\ u[2] \in students'
               /\ request'[d][u] = "NONE" =>
                    response'[d][u] = "NONE" /\ retention'[d][u] = "NONE" /\ answers'[d][u] = {}
               /\ answers'[d][u] \subseteq {x \in Questions : question'[x].version = campaign'[d]}
               /\ <<d, u>> \in saving' => request'[d][u] # "NONE"
    <3>1. u[1] \in People
      BY DEF Requests
    <3>2. CASE d = c
      BY <1>1, <1>2, <1>3, <1>4, <1>5, <3>1, <3>2 DEF QuestionsOf
    <3>3. CASE d # c
      BY <1>1, <1>2, <1>5, <3>1, <3>3 DEF ResponseRefers, QuestionsOf
    <3> QED
      BY <3>2, <3>3
  <2> QED
    BY <2>1, <2>2 DEF ResponseRefers, QuestionsOf
<1>8. SubmittedIsComplete'
  <2> SUFFICES ASSUME NEW d \in Campaigns, NEW u \in Requests, response[d][u] = "SUBMITTED",
                      NEW x \in QuestionsOf(campaign'[d]), question[x].required
               PROVE  x \in answers[d][u]
    BY <1>1, <1>2 DEF SubmittedIsComplete
  <2>1. d # c
    BY <1>3
  <2> QED
    BY <1>5, <2>1 DEF SubmittedIsComplete
<1>9. RequestTellsResponse'
  <2> SUFFICES ASSUME NEW d \in Campaigns, NEW u \in Requests
               PROVE  /\ request'[d][u] = "COMPLETE" <=> response[d][u] \in {"SUBMITTED", "PURGED"}
                      /\ request'[d][u] = "IN_PROGRESS" => response[d][u] = "DRAFT"
                      /\ retention[d][u] # "NONE" => request'[d][u] = "COMPLETE"
                      /\ response[d][u] = "PURGED" => answers[d][u] = {}
    BY <1>1 DEF RequestTellsResponse
  <2>1. CASE d = c
    BY <1>3, <1>5, <2>1
  <2>2. CASE d # c
    BY <1>5, <2>2 DEF RequestTellsResponse
  <2> QED
    BY <2>1, <2>2
<1> QED
  BY <1>6, <1>7, <1>8, <1>9

\* A purge empties expired responses and no others.
LEMMA PurgeKept ==
  ASSUME ResponseInv, NEW c \in Campaigns, PurgeExpiredFormResponses(c)
  PROVE  ResponseInv'
<1> USE DEF ResponseInv
<1>1. /\ request' = request /\ retention' = retention /\ saving' = saving /\ campaign' = campaign
      /\ version' = version /\ question' = question /\ students' = students
      /\ \A p \in People : Person(p)' = Person(p)
      /\ \A w : QuestionsOf(w)' = QuestionsOf(w)
  BY DEF PurgeExpiredFormResponses, ResponseStep, directoryVars, templateVars, Person, QuestionsOf
<1>2. /\ \A d \in Campaigns, r \in Requests :
           \/ response'[d][r] = response[d][r] /\ answers'[d][r] = answers[d][r]
           \/ response[d][r] = "SUBMITTED" /\ response'[d][r] = "PURGED" /\ answers'[d][r] = {}
      /\ response' \in [Campaigns -> [Requests -> {"NONE", "DRAFT", "SUBMITTED", "PURGED"}]]
      /\ answers' \in [Campaigns -> [Requests -> SUBSET Questions]]
  BY DEF PurgeExpiredFormResponses, Expired, ResponseRows
<1>3. ResponseRows'
  BY <1>1, <1>2 DEF ResponseRows
<1>4. ResponseRefers'
  <2>1. \A d \in Campaigns : campaign'[d] # 0 => version'[campaign'[d]] \in {"PUBLISHED", "RETIRED"}
    BY <1>1 DEF ResponseRefers
  <2>2. ASSUME NEW d \in Campaigns, NEW u \in Requests
        PROVE  /\ request'[d][u] # "NONE" =>
                    campaign'[d] # 0 /\ Person(u[1])' /\ u[2] \in students'
               /\ request'[d][u] = "NONE" =>
                    response'[d][u] = "NONE" /\ retention'[d][u] = "NONE" /\ answers'[d][u] = {}
               /\ answers'[d][u] \subseteq {x \in Questions : question'[x].version = campaign'[d]}
               /\ <<d, u>> \in saving' => request'[d][u] # "NONE"
    <3>1. u[1] \in People
      BY DEF Requests
    <3> QED
      BY <1>1, <1>2, <3>1 DEF ResponseRefers, QuestionsOf
  <2> QED
    BY <2>1, <2>2 DEF ResponseRefers, QuestionsOf
<1>5. SubmittedIsComplete'
  BY <1>1, <1>2 DEF SubmittedIsComplete
<1>6. RequestTellsResponse'
  BY <1>1, <1>2 DEF RequestTellsResponse
<1> QED
  BY <1>3, <1>4, <1>5, <1>6

\* Every step on a campaign and its requests keeps what was answered.
LEMMA ResponsesKept ==
  ASSUME DirectoryTypeOK, ResponseInv, CampaignNext
  PROVE  ResponseInv'
<1>0. ResponseRows /\ ResponseRefers /\ SubmittedIsComplete /\ RequestTellsResponse
  BY DEF ResponseInv
<1>1. ASSUME NEW c \in Campaigns, NEW r \in Requests, NEW given \in SUBSET QuestionsOf(campaign[c]),
             NEW submit \in BOOLEAN, SaveFormResponse(c, r, given, submit)
      PROVE  TouchesOne(c, r)
  <2> DEFINE stored == given \cup {x \in answers[c][r] : question[x].file}
             kept == RetentionAfter(c, r, submit)
             asked == IF submit THEN "COMPLETE" ELSE "IN_PROGRESS"
             got == IF submit THEN "SUBMITTED" ELSE "DRAFT"
  <2>1. /\ request[c][r] # "NONE"
        /\ UNCHANGED <<directoryVars, templateVars, campaign>>
        /\ saving' \subseteq saving \cup {<<c, r>>}
    BY <1>0, <1>1 DEF SaveFormResponse, ResponseStep, ResponseRefers
  <2>2. stored \in SUBSET QuestionsOf(campaign[c]) /\ stored \in SUBSET Questions
    BY <1>0 DEF ResponseRefers, QuestionsOf
  <2>3. kept \in {"NONE", "RUNNING"} /\ (kept # "NONE" => submit)
    BY DEF RetentionAfter
  <2>4. submit => \A x \in QuestionsOf(campaign[c]) : question[x].required => x \in stored
    BY <1>1 DEF SaveFormResponse, Answered
  <2>5. /\ request' = [request EXCEPT ![c][r] = asked]
        /\ response' = [response EXCEPT ![c][r] = got]
        /\ retention' = [retention EXCEPT ![c][r] = kept]
    BY <1>1 DEF SaveFormResponse
  <2>6. answers' = [answers EXCEPT ![c][r] = stored]
    BY <1>0, <1>1 DEF SaveFormResponse, ResponseRows
  <2>7. /\ asked \in {"COMPLETE", "IN_PROGRESS"} /\ (asked = "COMPLETE" <=> submit)
        /\ got \in {"SUBMITTED", "DRAFT"} /\ (got = "SUBMITTED" <=> submit)
    OBVIOUS
  <2> HIDE DEF stored, kept, asked, got
  <2>8. /\ request'[c][r] = asked /\ response'[c][r] = got
        /\ retention'[c][r] = kept /\ answers'[c][r] = stored
        /\ \A d \in Campaigns, u \in Requests : <<d, u>> # <<c, r>> =>
             /\ request'[d][u] = request[d][u] /\ response'[d][u] = response[d][u]
             /\ retention'[d][u] = retention[d][u] /\ answers'[d][u] = answers[d][u]
    BY <1>0, <2>5, <2>6 DEF ResponseRows
  <2>9. ResponseRows'
    BY <1>0, <2>1, <2>2, <2>3, <2>5, <2>6, <2>7 DEF ResponseRows
  <2> QED
    BY <2>1, <2>2, <2>3, <2>4, <2>7, <2>8, <2>9 DEF TouchesOne
<1>2. ASSUME NEW c \in Campaigns, NEW r \in Requests,
             \/ ReadFormRequest(c, r) \/ SaveFails(c, r)
             \/ WaiveFormRequest(c, r) \/ RetentionEnds(c, r)
      PROVE  TouchesOne(c, r)
  <2>1. /\ request[c][r] # "NONE"
        /\ UNCHANGED <<directoryVars, templateVars, campaign>>
        /\ saving' \subseteq saving \cup {<<c, r>>}
    BY <1>0, <1>2 DEF ReadFormRequest, SaveFails, WaiveFormRequest, RetentionEnds, ResponseStep,
       responseVars, ResponseRefers
  <2>2. /\ request[c][r] = "COMPLETE" <=> response[c][r] \in {"SUBMITTED", "PURGED"}
        /\ request[c][r] = "IN_PROGRESS" => response[c][r] = "DRAFT"
        /\ retention[c][r] # "NONE" => request[c][r] = "COMPLETE"
        /\ response[c][r] = "PURGED" => answers[c][r] = {}
        /\ answers[c][r] \subseteq QuestionsOf(campaign[c])
        /\ response[c][r] = "SUBMITTED" =>
             \A x \in QuestionsOf(campaign[c]) : question[x].required => x \in answers[c][r]
    BY <1>0 DEF RequestTellsResponse, SubmittedIsComplete, ResponseRefers
  <2>3. CASE ReadFormRequest(c, r) \/ SaveFails(c, r)
    <3>1. UNCHANGED <<campaign, request, response, answers, retention>>
      BY <2>1, <2>3 DEF ReadFormRequest, SaveFails, responseVars
    <3>2. ResponseRows'
      BY <1>0, <3>1 DEF ResponseRows
    <3> QED
      BY <2>1, <2>2, <3>1, <3>2 DEF TouchesOne
  <2>4. CASE WaiveFormRequest(c, r)
    <3>1. /\ request' = [request EXCEPT ![c][r] = "WAIVED"] /\ request[c][r] # "COMPLETE"
          /\ UNCHANGED <<campaign, response, answers, retention>>
      BY <2>1, <2>4 DEF WaiveFormRequest
    <3>2. ResponseRows'
      BY <1>0, <3>1 DEF ResponseRows
    <3>3. /\ request'[c][r] = "WAIVED"
          /\ \A d \in Campaigns, u \in Requests :
               <<d, u>> # <<c, r>> => request'[d][u] = request[d][u]
      BY <1>0, <3>1 DEF ResponseRows
    <3> QED
      BY <2>1, <2>2, <3>1, <3>2, <3>3 DEF TouchesOne
  <2>5. CASE RetentionEnds(c, r)
    <3>1. /\ retention' = [retention EXCEPT ![c][r] = "EXPIRED"] /\ retention[c][r] = "RUNNING"
          /\ UNCHANGED <<campaign, request, response, answers>>
      BY <2>1, <2>5 DEF RetentionEnds
    <3>2. ResponseRows'
      BY <1>0, <3>1 DEF ResponseRows
    <3>3. /\ retention'[c][r] = "EXPIRED"
          /\ \A d \in Campaigns, u \in Requests :
               <<d, u>> # <<c, r>> => retention'[d][u] = retention[d][u]
      BY <1>0, <3>1 DEF ResponseRows
    <3> QED
      BY <2>1, <2>2, <3>1, <3>2, <3>3 DEF TouchesOne
  <2> QED
    BY <1>2, <2>3, <2>4, <2>5
<1> QED
  BY <1>1, <1>2, OneRequest, CampaignKept, PurgeKept DEF CampaignNext

\* What is asked and read with published versions does not change with the template.
LEMMA ResponsesReadSame ==
  ASSUME TemplateInv, ResponseInv, TemplateNext
  PROVE  ResponseInv'
<1>0. ResponseRows /\ ResponseRefers /\ SubmittedIsComplete /\ RequestTellsResponse
  BY DEF ResponseInv
<1>1. UNCHANGED <<directoryVars, campaign, responseVars, saving>>
  BY DEF TemplateNext, CreateFormTemplate, UpdateDraftFormVersion, AddFormQuestion,
     PublishFormVersion, MoveFormQuestion, RemoveFormQuestion, CreateFormRevision, TemplateStep
<1>2. /\ students' = students /\ campaign' = campaign /\ request' = request
      /\ response' = response /\ answers' = answers /\ retention' = retention /\ saving' = saving
      /\ \A p \in People : Person(p)' = Person(p)
  BY <1>1 DEF directoryVars, responseVars, Person
<1>3. ASSUME NEW c \in Campaigns, campaign[c] # 0
      PROVE  /\ version'[campaign[c]] \in {"PUBLISHED", "RETIRED"}
             /\ {x \in Questions : question'[x].version = campaign[c]} = QuestionsOf(campaign[c])
             /\ \A x \in QuestionsOf(campaign[c]) : question'[x] = question[x]
  <2>1. PICK v \in Versions : v = campaign[c] /\ version[v] \in {"PUBLISHED", "RETIRED"}
    BY <1>0, <1>3 DEF ResponseRows, ResponseRefers, Versions
  <2>2. /\ QuestionsOf(v)' = QuestionsOf(v)
        /\ \A q \in QuestionsOf(v) : question'[q] = question[q]
        /\ version'[v] \in {"PUBLISHED", "RETIRED"}
    BY <2>1, PublishedFixed
  <2>3. QuestionsOf(v)' = {x \in Questions : question'[x].version = v}
    BY DEF QuestionsOf
  <2> QED
    BY <2>1, <2>2, <2>3
<1>4. ResponseRows' /\ RequestTellsResponse'
  BY <1>0, <1>2 DEF ResponseRows, RequestTellsResponse
<1>5. ResponseRefers'
  <2>1. ASSUME NEW c \in Campaigns, NEW r \in Requests
        PROVE  /\ answers[c][r] \subseteq {x \in Questions : question'[x].version = campaign[c]}
               /\ r[1] \in People
    <3>1. answers[c][r] \subseteq QuestionsOf(campaign[c]) /\ r[1] \in People
      BY <1>0 DEF ResponseRefers, Requests
    <3>2. CASE campaign[c] = 0
      <4>1. answers[c][r] = {}
        BY <1>0, <3>2 DEF ResponseRefers
      <4> QED
        BY <3>1, <4>1
    <3>3. CASE campaign[c] # 0
      BY <1>3, <3>1, <3>3
    <3> QED
      BY <3>2, <3>3
  <2>2. \A c \in Campaigns : campaign'[c] # 0 => version'[campaign'[c]] \in {"PUBLISHED", "RETIRED"}
    BY <1>2, <1>3
  <2>3. ASSUME NEW c \in Campaigns, NEW r \in Requests
        PROVE  /\ request'[c][r] # "NONE" =>
                    campaign'[c] # 0 /\ Person(r[1])' /\ r[2] \in students'
               /\ request'[c][r] = "NONE" =>
                    response'[c][r] = "NONE" /\ retention'[c][r] = "NONE" /\ answers'[c][r] = {}
               /\ answers'[c][r] \subseteq {x \in Questions : question'[x].version = campaign'[c]}
               /\ <<c, r>> \in saving' => request'[c][r] # "NONE"
    BY <1>0, <1>2, <2>1 DEF ResponseRefers
  <2> QED
    BY <2>2, <2>3 DEF ResponseRefers, QuestionsOf
<1>6. SubmittedIsComplete'
  <2> SUFFICES ASSUME NEW c \in Campaigns, NEW r \in Requests, response[c][r] = "SUBMITTED",
                      NEW q \in Questions, question'[q].version = campaign[c], question'[q].required
               PROVE  q \in answers[c][r]
    BY <1>2 DEF SubmittedIsComplete, QuestionsOf
  <2>1. campaign[c] # 0
    BY <1>0 DEF ResponseRefers
  <2>2. q \in QuestionsOf(campaign[c]) /\ question'[q] = question[q]
    BY <1>3, <2>1
  <2> QED
    BY <1>0, <2>2 DEF SubmittedIsComplete
<1> QED
  BY <1>4, <1>5, <1>6 DEF ResponseInv

\* Nor with the directory, whose records stay.
LEMMA ResponsesOutliveRecords ==
  ASSUME DirectoryTypeOK, ResponseInv, DirectoryNext,
         UNCHANGED <<templateVars, campaign, responseVars, saving>>
  PROVE  ResponseInv'
<1>1. students \subseteq students'
  BY DirectoryStep
<1>2. \A p \in People : Person(p) => Person(p)'
  BY DEF DirectoryTypeOK, DirectoryNext, PersonNext, GroupNext, FamilyNext, CreatePerson,
     UpdatePerson, ClassifyStudent, CreateGroup, UpdateGroup, AddGroupMembership,
     EndGroupMembership, LinkGuardianStudent, CreateGuardianAndLinkStudent,
     UnlinkGuardianStudent, Person
<1>3. /\ campaign' = campaign /\ request' = request /\ response' = response /\ answers' = answers
      /\ retention' = retention /\ saving' = saving /\ version' = version /\ question' = question
  BY DEF templateVars, responseVars
<1>4. ResponseRows' /\ SubmittedIsComplete' /\ RequestTellsResponse'
  BY <1>3 DEF ResponseInv, ResponseRows, SubmittedIsComplete, RequestTellsResponse, QuestionsOf
<1>5. ASSUME NEW c \in Campaigns, NEW r \in Requests
      PROVE  /\ request'[c][r] # "NONE" =>
                  campaign'[c] # 0 /\ Person(r[1])' /\ r[2] \in students'
             /\ request'[c][r] = "NONE" =>
                  response'[c][r] = "NONE" /\ retention'[c][r] = "NONE" /\ answers'[c][r] = {}
             /\ answers'[c][r] \subseteq {x \in Questions : question'[x].version = campaign'[c]}
             /\ <<c, r>> \in saving' => request'[c][r] # "NONE"
  <2>1. r[1] \in People
    BY DEF Requests
  <2> QED
    BY <1>1, <1>2, <1>3, <2>1 DEF ResponseInv, ResponseRefers, QuestionsOf
<1>6. \A c \in Campaigns : campaign'[c] # 0 => version'[campaign'[c]] \in {"PUBLISHED", "RETIRED"}
  BY <1>3 DEF ResponseInv, ResponseRefers
<1>7. ResponseRefers'
  BY <1>5, <1>6 DEF ResponseRefers, QuestionsOf
<1> QED
  BY <1>4, <1>7 DEF ResponseInv

-----------------------------------------------------------------------------
\* Reminders.

\* Every step of a reminder keeps who is listed within whom it addressed or left out.
LEMMA RemindersKept ==
  ASSUME ReminderInv, FormReminderNext
  PROVE  ReminderInv'
<1> USE DEF ReminderInv
<1>1. ASSUME NEW a \in Announcements, NEW c \in Campaigns, ReadOutstanding(a, c)
      PROVE  ReminderInv'
  <2> DEFINE open == OutstandingRequests(c)
  <2>1. /\ UNCHANGED <<audience, leftOut, reminded>>
        /\ reminding' = [reminding EXCEPT ![a] =
                           [step |-> "read", campaign |-> c, requests |-> open]]
        /\ reminding[a].step = "unused"
    BY <1>1 DEF ReadOutstanding, Unused, Blank
  <2>2. open \subseteq Requests
    BY DEF OutstandingRequests
  <2> HIDE DEF open
  <2>3. /\ reminding'[a] = [step |-> "read", campaign |-> c, requests |-> open]
        /\ \A b \in Announcements \ {a} : reminding'[b] = reminding[b]
        /\ reminding' = [b \in Announcements |-> reminding'[b]]
    BY <2>1
  <2>4. \A m \in reminded : m[1] # a
    BY <2>1
  <2> QED
    BY <2>1, <2>2, <2>3, <2>4
<1>2. ASSUME NEW a \in Announcements, CreateReminderAnnouncement(a)
      PROVE  ReminderInv'
  <2>1. Recipients(a) \subseteq People
    BY DEF Recipients, Requests
  <2> DEFINE active == {p \in Recipients(a) : personStatus[p] = "ACTIVE"}
             other == {p \in Recipients(a) : personStatus[p] # "ACTIVE"}
  <2>2. /\ audience' = [audience EXCEPT ![a] = active]
        /\ leftOut' = [leftOut EXCEPT ![a] = other]
        /\ reminding' = [reminding EXCEPT ![a].step = "created"]
        /\ reminded' = reminded /\ reminding[a].step = "read"
    BY <1>2 DEF CreateReminderAnnouncement
  <2>3. /\ active \in SUBSET People /\ other \in SUBSET People
        /\ \A r \in reminding[a].requests : r[1] \in active \cup other
    BY <2>1 DEF Recipients
  <2> HIDE DEF active, other
  <2>4. /\ audience' \in [Announcements -> SUBSET People]
        /\ leftOut' \in [Announcements -> SUBSET People]
        /\ audience'[a] = active /\ leftOut'[a] = other
        /\ \A b \in Announcements \ {a} : audience'[b] = audience[b] /\ leftOut'[b] = leftOut[b]
    BY <2>2, <2>3
  <2>5. /\ reminding' = [b \in Announcements |-> reminding'[b]]
        /\ \A b \in Announcements \ {a} : reminding'[b] = reminding[b]
        /\ reminding'[a] = [reminding[a] EXCEPT !.step = "created"]
    BY <2>2
  <2>6. reminding'[a] = [step |-> "created", campaign |-> reminding[a].campaign,
                         requests |-> reminding[a].requests]
    BY <2>5
  <2>7. \A m \in reminded : m[1] # a
    BY <2>2
  <2> QED
    BY <2>2, <2>3, <2>4, <2>5, <2>6, <2>7
<1>3. ASSUME NEW a \in Announcements, RecordFormReminders(a)
      PROVE  ReminderInv'
  <2>1. /\ UNCHANGED <<audience, leftOut>> /\ reminding[a].step = "created"
        /\ reminding' = [reminding EXCEPT ![a] = Ended]
        /\ \A m \in reminded' : m \in reminded \/
             (m[1] = a /\ m[3] \in reminding[a].requests)
    BY <1>3 DEF RecordFormReminders, StillOutstanding
  <2>2. /\ reminding' = [b \in Announcements |-> reminding'[b]]
        /\ \A b \in Announcements \ {a} : reminding'[b] = reminding[b]
        /\ reminding'[a] = Ended
    BY <2>1
  <2>3. /\ Ended = [step |-> Ended.step, campaign |-> Ended.campaign,
                    requests |-> Ended.requests]
        /\ Ended.step = "ended" /\ Ended.requests = {}
    BY DEF Ended, Blank
  <2>4. /\ \A r \in reminding[a].requests : r[1] \in audience[a] \cup leftOut[a]
        /\ \A m \in reminded : m[1] # a
    BY <2>1
  <2>5. ASSUME NEW m \in reminded'
        PROVE  /\ m[1] \in Announcements /\ reminding'[m[1]].step = "ended"
               /\ m[3][1] \in audience'[m[1]] \cup leftOut'[m[1]]
    <3>1. CASE m \in reminded
      BY <3>1, <2>1, <2>2, <2>4
    <3>2. CASE m[1] = a /\ m[3] \in reminding[a].requests
      BY <3>2, <2>1, <2>2, <2>3, <2>4
    <3> QED
      BY <3>1, <3>2, <2>1
  <2>6. ASSUME NEW b \in Announcements
        PROVE  /\ reminding'[b] = [step |-> reminding'[b].step,
                                   campaign |-> reminding'[b].campaign,
                                   requests |-> reminding'[b].requests]
               /\ reminding'[b].requests \subseteq Requests
               /\ reminding'[b].step = "created" =>
                    \A r \in reminding'[b].requests : r[1] \in audience'[b] \cup leftOut'[b]
    <3>1. CASE b = a
      BY <3>1, <2>2, <2>3
    <3>2. CASE b # a
      BY <3>2, <2>1, <2>2
    <3> QED
      BY <3>1, <3>2
  <2> QED
    BY <2>1, <2>2, <2>5, <2>6
<1>4. ASSUME NEW a \in Announcements, ReminderLost(a)
      PROVE  ReminderInv'
  <2> DEFINE after == IF reminding[a].step = "read" THEN Unused ELSE Ended
  <2>1. /\ UNCHANGED <<audience, leftOut, reminded>>
        /\ reminding' = [reminding EXCEPT ![a] = after]
        /\ reminding[a].step # "ended"
    BY <1>4 DEF ReminderLost
  <2>2. /\ after = [step |-> after.step, campaign |-> after.campaign,
                    requests |-> after.requests]
        /\ after.step # "created" /\ after.requests = {}
    BY DEF Ended, Unused, Blank
  <2> HIDE DEF after
  <2>3. /\ reminding' = [b \in Announcements |-> reminding'[b]]
        /\ \A b \in Announcements \ {a} : reminding'[b] = reminding[b]
        /\ reminding'[a] = after
    BY <2>1
  <2>4. \A m \in reminded : m[1] # a
    BY <2>1
  <2>5. ASSUME NEW b \in Announcements
        PROVE  /\ reminding'[b] = [step |-> reminding'[b].step,
                                   campaign |-> reminding'[b].campaign,
                                   requests |-> reminding'[b].requests]
               /\ reminding'[b].requests \subseteq Requests
               /\ reminding'[b].step = "created" =>
                    \A r \in reminding'[b].requests : r[1] \in audience'[b] \cup leftOut'[b]
    <3>1. CASE b = a
      BY <3>1, <2>2, <2>3
    <3>2. CASE b # a
      BY <3>2, <2>1, <2>3
    <3> QED
      BY <3>1, <3>2
  <2> QED
    BY <2>1, <2>3, <2>4, <2>5
<1> QED
  BY <1>1, <1>2, <1>3, <1>4 DEF FormReminderNext

-----------------------------------------------------------------------------
\* The specification.

\* Nothing has happened yet.
LEMMA FormInvInit == FormInit => FormInv
<1> SUFFICES ASSUME FormInit PROVE FormInv
  OBVIOUS
<1>1. DirectoryTypeOK
  BY DEF FormInit, DirectoryInit, DirectoryTypeOK, RecordStatus, Person, Group
<1>2. HeldVersions = {} /\ 1..0 = {} /\ 0 \in 0..MaxVersion /\ 0 \notin Versions
  BY FormAssumption DEF FormInit, HeldVersions, Versions
<1>3. \A v \in Versions : QuestionsOf(v) = {}
  BY <1>2 DEF FormInit, QuestionsOf, NoQuestion
<1>4. \A v \in Versions : Ordered(v)
  BY <1>2, <1>3, FS_EmptySet DEF Ordered
<1>5. TemplateRows
  BY FormAssumption, <1>2 DEF FormInit, TemplateRows, VersionStatus, QuestionRows, NoQuestion
<1>6. VersionsCounted /\ OneOfEach /\ UsedVersionsAsk
  BY <1>2 DEF FormInit, VersionsCounted, OneOfEach, UsedVersionsAsk
<1>7. ResponseInv
  BY FormAssumption DEF FormInit, ResponseInv, ResponseRows, ResponseRefers, SubmittedIsComplete,
     RequestTellsResponse
<1>8. ReminderInv
  BY DEF FormInit, ReminderInv, Unused, Blank
<1> QED
  BY <1>1, <1>4, <1>5, <1>6, <1>7, <1>8 DEF FormInv, TemplateInv

\* A template whose rows stay is as it was.
LEMMA TemplateUntouched ==
  ASSUME TemplateInv, UNCHANGED templateVars
  PROVE  TemplateInv'
<1>1. version' = version /\ timed' = timed /\ question' = question
  BY DEF templateVars
<1>2. HeldVersions' = HeldVersions /\ \A v : QuestionsOf(v)' = QuestionsOf(v)
  BY <1>1 DEF HeldVersions, QuestionsOf
<1>3. TemplateRows' /\ VersionsCounted' /\ OneOfEach'
  BY <1>1, <1>2 DEF TemplateInv, TemplateRows, VersionsCounted, OneOfEach
<1>4. UsedVersionsAsk'
  BY <1>1, <1>2 DEF TemplateInv, UsedVersionsAsk
<1>5. \A v \in Versions : Ordered(v)'
  BY <1>1 DEF TemplateInv, Ordered, QuestionsOf
<1> QED
  BY <1>3, <1>4, <1>5 DEF TemplateInv

\* Responses are kept by a step that does not touch them or what they refer to.
LEMMA ResponsesUntouched ==
  ASSUME ResponseInv, UNCHANGED <<directoryVars, templateVars, campaign, responseVars, saving>>
  PROVE  ResponseInv'
BY DEF directoryVars, templateVars, responseVars, ResponseInv, ResponseRows, ResponseRefers,
   SubmittedIsComplete, RequestTellsResponse, QuestionsOf, Person

\* Campaigns and their requests are changed by their own operations.
LEMMA CampaignStepsAlone ==
  ASSUME CampaignNext
  PROVE  UNCHANGED directoryVars /\ UNCHANGED templateVars /\ UNCHANGED reminderVars
<1> DEFINE Alone == UNCHANGED directoryVars /\ UNCHANGED templateVars /\ UNCHANGED reminderVars
<1>1. ASSUME NEW c \in Campaigns, NEW v \in Versions, NEW subjects \in CampaignSubjects,
             NEW mode \in {"STUDENTS", "GUARDIANS", "BOTH"},
             CreateFormCampaign(c, v, subjects, mode)
      PROVE  Alone
  BY <1>1 DEF CreateFormCampaign
<1>2. ASSUME NEW c \in Campaigns, PurgeExpiredFormResponses(c)
      PROVE  Alone
  BY <1>2 DEF PurgeExpiredFormResponses, ResponseStep
<1>3. ASSUME NEW c \in Campaigns, NEW r \in Requests,
             NEW given \in SUBSET QuestionsOf(campaign[c]), NEW submit \in BOOLEAN,
             SaveFormResponse(c, r, given, submit)
      PROVE  Alone
  BY <1>3 DEF SaveFormResponse, ResponseStep
<1>4. ASSUME NEW c \in Campaigns, NEW r \in Requests,
             \/ ReadFormRequest(c, r) \/ SaveFails(c, r)
             \/ WaiveFormRequest(c, r) \/ RetentionEnds(c, r)
      PROVE  Alone
  BY <1>4 DEF ReadFormRequest, SaveFails, WaiveFormRequest, RetentionEnds, ResponseStep
<1> HIDE DEF Alone
<1>5. Alone
  BY <1>1, <1>2, <1>3, <1>4 DEF CampaignNext
<1> QED
  BY <1>5 DEF Alone

\* Every step keeps the invariant.
LEMMA FormInvStep == FormInv /\ [FormNext]_formVars => FormInv'
<1> SUFFICES ASSUME FormInv, [FormNext]_formVars PROVE FormInv'
  OBVIOUS
<1>0. DirectoryTypeOK /\ TemplateInv /\ ResponseInv /\ ReminderInv
  BY DEF FormInv
<1>a. ASSUME UNCHANGED directoryVars PROVE DirectoryTypeOK'
  BY <1>0, <1>a DEF directoryVars, DirectoryTypeOK, Person, Group
<1>b. ASSUME UNCHANGED reminderVars PROVE ReminderInv'
  BY <1>0, <1>b DEF reminderVars, ReminderInv
<1>1. CASE FormDirectoryNext
  <2>1. /\ DirectoryNext
        /\ UNCHANGED <<templateVars, campaign, responseVars, saving>>
        /\ UNCHANGED templateVars /\ UNCHANGED reminderVars
    BY <1>1 DEF FormDirectoryNext
  <2> QED
    BY <1>0, <1>b, <2>1, DirectoryStep, TemplateUntouched, ResponsesOutliveRecords DEF FormInv
<1>2. CASE TemplateNext
  <2>1. UNCHANGED directoryVars /\ UNCHANGED reminderVars
    BY <1>2 DEF TemplateNext, CreateFormTemplate, UpdateDraftFormVersion, AddFormQuestion,
       PublishFormVersion, MoveFormQuestion, RemoveFormQuestion, CreateFormRevision, TemplateStep
  <2>2. TemplateInv'
    BY <1>0, <1>2, TemplateRowsKept, OrderKept DEF TemplateInv
  <2> QED
    BY <1>0, <1>2, <1>a, <1>b, <2>1, <2>2, ResponsesReadSame DEF FormInv
<1>3. CASE CampaignNext
  <2>1. UNCHANGED directoryVars /\ UNCHANGED templateVars /\ UNCHANGED reminderVars
    BY <1>3, CampaignStepsAlone
  <2> QED
    BY <1>0, <1>3, <1>a, <1>b, <2>1, TemplateUntouched, ResponsesKept DEF FormInv
<1>4. CASE FormReminderNext
  <2>1. /\ UNCHANGED <<directoryVars, templateVars, campaign, responseVars, saving>>
        /\ UNCHANGED directoryVars /\ UNCHANGED templateVars
    BY <1>4 DEF FormReminderNext, ReadOutstanding, CreateReminderAnnouncement,
       RecordFormReminders, ReminderLost, ReminderStep
  <2> QED
    BY <1>0, <1>4, <1>a, <2>1, TemplateUntouched, ResponsesUntouched, RemindersKept DEF FormInv
<1>5. CASE UNCHANGED formVars
  <2>1. /\ UNCHANGED <<directoryVars, templateVars, campaign, responseVars, saving>>
        /\ UNCHANGED directoryVars /\ UNCHANGED templateVars /\ UNCHANGED reminderVars
    BY <1>5 DEF formVars
  <2> QED
    BY <1>0, <1>a, <1>b, <2>1, TemplateUntouched, ResponsesUntouched DEF FormInv
<1> QED
  BY <1>1, <1>2, <1>3, <1>4, <1>5 DEF FormNext

\* At most one of a set whose members are all equal.
LEMMA AtMostOne ==
  ASSUME NEW S, \A x, y \in S : x = y
  PROVE  Cardinality(S) <= 1
<1>1. CASE S = {}
  BY <1>1, FS_EmptySet
<1>2. CASE S # {}
  <2>1. PICK x \in S : S = {x}
    BY <1>2
  <2> QED
    BY <2>1, FS_Singleton
<1> QED
  BY <1>1, <1>2

\* The checked invariants follow.
LEMMA FormInvImplies == FormInv => VersionsInv /\ ResponsesInv
<1> SUFFICES ASSUME FormInv PROVE VersionsInv /\ ResponsesInv
  OBVIOUS
<1>1. FormTypeOK
  <2>1. TemplateRows /\ ResponseRows /\ ResponseRefers /\ ReminderInv
    BY DEF FormInv, TemplateInv, ResponseInv
  <2>2. /\ version \in [Versions -> {"ABSENT", "DRAFT", "PUBLISHED", "RETIRED"}]
        /\ timed \subseteq HeldVersions
        /\ \A q \in Questions : question[q] = NoQuestion \/ question[q].version \in HeldVersions
        /\ \A a \in Announcements : audience[a] \subseteq People
    BY <2>1 DEF TemplateRows, VersionStatus, ReminderInv
  <2>3. \A c \in Campaigns, r \in Requests :
          /\ request[c][r] \in {"NONE", "OUTSTANDING", "IN_PROGRESS", "COMPLETE", "WAIVED"}
          /\ response[c][r] \in {"NONE", "DRAFT", "SUBMITTED", "PURGED"}
          /\ retention[c][r] \in {"NONE", "RUNNING", "EXPIRED"}
    BY <2>1 DEF ResponseRows
  <2>4. /\ \A c \in Campaigns : campaign[c] # 0 => version[campaign[c]] \in {"PUBLISHED", "RETIRED"}
        /\ \A c \in Campaigns, r \in Requests :
             /\ request[c][r] # "NONE" => campaign[c] # 0 /\ Person(r[1]) /\ r[2] \in students
             /\ answers[c][r] \subseteq QuestionsOf(campaign[c])
    BY <2>1 DEF ResponseRefers
  <2> QED
    BY <2>2, <2>3, <2>4 DEF FormTypeOK
<1>2. QuestionsInOrder
  <2> SUFFICES ASSUME NEW v \in Versions
               PROVE  {question[q].position : q \in QuestionsOf(v)} =
                        1..Cardinality(QuestionsOf(v))
    BY DEF QuestionsInOrder
  <2>1. Ordered(v)
    BY DEF FormInv, TemplateInv
  <2> QED
    BY <2>1 DEF Ordered
<1>3. OneDraftOneInUse
  <2>1. ASSUME NEW status \in {"DRAFT", "PUBLISHED"}
        PROVE  Cardinality({v \in Versions : version[v] = status}) <= 1
    <3>1. \A v, w \in {x \in Versions : version[x] = status} : v = w
      BY DEF FormInv, TemplateInv, OneOfEach
    <3> QED
      BY <3>1, AtMostOne
  <2> QED
    BY <2>1 DEF FormInv, TemplateInv, UsedVersionsAsk, OneDraftOneInUse
<1>4. ResponsesInv
  BY DEF FormInv, ResponseInv, ReminderInv, ResponsesInv, RemindedOrInactive
<1> QED
  BY <1>1, <1>2, <1>3, <1>4 DEF VersionsInv

\* The invariant holds in every reachable state.
THEOREM FormInvariant == FormSpec => []FormInv
BY FormInvInit, FormInvStep, PTL DEF FormSpec

\* The versions of a template are consistent through every order of editing,
\* publishing and revising: questions without a gap, one draft, one version in use.
THEOREM VersionsCorrect == FormSpec => []VersionsInv
BY FormInvariant, FormInvImplies, PTL

\* What a campaign tells of its requests is true: submitted responses are complete,
\* only complete ones can expire, and who is listed as reminded was addressed or was
\* not ACTIVE when the announcement was made.
THEOREM ResponsesCorrect == FormSpec => []ResponsesInv
BY FormInvariant, FormInvImplies, PTL

\* A version that has been published stays as it is.
THEOREM PublishedForGood == FormSpec => PublishedVersionsAreFixed
<1> DEFINE Fixed == \A v \in Versions : version[v] \in {"PUBLISHED", "RETIRED"} =>
                      /\ QuestionsOf(v)' = QuestionsOf(v)
                      /\ \A q \in QuestionsOf(v) : question'[q] = question[q]
                      /\ v \in timed' <=> v \in timed
                      /\ version'[v] \in {"PUBLISHED", "RETIRED"}
<1>1. FormInv /\ [FormNext]_formVars => [Fixed]_templateVars
  <2> SUFFICES ASSUME FormInv, [FormNext]_formVars, ~UNCHANGED templateVars
               PROVE  Fixed
    OBVIOUS
  <2>1. TemplateNext
    BY CampaignStepsAlone DEF FormNext, formVars, FormDirectoryNext, FormReminderNext,
       ReadOutstanding, CreateReminderAnnouncement, RecordFormReminders, ReminderLost,
       ReminderStep
  <2> QED
    BY <2>1, PublishedFixed DEF FormInv
<1> QED
  BY FormInvariant, <1>1, PTL DEF FormSpec, PublishedVersionsAreFixed

\* A waived request and a purged response stay so, whatever was under way.
THEOREM ClosedForGood == FormSpec => ClosedStaysClosed
<1> DEFINE Closed == \A c \in Campaigns, r \in Requests :
                       /\ request[c][r] = "WAIVED" =>
                            request'[c][r] = "WAIVED" /\ answers'[c][r] = answers[c][r]
                       /\ response[c][r] = "PURGED" =>
                            response'[c][r] = "PURGED" /\ answers'[c][r] = {}
<1>1. FormInv /\ [FormNext]_formVars => [Closed]_responseVars
  <2> SUFFICES ASSUME FormInv, [FormNext]_formVars, ~UNCHANGED responseVars
               PROVE  Closed
    OBVIOUS
  <2>0. ResponseRows /\ ResponseRefers /\ RequestTellsResponse
    BY DEF FormInv, ResponseInv
  <2>1. CampaignNext
    BY DEF FormNext, formVars, FormDirectoryNext, TemplateNext, CreateFormTemplate,
       UpdateDraftFormVersion, AddFormQuestion, PublishFormVersion, MoveFormQuestion,
       RemoveFormQuestion, CreateFormRevision, TemplateStep, FormReminderNext,
       ReadOutstanding, CreateReminderAnnouncement, RecordFormReminders, ReminderLost,
       ReminderStep
  <2>2. ASSUME NEW c \in Campaigns, NEW v \in Versions, NEW subjects \in CampaignSubjects,
               NEW mode \in {"STUDENTS", "GUARDIANS", "BOTH"},
               CreateFormCampaign(c, v, subjects, mode)
        PROVE  Closed
    <3>1. /\ \A d \in Campaigns \ {c} : request'[d] = request[d]
          /\ \A r \in Requests : request[c][r] = "NONE"
          /\ UNCHANGED <<response, answers>>
      BY <2>0, <2>2 DEF CreateFormCampaign, ResponseRows, ResponseRefers
    <3> QED
      BY <2>0, <3>1 DEF RequestTellsResponse
  <2>3. ASSUME NEW c \in Campaigns, PurgeExpiredFormResponses(c)
        PROVE  Closed
    <3>1. /\ request' = request
          /\ \A d \in Campaigns, r \in Requests :
               \/ response'[d][r] = response[d][r] /\ answers'[d][r] = answers[d][r]
               \/ response[d][r] = "SUBMITTED"
      BY <2>0, <2>3 DEF PurgeExpiredFormResponses, Expired, ResponseRows
    <3> QED
      BY <2>0, <3>1 DEF RequestTellsResponse
  <2>4. ASSUME NEW c \in Campaigns, NEW r \in Requests,
               NEW given \in SUBSET QuestionsOf(campaign[c]), NEW submit \in BOOLEAN,
               SaveFormResponse(c, r, given, submit)
        PROVE  Closed
    <3>1. /\ request[c][r] # "WAIVED" /\ response[c][r] # "PURGED"
          /\ \A d \in Campaigns, u \in Requests : <<d, u>> # <<c, r>> =>
               /\ request'[d][u] = request[d][u] /\ response'[d][u] = response[d][u]
               /\ answers'[d][u] = answers[d][u]
      BY <2>0, <2>4 DEF SaveFormResponse, MayRespond, ResponseRows
    <3> QED
      BY <2>0, <3>1 DEF RequestTellsResponse
  <2>5. ASSUME NEW c \in Campaigns, NEW r \in Requests,
               ReadFormRequest(c, r) \/ SaveFails(c, r) \/ RetentionEnds(c, r)
        PROVE  Closed
    <3>1. UNCHANGED <<request, response, answers>>
      BY <2>5 DEF ReadFormRequest, SaveFails, RetentionEnds, responseVars
    <3> QED
      BY <2>0, <3>1 DEF RequestTellsResponse
  <2>6. ASSUME NEW c \in Campaigns, NEW r \in Requests, WaiveFormRequest(c, r)
        PROVE  Closed
    <3>1. /\ UNCHANGED <<response, answers>> /\ request'[c][r] = "WAIVED"
          /\ \A d \in Campaigns, u \in Requests :
               <<d, u>> # <<c, r>> => request'[d][u] = request[d][u]
      BY <2>0, <2>6 DEF WaiveFormRequest, ResponseRows
    <3> QED
      BY <2>0, <3>1 DEF RequestTellsResponse
  <2> QED
    BY <2>1, <2>2, <2>3, <2>4, <2>5, <2>6 DEF CampaignNext
<1> QED
  BY FormInvariant, <1>1, PTL DEF FormSpec, ClosedStaysClosed
=============================================================================
