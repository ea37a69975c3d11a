------------------------------ MODULE Directory ------------------------------
(***************************************************************************)
(* People, groups and family links: the part of the program's data that    *)
(* the ledger, the forms and the events read in their own transactions     *)
(* (the handlers of src/app/actions.ts on people and groups with their     *)
(* transactions in src/lib/inventory-service.ts).  Nothing is deleted      *)
(* here but a family link: a person is made inactive, a membership ended.  *)
(***************************************************************************)
EXTENDS Naturals, FiniteSets

CONSTANTS People,   \* person rows the program may create
          Groups    \* group rows the program may create

VARIABLES personStatus,  \* Person.status, "ABSENT" before creation
          students,      \* people with a StudentProfile
          groupStatus,   \* Group.active, "ABSENT" before creation
          members,       \* memberships without an end: <<group, person>>
          guardianOf     \* rows of GuardianStudent: <<guardian, student>>

directoryVars == <<personStatus, students, groupStatus, members, guardianOf>>

\* INACTIVE stands for INACTIVE, ARCHIVED and GRADUATED: readers ask for ACTIVE.
RecordStatus == {"ABSENT", "ACTIVE", "INACTIVE"}

Person(p) == personStatus[p] # "ABSENT"
Group(g) == groupStatus[g] # "ABSENT"
ActiveStudents == {p \in students : personStatus[p] = "ACTIVE"}
ActiveStudentsOf(g) == {p \in ActiveStudents : <<g, p>> \in members}
GuardiansOf(s) == {p \in People : <<p, s>> \in guardianOf}

DirectoryInit ==
  /\ personStatus = [p \in People |-> "ABSENT"]
  /\ students = {}
  /\ groupStatus = [g \in Groups |-> "ABSENT"]
  /\ members = {}
  /\ guardianOf = {}

-----------------------------------------------------------------------------
\* createPersonAction: any classification, a profile for a student, and the
\* groups ticked on the form, inactive ones included.
CreatePerson(p, student, groups) ==
  /\ ~Person(p)
  /\ \A g \in groups : Group(g)
  /\ personStatus' = [personStatus EXCEPT ![p] = "ACTIVE"]
  /\ students' = IF student THEN students \cup {p} ELSE students
  /\ members' = members \cup (groups \X {p})
  /\ UNCHANGED <<groupStatus, guardianOf>>

\* updatePersonAction; its form never takes a student profile away.
UpdatePerson(p, status, student) ==
  /\ Person(p)
  /\ personStatus' = [personStatus EXCEPT ![p] = status]
  /\ students' = IF student THEN students \cup {p} ELSE students
  /\ UNCHANGED <<groupStatus, members, guardianOf>>

\* addPersonClassificationAction: STUDENT is an update with a grade, the other
\* classifications are labels.
ClassifyStudent(p) ==
  /\ Person(p)
  /\ students' = students \cup {p}
  /\ UNCHANGED <<personStatus, groupStatus, members, guardianOf>>

CreateGroup(g) ==
  /\ ~Group(g)
  /\ groupStatus' = [groupStatus EXCEPT ![g] = "ACTIVE"]
  /\ UNCHANGED <<personStatus, students, members, guardianOf>>

UpdateGroup(g, active) ==
  /\ Group(g)
  /\ groupStatus' = [groupStatus EXCEPT ![g] = IF active THEN "ACTIVE" ELSE "INACTIVE"]
  /\ UNCHANGED <<personStatus, students, members, guardianOf>>

\* An upsert: the ended membership of a returning member is opened again.
AddGroupMembership(g, p) ==
  /\ Group(g)
  /\ Person(p)
  /\ members' = members \cup {<<g, p>>}
  /\ UNCHANGED <<personStatus, students, groupStatus, guardianOf>>

EndGroupMembership(g, p) ==
  /\ <<g, p>> \in members
  /\ members' = members \ {<<g, p>>}
  /\ UNCHANGED <<personStatus, students, groupStatus, guardianOf>>

\* Mistake: the profile of the student is not asked for.
AnyChild(g, s) == g # s /\ Person(g) /\ Person(s)

MayLink(g, s) == g # s /\ Person(g) /\ s \in students

LinkGuardianStudent(g, s) ==
  /\ MayLink(g, s)
  /\ guardianOf' = guardianOf \cup {<<g, s>>}
  /\ UNCHANGED <<personStatus, students, groupStatus, members>>

CreateGuardianAndLinkStudent(g, s) ==
  /\ ~Person(g)
  /\ s \in students
  /\ personStatus' = [personStatus EXCEPT ![g] = "ACTIVE"]
  /\ guardianOf' = guardianOf \cup {<<g, s>>}
  /\ UNCHANGED <<students, groupStatus, members>>

UnlinkGuardianStudent(g, s) ==
  /\ <<g, s>> \in guardianOf
  /\ guardianOf' = guardianOf \ {<<g, s>>}
  /\ UNCHANGED <<personStatus, students, groupStatus, members>>

PersonNext ==
  \E p \in People :
    \/ \E student \in BOOLEAN, groups \in SUBSET Groups : CreatePerson(p, student, groups)
    \/ \E status \in {"ACTIVE", "INACTIVE"}, student \in BOOLEAN :
         UpdatePerson(p, status, student)
    \/ ClassifyStudent(p)

GroupNext ==
  \E g \in Groups :
    \/ CreateGroup(g)
    \/ \E active \in BOOLEAN : UpdateGroup(g, active)
    \/ \E p \in People : AddGroupMembership(g, p) \/ EndGroupMembership(g, p)

FamilyNext ==
  \E g, s \in People :
    \/ LinkGuardianStudent(g, s)
    \/ CreateGuardianAndLinkStudent(g, s)
    \/ UnlinkGuardianStudent(g, s)

DirectoryNext == PersonNext \/ GroupNext \/ FamilyNext

\* Type invariant; memberships and family links lead to existing records.
DirectoryTypeOK ==
  /\ personStatus \in [People -> RecordStatus]
  /\ students \subseteq {p \in People : Person(p)}
  /\ groupStatus \in [Groups -> RecordStatus]
  /\ members \subseteq {g \in Groups : Group(g)} \X {p \in People : Person(p)}
  /\ guardianOf \subseteq {p \in People : Person(p)} \X students
=============================================================================
