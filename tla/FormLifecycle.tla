---------------------------- MODULE FormLifecycle ----------------------------
(***************************************************************************)
(* Forms: the versions of a template and their questions, campaigns that   *)
(* ask families for a response, responses from draft to purge, waivers and *)
(* reminders (src/lib/forms-service.ts with the handlers of                *)
(* src/app/forms-actions.ts).  One template: the operations on a template  *)
(* touch its own rows.  Saving a response takes two steps and reminding    *)
(* three, as their handlers read and store files before they write.  The   *)
(* files of a response are in ManagedFiles, the delivery of a reminder is  *)
(* in EmailDelivery.                                                       *)
(***************************************************************************)
EXTENDS Directory

CONSTANTS MaxVersion,     \* bound on the revisions of the template
          Questions, Campaigns, Announcements

ASSUME FormAssumption == MaxVersion \in Nat \ {0} /\ IsFiniteSet(Questions)

Versions == 1..MaxVersion
Requests == People \X People   \* <<recipient, subject>>

VARIABLES version,     \* FormTemplateVersion.status by version number
          timed,       \* versions with a retention period
          question,    \* FormQuestion rows: [version, position, required, file]
          campaign,    \* FormCampaign.templateVersion, 0 before creation
          request,     \* FormRequest.status by campaign and request
          response,    \* FormResponse.status
          answers,     \* questions with a stored answer or an active upload
          retention,   \* FormRequest.retentionExpiresAt: "NONE", "RUNNING", "EXPIRED"
          saving,      \* <<campaign, request>> a save handler is at work on
          audience,    \* people a reminder announcement is addressed to
          leftOut,     \* people it was made for who were not ACTIVE by then
          reminding,   \* how far its handler is, and what it has read
          reminded     \* FormReminder rows: <<announcement, campaign, request>>

templateVars == <<version, timed, question>>
responseVars == <<request, response, answers, retention>>
reminderVars == <<audience, leftOut, reminding, reminded>>
formVars == <<directoryVars, templateVars, campaign, responseVars, saving, reminderVars>>

NoQuestion == [version |-> 0, position |-> 0, required |-> FALSE, file |-> FALSE]
Blank(step) == [step |-> step, campaign |-> CHOOSE c \in Campaigns : TRUE, requests |-> {}]
Unused == Blank("unused")
Ended == Blank("ended")

QuestionsOf(v) == {q \in Questions : question[q].version = v}
HeldVersions == {v \in Versions : version[v] # "ABSENT"}
Latest == CHOOSE v \in HeldVersions : \A w \in HeldVersions : w <= v

FormInit ==
  /\ DirectoryInit
  /\ version = [v \in Versions |-> "ABSENT"]
  /\ timed = {}
  /\ question = [q \in Questions |-> NoQuestion]
  /\ campaign = [c \in Campaigns |-> 0]
  /\ request = [c \in Campaigns |-> [r \in Requests |-> "NONE"]]
  /\ response = [c \in Campaigns |-> [r \in Requests |-> "NONE"]]
  /\ answers = [c \in Campaigns |-> [r \in Requests |-> {}]]
  /\ retention = [c \in Campaigns |-> [r \in Requests |-> "NONE"]]
  /\ saving = {}
  /\ audience = [a \in Announcements |-> {}]
  /\ leftOut = [a \in Announcements |-> {}]
  /\ reminding = [a \in Announcements |-> Unused]
  /\ reminded = {}

-----------------------------------------------------------------------------
(* The template, its versions and their questions. *)

TemplateStep == UNCHANGED <<directoryVars, campaign, responseVars, saving, reminderVars>>

CreateFormTemplate(keepsTime) ==
  /\ TemplateStep
  /\ HeldVersions = {}
  /\ version' = [version EXCEPT ![1] = "DRAFT"]
  /\ timed' = IF keepsTime THEN {1} ELSE {}
  /\ UNCHANGED question

\* Mistake: what is in use can still be edited.
NotRetired(v) == version[v] \in {"DRAFT", "PUBLISHED"}

Editable(v) == version[v] = "DRAFT"

UpdateDraftFormVersion(v, keepsTime) ==
  /\ TemplateStep
  /\ Editable(v)
  /\ timed' = IF keepsTime THEN timed \cup {v} ELSE timed \ {v}
  /\ UNCHANGED <<version, question>>

\* The position is the number of questions plus one, and a second question on a
\* position is refused by the database's unique key.
AddFormQuestion(v, q, required, file) ==
  LET position == Cardinality(QuestionsOf(v)) + 1 IN
  /\ TemplateStep
  /\ Editable(v)
  /\ question[q] = NoQuestion
  /\ \A other \in QuestionsOf(v) : question[other].position # position
  /\ question' = [question EXCEPT ![q] =
       [version |-> v, position |-> position, required |-> required, file |-> file]]
  /\ UNCHANGED <<version, timed>>

\* Mistake: the questions behind a removed one keep their positions.
PositionKept(q, other) == question[other].position

PositionAfterRemoval(q, other) ==
  IF /\ question[other].version = question[q].version
     /\ question[other].position > question[q].position
  THEN question[other].position - 1
  ELSE question[other].position

RemoveFormQuestion(q) ==
  /\ TemplateStep
  /\ question[q] # NoQuestion
  /\ Editable(question[q].version)
  /\ question' = [other \in Questions |->
       IF other = q THEN NoQuestion
       ELSE [question[other] EXCEPT !.position = PositionAfterRemoval(q, other)]]
  /\ UNCHANGED <<version, timed>>

\* Two neighbours exchange their positions; the first and the last stay.
MoveFormQuestion(q, other) ==
  /\ TemplateStep
  /\ question[q] # NoQuestion
  /\ Editable(question[q].version)
  /\ question[other].version = question[q].version
  /\ question[other].position \in {question[q].position - 1, question[q].position + 1}
  /\ question' = [question EXCEPT ![q].position = question[other].position,
                                  ![other].position = question[q].position]
  /\ UNCHANGED <<version, timed>>

\* Mistake: the version in use stays published beside the new one.
Republished(v) == [version EXCEPT ![v] = "PUBLISHED"]

\* Any published version is retired.
Published(v) ==
  [w \in Versions |-> IF w = v THEN "PUBLISHED"
                      ELSE IF version[w] = "PUBLISHED" THEN "RETIRED" ELSE version[w]]

PublishFormVersion(v) ==
  /\ TemplateStep
  /\ version[v] = "DRAFT"
  /\ QuestionsOf(v) # {}
  /\ version' = Published(v)
  /\ UNCHANGED <<timed, question>>

\* A new draft after the latest version, with a copy of its questions.
CreateFormRevision(copyOf) ==
  LET v == Latest + 1 IN
  /\ TemplateStep
  /\ HeldVersions # {}
  /\ \A w \in HeldVersions : version[w] # "DRAFT"
  /\ v \in Versions
  /\ {copyOf[q] : q \in DOMAIN copyOf} = QuestionsOf(Latest)
  /\ version' = [version EXCEPT ![v] = "DRAFT"]
  /\ timed' = IF Latest \in timed THEN timed \cup {v} ELSE timed
  /\ question' = [q \in Questions |->
       IF q \in DOMAIN copyOf THEN [question[copyOf[q]] EXCEPT !.version = v]
       ELSE question[q]]

\* Unused identifiers for the copies of the latest version's questions, one each.
Copies ==
  IF HeldVersions = {} THEN {}
  ELSE UNION {[new -> QuestionsOf(Latest)] :
                new \in {s \in SUBSET {q \in Questions : question[q] = NoQuestion} :
                           Cardinality(s) = Cardinality(QuestionsOf(Latest))}}

TemplateNext ==
  \/ \E keepsTime \in BOOLEAN :
       \/ CreateFormTemplate(keepsTime)
       \/ \E v \in Versions : UpdateDraftFormVersion(v, keepsTime)
  \/ \E v \in Versions :
       \/ \E q \in Questions, required, file \in BOOLEAN : AddFormQuestion(v, q, required, file)
       \/ PublishFormVersion(v)
  \/ \E q, other \in Questions : MoveFormQuestion(q, other)
  \/ \E q \in Questions : RemoveFormQuestion(q)
  \/ \E copyOf \in Copies : CreateFormRevision(copyOf)

-----------------------------------------------------------------------------
(* Campaigns and responses. *)

\* The students of a campaign are the active ones of the program, a group or a grade,
\* or one of them.  Grades are not in the directory: any of them may share one.
CampaignSubjects == SUBSET ActiveStudents \ {{}}

RequestsFor(subjects, mode) ==
  {r \in Requests : /\ r[2] \in subjects
                    /\ \/ mode \in {"STUDENTS", "BOTH"} /\ r[1] = r[2]
                       \/ /\ mode \in {"GUARDIANS", "BOTH"}
                          /\ r[1] \in GuardiansOf(r[2])
                          /\ personStatus[r[1]] = "ACTIVE"}

\* Mistake: a draft can be sent out.
NotRetiredYet(v) == version[v] \in {"DRAFT", "PUBLISHED"}

InUse(v) == version[v] = "PUBLISHED"

CreateFormCampaign(c, v, subjects, mode) ==
  /\ campaign[c] = 0
  /\ InUse(v)
  /\ RequestsFor(subjects, mode) # {}
  /\ campaign' = [campaign EXCEPT ![c] = v]
  /\ request' = [request EXCEPT ![c] = [r \in Requests |->
       IF r \in RequestsFor(subjects, mode) THEN "OUTSTANDING" ELSE "NONE"]]
  /\ UNCHANGED <<directoryVars, templateVars, response, answers, retention, saving, reminderVars>>

ResponseStep(c) ==
  UNCHANGED <<directoryVars, templateVars, campaign, reminderVars>>

\* saveFormResponseAction reads the request, whatever its status, and stores its files.
ReadFormRequest(c, r) ==
  /\ ResponseStep(c)
  /\ request[c][r] # "NONE"
  /\ saving' = saving \cup {<<c, r>>}
  /\ UNCHANGED responseVars

\* Mistake: a purge leaves the request open to a new response.
OnlyWaivedRefused(c, r) == request[c][r] # "WAIVED"

\* Asked in the transaction, after the read.
MayRespond(c, r) == request[c][r] # "WAIVED" /\ response[c][r] # "PURGED"

\* Mistake: an answer saved with an earlier draft counts.
AnsweredBefore(c, r, given) ==
  \A q \in QuestionsOf(campaign[c]) : question[q].required => q \in given \cup answers[c][r]

\* hasAnswer: of the stored answers only the uploads count.
Answered(c, r, given) ==
  \A q \in QuestionsOf(campaign[c]) :
    question[q].required => q \in given \/ (question[q].file /\ q \in answers[c][r])

\* Mistake: a response taken back to a draft keeps its date.
DateKept(c, r, submit) ==
  IF submit /\ campaign[c] \in timed THEN "RUNNING" ELSE retention[c][r]

RetentionAfter(c, r, submit) ==
  IF submit /\ campaign[c] \in timed THEN "RUNNING" ELSE "NONE"

\* The form sends every question but the files, so an answer left out is cleared.
SaveFormResponse(c, r, given, submit) ==
  /\ ResponseStep(c)
  /\ <<c, r>> \in saving
  /\ MayRespond(c, r)
  /\ submit => Answered(c, r, given)
  /\ saving' = saving \ {<<c, r>>}
  /\ request' = [request EXCEPT ![c][r] = IF submit THEN "COMPLETE" ELSE "IN_PROGRESS"]
  /\ response' = [response EXCEPT ![c][r] = IF submit THEN "SUBMITTED" ELSE "DRAFT"]
  /\ answers' = [answers EXCEPT ![c][r] = given \cup {q \in @ : question[q].file}]
  /\ retention' = [retention EXCEPT ![c][r] = RetentionAfter(c, r, submit)]

\* Refused, by the rules above or by an answer that is not valid.
SaveFails(c, r) ==
  /\ ResponseStep(c)
  /\ <<c, r>> \in saving
  /\ saving' = saving \ {<<c, r>>}
  /\ UNCHANGED responseVars

WaiveFormRequest(c, r) ==
  /\ ResponseStep(c)
  /\ request[c][r] \notin {"NONE", "COMPLETE"}
  /\ request' = [request EXCEPT ![c][r] = "WAIVED"]
  /\ UNCHANGED <<response, answers, retention, saving>>

RetentionEnds(c, r) ==
  /\ ResponseStep(c)
  /\ retention[c][r] = "RUNNING"
  /\ retention' = [retention EXCEPT ![c][r] = "EXPIRED"]
  /\ UNCHANGED <<request, response, answers, saving>>

Expired(c) == {r \in Requests : response[c][r] = "SUBMITTED" /\ retention[c][r] = "EXPIRED"}

PurgeExpiredFormResponses(c) ==
  /\ ResponseStep(c)
  /\ campaign[c] # 0
  /\ response' = [response EXCEPT ![c] = [r \in Requests |->
       IF r \in Expired(c) THEN "PURGED" ELSE @[r]]]
  /\ answers' = [answers EXCEPT ![c] = [r \in Requests |-> IF r \in Expired(c) THEN {} ELSE @[r]]]
  /\ UNCHANGED <<request, retention, saving>>

CampaignNext ==
  \E c \in Campaigns :
    \/ \E v \in Versions, subjects \in CampaignSubjects, mode \in {"STUDENTS", "GUARDIANS", "BOTH"} :
         CreateFormCampaign(c, v, subjects, mode)
    \/ PurgeExpiredFormResponses(c)
    \/ \E r \in Requests :
         \/ ReadFormRequest(c, r)
         \/ \E given \in SUBSET QuestionsOf(campaign[c]), submit \in BOOLEAN :
              SaveFormResponse(c, r, given, submit)
         \/ SaveFails(c, r)
         \/ WaiveFormRequest(c, r)
         \/ RetentionEnds(c, r)

-----------------------------------------------------------------------------
(* Reminders. *)

ReminderStep == UNCHANGED <<directoryVars, templateVars, campaign, responseVars, saving>>
OutstandingRequests(c) == {r \in Requests : request[c][r] \in {"OUTSTANDING", "IN_PROGRESS"}}

\* createFormReminderAction reads the open requests ...
ReadOutstanding(a, c) ==
  /\ ReminderStep
  /\ reminding[a] = Unused
  /\ OutstandingRequests(c) # {}
  /\ reminding' = [reminding EXCEPT ![a] =
       [step |-> "read", campaign |-> c, requests |-> OutstandingRequests(c)]]
  /\ UNCHANGED <<audience, leftOut, reminded>>

Recipients(a) == {r[1] : r \in reminding[a].requests}

\* ... and creates an announcement for their recipients: createAnnouncement addresses
\* those who are ACTIVE by then, also when that is nobody.
CreateReminderAnnouncement(a) ==
  /\ ReminderStep
  /\ reminding[a].step = "read"
  /\ audience' = [audience EXCEPT ![a] = {p \in Recipients(a) : personStatus[p] = "ACTIVE"}]
  /\ leftOut' = [leftOut EXCEPT ![a] = {p \in Recipients(a) : personStatus[p] # "ACTIVE"}]
  /\ reminding' = [reminding EXCEPT ![a].step = "created"]
  /\ UNCHANGED reminded

\* Mistake: the requests open by now, whether or not they were when the handler read.
AllOutstanding(a) == OutstandingRequests(reminding[a].campaign)

\* Of the requests read, the ones still open.
StillOutstanding(a) == OutstandingRequests(reminding[a].campaign) \cap reminding[a].requests

\* recordFormReminders, in a transaction of its own, which asks neither who is ACTIVE
\* nor who is addressed; with no request left it fails, and the announcement stays
\* without rows.
RecordFormReminders(a) ==
  /\ ReminderStep
  /\ reminding[a].step = "created"
  /\ reminded' = reminded \cup ({a} \X {reminding[a].campaign} \X StillOutstanding(a))
  /\ reminding' = [reminding EXCEPT ![a] = Ended]
  /\ UNCHANGED <<audience, leftOut>>

\* One of the two transactions fails or the process ends before it.
ReminderLost(a) ==
  /\ ReminderStep
  /\ reminding[a].step \in {"read", "created"}
  /\ reminding' = [reminding EXCEPT ![a] = IF @.step = "read" THEN Unused ELSE Ended]
  /\ UNCHANGED <<audience, leftOut, reminded>>

FormReminderNext ==
  \E a \in Announcements :
    \/ \E c \in Campaigns : ReadOutstanding(a, c)
    \/ CreateReminderAnnouncement(a)
    \/ RecordFormReminders(a)
    \/ ReminderLost(a)

FormDirectoryNext ==
  /\ DirectoryNext
  /\ UNCHANGED <<templateVars, campaign, responseVars, saving, reminderVars>>

FormNext == FormDirectoryNext \/ TemplateNext \/ CampaignNext \/ FormReminderNext
FormSpec == FormInit /\ [][FormNext]_formVars

-----------------------------------------------------------------------------
(* Properties. *)

\* Type invariant.  Questions belong to versions, requests to campaigns, and a
\* campaign to a version that has been published.
FormTypeOK ==
  /\ version \in [Versions -> {"ABSENT", "DRAFT", "PUBLISHED", "RETIRED"}]
  /\ timed \subseteq HeldVersions
  /\ \A q \in Questions : question[q] = NoQuestion \/ question[q].version \in HeldVersions
  /\ \A c \in Campaigns :
       /\ campaign[c] # 0 => version[campaign[c]] \in {"PUBLISHED", "RETIRED"}
       /\ \A r \in Requests :
            /\ request[c][r] \in {"NONE", "OUTSTANDING", "IN_PROGRESS", "COMPLETE", "WAIVED"}
            /\ response[c][r] \in {"NONE", "DRAFT", "SUBMITTED", "PURGED"}
            /\ retention[c][r] \in {"NONE", "RUNNING", "EXPIRED"}
            /\ request[c][r] # "NONE" => campaign[c] # 0 /\ Person(r[1]) /\ r[2] \in students
            /\ answers[c][r] \subseteq QuestionsOf(campaign[c])
  /\ \A a \in Announcements : audience[a] \subseteq People

\* The questions of every version stand on the positions 1, 2, ... without a gap,
\* however they were added, removed, moved and copied; a gap would make the next
\* addition collide (addFormQuestion counts, moveFormQuestion looks next door).
QuestionsInOrder ==
  \A v \in Versions :
    {question[q].position : q \in QuestionsOf(v)} = 1..Cardinality(QuestionsOf(v))

\* A template has at most one draft and at most one version in use, and a version in
\* use asks something (publishFormVersion, createFormRevision).
OneDraftOneInUse ==
  /\ \A status \in {"DRAFT", "PUBLISHED"} :
       Cardinality({v \in Versions : version[v] = status}) <= 1
  /\ \A v \in Versions : version[v] = "PUBLISHED" => QuestionsOf(v) # {}

\* The versions of a template, through every order of editing, publishing and revising.
VersionsInv == FormTypeOK /\ QuestionsInOrder /\ OneDraftOneInUse

\* Once published a version is as it was for good: its questions, their order and its
\* retention period, which answers given long ago are read with.
PublishedVersionsAreFixed ==
  [][\A v \in Versions : version[v] \in {"PUBLISHED", "RETIRED"} =>
       /\ QuestionsOf(v)' = QuestionsOf(v)
       /\ \A q \in QuestionsOf(v) : question'[q] = question[q]
       /\ v \in timed' <=> v \in timed
       /\ version'[v] \in {"PUBLISHED", "RETIRED"}]_templateVars

\* A submitted response answers every required question of its version, also after
\* it was taken back to a draft, changed and submitted again.
SubmittedIsComplete ==
  \A c \in Campaigns, r \in Requests :
    response[c][r] = "SUBMITTED" =>
      \A q \in QuestionsOf(campaign[c]) : question[q].required => q \in answers[c][r]

\* A request is complete exactly when its response was submitted or has been purged
\* since; a retention date runs only for such a request, and a purged response has
\* no answers left (saveFormResponse, waiveFormRequest, purgeExpiredFormResponses).
RequestTellsResponse ==
  \A c \in Campaigns, r \in Requests :
    /\ request[c][r] = "COMPLETE" <=> response[c][r] \in {"SUBMITTED", "PURGED"}
    /\ request[c][r] = "IN_PROGRESS" => response[c][r] = "DRAFT"
    /\ retention[c][r] # "NONE" => request[c][r] = "COMPLETE"
    /\ response[c][r] = "PURGED" => answers[c][r] = {}

\* A waived request and a purged response stay so: a save that was under way when the
\* request was waived or the response purged brings nothing back.
ClosedStaysClosed ==
  [][\A c \in Campaigns, r \in Requests :
       /\ request[c][r] = "WAIVED" =>
            request'[c][r] = "WAIVED" /\ answers'[c][r] = answers[c][r]
       /\ response[c][r] = "PURGED" =>
            response'[c][r] = "PURGED" /\ answers'[c][r] = {}]_responseVars

\* A request is listed as reminded only when its recipient is addressed by the
\* announcement or was no longer ACTIVE when it was made - nobody else is, although
\* the rows are written after it, requests close and open again in between, and people
\* come and go (createFormReminderAction, replaceAudienceSnapshot, recordFormReminders).
RemindedOrInactive ==
  \A m \in reminded : m[3][1] \in audience[m[1]] \cup leftOut[m[1]]

\* What a campaign tells of its requests is true: what was answered, what may be purged
\* and who was reminded.
ResponsesInv == SubmittedIsComplete /\ RequestTellsResponse /\ RemindedOrInactive
=============================================================================
