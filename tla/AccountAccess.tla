---------------------------- MODULE AccountAccess ----------------------------
(***************************************************************************)
(* Staff and family accounts: first set-up with and without the            *)
(* demonstration data, roles, sign-in with its throttle, sessions, portal  *)
(* accounts and the recovery of their passwords (src/lib/auth.ts,          *)
(* auth-throttle.ts and portal-auth.ts with the handlers of                *)
(* src/app/auth-actions.ts, portal-actions.ts and actions.ts).  A handler  *)
(* that reads, waits for a password hash and then writes takes two steps;  *)
(* a client has one such request under way at a time.                      *)
(***************************************************************************)
EXTENDS Naturals, FiniteSets

CONSTANTS Staff,         \* usernames staff accounts may be created for
          People,        \* students and guardians with a person record
          Emails,        \* addresses
          Clients,       \* browsers, each with one staff and one portal cookie
          MaxCodes,      \* bound on the rows of PortalPasswordResetRequest
          FailureLimit,  \* 10 failures in a window block an identifier
          ResetLimit,    \* 3 requests an hour for an address
          GuessLimit,    \* 5 wrong guesses of a code
          NoOne          \* stands for null

ASSUME AccessAssumption ==
  /\ {FailureLimit, ResetLimit, GuessLimit, MaxCodes} \subseteq Nat \ {0}
  /\ NoOne \notin Staff \cup People \cup Emails \cup {"DIRECTOR", "OTHER"}
  /\ IsFiniteSet(Clients)

VARIABLES role,          \* StaffUser.role, NoOne without an account
          programs,      \* Program rows: "own", "demo"
          staffSession,  \* account of the Session row of a client's cookie
          person,        \* Person rows: [active, email]
          portal,        \* PortalUser rows: [status, email, password]
          portalSession, \* account of the PortalSession row of a client's cookie
          code,          \* reset requests: [who, email, status, recent, guesses]
          throttle,      \* AuthenticationThrottle: [failed, open, blocked]
          job,           \* the request a client has under way
          crowded        \* what two clients have ever been at together, a history

staffVars == <<role, programs, staffSession>>
portalVars == <<person, portal, portalSession, code>>
accessVars == <<staffVars, portalVars, throttle, job, crowded>>

Identifiers == ({"staff"} \X Staff) \cup ({"portal"} \X Emails)
Codes == 1..MaxCodes   \* in the order of their creation
Idle == <<"IDLE">>
Accounts == {s \in Staff : role[s] # NoOne}
Directors == {s \in Staff : role[s] = "DIRECTOR"}
Portal(p) == portal[p].status # "NONE"
NoCode == [who |-> NoOne, email |-> NoOne, status |-> "NONE", recent |-> FALSE, guesses |-> 0]

AccessInit ==
  /\ role = [s \in Staff |-> NoOne]
  /\ programs = {}
  /\ staffSession = [k \in Clients |-> NoOne]
  /\ person \in [People -> [active : {TRUE}, email : Emails \cup {NoOne}]]
  /\ portal = [p \in People |-> [status |-> "NONE", email |-> NoOne, password |-> 0]]
  /\ portalSession = [k \in Clients |-> NoOne]
  /\ code = [c \in Codes |-> NoCode]
  /\ throttle = [i \in Identifiers |-> [failed |-> 0, open |-> FALSE, blocked |-> FALSE]]
  /\ job = [k \in Clients |-> Idle]
  /\ crowded = {}

Takes(k, request) == job[k] = Idle /\ job' = [job EXCEPT ![k] = request]
Ends(k) == job' = [job EXCEPT ![k] = Idle]

-----------------------------------------------------------------------------
(* First set-up. *)

\* setupDirectorAction and setupDemoAction look for an account, then hash or seed.
BeginSetup(k, kind, s) ==
  /\ Accounts = {}
  /\ Takes(k, <<kind, s>>)
  /\ UNCHANGED <<staffVars, portalVars, throttle>>

\* Mistake: the deletion of the programs takes their staff along.
StaffCascades == role' = [s \in Staff |-> NoOne]

\* seedRidgeline clears every table but StaffUser in one transaction; an account's
\* reference to its person makes the database refuse it.
StaffRefuses == Accounts = {} /\ UNCHANGED role

SeedClears(k) ==
  /\ job[k][1] = "DEMO"
  /\ StaffRefuses
  /\ programs' = {}
  /\ job' = [job EXCEPT ![k][1] = "SEEDING"]
  /\ UNCHANGED <<staffSession, portalVars, throttle>>

\* Its inserts are statements of their own; two copies of the program collide.
SeedInserts(k) ==
  /\ job[k][1] = "SEEDING"
  /\ "demo" \notin programs
  /\ programs' = programs \cup {"demo"}
  /\ job' = [job EXCEPT ![k][1] = "SETUP"]
  /\ UNCHANGED <<role, staffSession, portalVars, throttle>>

\* Mistake: the look before the password was hashed is enough.
LookedBefore(s) == role[s] = NoOne

\* The transaction looks again.
NobodyYet(s) == Accounts = {}

\* setupFirstInstallation: a program if there is none, the director, then a session.
CommitSetup(k) ==
  /\ job[k][1] = "SETUP"
  /\ NobodyYet(job[k][2])
  /\ role' = [role EXCEPT ![job[k][2]] = "DIRECTOR"]
  /\ programs' = IF programs = {} THEN {"own"} ELSE programs
  /\ staffSession' = [staffSession EXCEPT ![k] = job[k][2]]
  /\ Ends(k)
  /\ UNCHANGED <<portalVars, throttle>>

\* A request that has been refused, or whose process has ended, leaves what its
\* earlier statements wrote.
RequestFails(k) ==
  /\ job[k] # Idle
  /\ Ends(k)
  /\ UNCHANGED <<staffVars, portalVars, throttle>>

-----------------------------------------------------------------------------
(* Staff accounts. *)

\* requirePermission reads the role with every request; only a director may manage
\* users.  The operation follows in a transaction of its own.
RequireManageUsers(k) ==
  /\ staffSession[k] \in Directors
  /\ Takes(k, <<"GRANTED">>)
  /\ UNCHANGED <<staffVars, portalVars, throttle>>

CreateStaffAccount(k, s, newRole) ==
  /\ job[k] = <<"GRANTED">>
  /\ role[s] = NoOne
  /\ role' = [role EXCEPT ![s] = newRole]
  /\ Ends(k)
  /\ UNCHANGED <<programs, staffSession, portalVars, throttle>>

\* Mistake: a director may only not give up the own role.
NotOneself(k, s) == staffSession[k] # s

AnotherDirector(k, s) == Cardinality(Directors) > 1

UpdateStaffRole(k, s, newRole) ==
  /\ job[k] = <<"GRANTED">>
  /\ s \in Accounts
  /\ s \in Directors /\ newRole # "DIRECTOR" => AnotherDirector(k, s)
  /\ role' = [role EXCEPT ![s] = newRole]
  /\ Ends(k)
  /\ UNCHANGED <<programs, staffSession, portalVars, throttle>>

-----------------------------------------------------------------------------
(* Signing in, for staff and for families. *)

\* The account an identifier belongs to at the time of the read, if it has a password.
AccountOf(i) ==
  IF i[1] = "staff" THEN {i[2]} \cap Accounts
  ELSE {p \in People : /\ portal[p].status = "ACTIVE"
                       /\ portal[p].email = i[2]
                       /\ portal[p].password > 0
                       /\ person[p].active}

\* authenticationAllowed and the read of the account; the password is verified
\* against what was read.
BeginSignIn(k, i, right) ==
  /\ ~throttle[i].blocked
  /\ right => AccountOf(i) # {}
  /\ Takes(k, <<"SIGN_IN", i, IF right THEN CHOOSE a \in AccountOf(i) : TRUE ELSE NoOne>>)
  /\ UNCHANGED <<staffVars, portalVars, throttle>>

Failed(i) == IF throttle[i].open THEN throttle[i].failed + 1 ELSE 1

\* Mistake: the attempt after the limit is the one that blocks.
Above(n) == n > FailureLimit

AtLimit(n) == n >= FailureLimit

\* recordAuthenticationResult; a success forgets the failures.
RecordAuthenticationResult(i, succeeded) ==
  throttle' = [throttle EXCEPT ![i] =
    IF succeeded THEN [failed |-> 0, open |-> FALSE, blocked |-> FALSE]
    ELSE [failed |-> Failed(i), open |-> TRUE, blocked |-> AtLimit(Failed(i))]]

\* The result is recorded and a session created for the account as it was read.
FinishSignIn(k) ==
  LET i == job[k][2]
      who == job[k][3]
  IN
  /\ job[k][1] = "SIGN_IN"
  /\ RecordAuthenticationResult(i, who # NoOne)
  /\ IF who # NoOne /\ i[1] = "staff"
     THEN staffSession' = [staffSession EXCEPT ![k] = who] ELSE UNCHANGED staffSession
  /\ IF who # NoOne /\ i[1] = "portal"
     THEN portalSession' = [portalSession EXCEPT ![k] = who] ELSE UNCHANGED portalSession
  /\ Ends(k)
  /\ UNCHANGED <<role, programs, person, portal, code>>

\* The window of the failures is over; a block lasts as long as a window and starts
\* within it, so it never ends first.
WindowEnds(i) ==
  /\ throttle[i].open
  /\ throttle' = [throttle EXCEPT ![i].open = FALSE]
  /\ UNCHANGED <<staffVars, portalVars, job>>

BlockEnds(i) ==
  /\ throttle[i].blocked
  /\ ~throttle[i].open
  /\ throttle' = [throttle EXCEPT ![i].blocked = FALSE]
  /\ UNCHANGED <<staffVars, portalVars, job>>

\* Signing out, or an idle session found by getSessionUser.
StaffSessionEnds(k) ==
  /\ staffSession' = [staffSession EXCEPT ![k] = NoOne]
  /\ UNCHANGED <<role, programs, portalVars, throttle, job>>

\* Signing out, or a session found idle or without an active account.
PortalSessionEnds(k) ==
  /\ portalSession' = [portalSession EXCEPT ![k] = NoOne]
  /\ UNCHANGED <<staffVars, person, portal, code, throttle, job>>

-----------------------------------------------------------------------------
(* Portal accounts. *)

PortalStep == UNCHANGED <<staffVars, throttle, job>>
WithoutSessions(p) == [k \in Clients |-> IF portalSession[k] = p THEN NoOne ELSE portalSession[k]]
AddressFree(p, e) == \A other \in People \ {p} : portal[other].email # e

CreatePortalAccount(p) ==
  /\ PortalStep
  /\ ~Portal(p)
  /\ person[p].active
  /\ person[p].email # NoOne
  /\ AddressFree(p, person[p].email)
  /\ portal' = [portal EXCEPT ![p] =
       [status |-> "PENDING", email |-> person[p].email, password |-> 0]]
  /\ UNCHANGED <<person, portalSession, code>>

\* Mistake: an account that is enabled again is active.
AlwaysActive(p) == "ACTIVE"

EnabledStatus(p) == IF portal[p].password > 0 THEN "ACTIVE" ELSE "PENDING"

SetPortalAccountEnabled(p, enabled) ==
  /\ PortalStep
  /\ Portal(p)
  /\ portal' = [portal EXCEPT ![p].status = IF enabled THEN EnabledStatus(p) ELSE "DISABLED"]
  /\ portalSession' = IF enabled THEN portalSession ELSE WithoutSessions(p)
  /\ UNCHANGED <<person, code>>

\* Mistake: the account keeps the address it was created with.
AddressAfter(p, e) == portal[p].email

AccountAddress(p, e) == IF e = NoOne THEN portal[p].email ELSE e

\* updatePerson: the account follows the address of its person and is disabled with
\* its last address when that is cleared; an address taken by another account makes
\* the transaction fail.
UpdateContact(p, active, e) ==
  /\ PortalStep
  /\ Portal(p) => e = NoOne \/ AddressFree(p, e)
  /\ person' = [person EXCEPT ![p] = [active |-> active, email |-> e]]
  /\ portal' = IF ~Portal(p) THEN portal
               ELSE [portal EXCEPT ![p].email = AccountAddress(p, e),
                                   ![p].status = IF e = NoOne THEN "DISABLED" ELSE @]
  /\ portalSession' = IF Portal(p) /\ e = NoOne THEN WithoutSessions(p) ELSE portalSession
  /\ UNCHANGED code

-----------------------------------------------------------------------------
(* Password recovery. *)

Recent(e) == {c \in Codes : code[c].email = e /\ code[c].recent}
Eligible(e) == {p \in People : /\ portal[p].status \in {"PENDING", "ACTIVE"}
                               /\ portal[p].email = e
                               /\ person[p].active}

\* Mistake: the request after the limit is the one refused.
OneMore(e) == Cardinality(Recent(e)) <= ResetLimit

BelowLimit(e) == Cardinality(Recent(e)) < ResetLimit

\* requestPortalPasswordReset counts the requests of the hour, then hashes a code.
BeginResetRequest(k, e) ==
  /\ BelowLimit(e)
  /\ Takes(k, <<"REQUEST", e>>)
  /\ UNCHANGED <<staffVars, portalVars, throttle>>

\* The row is written for an address without an account too; delivery follows.
CreateResetRequest(k, c) ==
  LET e == job[k][2] IN
  /\ job[k][1] = "REQUEST"
  /\ code[c] = NoCode
  /\ \A earlier \in 1..c-1 : code[earlier] # NoCode
  /\ code' = [code EXCEPT ![c] =
       [who |-> IF Eligible(e) = {} THEN NoOne ELSE CHOOSE p \in Eligible(e) : TRUE,
        email |-> e, status |-> "LIVE", recent |-> TRUE, guesses |-> 0]]
  /\ job' = [job EXCEPT ![k] = <<"DELIVERY", c>>]
  /\ UNCHANGED <<staffVars, person, portal, portalSession, throttle>>

\* A code that could not be sent for want of an account or a connection stays, one
\* whose delivery failed is marked used.
EndDelivery(k, failed) ==
  /\ job[k][1] = "DELIVERY"
  /\ failed => code[job[k][2]].who # NoOne
  /\ code' = IF failed THEN [code EXCEPT ![job[k][2]].status = "USED"] ELSE code
  /\ Ends(k)
  /\ UNCHANGED <<staffVars, person, portal, portalSession, throttle>>

\* A code lives for fifteen minutes, counts for an hour and is deleted after a day.
CodeExpires(c) ==
  /\ PortalStep
  /\ code[c].status = "LIVE"
  /\ code' = [code EXCEPT ![c].status = "EXPIRED"]
  /\ UNCHANGED <<person, portal, portalSession>>

HourEnds(c) ==
  /\ PortalStep
  /\ code[c].recent
  /\ code[c].status # "LIVE"
  /\ code' = [code EXCEPT ![c].recent = FALSE]
  /\ UNCHANGED <<person, portal, portalSession>>

\* Mistake: the guess after the limit is the one refused.
OneMoreGuess(c) == code[c].guesses <= GuessLimit

GuessesLeft(c) == code[c].guesses < GuessLimit

\* The newest code of the account that is unused, not expired and not guessed at too
\* often is the one an attempt is compared with.
Usable(c) ==
  /\ code[c].status = "LIVE"
  /\ GuessesLeft(c)
  /\ code[c].who \in Eligible(code[c].email)

Comparable(c) ==
  /\ Usable(c)
  /\ \A later \in c+1..MaxCodes : Usable(later) => code[later].email # code[c].email

\* An attempt reads the code and verifies the one that was entered against it; the
\* new password is hashed before the transaction.
BeginReset(k, c, right) ==
  /\ Comparable(c)
  /\ Takes(k, <<IF right THEN "RESET" ELSE "GUESS", c>>)
  /\ UNCHANGED <<staffVars, portalVars, throttle>>

CountGuess(k) ==
  /\ job[k][1] = "GUESS"
  /\ code' = [code EXCEPT ![job[k][2]].guesses = @ + 1]
  /\ Ends(k)
  /\ UNCHANGED <<staffVars, person, portal, portalSession, throttle>>

\* Mistake: the code is not claimed, the match is enough.
Matched(c) == code[c].status # "NONE"

\* The transaction's update applies to an unused code that has not expired.
Claimed(c) == code[c].status = "LIVE"

\* The code and every other one of the account are spent, its sessions ended.
CommitReset(k) ==
  LET c == job[k][2]
      p == code[c].who
  IN
  /\ job[k][1] = "RESET"
  /\ Claimed(c)
  /\ code' = [other \in Codes |->
       IF code[other].who = p THEN [code[other] EXCEPT !.status = "USED"] ELSE code[other]]
  /\ portal' = [portal EXCEPT ![p].password = @ + 1, ![p].status = "ACTIVE"]
  /\ portalSession' = WithoutSessions(p)
  /\ Ends(k)
  /\ UNCHANGED <<staffVars, person, throttle>>

-----------------------------------------------------------------------------
SetupNext ==
  \E k \in Clients :
    \/ \E kind \in {"SETUP", "DEMO"}, s \in Staff : BeginSetup(k, kind, s)
    \/ SeedClears(k)
    \/ SeedInserts(k)
    \/ CommitSetup(k)
    \/ RequestFails(k)

StaffNext ==
  \E k \in Clients :
    \/ RequireManageUsers(k)
    \/ \E s \in Staff, newRole \in {"DIRECTOR", "OTHER"} :
         CreateStaffAccount(k, s, newRole) \/ UpdateStaffRole(k, s, newRole)
    \/ StaffSessionEnds(k)

SignInNext(scope) ==
  \/ \E k \in Clients :
       \/ \E i \in Identifiers, right \in BOOLEAN : i[1] = scope /\ BeginSignIn(k, i, right)
       \/ FinishSignIn(k)
  \/ \E i \in Identifiers : WindowEnds(i) \/ BlockEnds(i)

AccountNext ==
  \/ \E p \in People :
       \/ CreatePortalAccount(p)
       \/ \E enabled \in BOOLEAN : SetPortalAccountEnabled(p, enabled)
       \/ \E active \in BOOLEAN, e \in Emails \cup {NoOne} : UpdateContact(p, active, e)
  \/ \E k \in Clients : PortalSessionEnds(k)

RecoveryNext ==
  \/ \E k \in Clients :
       \/ \E e \in Emails : BeginResetRequest(k, e)
       \/ \E c \in Codes : CreateResetRequest(k, c)
       \/ \E failed \in BOOLEAN : EndDelivery(k, failed)
       \/ \E c \in Codes, right \in BOOLEAN : BeginReset(k, c, right)
       \/ CountGuess(k)
       \/ CommitReset(k)
       \/ RequestFails(k)
  \/ \E c \in Codes : CodeExpires(c) \/ HourEnds(c)

\* The clients with an attempt of a kind at something under way: at signing in with an
\* identifier, at a code for an address, at a guess of a code.
UnderWay(kind, x) == {k \in Clients : job[k][1] = kind /\ job[k][2] = x}
Limited == ({"SIGN_IN"} \X Identifiers) \cup ({"REQUEST"} \X Emails) \cup ({"GUESS"} \X Codes)

\* The history remembers where attempts of two clients have overlapped.
Remembered ==
  crowded' = crowded \cup {t \in Limited : Cardinality(UnderWay(t[1], t[2])') > 1}

AccessNext == /\ \/ SetupNext \/ StaffNext \/ SignInNext("staff") \/ SignInNext("portal")
                 \/ AccountNext \/ RecoveryNext
              /\ Remembered
AccessSpec == AccessInit /\ [][AccessNext]_accessVars

-----------------------------------------------------------------------------
(* Properties. *)

\* Type invariant.  Sessions belong to accounts, and every code and every request
\* under way to a person with an account.
AccessTypeOK ==
  /\ role \in [Staff -> {NoOne, "DIRECTOR", "OTHER"}]
  /\ programs \subseteq {"own", "demo"}
  /\ \A k \in Clients :
       /\ staffSession[k] \in Accounts \cup {NoOne}
       /\ portalSession[k] # NoOne => portal[portalSession[k]].password > 0
       /\ job[k][1] \in {"IDLE", "SETUP", "DEMO", "SEEDING", "GRANTED", "SIGN_IN",
                         "REQUEST", "DELIVERY", "RESET", "GUESS"}
  /\ \A p \in People :
       /\ portal[p].status \in {"NONE", "PENDING", "ACTIVE", "DISABLED"}
       /\ Portal(p) <=> portal[p].email # NoOne
  /\ \A c \in Codes :
       /\ code[c].status \in {"NONE", "LIVE", "USED", "EXPIRED"}
       /\ code[c].who # NoOne => Portal(code[c].who)

\* A program with accounts always has a director, also when two directors change
\* each other's role at the same time ("The final director account cannot be demoted").
DirectorRemains == Accounts # {} => Directors # {}

\* Two first set-ups at once, with or without the demonstration data, make one
\* director: an account appears while there is none or through a director, and no
\* account disappears, not even under a seed that clears the database.
AccountsComeFromDirectors ==
  [][\A s \in Staff :
       /\ role[s] # NoOne => role'[s] # NoOne
       /\ role[s] = NoOne /\ role'[s] # NoOne =>
            Accounts = {} \/ \E k \in Clients : job[k] = <<"GRANTED">> /\ job'[k] = Idle]_role

\* The clients that can be at something together.
Together(kind, x) == IF <<kind, x>> \in crowded THEN Cardinality(Clients) ELSE 1

\* Attempts to sign in are checked against the block before the password and counted
\* after it (auth-throttle.ts).  Those counted in a window and those under way are no
\* more than the limit unless attempts of two clients have overlapped, and then by no
\* more than one for every other client, however long it goes on.
AttemptsBounded ==
  \A i \in Identifiers : throttle[i].open =>
    throttle[i].failed + Cardinality(UnderWay("SIGN_IN", i))
      < FailureLimit + Together("SIGN_IN", i)

\* The same of the requests for a code to an address within an hour, which are counted
\* before the code is hashed and the row written (requestPortalPasswordReset).
ResetRequestsBounded ==
  \A e \in Emails :
    Cardinality(Recent(e)) + Cardinality(UnderWay("REQUEST", e))
      < ResetLimit + Together("REQUEST", e)

\* And of the wrong guesses of a code, which are counted after the code was read and
\* verified (resetPortalPassword).
GuessesBounded ==
  \A c \in Codes :
    code[c].guesses + Cardinality(UnderWay("GUESS", c)) < GuessLimit + Together("GUESS", c)

\* The limits are exact for attempts that come one after the other, over any number of
\* windows, codes and expiries; attempts in flight together pass one check together, so
\* where that happened each client but one may have one more.
LimitsHold == AttemptsBounded /\ ResetRequestsBounded /\ GuessesBounded

\* What the release checklist says of a code (SECURITY_CHECKLIST.md:9).  A guess is
\* counted after the code was verified, by an update without a condition, so this is
\* false once two guesses overlap at the limit (resetPortalPassword).
AtMostFiveGuesses == \A c \in Codes : code[c].guesses <= GuessLimit

\* An account signs in with the address of its person's record as long as that has
\* one, and no two accounts with the same (updatePerson, createPortalAccount).
AddressesAgree ==
  \A p \in People : Portal(p) =>
    /\ person[p].email # NoOne => portal[p].email = person[p].email
    /\ AddressFree(p, portal[p].email)

\* An account is active with a password and pending without one, through every order
\* of disabling, enabling, clearing the address and resetting.
StatusTellsPassword ==
  \A p \in People :
    /\ portal[p].status = "ACTIVE" => portal[p].password > 0
    /\ portal[p].status = "PENDING" => portal[p].password = 0

\* What a portal account says of itself is true of its person, its password and its
\* sessions.
AccountsTrue == AccessTypeOK /\ AddressesAgree /\ StatusTellsPassword

\* A code works once: a password changes with a code that was unused until then, after
\* which the account has no unused code and no session, whatever else was requested or
\* matched meanwhile (resetPortalPassword).
ResetSpendsCodes ==
  [][\A p \in People : portal'[p].password # portal[p].password =>
       /\ \E c \in Codes : /\ code[c].who = p
                           /\ code[c].status = "LIVE"
                           /\ code'[c].status = "USED"
       /\ \A c \in Codes : code'[c].who = p => code'[c].status # "LIVE"
       /\ \A k \in Clients : portalSession'[k] # p]_<<portal, code, portalSession>>
=============================================================================
