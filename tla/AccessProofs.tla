----------------------------- MODULE AccessProofs -----------------------------
(***************************************************************************)
(* Proofs about AccountAccess: for every finite number of clients, staff   *)
(* members, persons and addresses, and all limits.                         *)
(*                                                                         *)
(* The inductive invariant AInv says of every request under way what its   *)
(* handler relies on (StaffHaveAccounts, PortalHasPasswords, CodeInv): a   *)
(* handler that ends writes what it read before it awaited. It is kept     *)
(* part by part, each part needing the types and few others; the limits    *)
(* hold because a step that counts one more takes one client that was      *)
(* under way away from those that still may, and because those under way   *)
(* together are remembered (CrowdInv).                                     *)
(***************************************************************************)
EXTENDS AccountAccess, FiniteSetTheorems, TLAPS

\* What a request under way can be holding.
Holders == Staff \cup People \cup {NoOne}
Jobs ==
  {Idle, <<"GRANTED">>}
  \cup ({"SETUP", "DEMO", "SEEDING"} \X Staff)
  \cup ({"SIGN_IN"} \X Identifiers \X Holders)
  \cup ({"REQUEST"} \X Emails)
  \cup ({"DELIVERY", "RESET", "GUESS"} \X Codes)

\* The rows of the staff accounts.
StaffTyped ==
  /\ role \in [Staff -> {NoOne, "DIRECTOR", "OTHER"}]
  /\ programs \subseteq {"own", "demo"}
  /\ staffSession \in [Clients -> Staff \cup {NoOne}]

\* Whoever is signed in, or about to be, has an account.
StaffHaveAccounts ==
  \A k \in Clients :
    /\ staffSession[k] \in Accounts \cup {NoOne}
    /\ job[k][1] = "SIGN_IN" /\ job[k][2][1] = "staff" => job[k][3] \in Accounts \cup {NoOne}
    /\ job[k] = <<"GRANTED">> => Accounts # {}

\* Kept by StaffStep.
StaffInv == StaffTyped /\ StaffHaveAccounts /\ DirectorRemains

\* The rows of the portal accounts and of their codes.
PortalRows == [status : {"NONE", "PENDING", "ACTIVE", "DISABLED"},
               email : Emails \cup {NoOne}, password : Nat]

CodeRows == [who : People \cup {NoOne}, email : Emails \cup {NoOne},
             status : {"NONE", "LIVE", "USED", "EXPIRED"}, recent : BOOLEAN, guesses : Nat]

PortalTyped ==
  /\ person \in [People -> [active : BOOLEAN, email : Emails \cup {NoOne}]]
  /\ portal \in [People -> PortalRows]
  /\ portalSession \in [Clients -> People \cup {NoOne}]

CodesTyped == code \in [Codes -> CodeRows]

\* An account exists with an address, and a password belongs to an account; whoever is
\* signed in, or about to be, has one.
PortalHasPasswords ==
  /\ \A p \in People : /\ Portal(p) <=> portal[p].email # NoOne
                       /\ ~Portal(p) => portal[p].password = 0
  /\ \A k \in Clients :
       /\ portalSession[k] # NoOne => portal[portalSession[k]].password > 0
       /\ job[k][1] = "SIGN_IN" /\ job[k][2][1] = "portal" =>
            job[k][3] = NoOne \/ (job[k][3] \in People /\ portal[job[k][3]].password > 0)

\* Kept by PortalRowsStep.
PortalInv == PortalTyped /\ PortalHasPasswords /\ AddressesAgree /\ StatusTellsPassword

\* A code of a person belongs to an account, and a reset under way to a person.
CodeInv ==
  /\ CodesTyped
  /\ \A c \in Codes : /\ code[c].who # NoOne => Portal(code[c].who)
                      /\ code[c].status = "NONE" => code[c] = NoCode
  /\ \A k \in Clients : job[k][1] \in {"RESET", "GUESS"} => code[job[k][2]].who \in People

\* The rows of the throttle.
Windows == [failed : Nat, open : BOOLEAN, blocked : BOOLEAN]
ThrottleTyped == throttle \in [Identifiers -> Windows]

\* An identifier that is not blocked has attempts left in its window.
ThrottleInv ==
  /\ ThrottleTyped
  /\ \A i \in Identifiers :
       throttle[i].open /\ ~throttle[i].blocked => throttle[i].failed < FailureLimit

\* All variables.
Typed == StaffTyped /\ PortalTyped /\ CodesTyped /\ ThrottleTyped /\ job \in [Clients -> Jobs]

\* What a request under way holds.
LEMMA JobShapes ==
  ASSUME NEW j \in Jobs
  PROVE  /\ j[1] \in {"SETUP", "DEMO", "SEEDING"} =>
              /\ j[2] \in Staff
              /\ j = <<j[1], j[2]>>
         /\ j[1] = "SIGN_IN" =>
              j[2] \in Identifiers /\ j[3] \in Holders /\ j = <<"SIGN_IN", j[2], j[3]>>
         /\ j[1] = "REQUEST" => j[2] \in Emails /\ j = <<"REQUEST", j[2]>>
         /\ j[1] \in {"DELIVERY", "RESET", "GUESS"} => j[2] \in Codes /\ j = <<j[1], j[2]>>
         /\ j[1] \in {"IDLE", "GRANTED", "SETUP", "DEMO", "SEEDING", "SIGN_IN", "REQUEST",
                      "DELIVERY", "RESET", "GUESS"}
         /\ j[1] = "IDLE" <=> j = Idle
<1>1. CASE j \in {Idle, <<"GRANTED">>}
  BY <1>1 DEF Idle
<1>2. CASE j \in {"SETUP", "DEMO", "SEEDING"} \X Staff
  BY <1>2 DEF Idle
<1>3. CASE j \in {"SIGN_IN"} \X Identifiers \X Holders
  BY <1>3 DEF Idle
<1>4. CASE j \in {"REQUEST"} \X Emails
  BY <1>4 DEF Idle
<1>5. CASE j \in {"DELIVERY", "RESET", "GUESS"} \X Codes
  BY <1>5 DEF Idle
<1> QED BY <1>1, <1>2, <1>3, <1>4, <1>5 DEF Jobs

\* Every handler leaves a request of one of these shapes.
LEMMA JobsTyped ==
  ASSUME Typed, [AccessNext]_accessVars
  PROVE  job' \in [Clients -> Jobs]
<1> USE DEF Typed
<1>1. ASSUME NEW k \in Clients, NEW j \in Jobs, Takes(k, j)
      PROVE  job' \in [Clients -> Jobs]
  BY <1>1 DEF Takes
<1>2. ASSUME NEW k \in Clients, Ends(k)
      PROVE  job' \in [Clients -> Jobs]
  BY <1>2 DEF Ends, Jobs
<1>3. CASE SetupNext
  <2>1. ASSUME NEW k \in Clients, NEW kind \in {"SETUP", "DEMO"}, NEW s \in Staff,
               BeginSetup(k, kind, s)
        PROVE  job' \in [Clients -> Jobs]
    BY <1>1, <2>1 DEF BeginSetup, Jobs
  <2>2. ASSUME NEW k \in Clients, SeedClears(k) \/ SeedInserts(k)
        PROVE  job' \in [Clients -> Jobs]
    <3>1. job[k] = <<job[k][1], job[k][2]>> /\ job[k][2] \in Staff
      BY <2>2, JobShapes DEF SeedClears, SeedInserts
    <3>2. PICK stage \in {"SEEDING", "SETUP"} : job' = [job EXCEPT ![k][1] = stage]
      BY <2>2 DEF SeedClears, SeedInserts
    <3>3. [job[k] EXCEPT ![1] = stage] = <<stage, job[k][2]>>
      BY <3>1
    <3> QED BY <3>1, <3>2, <3>3 DEF Jobs
  <2> QED
    BY <1>2, <1>3, <2>1, <2>2 DEF SetupNext, CommitSetup, RequestFails
<1>4. CASE StaffNext
  BY <1>1, <1>2, <1>4 DEF StaffNext, RequireManageUsers, CreateStaffAccount, UpdateStaffRole,
     StaffSessionEnds, Jobs
<1>5. ASSUME NEW scope \in {"staff", "portal"}, SignInNext(scope)
      PROVE  job' \in [Clients -> Jobs]
  <2>1. ASSUME NEW k \in Clients, NEW i \in Identifiers, NEW right \in BOOLEAN,
               BeginSignIn(k, i, right)
        PROVE  job' \in [Clients -> Jobs]
    <3>1. AccountOf(i) \subseteq Staff \cup People
      BY DEF AccountOf, Accounts, Identifiers
    <3>2. (IF right THEN CHOOSE a \in AccountOf(i) : TRUE ELSE NoOne) \in Holders
      BY <2>1, <3>1 DEF BeginSignIn, Holders
    <3> QED
      BY <1>1, <2>1, <3>2 DEF BeginSignIn, Jobs
  <2> QED
    BY <1>2, <1>5, <2>1 DEF SignInNext, FinishSignIn, WindowEnds, BlockEnds
<1>6. CASE AccountNext
  BY <1>6 DEF AccountNext, PortalStep, CreatePortalAccount, SetPortalAccountEnabled,
     UpdateContact, PortalSessionEnds
<1>7. CASE RecoveryNext
  <2>1. ASSUME NEW k \in Clients, NEW e \in Emails, BeginResetRequest(k, e)
        PROVE  job' \in [Clients -> Jobs]
    BY <1>1, <2>1 DEF BeginResetRequest, Jobs
  <2>2. ASSUME NEW k \in Clients, NEW c \in Codes, CreateResetRequest(k, c)
        PROVE  job' \in [Clients -> Jobs]
    BY <2>2 DEF CreateResetRequest, Jobs
  <2>3. ASSUME NEW k \in Clients, NEW c \in Codes, NEW right \in BOOLEAN, BeginReset(k, c, right)
        PROVE  job' \in [Clients -> Jobs]
    BY <1>1, <2>3 DEF BeginReset, Jobs
  <2> QED
    BY <1>2, <1>7, <2>1, <2>2, <2>3 DEF RecoveryNext, RequestFails, EndDelivery, CountGuess,
       CommitReset, PortalStep, CodeExpires, HourEnds
<1>8. CASE UNCHANGED accessVars
  BY <1>8 DEF accessVars
<1> QED
  BY <1>3, <1>4, <1>5, <1>6, <1>7, <1>8 DEF AccessNext

\* Only BeginSignIn begins to sign in, and a grant is the director's.
LEMMA NoNewSignIns ==
  ASSUME Typed, SetupNext \/ StaffNext \/ AccountNext \/ RecoveryNext \/ UNCHANGED accessVars
  PROVE  \A k \in Clients :
           /\ job'[k][1] = "SIGN_IN" => job'[k] = job[k]
           /\ job'[k] = <<"GRANTED">> => job'[k] = job[k] \/ Directors # {}
<1> USE DEF Typed
<1> DEFINE Goal == \A k \in Clients :
                     /\ job'[k][1] = "SIGN_IN" => job'[k] = job[k]
                     /\ job'[k] = <<"GRANTED">> => job'[k] = job[k] \/ Directors # {}
<1>1. ASSUME NEW k \in Clients,
             Ends(k) \/ \E j : j[1] \notin {"SIGN_IN", "GRANTED"} /\ Takes(k, j)
      PROVE  Goal
  BY <1>1 DEF Ends, Takes, Idle
<1>2. CASE SetupNext
  <2>1. ASSUME NEW k \in Clients, SeedClears(k) \/ SeedInserts(k)
        PROVE  Goal
    <3>1. job[k] = <<job[k][1], job[k][2]>>
      BY <2>1, JobShapes DEF SeedClears, SeedInserts
    <3>2. job'[k][1] \in {"SEEDING", "SETUP"}
      BY <2>1, <3>1 DEF SeedClears, SeedInserts
    <3> QED
      BY <2>1, <3>2 DEF SeedClears, SeedInserts
  <2> QED
    BY <1>1, <1>2, <2>1 DEF SetupNext, BeginSetup, CommitSetup, RequestFails
<1>3. CASE StaffNext
  <2>1. ASSUME NEW k \in Clients, RequireManageUsers(k)
        PROVE  Goal
    BY <2>1 DEF RequireManageUsers, Takes
  <2> QED
    BY <1>1, <1>3, <2>1 DEF StaffNext, CreateStaffAccount, UpdateStaffRole, StaffSessionEnds
<1>4. CASE AccountNext
  BY <1>4 DEF AccountNext, PortalStep, CreatePortalAccount, SetPortalAccountEnabled,
     UpdateContact, PortalSessionEnds
<1>5. CASE RecoveryNext
  <2>1. ASSUME NEW k \in Clients, NEW c \in Codes, CreateResetRequest(k, c)
        PROVE  Goal
    BY <2>1 DEF CreateResetRequest
  <2> QED
    BY <1>1, <1>5, <2>1 DEF RecoveryNext, BeginResetRequest, BeginReset, RequestFails,
       EndDelivery, CountGuess, CommitReset, PortalStep, CodeExpires, HourEnds
<1>6. CASE UNCHANGED accessVars
  BY <1>6 DEF accessVars
<1> QED
  BY <1>2, <1>3, <1>4, <1>5, <1>6

-----------------------------------------------------------------------------
\* Staff accounts.

\* Every step keeps the accounts and their sessions, and a director among them.
LEMMA StaffStep ==
  ASSUME Typed, StaffInv, [AccessNext]_accessVars
  PROVE  StaffInv' /\ \A s \in Staff : role[s] # NoOne => role'[s] # NoOne
<1> USE DEF Typed, StaffInv, StaffTyped, StaffHaveAccounts, DirectorRemains, Accounts, Directors
<1> DEFINE Goal == StaffInv' /\ \A s \in Staff : role[s] # NoOne => role'[s] # NoOne
<1>1. ASSUME SetupNext \/ StaffNext \/ AccountNext \/ RecoveryNext \/ UNCHANGED accessVars,
             UNCHANGED <<role, staffSession>>, programs' \subseteq {"own", "demo"}
      PROVE  Goal
  <2>1. Directors # {} => Accounts # {}
    BY AccessAssumption
  <2> QED
    BY <1>1, <2>1, NoNewSignIns
<1>2. CASE SetupNext
  <2>1. ASSUME NEW k \in Clients, CommitSetup(k)
        PROVE  Goal
    <3>1. job[k][2] \in Staff
      BY <2>1, JobShapes DEF CommitSetup
    <3>2. role'[job[k][2]] = "DIRECTOR" /\ \A s \in Staff \ {job[k][2]} : role'[s] = role[s]
      BY <2>1, <3>1 DEF CommitSetup
    <3> QED
      BY <1>2, <2>1, <3>1, <3>2, NoNewSignIns, AccessAssumption DEF CommitSetup
  <2> QED
    BY <1>1, <1>2, <2>1 DEF SetupNext, BeginSetup, SeedClears, StaffRefuses, SeedInserts,
       RequestFails, staffVars
<1>3. CASE StaffNext
  <2>1. ASSUME NEW k \in Clients, RequireManageUsers(k)
        PROVE  Goal
    BY <1>1, <1>3, <2>1 DEF RequireManageUsers, staffVars
  <2>2. ASSUME NEW k \in Clients, NEW s \in Staff, NEW newRole \in {"DIRECTOR", "OTHER"},
               CreateStaffAccount(k, s, newRole)
        PROVE  Goal
    <3>1. k \in Clients /\ staffSession' = staffSession
      BY <2>2 DEF CreateStaffAccount
    <3>2. Directors \subseteq Directors'
      BY <2>2, AccessAssumption DEF CreateStaffAccount
    <3> QED
      BY <1>3, <2>2, <3>1, <3>2, NoNewSignIns, AccessAssumption DEF CreateStaffAccount
  <2>3. ASSUME NEW k \in Clients, NEW s \in Staff, NEW newRole \in {"DIRECTOR", "OTHER"},
               UpdateStaffRole(k, s, newRole)
        PROVE  Goal
    <3>1. Directors' # {}
      <4>1. CASE newRole = "DIRECTOR"
        BY <2>3, <4>1 DEF UpdateStaffRole
      <4>2. CASE s \notin Directors
        BY <2>3, <4>2, AccessAssumption DEF UpdateStaffRole
      <4>3. CASE s \in Directors /\ newRole # "DIRECTOR"
        <5>1. Cardinality(Directors) > 1
          BY <2>3, <4>3 DEF UpdateStaffRole, AnotherDirector
        <5>2. Cardinality({s}) = 1
          BY FS_Singleton
        <5>3. \A S : S = {s} => Cardinality(S) = 1
          BY <5>2
        <5> QED
          BY <2>3, <4>3, <5>1, <5>3 DEF UpdateStaffRole
      <4> QED
        BY <4>1, <4>2, <4>3
    <3> QED
      BY <1>3, <2>3, <3>1, NoNewSignIns, AccessAssumption DEF UpdateStaffRole
  <2>4. ASSUME NEW k \in Clients, StaffSessionEnds(k)
        PROVE  Goal
    BY <1>3, <2>4, NoNewSignIns DEF StaffSessionEnds
  <2> QED
    BY <1>3, <2>1, <2>2, <2>3, <2>4 DEF StaffNext
<1>4. ASSUME NEW scope \in {"staff", "portal"}, SignInNext(scope)
      PROVE  Goal
  <2>1. ASSUME NEW k \in Clients, NEW i \in Identifiers, NEW right \in BOOLEAN,
               BeginSignIn(k, i, right)
        PROVE  Goal
    <3>1. i[1] = "staff" => AccountOf(i) \subseteq Accounts
      BY DEF AccountOf
    <3>2. i[1] = "staff" =>
            (IF right THEN CHOOSE a \in AccountOf(i) : TRUE ELSE NoOne) \in Accounts \cup {NoOne}
      BY <2>1, <3>1 DEF BeginSignIn
    <3> QED
      BY <2>1, <3>2 DEF BeginSignIn, Takes, staffVars
  <2>2. ASSUME NEW k \in Clients, FinishSignIn(k)
        PROVE  Goal
    BY <2>2, JobShapes DEF FinishSignIn, Ends, Idle
  <2> QED
    BY <1>4, <2>1, <2>2 DEF SignInNext, WindowEnds, BlockEnds, staffVars
<1>5. CASE AccountNext
  BY <1>1, <1>5 DEF AccountNext, PortalStep, CreatePortalAccount, SetPortalAccountEnabled,
     UpdateContact, PortalSessionEnds, staffVars
<1>6. CASE RecoveryNext
  BY <1>1, <1>6 DEF RecoveryNext, BeginResetRequest, CreateResetRequest, BeginReset,
     RequestFails, EndDelivery, CountGuess, CommitReset, PortalStep, CodeExpires, HourEnds,
     staffVars
<1>7. CASE UNCHANGED accessVars
  BY <1>1, <1>7 DEF accessVars, staffVars
<1> QED
  BY <1>2, <1>3, <1>4, <1>5, <1>6, <1>7 DEF AccessNext

-----------------------------------------------------------------------------
\* Portal accounts.

\* Passwords that stay keep the sessions what they are.
LEMMA PasswordsStay ==
  ASSUME Typed, PortalHasPasswords,
         SetupNext \/ StaffNext \/ AccountNext \/ RecoveryNext \/ UNCHANGED accessVars,
         PortalTyped',
         \A q \in People : /\ portal'[q].password >= portal[q].password
                           /\ Portal(q)' <=> portal'[q].email # NoOne
                           /\ ~Portal(q)' => portal'[q].password = 0,
         \A l \in Clients : portalSession'[l] \in {portalSession[l], NoOne}
  PROVE  PortalHasPasswords'
<1> USE DEF Typed, PortalTyped, PortalRows
<1>1. \A l \in Clients : portalSession'[l] # NoOne => portal'[portalSession'[l]].password > 0
  BY DEF PortalHasPasswords
<1>2. ASSUME NEW l \in Clients, job'[l][1] = "SIGN_IN", job'[l][2][1] = "portal",
             job'[l][3] # NoOne
      PROVE  job'[l][3] \in People /\ portal'[job'[l][3]].password > 0
  <2>1. job'[l] = job[l]
    BY <1>2, NoNewSignIns
  <2>2. job[l][3] \in People /\ portal[job[l][3]].password > 0
    BY <1>2, <2>1 DEF PortalHasPasswords
  <2> QED
    BY <2>1, <2>2
<1> QED
  BY <1>1, <1>2 DEF PortalHasPasswords

\* Every step keeps the portal accounts, their addresses, passwords and sessions.
LEMMA PortalRowsStep ==
  ASSUME Typed, PortalInv, CodeInv, [AccessNext]_accessVars
  PROVE  PortalInv'
<1> USE DEF PortalInv
<1>1. ASSUME SetupNext \/ StaffNext \/ AccountNext \/ RecoveryNext \/ UNCHANGED accessVars,
             UNCHANGED <<person, portal>>,
             portalSession' \in [Clients -> People \cup {NoOne}],
             \A l \in Clients : portalSession'[l] \in {portalSession[l], NoOne}
      PROVE  PortalInv'
  <2>1. PortalTyped' /\ AddressesAgree' /\ StatusTellsPassword'
    BY <1>1 DEF PortalTyped, AddressesAgree, StatusTellsPassword, AddressFree, Portal
  <2>2. \A q \in People : /\ portal'[q].password >= portal[q].password
                          /\ Portal(q)' <=> portal'[q].email # NoOne
                          /\ ~Portal(q)' => portal'[q].password = 0
    BY <1>1 DEF PortalTyped, PortalRows, PortalHasPasswords, Portal
  <2> QED
    BY <1>1, <2>1, <2>2, PasswordsStay
<1>2. CASE SetupNext \/ StaffNext
  BY <1>1, <1>2 DEF SetupNext, BeginSetup, SeedClears, SeedInserts, CommitSetup, RequestFails,
     StaffNext, RequireManageUsers, CreateStaffAccount, UpdateStaffRole, StaffSessionEnds,
     portalVars, PortalTyped
<1>3. ASSUME NEW scope \in {"staff", "portal"}, SignInNext(scope)
      PROVE  PortalInv'
  <2> USE DEF Typed, PortalTyped, PortalRows, PortalHasPasswords, AddressesAgree,
              StatusTellsPassword, AddressFree, Portal
  <2>1. ASSUME NEW k \in Clients, NEW i \in Identifiers, NEW right \in BOOLEAN,
               BeginSignIn(k, i, right)
        PROVE  PortalInv'
    <3>1. i[1] = "portal" => \A a \in AccountOf(i) : a \in People /\ portal[a].password > 0
      BY DEF AccountOf
    <3> DEFINE who == IF right THEN CHOOSE a \in AccountOf(i) : TRUE ELSE NoOne
    <3>2. i[1] = "portal" =>
            who = NoOne \/ (who \in People /\ portal[who].password > 0)
      BY <2>1, <3>1 DEF BeginSignIn
    <3> QED
      BY <2>1, <3>2 DEF BeginSignIn, Takes, portalVars
  <2>2. ASSUME NEW k \in Clients, FinishSignIn(k)
        PROVE  PortalInv'
    BY <2>2, JobShapes DEF FinishSignIn, Ends, Idle
  <2> QED
    BY <1>3, <2>1, <2>2 DEF SignInNext, WindowEnds, BlockEnds, portalVars
<1>4. CASE AccountNext
  <2>1. ASSUME NEW p \in People, CreatePortalAccount(p)
        PROVE  PortalInv'
    BY <1>4, <2>1, NoNewSignIns, AccessAssumption
       DEF CreatePortalAccount, Typed, PortalTyped, PortalRows, PortalHasPasswords,
           AddressesAgree, StatusTellsPassword, AddressFree, Portal
  <2>2. ASSUME NEW p \in People, NEW enabled \in BOOLEAN, SetPortalAccountEnabled(p, enabled)
        PROVE  PortalInv'
    BY <1>4, <2>2, NoNewSignIns, AccessAssumption
       DEF SetPortalAccountEnabled, EnabledStatus, WithoutSessions, Typed, PortalTyped,
           PortalRows, PortalHasPasswords, AddressesAgree, StatusTellsPassword, AddressFree,
           Portal
  <2>3. ASSUME NEW p \in People, NEW active \in BOOLEAN, NEW e \in Emails \cup {NoOne},
               UpdateContact(p, active, e)
        PROVE  PortalInv'
    <3>1. person' = [person EXCEPT ![p] = [active |-> active, email |-> e]]
      BY <2>3 DEF UpdateContact
    <3>2. /\ portal' \in [People -> PortalRows]
          /\ \A q \in People \ {p} : portal'[q] = portal[q]
          /\ portal'[p].email = IF Portal(p) /\ e # NoOne THEN e ELSE portal[p].email
          /\ portal'[p].status = IF Portal(p) /\ e = NoOne THEN "DISABLED" ELSE portal[p].status
          /\ portal'[p].password = portal[p].password
      <4> USE DEF PortalTyped, PortalRows
      <4>1. CASE ~Portal(p)
        BY <2>3, <4>1 DEF UpdateContact
      <4>2. CASE Portal(p)
        <5>1. portal' = [portal EXCEPT ![p].email = AccountAddress(p, e),
                                       ![p].status = IF e = NoOne THEN "DISABLED" ELSE @]
          BY <2>3, <4>2 DEF UpdateContact
        <5> QED
          BY <4>2, <5>1 DEF AccountAddress
      <4> QED
        BY <4>1, <4>2
    <3>3. /\ portalSession' \in [Clients -> People \cup {NoOne}]
          /\ \A l \in Clients : portalSession'[l] \in {portalSession[l], NoOne}
      BY <2>3 DEF UpdateContact, WithoutSessions, PortalTyped
    <3>4. PortalTyped'
      BY <3>1, <3>2, <3>3 DEF PortalTyped
    <3>5. \A q \in People : /\ portal'[q].password >= portal[q].password
                            /\ Portal(q)' <=> portal'[q].email # NoOne
                            /\ ~Portal(q)' => portal'[q].password = 0
      BY <3>2 DEF PortalTyped, PortalRows, PortalHasPasswords, Portal
    <3>6. PortalHasPasswords'
      BY <1>4, <3>3, <3>4, <3>5, PasswordsStay
    <3>7. Portal(p) => e = NoOne \/ AddressFree(p, e)
      BY <2>3 DEF UpdateContact
    <3>8. AddressesAgree'
      <4>1. ASSUME NEW q \in People, NEW r \in People \ {q}, Portal(q)'
            PROVE  portal'[r].email # portal'[q].email
        <5>1. portal[r].email # portal[q].email
          BY <3>2, <4>1 DEF AddressesAgree, AddressFree, Portal
        <5>2. CASE q # p /\ r # p
          BY <3>2, <5>1, <5>2
        <5>3. CASE q = p \/ r = p
          BY <3>2, <3>7, <5>1, <5>3 DEF AddressFree
        <5> QED
          BY <5>2, <5>3
      <4>2. ASSUME NEW q \in People, Portal(q)', person'[q].email # NoOne
            PROVE  portal'[q].email = person'[q].email
        BY <3>1, <3>2, <4>2 DEF PortalTyped, AddressesAgree, Portal
      <4> QED
        BY <4>1, <4>2 DEF AddressesAgree, AddressFree, Portal
    <3>9. StatusTellsPassword'
      BY <3>2 DEF StatusTellsPassword
    <3> QED
      BY <3>4, <3>6, <3>8, <3>9
  <2>4. ASSUME NEW k \in Clients, PortalSessionEnds(k)
        PROVE  PortalInv'
    BY <1>1, <1>4, <2>4 DEF PortalSessionEnds, PortalTyped
  <2> QED
    BY <1>4, <2>1, <2>2, <2>3, <2>4 DEF AccountNext
<1>5. CASE RecoveryNext
  <2>1. ASSUME NEW k \in Clients, CommitReset(k)
        PROVE  PortalInv'
    <3>1. code[job[k][2]].who \in People /\ Portal(code[job[k][2]].who)
      BY <2>1, JobShapes, AccessAssumption DEF CommitReset, CodeInv, Typed
    <3>2. PICK p \in People : p = code[job[k][2]].who
      BY <3>1
    <3>3. portal' = [portal EXCEPT ![p].password = @ + 1, ![p].status = "ACTIVE"]
      BY <2>1, <3>2 DEF CommitReset
    <3>4. person' = person /\ portalSession' = WithoutSessions(p)
      BY <2>1, <3>2 DEF CommitReset
    <3>5. /\ \A q \in People \ {p} : portal'[q] = portal[q]
          /\ portal'[p] = [portal[p] EXCEPT !.password = @ + 1, !.status = "ACTIVE"]
          /\ portal' = [q \in People |-> portal'[q]]
      BY <3>3 DEF PortalTyped
    <3>6. /\ portal'[p] \in PortalRows
          /\ portal'[p].email = portal[p].email
          /\ portal'[p].status = "ACTIVE"
          /\ portal'[p].password = portal[p].password + 1
      <4>1. portal[p] \in PortalRows
        BY DEF PortalTyped
      <4>2. portal'[p] = [portal[p] EXCEPT !.password = @ + 1, !.status = "ACTIVE"]
        BY <3>5
      <4>3. portal'[p] = [status |-> "ACTIVE", email |-> portal[p].email,
                          password |-> portal[p].password + 1]
        BY <4>1, <4>2 DEF PortalRows
      <4>4. portal[p].password + 1 \in Nat /\ portal[p].email \in Emails \cup {NoOne}
        BY <4>1 DEF PortalRows
      <4> QED
        BY <4>3, <4>4 DEF PortalRows
    <3>7. /\ portalSession' \in [Clients -> People \cup {NoOne}]
          /\ \A l \in Clients : portalSession'[l] \in {portalSession[l], NoOne}
      BY <3>4 DEF WithoutSessions, PortalTyped
    <3>8. PortalTyped'
      <4>1. ASSUME NEW q \in People
            PROVE  portal'[q] \in PortalRows
        <5>1. CASE q = p
          BY <3>6, <5>1
        <5>2. CASE q # p
          BY <3>5, <5>2 DEF PortalTyped
        <5> QED
          BY <5>1, <5>2
      <4> QED
        BY <3>4, <3>5, <3>7, <4>1 DEF PortalTyped
    <3>9. /\ \A q \in People : portal'[q].email = portal[q].email
          /\ \A q \in People : Portal(q)' <=> Portal(q)
      <4>1. \A q \in People \ {p} : portal'[q].email = portal[q].email /\ (Portal(q)' <=> Portal(q))
        BY <3>5 DEF Portal
      <4>2. portal'[p].email = portal[p].email /\ (Portal(p)' <=> Portal(p))
        BY <3>1, <3>2, <3>6 DEF Portal
      <4> QED
        BY <4>1, <4>2
    <3>10. \A q \in People : /\ portal'[q].password >= portal[q].password
                             /\ Portal(q)' <=> portal'[q].email # NoOne
                             /\ ~Portal(q)' => portal'[q].password = 0
      <4>1. ASSUME NEW q \in People
            PROVE  portal'[q].password >= portal[q].password
        <5>1. CASE q = p
          BY <3>6, <5>1 DEF PortalTyped, PortalRows
        <5>2. CASE q # p
          BY <3>5, <5>2 DEF PortalTyped, PortalRows
        <5> QED
          BY <5>1, <5>2
      <4>2. ASSUME NEW q \in People, ~Portal(q)'
            PROVE  portal'[q].password = 0
        <5>1. q # p
          BY <3>1, <3>2, <3>9, <4>2
        <5> QED
          BY <3>5, <4>2, <5>1 DEF PortalHasPasswords, Portal
      <4> QED
        BY <3>9, <4>1, <4>2 DEF PortalHasPasswords
    <3>11. PortalHasPasswords'
      BY <1>5, <3>7, <3>8, <3>10, PasswordsStay
    <3>12. AddressesAgree'
      BY <3>4, <3>9 DEF AddressesAgree, AddressFree
    <3>13. StatusTellsPassword'
      <4>1. ASSUME NEW q \in People
            PROVE  /\ portal'[q].status = "ACTIVE" => portal'[q].password > 0
                   /\ portal'[q].status = "PENDING" => portal'[q].password = 0
        <5>1. CASE q = p
          BY <3>6, <5>1 DEF PortalTyped, PortalRows
        <5>2. CASE q # p
          BY <3>5, <5>2 DEF StatusTellsPassword
        <5> QED
          BY <5>1, <5>2
      <4> QED
        BY <4>1 DEF StatusTellsPassword
    <3> QED
      BY <3>8, <3>11, <3>12, <3>13
  <2> QED
    BY <1>1, <1>5, <2>1 DEF RecoveryNext, BeginResetRequest, CreateResetRequest, BeginReset,
       RequestFails, EndDelivery, CountGuess, PortalStep, CodeExpires, HourEnds, portalVars,
       PortalTyped
<1>6. CASE UNCHANGED accessVars
  BY <1>1, <1>6 DEF accessVars, portalVars, PortalTyped
<1> QED
  BY <1>2, <1>3, <1>4, <1>5, <1>6 DEF AccessNext

-----------------------------------------------------------------------------
\* Codes.

\* Requests for a code, guesses and resets begin in RecoveryNext.
LEMMA NoNewRecovery ==
  ASSUME Typed, SetupNext \/ StaffNext \/ AccountNext
                \/ (\E scope \in {"staff", "portal"} : SignInNext(scope)) \/ UNCHANGED accessVars
  PROVE  \A k \in Clients :
           job'[k][1] \in {"REQUEST", "DELIVERY", "RESET", "GUESS"} => job'[k] = job[k]
<1> USE DEF Typed
<1> DEFINE Goal == \A k \in Clients :
             job'[k][1] \in {"REQUEST", "DELIVERY", "RESET", "GUESS"} => job'[k] = job[k]
<1>1. ASSUME NEW k \in Clients,
             Ends(k) \/ \E j : /\ j[1] \notin {"REQUEST", "DELIVERY", "RESET", "GUESS"}
                               /\ Takes(k, j)
      PROVE  Goal
  BY <1>1 DEF Ends, Takes, Idle
<1>2. CASE SetupNext
  <2>1. ASSUME NEW k \in Clients, SeedClears(k) \/ SeedInserts(k)
        PROVE  Goal
    <3>1. job[k] = <<job[k][1], job[k][2]>>
      BY <2>1, JobShapes DEF SeedClears, SeedInserts
    <3>2. job'[k][1] \in {"SEEDING", "SETUP"}
      BY <2>1, <3>1 DEF SeedClears, SeedInserts
    <3> QED
      BY <2>1, <3>2 DEF SeedClears, SeedInserts
  <2> QED
    BY <1>1, <1>2, <2>1 DEF SetupNext, BeginSetup, CommitSetup, RequestFails
<1>3. CASE StaffNext
  BY <1>1, <1>3 DEF StaffNext, RequireManageUsers, CreateStaffAccount, UpdateStaffRole,
     StaffSessionEnds
<1>4. CASE AccountNext
  BY <1>4 DEF AccountNext, PortalStep, CreatePortalAccount, SetPortalAccountEnabled,
     UpdateContact, PortalSessionEnds
<1>5. ASSUME NEW scope \in {"staff", "portal"}, SignInNext(scope)
      PROVE  Goal
  BY <1>1, <1>5 DEF SignInNext, BeginSignIn, FinishSignIn, WindowEnds, BlockEnds
<1>6. CASE UNCHANGED accessVars
  BY <1>6 DEF accessVars
<1> QED
  BY <1>2, <1>3, <1>4, <1>5, <1>6

\* An account stays an account, and codes are the business of the recovery.
LEMMA AccountsStay ==
  ASSUME Typed, PortalInv, CodeInv, [AccessNext]_accessVars
  PROVE  \A p \in People : Portal(p) => Portal(p)'
<1> USE DEF Typed, PortalTyped, PortalRows, Portal
<1>1. ASSUME UNCHANGED portal
      PROVE  \A p \in People : Portal(p) => Portal(p)'
  BY <1>1
<1>2. CASE AccountNext
  <2>1. ASSUME NEW p \in People, CreatePortalAccount(p)
        PROVE  \A q \in People : Portal(q) => Portal(q)'
    BY <2>1 DEF CreatePortalAccount
  <2>2. ASSUME NEW p \in People, NEW enabled \in BOOLEAN, SetPortalAccountEnabled(p, enabled)
        PROVE  \A q \in People : Portal(q) => Portal(q)'
    BY <2>2 DEF SetPortalAccountEnabled, EnabledStatus
  <2>3. ASSUME NEW p \in People, NEW active \in BOOLEAN, NEW e \in Emails \cup {NoOne},
               UpdateContact(p, active, e)
        PROVE  \A q \in People : Portal(q) => Portal(q)'
    BY <2>3 DEF UpdateContact, AccountAddress
  <2> QED
    BY <1>1, <1>2, <2>1, <2>2, <2>3 DEF AccountNext, PortalSessionEnds
<1>3. ASSUME NEW k \in Clients, CommitReset(k)
      PROVE  \A p \in People : Portal(p) => Portal(p)'
  BY <1>3 DEF CommitReset
<1>4. CASE SetupNext \/ StaffNext
  BY <1>1, <1>4 DEF SetupNext, BeginSetup, SeedClears, SeedInserts, CommitSetup, RequestFails,
     StaffNext, RequireManageUsers, CreateStaffAccount, UpdateStaffRole, StaffSessionEnds,
     portalVars
<1>5. ASSUME NEW scope \in {"staff", "portal"}, SignInNext(scope)
      PROVE  \A p \in People : Portal(p) => Portal(p)'
  BY <1>1, <1>5 DEF SignInNext, BeginSignIn, FinishSignIn, WindowEnds, BlockEnds, portalVars
<1>6. CASE RecoveryNext
  BY <1>1, <1>3, <1>6 DEF RecoveryNext, BeginResetRequest, CreateResetRequest, BeginReset,
     RequestFails, EndDelivery, CountGuess, PortalStep, CodeExpires, HourEnds, portalVars
<1>7. CASE UNCHANGED accessVars
  BY <1>1, <1>7 DEF accessVars, portalVars
<1> QED
  BY <1>2, <1>4, <1>5, <1>6, <1>7 DEF AccessNext

\* No handler but those of the recovery changes a code.
LEMMA CodesUnchanged ==
  ASSUME SetupNext \/ StaffNext \/ AccountNext
         \/ (\E scope \in {"staff", "portal"} : SignInNext(scope)) \/ UNCHANGED accessVars
  PROVE  UNCHANGED code
BY DEF SetupNext, BeginSetup, SeedClears, SeedInserts, CommitSetup, RequestFails, StaffNext,
   RequireManageUsers, CreateStaffAccount, UpdateStaffRole, StaffSessionEnds, SignInNext,
   BeginSignIn, FinishSignIn, WindowEnds, BlockEnds, AccountNext, PortalStep,
   CreatePortalAccount, SetPortalAccountEnabled, UpdateContact, PortalSessionEnds,
   portalVars, accessVars

\* A code that keeps its account and is not forgotten, and no new reset of another.
LEMMA CodesKept ==
  ASSUME Typed, PortalInv, CodeInv, [AccessNext]_accessVars, CodesTyped',
         \A c \in Codes : /\ code'[c].who = code[c].who
                          /\ code'[c].status = "NONE" => code'[c] = code[c],
         \A k \in Clients : job'[k][1] \in {"RESET", "GUESS"} =>
           job'[k] = job[k] \/ (job'[k][2] \in Codes /\ code[job'[k][2]].who \in People)
  PROVE  CodeInv'
<1>1. \A c \in Codes : code[c].who \in People \cup {NoOne}
  BY DEF CodeInv, CodesTyped, CodeRows
<1>2. \A c \in Codes : code'[c].who # NoOne => portal'[code'[c].who].status # "NONE"
  BY <1>1, AccountsStay DEF CodeInv, Portal
<1>3. \A c \in Codes : code'[c].status = "NONE" => code'[c] = NoCode
  BY DEF CodeInv
<1>4. ASSUME NEW k \in Clients, job'[k][1] \in {"RESET", "GUESS"}
      PROVE  code'[job'[k][2]].who \in People
  <2>1. CASE job'[k] = job[k]
    <3>1. job[k][2] \in Codes
      BY <1>4, <2>1, JobShapes DEF Typed
    <3> QED
      BY <1>4, <2>1, <3>1 DEF CodeInv
  <2>2. CASE job'[k][2] \in Codes /\ code[job'[k][2]].who \in People
    BY <2>2
  <2> QED
    BY <1>4, <2>1, <2>2
<1> QED
  BY <1>2, <1>3, <1>4 DEF CodeInv, NoCode, Portal

\* Every step keeps the codes with accounts that exist.
LEMMA CodeRowsStep ==
  ASSUME Typed, PortalInv, CodeInv, [AccessNext]_accessVars
  PROVE  CodeInv'
<1> USE DEF CodesTyped
<1>0. CodesTyped /\ job \in [Clients -> Jobs]
  BY DEF Typed
<1>1. ASSUME UNCHANGED code,
             \A k \in Clients : job'[k][1] \in {"RESET", "GUESS"} =>
               job'[k] = job[k] \/ (job'[k][2] \in Codes /\ code[job'[k][2]].who \in People)
      PROVE  CodeInv'
  BY <1>0, <1>1, CodesKept
<1>2. CASE SetupNext \/ StaffNext \/ AccountNext
           \/ (\E scope \in {"staff", "portal"} : SignInNext(scope)) \/ UNCHANGED accessVars
  BY <1>1, <1>2, CodesUnchanged, NoNewRecovery
<1>3. ASSUME NEW k \in Clients, Ends(k)
      PROVE  \A l \in Clients : job'[l] = job[l] \/ job'[l] = Idle
  BY <1>0, <1>3 DEF Ends
<1>4. CASE RecoveryNext
  <2>1. ASSUME NEW k \in Clients, NEW e \in Emails, BeginResetRequest(k, e)
        PROVE  CodeInv'
    BY <1>0, <1>1, <2>1 DEF BeginResetRequest, Takes, portalVars
  <2>2. ASSUME NEW k \in Clients, NEW c \in Codes, CreateResetRequest(k, c)
        PROVE  CodeInv'
    <3> DEFINE e == job[k][2]
               row == [who |-> IF Eligible(e) = {} THEN NoOne ELSE CHOOSE p \in Eligible(e) : TRUE,
                       email |-> e, status |-> "LIVE", recent |-> TRUE, guesses |-> 0]
    <3>1. e \in Emails
      BY <1>0, <2>2, JobShapes DEF CreateResetRequest
    <3>2. row.who # NoOne => row.who \in Eligible(e)
      OBVIOUS
    <3>3. row.who # NoOne => row.who \in People /\ Portal(row.who)
      BY <3>2 DEF Eligible, Portal
    <3>4. /\ code' = [code EXCEPT ![c] = row]
          /\ code[c] = NoCode
          /\ portal' = portal
          /\ job' = [job EXCEPT ![k] = <<"DELIVERY", c>>]
      BY <2>2 DEF CreateResetRequest
    <3> HIDE DEF row
    <3>5. CodesTyped'
      BY <1>0, <3>1, <3>3, <3>4 DEF CodeRows, row
    <3>6. row.status = "LIVE"
      BY DEF row
    <3>7. \A d \in Codes : /\ code'[d].who # NoOne => portal'[code'[d].who].status # "NONE"
                           /\ code'[d].status = "NONE" => code'[d] = NoCode
      BY <1>0, <3>3, <3>4, <3>6 DEF CodeInv, Portal
    <3>8. ASSUME NEW l \in Clients, job'[l][1] \in {"RESET", "GUESS"}
          PROVE  code'[job'[l][2]].who \in People
      <4>1. job'[l] = job[l]
        BY <1>0, <3>4, <3>8
      <4>2. job[l][2] \in Codes /\ code[job[l][2]].who \in People
        BY <1>0, <3>8, <4>1, JobShapes DEF CodeInv
      <4>3. job[l][2] # c
        BY <3>4, <4>2, AccessAssumption DEF NoCode
      <4> QED
        BY <1>0, <3>4, <4>1, <4>2, <4>3
    <3> QED
      BY <3>5, <3>7, <3>8 DEF CodeInv, NoCode, Portal
  <2>3. ASSUME NEW k \in Clients, NEW failed \in BOOLEAN, EndDelivery(k, failed)
        PROVE  CodeInv'
    <3>1. job[k][2] \in Codes
      BY <1>0, <2>3, JobShapes DEF EndDelivery
    <3>2. CASE UNCHANGED code
      BY <1>1, <1>3, <2>3, <3>2 DEF EndDelivery, Idle
    <3>3. CASE code' = [code EXCEPT ![job[k][2]].status = "USED"]
      <4>1. CodesTyped'
        BY <1>0, <3>1, <3>3 DEF CodeRows
      <4>2. \A d \in Codes : /\ code'[d].who = code[d].who
                             /\ code'[d].status = "NONE" => code'[d] = code[d]
        BY <1>0, <3>1, <3>3 DEF CodeRows
      <4> QED
        BY <1>3, <2>3, <4>1, <4>2, CodesKept DEF EndDelivery, Idle
    <3> QED
      BY <2>3, <3>2, <3>3 DEF EndDelivery
  <2>4. ASSUME NEW k \in Clients, NEW c \in Codes, NEW right \in BOOLEAN, BeginReset(k, c, right)
        PROVE  CodeInv'
    <3>1. code[c].who \in People
      BY <2>4 DEF BeginReset, Comparable, Usable, Eligible
    <3>2. \A l \in Clients : job'[l] = job[l] \/ job'[l][2] = c
      BY <1>0, <2>4 DEF BeginReset, Takes
    <3> QED
      BY <1>1, <2>4, <3>1, <3>2 DEF BeginReset, portalVars
  <2>5. ASSUME NEW k \in Clients, CountGuess(k)
        PROVE  CodeInv'
    <3>1. job[k][2] \in Codes /\ code[job[k][2]].who \in People
      BY <1>0, <2>5, JobShapes DEF CountGuess, CodeInv
    <3>2. PICK c \in Codes : c = job[k][2]
      BY <3>1
    <3>3. code[c].status # "NONE" /\ code[c] \in CodeRows
      BY <1>0, <3>1, <3>2, AccessAssumption DEF CodeInv, NoCode
    <3>4. code' = [code EXCEPT ![c].guesses = @ + 1]
      BY <2>5, <3>2 DEF CountGuess
    <3>5. \A d \in Codes \ {c} : code'[d] = code[d]
      BY <1>0, <3>4
    <3>6. code'[c] = [code[c] EXCEPT !.guesses = @ + 1]
      BY <1>0, <3>4
    <3>7. code'[c] \in CodeRows /\ code'[c].who = code[c].who /\ code'[c].status = code[c].status
      BY <3>3, <3>6 DEF CodeRows
    <3>8. CodesTyped'
      BY <1>0, <3>4, <3>7
    <3>9. \A d \in Codes : /\ code'[d].who = code[d].who
                           /\ code'[d].status = "NONE" => code'[d] = code[d]
      BY <3>3, <3>5, <3>7
    <3> QED
      BY <1>3, <2>5, <3>8, <3>9, CodesKept DEF CountGuess, Idle
  <2>6. ASSUME NEW k \in Clients, CommitReset(k)
        PROVE  CodeInv'
    <3>1. \A d \in Codes :
            code'[d] = code[d] \/ code'[d] = [code[d] EXCEPT !.status = "USED"]
      BY <2>6 DEF CommitReset
    <3>2. code' = [d \in Codes |-> code'[d]]
      BY <2>6 DEF CommitReset
    <3>3. CodesTyped'
      BY <1>0, <3>1, <3>2 DEF CodeRows
    <3>4. \A d \in Codes : /\ code'[d].who = code[d].who
                           /\ code'[d].status = "NONE" => code'[d] = code[d]
      BY <1>0, <3>1 DEF CodeRows
    <3>5. \A l \in Clients : job'[l] = job[l] \/ job'[l] = Idle
      BY <1>3, <2>6 DEF CommitReset
    <3> QED
      BY <3>3, <3>4, <3>5, CodesKept DEF Idle
  <2>7. ASSUME NEW k \in Clients, RequestFails(k)
        PROVE  CodeInv'
    BY <1>1, <1>3, <2>7 DEF RequestFails, Idle, portalVars
  <2>8. ASSUME NEW c \in Codes, CodeExpires(c) \/ HourEnds(c)
        PROVE  CodeInv'
    <3>1. PICK row \in CodeRows : code' = [code EXCEPT ![c] = row] /\ row.who = code[c].who
                                /\ (row.status = "NONE" => row = code[c])
      <4>1. CASE CodeExpires(c)
        <5> DEFINE row == [code[c] EXCEPT !.status = "EXPIRED"]
        <5>1. row \in CodeRows /\ row.who = code[c].who /\ row.status = "EXPIRED"
          BY <1>0 DEF CodeRows
        <5>2. code' = [code EXCEPT ![c] = row]
          BY <1>0, <4>1 DEF CodeExpires
        <5> QED
          BY <5>1, <5>2
      <4>2. CASE HourEnds(c)
        <5> DEFINE row == [code[c] EXCEPT !.recent = FALSE]
        <5>1. row \in CodeRows /\ row.who = code[c].who /\ row.status = code[c].status
          BY <1>0 DEF CodeRows
        <5>2. code' = [code EXCEPT ![c] = row]
          BY <1>0, <4>2 DEF HourEnds
        <5>3. code[c].status # "NONE"
          BY <4>2 DEF HourEnds, CodeInv, NoCode
        <5> QED
          BY <5>1, <5>2, <5>3
      <4> QED
        BY <2>8, <4>1, <4>2
    <3>2. CodesTyped' /\ \A d \in Codes : /\ code'[d].who = code[d].who
                                          /\ code'[d].status = "NONE" => code'[d] = code[d]
      BY <1>0, <3>1
    <3>3. job' = job
      BY <2>8 DEF CodeExpires, HourEnds, PortalStep
    <3> QED
      BY <3>2, <3>3, CodesKept
  <2> QED
    BY <1>4, <2>1, <2>2, <2>3, <2>4, <2>5, <2>6, <2>7, <2>8 DEF RecoveryNext
<1> QED
  BY <1>2, <1>4 DEF AccessNext

-----------------------------------------------------------------------------
\* The limits.

\* The clients that can still add to a count.
Requesting(e) == UnderWay("REQUEST", e)
Guessing(c) == UnderWay("GUESS", c)
Attempting(i) == UnderWay("SIGN_IN", i)

\* Where no two clients have been at something together, they are not now.
CrowdInv == \A t \in Limited : t \notin crowded => Cardinality(UnderWay(t[1], t[2])) <= 1

\* A set of clients and a set of codes are finite, and a part of them is not more.
LEMMA ClientsFinite ==
  ASSUME NEW S \in SUBSET Clients
  PROVE  /\ IsFiniteSet(S) /\ Cardinality(S) \in Nat
         /\ Cardinality(Clients) \in Nat /\ Cardinality(S) <= Cardinality(Clients)
         /\ \A T \in SUBSET S : Cardinality(T) \in Nat /\ Cardinality(T) <= Cardinality(S)
         /\ \A k \in S : Cardinality(S \ {k}) = Cardinality(S) - 1
<1>1. IsFiniteSet(S) /\ Cardinality(S) <= Cardinality(Clients)
  BY FS_Subset, AccessAssumption
<1>2. Cardinality(S) \in Nat /\ Cardinality(Clients) \in Nat
  BY <1>1, FS_CardinalityType, AccessAssumption
<1>3. ASSUME NEW T \in SUBSET S
      PROVE  Cardinality(T) \in Nat /\ Cardinality(T) <= Cardinality(S)
  BY <1>1, FS_Subset, FS_CardinalityType
<1>4. ASSUME NEW k \in S
      PROVE  Cardinality(S \ {k}) = Cardinality(S) - 1
  BY <1>1, FS_RemoveElement
<1> QED
  BY <1>1, <1>2, <1>3, <1>4

\* Those under way at something are never more than the history allows, and it only
\* allows more.
LEMMA CrowdsGrow ==
  ASSUME CrowdInv, [AccessNext]_accessVars
  PROVE  /\ CrowdInv'
         /\ \A t \in Limited :
              /\ Together(t[1], t[2]) \in Nat /\ Together(t[1], t[2])' \in Nat
              /\ Together(t[1], t[2]) <= Together(t[1], t[2])'
              /\ Cardinality(UnderWay(t[1], t[2])) <= Together(t[1], t[2])
              /\ Cardinality(UnderWay(t[1], t[2])') <= Together(t[1], t[2])'
<1> DEFINE crowd(t) == Cardinality(UnderWay(t[1], t[2]))
<1>1. ASSUME NEW t \in Limited
      PROVE  /\ crowd(t) \in Nat /\ crowd(t)' \in Nat /\ Cardinality(Clients) \in Nat
             /\ crowd(t) <= Cardinality(Clients) /\ crowd(t)' <= Cardinality(Clients)
             /\ t = <<t[1], t[2]>>
  <2>1. UnderWay(t[1], t[2]) \in SUBSET Clients /\ UnderWay(t[1], t[2])' \in SUBSET Clients
    BY DEF UnderWay
  <2>2. t = <<t[1], t[2]>>
    BY DEF Limited
  <2> QED
    BY <2>1, <2>2, ClientsFinite
<1>2. ASSUME NEW t \in Limited
      PROVE  /\ t \in crowded => t \in crowded'
             /\ t \notin crowded => crowd(t) <= 1
             /\ t \notin crowded' => crowd(t)' <= 1
             /\ t \notin crowded /\ t \in crowded' => crowd(t)' > 1
  <2>1. CASE UNCHANGED accessVars
    BY <2>1 DEF accessVars, CrowdInv, UnderWay
  <2>2. CASE Remembered
    BY <1>1, <2>2 DEF Remembered, CrowdInv
  <2> QED
    BY <2>1, <2>2 DEF AccessNext
<1>3. CrowdInv'
  BY <1>2 DEF CrowdInv
<1> HIDE DEF crowd
<1>4. ASSUME NEW t \in Limited
      PROVE  /\ Together(t[1], t[2]) \in Nat /\ Together(t[1], t[2])' \in Nat
             /\ Together(t[1], t[2]) <= Together(t[1], t[2])'
             /\ crowd(t) <= Together(t[1], t[2]) /\ crowd(t)' <= Together(t[1], t[2])'
  BY <1>1, <1>2 DEF Together
<1> QED
  BY <1>3, <1>4 DEF crowd

\* The same for the three kinds.
LEMMA Crowds ==
  ASSUME CrowdInv, [AccessNext]_accessVars, NEW kind, NEW x, <<kind, x>> \in Limited
  PROVE  /\ Together(kind, x) \in Nat /\ Together(kind, x)' \in Nat
         /\ Together(kind, x) <= Together(kind, x)'
         /\ Cardinality(UnderWay(kind, x)) <= Together(kind, x)
         /\ Cardinality(UnderWay(kind, x)') <= Together(kind, x)'
<1>1. PICK t \in Limited : t = <<kind, x>>
  OBVIOUS
<1>2. t[1] = kind /\ t[2] = x
  BY <1>1
<1> QED
  BY <1>2, CrowdsGrow

\* The same for codes.
LEMMA CodesFinite ==
  ASSUME NEW S \in SUBSET Codes
  PROVE  /\ Cardinality(S) \in Nat
         /\ \A T \in SUBSET S : Cardinality(T) \in Nat /\ Cardinality(T) <= Cardinality(S)
         /\ \A c : Cardinality(S \cup {c}) <= Cardinality(S) + 1
<1>1. IsFiniteSet(Codes)
  BY FS_Interval, AccessAssumption DEF Codes
<1>2. IsFiniteSet(S)
  BY <1>1, FS_Subset
<1>3. Cardinality(S) \in Nat
  BY <1>2, FS_CardinalityType
<1>4. ASSUME NEW T \in SUBSET S
      PROVE  Cardinality(T) \in Nat /\ Cardinality(T) <= Cardinality(S)
  BY <1>2, FS_Subset, FS_CardinalityType
<1>5. ASSUME NEW c
      PROVE  Cardinality(S \cup {c}) <= Cardinality(S) + 1
  BY <1>2, <1>3, FS_AddElement
<1> QED
  BY <1>3, <1>4, <1>5

\* What a step leaves of the requests, guesses and codes that count.
LEMMA LimitsKept ==
  ASSUME CrowdInv, [AccessNext]_accessVars,
         NEW e \in Emails, Recent(e)' \subseteq Recent(e), Requesting(e)' \subseteq Requesting(e),
         Cardinality(Recent(e)) + Cardinality(Requesting(e)) < ResetLimit + Together("REQUEST", e)
  PROVE  (Cardinality(Recent(e)) + Cardinality(Requesting(e)) < ResetLimit + Together("REQUEST", e))'
<1>1. /\ Cardinality(Recent(e)) \in Nat /\ Cardinality(Recent(e)') \in Nat
      /\ Cardinality(Recent(e)') <= Cardinality(Recent(e))
  <2>1. Recent(e) \in SUBSET Codes
    BY DEF Recent
  <2> QED
    BY <2>1, CodesFinite
<1>2. /\ Cardinality(Requesting(e)) \in Nat /\ Cardinality(Requesting(e)') \in Nat
      /\ Cardinality(Requesting(e)') <= Cardinality(Requesting(e))
  <2>1. Requesting(e) \in SUBSET Clients
    BY DEF Requesting, UnderWay
  <2> QED
    BY <2>1, ClientsFinite
<1>3. /\ Together("REQUEST", e) \in Nat /\ Together("REQUEST", e)' \in Nat
      /\ Together("REQUEST", e) <= Together("REQUEST", e)'
  <2>1. <<"REQUEST", e>> \in Limited
    BY DEF Limited
  <2> QED
    BY <2>1, Crowds
<1> QED
  BY <1>1, <1>2, <1>3, AccessAssumption

\* What a step of the recovery changes in the rows of the codes.
LEMMA CodeMoves ==
  ASSUME Typed, CodeInv, RecoveryNext, NEW c \in Codes
  PROVE  /\ \/ code'[c].email = code[c].email /\ (code'[c].recent => code[c].recent)
            \/ \E k \in Clients : CreateResetRequest(k, c)
         /\ \/ code'[c].guesses = code[c].guesses
            \/ \E k \in Clients : CountGuess(k) /\ job[k][2] = c
<1> DEFINE Goal ==
      /\ \/ code'[c].email = code[c].email /\ (code'[c].recent => code[c].recent)
         \/ \E k \in Clients : CreateResetRequest(k, c)
      /\ \/ code'[c].guesses = code[c].guesses
         \/ \E k \in Clients : CountGuess(k) /\ job[k][2] = c
<1>0. code \in [Codes -> CodeRows]
  BY DEF Typed, CodesTyped
<1>1. CASE code' = code
  BY <1>1
<1>2. ASSUME NEW k \in Clients, NEW d \in Codes, CreateResetRequest(k, d)
      PROVE  Goal
  <2>1. CASE c = d
    <3>1. code'[c].guesses = 0 /\ code[c].guesses = 0
      BY <1>0, <1>2, <2>1 DEF CreateResetRequest, NoCode
    <3> QED
      BY <1>2, <2>1, <3>1
  <2>2. CASE c # d
    BY <1>0, <1>2, <2>2 DEF CreateResetRequest
  <2> QED
    BY <2>1, <2>2
<1>3. ASSUME NEW k \in Clients, NEW failed \in BOOLEAN, EndDelivery(k, failed)
      PROVE  Goal
  BY <1>0, <1>3 DEF EndDelivery, CodeRows
<1>4. ASSUME NEW k \in Clients, CountGuess(k)
      PROVE  Goal
  BY <1>0, <1>4 DEF CountGuess, CodeRows
<1>5. ASSUME NEW k \in Clients, CommitReset(k)
      PROVE  Goal
  BY <1>0, <1>5 DEF CommitReset, CodeRows
<1>6. ASSUME NEW d \in Codes, CodeExpires(d)
      PROVE  Goal
  BY <1>0, <1>6 DEF CodeExpires, CodeRows
<1>7. ASSUME NEW d \in Codes, HourEnds(d)
      PROVE  Goal
  BY <1>0, <1>7 DEF HourEnds, CodeRows
<1> HIDE DEF Goal
<1>8. Goal
  <2>1. (\E k \in Clients : \/ \E e \in Emails : BeginResetRequest(k, e)
                            \/ \E d \in Codes, right \in BOOLEAN : BeginReset(k, d, right)
                            \/ RequestFails(k))
        => Goal
    BY <1>1 DEF BeginResetRequest, BeginReset, RequestFails, portalVars, Goal
  <2> QED
    BY <1>2, <1>3, <1>4, <1>5, <1>6, <1>7, <2>1 DEF RecoveryNext
<1> QED
  BY <1>8 DEF Goal

\* And in the requests under way.
LEMMA JobMoves ==
  ASSUME Typed, RecoveryNext, NEW k \in Clients
  PROVE  \/ job'[k] = job[k]
         \/ job'[k] = Idle
         \/ \E c \in Codes : job'[k] = <<"DELIVERY", c>> \/ job'[k] = <<"RESET", c>>
         \/ \E e \in Emails : BeginResetRequest(k, e) /\ job'[k] = <<"REQUEST", e>>
         \/ \E c \in Codes, right \in BOOLEAN : BeginReset(k, c, right) /\ job'[k] = <<"GUESS", c>>
<1> DEFINE Goal ==
         \/ job'[k] = job[k]
         \/ job'[k] = Idle
         \/ \E c \in Codes : job'[k] = <<"DELIVERY", c>> \/ job'[k] = <<"RESET", c>>
         \/ \E e \in Emails : BeginResetRequest(k, e) /\ job'[k] = <<"REQUEST", e>>
         \/ \E c \in Codes, right \in BOOLEAN : BeginReset(k, c, right) /\ job'[k] = <<"GUESS", c>>
<1>0. job \in [Clients -> Jobs]
  BY DEF Typed
<1>1. ASSUME NEW l \in Clients, NEW e \in Emails, BeginResetRequest(l, e)
      PROVE  Goal
  <2>1. job' = [job EXCEPT ![l] = <<"REQUEST", e>>]
    BY <1>1 DEF BeginResetRequest, Takes
  <2>2. CASE k = l
    BY <1>0, <1>1, <2>1, <2>2
  <2>3. CASE k # l
    BY <1>0, <2>1, <2>3
  <2> QED
    BY <2>2, <2>3
<1>2. ASSUME NEW l \in Clients, NEW c \in Codes, NEW right \in BOOLEAN, BeginReset(l, c, right)
      PROVE  Goal
  <2>1. job' = [job EXCEPT ![l] = <<IF right THEN "RESET" ELSE "GUESS", c>>]
    BY <1>2 DEF BeginReset, Takes
  <2>2. CASE k = l
    BY <1>0, <1>2, <2>1, <2>2
  <2>3. CASE k # l
    BY <1>0, <2>1, <2>3
  <2> QED
    BY <2>2, <2>3
<1>3. ASSUME NEW l \in Clients, NEW c \in Codes, CreateResetRequest(l, c)
      PROVE  Goal
  BY <1>0, <1>3 DEF CreateResetRequest
<1>4. ASSUME NEW l \in Clients, Ends(l)
      PROVE  Goal
  BY <1>0, <1>4 DEF Ends
<1> HIDE DEF Goal
<1>5. (\E c \in Codes : CodeExpires(c) \/ HourEnds(c)) => Goal
  BY DEF CodeExpires, HourEnds, PortalStep, Goal
<1>6. ASSUME NEW l \in Clients,
             (\E failed \in BOOLEAN : EndDelivery(l, failed)) \/ CountGuess(l) \/ CommitReset(l)
             \/ RequestFails(l)
      PROVE  Goal
  BY <1>4, <1>6 DEF EndDelivery, CountGuess, CommitReset, RequestFails
<1>7. Goal
  BY <1>1, <1>2, <1>3, <1>5, <1>6 DEF RecoveryNext
<1> QED
  BY <1>7 DEF Goal

\* The count of recent codes and the requests that may add one stay below the limit.
LEMMA RequestsStep ==
  ASSUME Typed, CodeInv, CrowdInv, [AccessNext]_accessVars, ResetRequestsBounded
  PROVE  ResetRequestsBounded'
<1>0. job \in [Clients -> Jobs] /\ code \in [Codes -> CodeRows]
  BY DEF Typed, CodesTyped
<1> SUFFICES ASSUME NEW e \in Emails
             PROVE  (Cardinality(Recent(e)) + Cardinality(Requesting(e))
                       < ResetLimit + Together("REQUEST", e))'
  BY DEF ResetRequestsBounded, Requesting, UnderWay
<1>1. Cardinality(Recent(e)) + Cardinality(Requesting(e)) < ResetLimit + Together("REQUEST", e)
  BY DEF ResetRequestsBounded, Requesting, UnderWay
<1>9. /\ Together("REQUEST", e) \in Nat /\ Together("REQUEST", e)' \in Nat
      /\ Together("REQUEST", e) <= Together("REQUEST", e)'
      /\ Cardinality(Requesting(e)') <= Together("REQUEST", e)'
  <2>1. <<"REQUEST", e>> \in Limited
    BY DEF Limited
  <2> QED
    BY <2>1, Crowds DEF Requesting, UnderWay
<1>2. CASE SetupNext \/ StaffNext \/ AccountNext
           \/ (\E scope \in {"staff", "portal"} : SignInNext(scope)) \/ UNCHANGED accessVars
  <2>1. Recent(e)' \subseteq Recent(e)
    BY <1>2, CodesUnchanged DEF Recent
  <2>2. Requesting(e)' \subseteq Requesting(e)
    BY <1>2, NoNewRecovery DEF Requesting, UnderWay
  <2> QED
    BY <1>1, <2>1, <2>2, LimitsKept
<1>3. CASE RecoveryNext
  <2>1. ASSUME NEW k \in Clients, BeginResetRequest(k, e)
        PROVE  (Cardinality(Recent(e)) + Cardinality(Requesting(e))
                       < ResetLimit + Together("REQUEST", e))'
    <3>1. Recent(e)' = Recent(e) /\ Cardinality(Recent(e)) < ResetLimit
      BY <2>1 DEF BeginResetRequest, BelowLimit, Recent, portalVars
    <3>2. Requesting(e)' \in SUBSET Clients /\ Recent(e) \in SUBSET Codes
      BY DEF Requesting, UnderWay, Recent
    <3>3. Cardinality(Requesting(e)') \in Nat
      BY <3>2, ClientsFinite
    <3>4. Cardinality(Recent(e)) \in Nat
      BY <3>2, CodesFinite
    <3> QED
      BY <1>9, <3>1, <3>3, <3>4, AccessAssumption
  <2>2. ASSUME NEW k \in Clients, NEW c \in Codes, CreateResetRequest(k, c), job[k][2] = e
        PROVE  (Cardinality(Recent(e)) + Cardinality(Requesting(e))
                       < ResetLimit + Together("REQUEST", e))'
    <3>1. k \in Requesting(e) /\ Requesting(e)' = Requesting(e) \ {k}
      BY <1>0, <2>2, JobShapes DEF CreateResetRequest, Requesting, UnderWay
    <3>2. Recent(e)' \subseteq Recent(e) \cup {c}
      BY <1>0, <2>2 DEF CreateResetRequest, Recent
    <3>3. /\ Requesting(e) \in SUBSET Clients
          /\ Recent(e) \in SUBSET Codes /\ Recent(e) \cup {c} \in SUBSET Codes
      BY DEF Requesting, UnderWay, Recent
    <3>4. /\ Cardinality(Requesting(e)') = Cardinality(Requesting(e)) - 1
          /\ Cardinality(Requesting(e)) \in Nat
      BY <3>1, <3>3, ClientsFinite
    <3>5. /\ Cardinality(Recent(e)) \in Nat
          /\ Cardinality(Recent(e) \cup {c}) <= Cardinality(Recent(e)) + 1
      BY <3>3, CodesFinite
    <3>6. /\ Cardinality(Recent(e)') \in Nat /\ Cardinality(Recent(e) \cup {c}) \in Nat
          /\ Cardinality(Recent(e)') <= Cardinality(Recent(e) \cup {c})
      BY <3>2, <3>3, CodesFinite
    <3> QED
      BY <1>1, <1>9, <3>4, <3>5, <3>6, AccessAssumption
  <2>3. CASE /\ \A k \in Clients : ~BeginResetRequest(k, e)
             /\ \A k \in Clients, c \in Codes : CreateResetRequest(k, c) => job[k][2] # e
    <3>1. ASSUME NEW c \in Recent(e)'
          PROVE  c \in Recent(e)
      <4>1. c \in Codes /\ code'[c].email = e /\ code'[c].recent
        BY DEF Recent
      <4>2. ASSUME NEW k \in Clients, CreateResetRequest(k, c)
            PROVE  FALSE
        <5>1. code'[c].email = job[k][2]
          BY <1>0, <4>1, <4>2 DEF CreateResetRequest
        <5> QED
          BY <2>3, <4>1, <4>2, <5>1
      <4> QED
        BY <1>3, <4>1, <4>2, CodeMoves DEF Recent
    <3>2. ASSUME NEW k \in Requesting(e)'
          PROVE  k \in Requesting(e)
      <4>1. k \in Clients /\ job'[k][1] = "REQUEST" /\ job'[k][2] = e
        BY DEF Requesting, UnderWay
      <4>2. job'[k] = job[k]
        BY <1>3, <2>3, <4>1, JobMoves DEF Idle
      <4> QED
        BY <4>1, <4>2 DEF Requesting, UnderWay
    <3> QED
      BY <1>1, <3>1, <3>2, LimitsKept
  <2> QED
    BY <2>1, <2>2, <2>3
<1> QED
  BY <1>2, <1>3 DEF AccessNext

\* So do the guesses at a code.
LEMMA GuessesStep ==
  ASSUME Typed, CodeInv, CrowdInv, [AccessNext]_accessVars, GuessesBounded
  PROVE  GuessesBounded'
<1>0. job \in [Clients -> Jobs] /\ code \in [Codes -> CodeRows]
  BY DEF Typed, CodesTyped
<1> SUFFICES ASSUME NEW c \in Codes
             PROVE  code'[c].guesses + Cardinality(Guessing(c)') < GuessLimit + Together("GUESS", c)'
  BY DEF GuessesBounded, Guessing, UnderWay
<1>1. code[c].guesses + Cardinality(Guessing(c)) < GuessLimit + Together("GUESS", c)
  BY DEF GuessesBounded, Guessing, UnderWay
<1>2. code[c].guesses \in Nat
  BY <1>0 DEF CodeRows
<1>3. /\ Guessing(c) \in SUBSET Clients /\ Guessing(c)' \in SUBSET Clients
      /\ Cardinality(Guessing(c)) \in Nat /\ Cardinality(Guessing(c)') \in Nat
      /\ Together("GUESS", c) \in Nat /\ Together("GUESS", c)' \in Nat
      /\ Together("GUESS", c) <= Together("GUESS", c)'
      /\ Cardinality(Guessing(c)') <= Together("GUESS", c)'
  <2>1. Guessing(c) \in SUBSET Clients /\ Guessing(c)' \in SUBSET Clients
    BY DEF Guessing, UnderWay
  <2>2. <<"GUESS", c>> \in Limited
    BY DEF Limited
  <2> QED
    BY <2>1, <2>2, ClientsFinite, Crowds DEF Guessing, UnderWay
<1>4. ASSUME code'[c].guesses = code[c].guesses, Guessing(c)' \subseteq Guessing(c)
      PROVE  code'[c].guesses + Cardinality(Guessing(c)') < GuessLimit + Together("GUESS", c)'
  <2>1. Cardinality(Guessing(c)') <= Cardinality(Guessing(c))
    BY <1>3, <1>4, ClientsFinite
  <2> QED
    BY <1>1, <1>2, <1>3, <1>4, <2>1, AccessAssumption
<1>5. CASE SetupNext \/ StaffNext \/ AccountNext
           \/ (\E scope \in {"staff", "portal"} : SignInNext(scope)) \/ UNCHANGED accessVars
  <2>1. code' = code
    BY <1>5, CodesUnchanged
  <2>2. Guessing(c)' \subseteq Guessing(c)
    BY <1>5, NoNewRecovery DEF Guessing, UnderWay
  <2> QED
    BY <1>4, <2>1, <2>2
<1>6. CASE RecoveryNext
  <2>1. ASSUME NEW k \in Clients, NEW right \in BOOLEAN, BeginReset(k, c, right)
        PROVE  code'[c].guesses + Cardinality(Guessing(c)') < GuessLimit + Together("GUESS", c)'
    <3>1. code' = code /\ code[c].guesses < GuessLimit
      BY <2>1 DEF BeginReset, Comparable, Usable, GuessesLeft, portalVars
    <3> QED
      BY <1>2, <1>3, <3>1, AccessAssumption
  <2>2. ASSUME NEW k \in Clients, CountGuess(k), job[k][2] = c
        PROVE  code'[c].guesses + Cardinality(Guessing(c)') < GuessLimit + Together("GUESS", c)'
    <3>1. k \in Guessing(c) /\ Guessing(c)' = Guessing(c) \ {k}
      BY <1>0, <2>2, JobShapes DEF CountGuess, Ends, Idle, Guessing, UnderWay
    <3>2. code'[c].guesses = code[c].guesses + 1
      BY <1>0, <2>2 DEF CountGuess, CodeRows
    <3>3. Cardinality(Guessing(c)') = Cardinality(Guessing(c)) - 1
      BY <1>3, <3>1, ClientsFinite
    <3> QED
      BY <1>1, <1>2, <1>3, <3>2, <3>3, AccessAssumption
  <2>3. CASE /\ \A k \in Clients, right \in BOOLEAN : ~BeginReset(k, c, right)
             /\ \A k \in Clients : CountGuess(k) => job[k][2] # c
    <3>1. code'[c].guesses = code[c].guesses
      BY <1>6, <2>3, CodeMoves
    <3>2. ASSUME NEW k \in Guessing(c)'
          PROVE  k \in Guessing(c)
      <4>1. k \in Clients /\ job'[k][1] = "GUESS" /\ job'[k][2] = c
        BY DEF Guessing, UnderWay
      <4>2. job'[k] = job[k]
        BY <1>6, <2>3, <4>1, JobMoves DEF Idle
      <4> QED
        BY <4>1, <4>2 DEF Guessing, UnderWay
    <3> QED
      BY <1>4, <3>1, <3>2
  <2> QED
    BY <2>1, <2>2, <2>3
<1> QED
  BY <1>5, <1>6 DEF AccessNext

\* Only a sign-in and the time change the throttle.
LEMMA ThrottleUnchanged ==
  ASSUME SetupNext \/ StaffNext \/ AccountNext \/ RecoveryNext \/ UNCHANGED accessVars
  PROVE  UNCHANGED throttle
<1>1. CASE SetupNext \/ StaffNext \/ AccountNext
  BY <1>1 DEF SetupNext, BeginSetup, SeedClears, SeedInserts, CommitSetup, RequestFails, StaffNext,
     RequireManageUsers, CreateStaffAccount, UpdateStaffRole, StaffSessionEnds, AccountNext,
     PortalStep, CreatePortalAccount, SetPortalAccountEnabled, UpdateContact, PortalSessionEnds
<1>2. CASE RecoveryNext
  BY <1>2 DEF RecoveryNext, BeginResetRequest, CreateResetRequest, BeginReset, RequestFails,
     EndDelivery, CountGuess, CommitReset, PortalStep, CodeExpires, HourEnds
<1> QED
  BY <1>1, <1>2 DEF accessVars

\* A window that fills up blocks its identifier.
LEMMA ThrottleStep ==
  ASSUME Typed, ThrottleInv, [AccessNext]_accessVars
  PROVE  ThrottleInv'
<1> USE DEF ThrottleInv, ThrottleTyped
<1>1. CASE SetupNext \/ StaffNext \/ AccountNext \/ RecoveryNext \/ UNCHANGED accessVars
  BY <1>1, ThrottleUnchanged
<1>2. ASSUME NEW scope \in {"staff", "portal"}, SignInNext(scope)
      PROVE  ThrottleInv'
  <2>1. ASSUME NEW k \in Clients, NEW i \in Identifiers, NEW right \in BOOLEAN,
               BeginSignIn(k, i, right)
        PROVE  ThrottleInv'
    BY <2>1 DEF BeginSignIn
  <2>2. ASSUME NEW k \in Clients, FinishSignIn(k)
        PROVE  ThrottleInv'
    <3>1. PICK i \in Identifiers : i = job[k][2]
      BY <2>2, JobShapes DEF FinishSignIn, Typed
    <3>2. Failed(i) \in Nat
      BY DEF Failed, Windows
    <3>3. PICK w \in Windows :
            /\ w.open /\ ~w.blocked => w.failed < FailureLimit
            /\ throttle' = [throttle EXCEPT ![i] = w]
      <4> DEFINE Cleared == [failed |-> 0, open |-> FALSE, blocked |-> FALSE]
                 Counted(b) == [failed |-> Failed(i), open |-> TRUE, blocked |-> b]
      <4>1. \/ throttle' = [throttle EXCEPT ![i] = Cleared]
            \/ throttle' = [throttle EXCEPT ![i] = Counted(AtLimit(Failed(i)))]
        BY <2>2, <3>1 DEF FinishSignIn, RecordAuthenticationResult
      <4>2. CASE throttle' = [throttle EXCEPT ![i] = Cleared]
        <5>1. Cleared \in Windows /\ ~Cleared.open
          BY DEF Windows
        <5> QED
          BY <4>2, <5>1
      <4>3. CASE throttle' = [throttle EXCEPT ![i] = Counted(AtLimit(Failed(i)))]
        <5>1. CASE AtLimit(Failed(i))
          <6>1. AtLimit(Failed(i)) = TRUE
            BY <5>1 DEF AtLimit
          <6>2. throttle' = [throttle EXCEPT ![i] = Counted(TRUE)]
            BY <4>3, <6>1
          <6>3. Counted(TRUE) \in Windows /\ Counted(TRUE).blocked
            BY <3>2 DEF Windows
          <6> QED
            BY <6>2, <6>3
        <5>2. CASE ~AtLimit(Failed(i))
          <6>1. AtLimit(Failed(i)) = FALSE
            BY <5>2 DEF AtLimit
          <6>2. throttle' = [throttle EXCEPT ![i] = Counted(FALSE)]
            BY <4>3, <6>1
          <6>3. Counted(FALSE) \in Windows /\ Counted(FALSE).failed = Failed(i)
            BY <3>2 DEF Windows
          <6>4. Failed(i) < FailureLimit
            BY <3>2, <5>2, AccessAssumption DEF AtLimit
          <6> HIDE DEF Counted
          <6> QED
            BY <6>2, <6>3, <6>4
        <5> QED
          BY <5>1, <5>2
      <4> QED
        BY <4>1, <4>2, <4>3
    <3>4. /\ throttle'[i] \in Windows
          /\ throttle'[i].open /\ ~throttle'[i].blocked => throttle'[i].failed < FailureLimit
      BY <3>3
    <3>5. \A j \in Identifiers \ {i} : throttle'[j] = throttle[j]
      BY <3>3
    <3>6. throttle' = [j \in Identifiers |-> throttle'[j]]
      BY <3>3
    <3> QED
      BY <3>4, <3>5, <3>6
  <2>3. ASSUME NEW i \in Identifiers, WindowEnds(i) \/ BlockEnds(i)
        PROVE  ThrottleInv'
    BY <2>3 DEF WindowEnds, BlockEnds, Windows
  <2> QED
    BY <1>2, <2>1, <2>2, <2>3 DEF SignInNext
<1> QED
  BY <1>1, <1>2 DEF AccessNext

\* And the failures of a window with the attempts under way stay below the limit.
LEMMA AttemptsStep ==
  ASSUME Typed, ThrottleInv, CrowdInv, [AccessNext]_accessVars, AttemptsBounded
  PROVE  AttemptsBounded'
<1>0. job \in [Clients -> Jobs] /\ throttle \in [Identifiers -> Windows]
  BY DEF Typed, ThrottleTyped
<1> SUFFICES ASSUME NEW i \in Identifiers, throttle'[i].open
             PROVE  throttle'[i].failed + Cardinality(Attempting(i)')
                      < FailureLimit + Together("SIGN_IN", i)'
  BY DEF AttemptsBounded, Attempting, UnderWay
<1> DEFINE Goal == throttle'[i].failed + Cardinality(Attempting(i)')
                      < FailureLimit + Together("SIGN_IN", i)'
<1>1. throttle[i].open => throttle[i].failed + Cardinality(Attempting(i))
                            < FailureLimit + Together("SIGN_IN", i)
  BY DEF AttemptsBounded, Attempting, UnderWay
<1>2. throttle[i].failed \in Nat
  BY <1>0 DEF Windows
<1>3. /\ Attempting(i) \in SUBSET Clients /\ Attempting(i)' \in SUBSET Clients
      /\ Cardinality(Attempting(i)) \in Nat /\ Cardinality(Attempting(i)') \in Nat
      /\ Together("SIGN_IN", i) \in Nat /\ Together("SIGN_IN", i)' \in Nat
      /\ Together("SIGN_IN", i) <= Together("SIGN_IN", i)'
      /\ Cardinality(Attempting(i)) <= Together("SIGN_IN", i)
      /\ Cardinality(Attempting(i)') <= Together("SIGN_IN", i)'
  <2>1. Attempting(i) \in SUBSET Clients /\ Attempting(i)' \in SUBSET Clients
    BY DEF Attempting, UnderWay
  <2>2. <<"SIGN_IN", i>> \in Limited
    BY DEF Limited
  <2> QED
    BY <2>1, <2>2, ClientsFinite, Crowds DEF Attempting, UnderWay
<1>4. ASSUME throttle'[i].failed = throttle[i].failed, throttle[i].open,
             Attempting(i)' \subseteq Attempting(i)
      PROVE  Goal
  <2>1. Cardinality(Attempting(i)') <= Cardinality(Attempting(i))
    BY <1>3, <1>4, ClientsFinite
  <2> QED
    BY <1>1, <1>2, <1>3, <1>4, <2>1, AccessAssumption
<1>5. CASE SetupNext \/ StaffNext \/ AccountNext \/ RecoveryNext \/ UNCHANGED accessVars
  <2>1. throttle' = throttle
    BY <1>5, ThrottleUnchanged
  <2>2. Attempting(i)' \subseteq Attempting(i)
    BY <1>5, NoNewSignIns DEF Attempting, UnderWay
  <2> QED
    BY <1>4, <2>1, <2>2
<1>6. ASSUME NEW scope \in {"staff", "portal"}, SignInNext(scope)
      PROVE  Goal
  <2>1. ASSUME NEW k \in Clients, NEW j \in Identifiers, NEW right \in BOOLEAN,
               BeginSignIn(k, j, right)
        PROVE  Goal
    <3>1. throttle' = throttle
      BY <2>1 DEF BeginSignIn
    <3>2. CASE i = j
      <4>1. throttle[i].failed < FailureLimit
        BY <2>1, <3>1, <3>2 DEF BeginSignIn, ThrottleInv
      <4> QED
        BY <1>2, <1>3, <3>1, <4>1, AccessAssumption
    <3>3. CASE i # j
      <4>1. Attempting(i)' \subseteq Attempting(i)
        BY <1>0, <2>1, <3>3 DEF BeginSignIn, Takes, Attempting, UnderWay
      <4> QED
        BY <1>4, <3>1, <4>1
    <3> QED
      BY <3>2, <3>3
  <2>2. ASSUME NEW k \in Clients, FinishSignIn(k), job[k][2] = i
        PROVE  Goal
    <3>1. throttle'[i].failed = Failed(i)
      <4>1. \/ throttle' = [throttle EXCEPT ![i] =
                 [failed |-> 0, open |-> FALSE, blocked |-> FALSE]]
            \/ throttle' = [throttle EXCEPT ![i] =
                  [failed |-> Failed(i), open |-> TRUE, blocked |-> Failed(i) >= FailureLimit]]
        BY <2>2 DEF FinishSignIn, RecordAuthenticationResult, AtLimit
      <4> QED
        BY <1>0, <4>1
    <3>2. k \in Attempting(i) /\ Attempting(i)' = Attempting(i) \ {k}
      BY <1>0, <2>2, JobShapes DEF FinishSignIn, Ends, Idle, Attempting, UnderWay
    <3>3. Cardinality(Attempting(i)') = Cardinality(Attempting(i)) - 1
      BY <1>3, <3>2, ClientsFinite
    <3>4. CASE throttle[i].open
      <4>1. throttle'[i].failed = throttle[i].failed + 1
        BY <3>1, <3>4 DEF Failed
      <4> QED
        BY <1>1, <1>2, <1>3, <3>3, <3>4, <4>1, AccessAssumption
    <3>5. CASE ~throttle[i].open
      <4>1. throttle'[i].failed = 1
        BY <3>1, <3>5 DEF Failed
      <4> QED
        BY <1>3, <3>3, <4>1, AccessAssumption
    <3> QED
      BY <3>4, <3>5
  <2>3. ASSUME NEW k \in Clients, FinishSignIn(k), job[k][2] # i
        PROVE  Goal
    <3>1. throttle'[i] = throttle[i]
      BY <1>0, <2>3 DEF FinishSignIn, RecordAuthenticationResult
    <3>2. Attempting(i)' \subseteq Attempting(i)
      BY <1>0, <2>3 DEF FinishSignIn, Ends, Idle, Attempting, UnderWay
    <3> QED
      BY <1>4, <3>1, <3>2
  <2>4. ASSUME NEW j \in Identifiers, WindowEnds(j) \/ BlockEnds(j)
        PROVE  Goal
    <3>1. throttle'[i].failed = throttle[i].failed /\ throttle[i].open
      BY <1>0, <2>4 DEF WindowEnds, BlockEnds, Windows
    <3>2. job' = job
      BY <2>4 DEF WindowEnds, BlockEnds
    <3> QED
      BY <1>4, <3>1, <3>2 DEF Attempting, UnderWay
  <2> QED
    BY <1>6, <2>1, <2>2, <2>3, <2>4 DEF SignInNext
<1> QED
  BY <1>5, <1>6 DEF AccessNext

-----------------------------------------------------------------------------
\* The inductive invariant and what follows from it.

\* The inductive invariant.
AInv == /\ job \in [Clients -> Jobs]
        /\ StaffInv /\ PortalInv /\ CodeInv /\ ThrottleInv
        /\ CrowdInv /\ LimitsHold

\* It includes the types.
LEMMA AInvTyped == AInv => Typed
BY DEF AInv, Typed, StaffInv, PortalInv, CodeInv, ThrottleInv

\* Nothing counts towards a limit before the first request.
LEMMA NothingCounts ==
  ASSUME \A e \in Emails : Recent(e) = {} /\ Requesting(e) = {},
         \A c \in Codes : code[c].guesses = 0 /\ Guessing(c) = {},
         \A i \in Identifiers : ~throttle[i].open
  PROVE  LimitsHold
<1>1. Cardinality({}) = 0 /\ Cardinality(Clients) \in Nat
  BY FS_EmptySet, FS_CardinalityType, AccessAssumption
<1>2. AttemptsBounded
  BY DEF AttemptsBounded
<1>3. ResetRequestsBounded
  <2>1. \A e \in Emails : Cardinality(Recent(e)) = 0 /\ Cardinality(Requesting(e)) = 0
    BY <1>1
  <2>2. \A e \in Emails : ResetLimit + Together("REQUEST", e) > 0
    BY <1>1, AccessAssumption DEF Together
  <2> QED
    BY <2>1, <2>2 DEF ResetRequestsBounded, Requesting, UnderWay
<1>4. GuessesBounded
  <2>1. \A c \in Codes : Cardinality(Guessing(c)) = 0
    BY <1>1
  <2>2. \A c \in Codes : GuessLimit + Together("GUESS", c) > 0
    BY <1>1, AccessAssumption DEF Together
  <2> QED
    BY <2>1, <2>2 DEF GuessesBounded, Guessing, UnderWay
<1> QED
  BY <1>2, <1>3, <1>4 DEF LimitsHold

\* It holds at the start.
LEMMA AInvInit == AccessInit => AInv
<1> SUFFICES ASSUME AccessInit PROVE AInv
  OBVIOUS
<1> USE AccessAssumption DEF AccessInit
<1>1. job \in [Clients -> Jobs] /\ \A k \in Clients : job[k][1] = "IDLE"
  BY DEF Jobs, Idle
<1>2. StaffInv
  BY <1>1 DEF StaffInv, StaffTyped, StaffHaveAccounts, DirectorRemains, Accounts, Idle
<1>3. PortalInv
  BY <1>1 DEF PortalInv, PortalTyped, PortalRows, PortalHasPasswords, AddressesAgree,
     StatusTellsPassword, Portal
<1>4. CodeInv
  BY <1>1 DEF CodeInv, CodesTyped, CodeRows, NoCode
<1>5. ThrottleInv
  BY DEF ThrottleInv, ThrottleTyped, Windows
<1>6. LimitsHold
  <2>1. \A e \in Emails : Recent(e) = {} /\ Requesting(e) = {}
    BY <1>1 DEF Recent, NoCode, Requesting, UnderWay
  <2>2. \A c \in Codes : code[c].guesses = 0 /\ Guessing(c) = {}
    BY <1>1 DEF NoCode, Guessing, UnderWay
  <2>3. \A i \in Identifiers : ~throttle[i].open
    OBVIOUS
  <2> QED
    BY <2>1, <2>2, <2>3, NothingCounts
<1>7. CrowdInv
  <2>1. ASSUME NEW t \in Limited
        PROVE  Cardinality(UnderWay(t[1], t[2])) = 0
    <3>1. t[1] \in {"SIGN_IN", "REQUEST", "GUESS"}
      BY DEF Limited
    <3>2. UnderWay(t[1], t[2]) = {}
      BY <1>1, <3>1 DEF UnderWay
    <3> QED
      BY <3>2, FS_EmptySet
  <2> QED
    BY <2>1 DEF CrowdInv
<1> QED
  BY <1>1, <1>2, <1>3, <1>4, <1>5, <1>6, <1>7 DEF AInv

\* Every step keeps it.
LEMMA AInvStep == AInv /\ [AccessNext]_accessVars => AInv'
<1> SUFFICES ASSUME AInv, [AccessNext]_accessVars PROVE AInv'
  OBVIOUS
<1>1. Typed
  BY AInvTyped
<1>2. StaffInv' /\ PortalInv' /\ CodeInv' /\ ThrottleInv' /\ job' \in [Clients -> Jobs]
  BY <1>1, JobsTyped, StaffStep, PortalRowsStep, CodeRowsStep, ThrottleStep DEF AInv
<1>3. LimitsHold'
  BY <1>1, AttemptsStep, RequestsStep, GuessesStep DEF AInv, LimitsHold
<1>4. CrowdInv'
  BY CrowdsGrow DEF AInv
<1> QED
  BY <1>2, <1>3, <1>4 DEF AInv

\* The inductive invariant holds in every reachable state.
THEOREM AccessInvariant == AccessSpec => []AInv
BY AInvInit, AInvStep, PTL DEF AccessSpec

\* A program with accounts always has a director (createStaffAccount, updateStaffRole).
THEOREM DirectorStays == AccessSpec => []DirectorRemains
<1>1. AInv => DirectorRemains
  BY DEF AInv, StaffInv
<1> QED
  BY <1>1, AccessInvariant, PTL

\* The limits of attempts, requests for a code and guesses are exact for whatever has not
\* been attempted by two clients together, and exceeded by fewer than the clients else.
THEOREM LimitsCorrect == AccessSpec => []LimitsHold
<1>1. AInv => LimitsHold
  BY DEF AInv
<1> QED
  BY <1>1, AccessInvariant, PTL

\* Accounts agree with their persons, passwords and sessions.
THEOREM AccountsCorrect == AccessSpec => []AccountsTrue
<1>1. ASSUME AInv
      PROVE  AccountsTrue
  <2>1. job \in [Clients -> Jobs]
    BY <1>1 DEF AInv
  <2>2. \A k \in Clients :
          job[k][1] \in {"IDLE", "SETUP", "DEMO", "SEEDING", "GRANTED", "SIGN_IN",
                         "REQUEST", "DELIVERY", "RESET", "GUESS"}
    BY <2>1, JobShapes
  <2>3. \A c \in Codes : code[c].status \in {"NONE", "LIVE", "USED", "EXPIRED"}
    BY <1>1 DEF AInv, CodeInv, CodesTyped, CodeRows
  <2>4. \A p \in People : portal[p].status \in {"NONE", "PENDING", "ACTIVE", "DISABLED"}
    BY <1>1 DEF AInv, PortalInv, PortalTyped, PortalRows
  <2>5. AccessTypeOK
    BY <1>1, <2>2, <2>3, <2>4
       DEF AInv, StaffInv, StaffTyped, StaffHaveAccounts, PortalInv, PortalHasPasswords,
           CodeInv, AccessTypeOK
  <2> QED
    BY <1>1, <2>5 DEF AInv, PortalInv, AccountsTrue
<1> QED
  BY <1>1, AccessInvariant, PTL

\* An account appears while there is none or by a grant, and none disappears.
THEOREM OneFirstDirector == AccessSpec => AccountsComeFromDirectors
<1>1. ASSUME AInv, [AccessNext]_accessVars, NEW s \in Staff
      PROVE  /\ role[s] # NoOne => role'[s] # NoOne
             /\ role[s] = NoOne /\ role'[s] # NoOne =>
                  Accounts = {} \/ \E k \in Clients : job[k] = <<"GRANTED">> /\ job'[k] = Idle
  <2>1. Typed
    BY <1>1, AInvTyped
  <2>2. role[s] # NoOne => role'[s] # NoOne
    BY <1>1, <2>1, StaffStep DEF AInv
  <2>3. CASE role' = role
    BY <2>3
  <2>4. ASSUME NEW k \in Clients, CommitSetup(k)
        PROVE  Accounts = {}
    BY <2>4 DEF CommitSetup, NobodyYet
  <2>5. ASSUME NEW k \in Clients, NEW t \in Staff, NEW newRole \in {"DIRECTOR", "OTHER"},
               CreateStaffAccount(k, t, newRole)
        PROVE  job[k] = <<"GRANTED">> /\ job'[k] = Idle
    BY <2>1, <2>5 DEF CreateStaffAccount, Ends, Typed
  <2>6. ASSUME NEW k \in Clients, NEW t \in Staff, NEW newRole \in {"DIRECTOR", "OTHER"},
               UpdateStaffRole(k, t, newRole)
        PROVE  job[k] = <<"GRANTED">> /\ job'[k] = Idle
    BY <2>1, <2>6 DEF UpdateStaffRole, Ends, Typed
  <2>7. CASE SetupNext
    BY <2>2, <2>3, <2>4, <2>7 DEF SetupNext, BeginSetup, SeedClears, StaffRefuses, SeedInserts,
       RequestFails, staffVars
  <2>8. CASE StaffNext
    BY <2>2, <2>3, <2>5, <2>6, <2>8 DEF StaffNext, RequireManageUsers, StaffSessionEnds, staffVars
  <2>9. ASSUME NEW scope \in {"staff", "portal"}, SignInNext(scope)
        PROVE  role' = role
    BY <2>9 DEF SignInNext, BeginSignIn, FinishSignIn, WindowEnds, BlockEnds, staffVars
  <2>10. CASE AccountNext \/ UNCHANGED accessVars
    BY <2>3, <2>10 DEF AccountNext, PortalStep, CreatePortalAccount, SetPortalAccountEnabled,
       UpdateContact, PortalSessionEnds, staffVars, accessVars
  <2>11. CASE RecoveryNext
    BY <2>3, <2>11 DEF RecoveryNext, BeginResetRequest, CreateResetRequest, BeginReset,
       RequestFails, EndDelivery, CountGuess, CommitReset, PortalStep, CodeExpires, HourEnds,
       staffVars
  <2> QED
    BY <1>1, <2>2, <2>3, <2>7, <2>8, <2>9, <2>10, <2>11 DEF AccessNext
<1>2. AInv /\ [AccessNext]_accessVars =>
        [\A s \in Staff :
           /\ role[s] # NoOne => role'[s] # NoOne
           /\ role[s] = NoOne /\ role'[s] # NoOne =>
                Accounts = {} \/ \E k \in Clients : job[k] = <<"GRANTED">> /\ job'[k] = Idle]_role
  BY <1>1
<1> QED
  BY <1>2, AccessInvariant, PTL DEF AccessSpec, AccountsComeFromDirectors

\* A password changes with a code that was unused until then, and spends every code and
\* ends every session of the account (resetPortalPassword).
THEOREM CodesWorkOnce == AccessSpec => ResetSpendsCodes
<1> DEFINE Spent(p) ==
      /\ \E c \in Codes : /\ code[c].who = p
                          /\ code[c].status = "LIVE"
                          /\ code'[c].status = "USED"
      /\ \A c \in Codes : code'[c].who = p => code'[c].status # "LIVE"
      /\ \A k \in Clients : portalSession'[k] # p
<1>1. ASSUME AInv, [AccessNext]_accessVars, NEW p \in People,
             portal'[p].password # portal[p].password
      PROVE  Spent(p)
  <2>1. Typed
    BY <1>1, AInvTyped
  <2>2. portal \in [People -> PortalRows] /\ code \in [Codes -> CodeRows]
    BY <2>1 DEF Typed, PortalTyped, CodesTyped
  <2>3. portal' # portal
    BY <1>1
  <2>4. ASSUME NEW q \in People, CreatePortalAccount(q)
        PROVE  portal'[p].password = portal[p].password
    BY <1>1, <2>2, <2>4 DEF CreatePortalAccount, AInv, PortalInv, PortalHasPasswords
  <2>5. ASSUME NEW q \in People, NEW enabled \in BOOLEAN, SetPortalAccountEnabled(q, enabled)
        PROVE  portal'[p].password = portal[p].password
    BY <2>2, <2>5 DEF SetPortalAccountEnabled, PortalRows
  <2>6. ASSUME NEW q \in People, NEW active \in BOOLEAN, NEW e \in Emails \cup {NoOne},
               UpdateContact(q, active, e)
        PROVE  portal'[p].password = portal[p].password
    BY <2>2, <2>6 DEF UpdateContact, PortalRows
  <2>7. ASSUME NEW k \in Clients, CommitReset(k)
        PROVE  Spent(p)
    <3>1. /\ code[job[k][2]].status = "LIVE"
          /\ portal' = [portal EXCEPT ![code[job[k][2]].who].password = @ + 1,
                                      ![code[job[k][2]].who].status = "ACTIVE"]
      BY <2>7 DEF CommitReset, Claimed
    <3>2. code[job[k][2]].who = p
      BY <1>1, <2>2, <3>1 DEF PortalRows
    <3>3. job[k][2] \in Codes
      BY <2>1, <2>7, JobShapes DEF CommitReset, Typed
    <3>4. /\ \A c \in Codes : code'[c] =
               IF code[c].who = p THEN [code[c] EXCEPT !.status = "USED"] ELSE code[c]
          /\ portalSession' = WithoutSessions(p)
      BY <2>7, <3>2 DEF CommitReset
    <3>5. \A c \in Codes : /\ code[c].who = p => code'[c].status = "USED"
                           /\ code[c].who # p => code'[c].who # p
      BY <2>2, <3>4 DEF CodeRows
    <3>6. \A l \in Clients : portalSession'[l] # p
      BY <3>4, AccessAssumption DEF WithoutSessions
    <3>7. code'[job[k][2]].status = "USED"
      BY <3>2, <3>3, <3>5
    <3>8. \A c \in Codes : code'[c].who = p => code'[c].status # "LIVE"
      BY <3>5
    <3> QED
      BY <3>1, <3>2, <3>3, <3>6, <3>7, <3>8
  <2>8. CASE SetupNext \/ StaffNext \/ UNCHANGED accessVars
    BY <2>3, <2>8 DEF SetupNext, BeginSetup, SeedClears, SeedInserts, CommitSetup, RequestFails,
       StaffNext, RequireManageUsers, CreateStaffAccount, UpdateStaffRole, StaffSessionEnds,
       portalVars, accessVars
  <2>9. ASSUME NEW scope \in {"staff", "portal"}, SignInNext(scope)
        PROVE  FALSE
    BY <2>3, <2>9 DEF SignInNext, BeginSignIn, FinishSignIn, WindowEnds, BlockEnds, portalVars
  <2>10. CASE AccountNext
    BY <1>1, <2>3, <2>4, <2>5, <2>6, <2>10 DEF AccountNext, PortalSessionEnds
  <2>11. CASE RecoveryNext
    BY <2>3, <2>7, <2>11 DEF RecoveryNext, BeginResetRequest, CreateResetRequest, BeginReset,
       RequestFails, EndDelivery, CountGuess, PortalStep, CodeExpires, HourEnds, portalVars
  <2> QED
    BY <1>1, <2>8, <2>9, <2>10, <2>11 DEF AccessNext
<1>2. AInv /\ [AccessNext]_accessVars =>
        [\A p \in People : portal'[p].password # portal[p].password =>
           /\ \E c \in Codes : /\ code[c].who = p
                               /\ code[c].status = "LIVE"
                               /\ code'[c].status = "USED"
           /\ \A c \in Codes : code'[c].who = p => code'[c].status # "LIVE"
           /\ \A k \in Clients : portalSession'[k] # p]_<<portal, code, portalSession>>
  BY <1>1
<1> QED
  BY <1>2, AccessInvariant, PTL DEF AccessSpec, ResetSpendsCodes
=============================================================================
