--------------------------- MODULE MCAccountAccess ---------------------------
EXTENDS AccountAccess, TLC
CONSTANTS k1, k2, s1, s2, p1, p2, m1, m2

\* Staff and family accounts share the throttle's code and none of its rows, so each
\* is explored by itself, and of the latter the addresses of two accounts apart from
\* the codes of one.
VARIABLE part

Parts == {"staff", "addresses", "codes"}
Contact(p, e) == person[p] = [active |-> TRUE, email |-> e]

MCInit ==
  /\ AccessInit
  /\ part \in Parts
  /\ Contact(p2, NoOne)
  /\ Contact(p1, IF part = "staff" THEN NoOne ELSE m1)

MCNext ==
  /\ \/ part = "staff" /\ (SetupNext \/ StaffNext \/ SignInNext("staff"))
     \/ part = "addresses" /\ (AccountNext \/ RecoveryNext)
     \/ part = "codes" /\ (AccountNext \/ RecoveryNext \/ SignInNext("portal"))
  /\ Remembered
  /\ UNCHANGED part

MCSpec == MCInit /\ [][MCNext]_<<accessVars, part>>

\* Only one client is busy with addresses, which the codes' part leaves as they are.
Alone == \E k \in Clients : \A other \in Clients \ {k} :
           job[other] = Idle /\ portalSession[other] = NoOne
FirstAddress == \A c \in Codes : code[c].email # m2
NoFailures == \A i \in Identifiers : ~throttle[i].open
AboutFirst == \A k \in Clients : job[k] # <<"REQUEST", m2>>
                               /\ job[k][1] = "SIGN_IN" => job[k][2] = <<"portal", m1>>

\* The limits of different identifiers, addresses and codes do not depend on each
\* other: a behaviour goes on until a second one has been crowded.
OneCrowd == Cardinality(crowded) <= 1

Bound ==
  /\ OneCrowd
  /\ \A p \in People : portal[p].password <= 1
  /\ part = "addresses" => Alone /\ code[2] = NoCode /\ code[1].guesses = 0
  /\ part = "codes" => /\ Contact(p1, m1) /\ Contact(p2, NoOne)
                       /\ FirstAddress /\ AboutFirst /\ NoFailures

Symmetry == Permutations(Staff) \cup Permutations(Clients)
=============================================================================
