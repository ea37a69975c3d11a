----------------------------- MODULE AccountBook -----------------------------
(***************************************************************************)
(* What the student ledger promises: amounts are posted to accounts, a     *)
(* posting may be undone once as a whole, and nothing else ever happens to *)
(* it.  An account stands at the sum of its postings that are not undone.  *)
(***************************************************************************)
EXTENDS Integers, Functions

CONSTANTS Accounts, PostingIds, Sums

VARIABLES posted,   \* postings: [id, account, amount]
          undone    \* corrections: <<id of the correction, id of the posting>>

Posting == [id: PostingIds, account: Accounts, amount: Sums]

Undone(e) == \E u \in undone : u[2] = e.id

Standing(a) == {e \in posted : e.account = a /\ ~Undone(e)}
Stands(a) == SumFunctionOnSet([e \in Standing(a) |-> e.amount], Standing(a))

BookInit == posted = {} /\ undone = {}

\* One new posting, or one for each of several accounts.
Post ==
  /\ posted \subseteq posted'
  /\ posted' # posted
  /\ posted' \subseteq Posting
  /\ \A e, f \in posted' : e.id = f.id => e = f
  /\ UNCHANGED undone

Undo(id, e) ==
  /\ e \in posted
  /\ ~Undone(e)
  /\ undone' = undone \cup {<<id, e.id>>}
  /\ UNCHANGED posted

BookNext ==
  \/ Post
  \/ \E id \in PostingIds, e \in posted : Undo(id, e)

BookSpec == BookInit /\ [][BookNext]_<<posted, undone>>
=============================================================================
