----------------------------- MODULE FeeAccount -----------------------------
(***************************************************************************)
(* What student finance promises, with one atomic step per operation: a    *)
(* student owes what was charged, less the money received and less what    *)
(* was waived.  Money is received in cash or through a claim; a claim is   *)
(* accepted or refused once, and only accepting it moves money.            *)
(***************************************************************************)
EXTENDS Integers

CONSTANTS Enrollments, Claims

VARIABLES
  charged,   \* total billed to an enrollment
  paid,      \* money received for it, without what was given back
  waived,    \* discounts, scholarships, corrections
  claim,     \* state of each claim
  claimed    \* its amount

accountVars == <<charged, paid, waived, claim, claimed>>

ClaimStates == {"NONE", "PENDING", "VERIFIED", "REJECTED"}

AccountInit ==
  /\ charged = [e \in Enrollments |-> 0]
  /\ paid    = [e \in Enrollments |-> 0]
  /\ waived  = [e \in Enrollments |-> 0]
  /\ claim   = [c \in Claims |-> "NONE"]
  /\ claimed = [c \in Claims |-> 0]

\* f changes at x only.
OnlyAt(f, x) == f' = [f EXCEPT ![x] = f'[x]]

\* A fee is billed to some of its students; nobody is billed less than before.
Charge ==
  /\ \A e \in Enrollments : charged'[e] >= charged[e]
  /\ UNCHANGED <<paid, waived, claim, claimed>>

\* Money comes in for e, at most what was charged.
Receive(e) ==
  /\ OnlyAt(paid, e)
  /\ paid'[e] > paid[e]
  /\ paid'[e] <= charged[e]
  /\ UNCHANGED <<charged, waived>>

Cash(e) == Receive(e) /\ UNCHANGED <<claim, claimed>>

\* A posted payment is taken back: the student owes it again.
Reverse(e) ==
  /\ OnlyAt(paid, e)
  /\ 0 <= paid'[e] /\ paid'[e] < paid[e]
  /\ UNCHANGED <<charged, waived, claim, claimed>>

Waive(e) ==
  /\ OnlyAt(waived, e)
  /\ waived'[e] > waived[e]
  /\ UNCHANGED <<charged, paid, claim, claimed>>

MakeClaim(c) ==
  /\ claim[c] = "NONE"
  /\ claim' = [claim EXCEPT ![c] = "PENDING"]
  /\ OnlyAt(claimed, c)
  /\ claimed'[c] > 0
  /\ UNCHANGED <<charged, paid, waived>>

\* The claim is accepted, and pays exactly what was claimed.
Accept(c, e) ==
  /\ claim[c] = "PENDING"
  /\ claim' = [claim EXCEPT ![c] = "VERIFIED"]
  /\ Receive(e)
  /\ paid'[e] = paid[e] + claimed[c]
  /\ UNCHANGED claimed

\* The claim is refused, and no money moves.
Refuse(c) ==
  /\ claim[c] = "PENDING"
  /\ claim' = [claim EXCEPT ![c] = "REJECTED"]
  /\ UNCHANGED <<charged, paid, waived, claimed>>

AccountNext ==
  \/ Charge
  \/ \E e \in Enrollments : Cash(e) \/ Reverse(e) \/ Waive(e)
  \/ \E c \in Claims : MakeClaim(c) \/ Refuse(c) \/ \E e \in Enrollments : Accept(c, e)

AccountSpec == AccountInit /\ [][AccountNext]_accountVars

=============================================================================
