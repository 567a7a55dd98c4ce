------------------------- MODULE FinanceProperties --------------------------
(***************************************************************************)
(* What student finance guarantees: under every interleaving, then when    *)
(* no handler was overlapped, then what the comments of the repository     *)
(* say and the code does not keep.                                         *)
(***************************************************************************)
EXTENDS Finance

(* Type correctness, with the foreign keys: a payment is for a bill and a   *)
(* claim that exist.                                                        *)
TypeOK ==
  /\ bills \in [DOMAIN bills -> BillStatus]
  /\ DOMAIN bills \subseteq Bills
  /\ payments \in [DOMAIN payments -> PaymentRow]
  /\ DOMAIN payments \subseteq PaymentIds
  /\ claims \in [DOMAIN claims -> ClaimRow]
  /\ DOMAIN claims \subseteq ClaimIds
  /\ credit \in [Enrollments -> 0 .. MaxCredit]
  /\ pending \in [DOMAIN pending -> Request]
  /\ DOMAIN pending \subseteq Workers
  /\ overlapped \in BOOLEAN
  /\ \A p \in DOMAIN payments : /\ payments[p].bill \in DOMAIN bills
                                /\ payments[p].claim \in DOMAIN claims \cup {NoClaim}

-----------------------------------------------------------------------------
(* Under every interleaving *)

PaymentsFor(c) == {p \in DOMAIN payments : payments[p].claim = c}

(* A claim is paid once: whatever verifications and rejections overlap, at  *)
(* most one payment comes of it, of the claimed amount, posted against the  *)
(* bill the claim then names, and a VERIFIED claim has been paid.           *)
ClaimIsPaidOnce ==
  \A c \in DOMAIN claims :
    /\ \A p, q \in PaymentsFor(c) : p = q
    /\ \A p \in PaymentsFor(c) : /\ payments[p].amount = claims[c].amount
                                 /\ payments[p].bill = claims[c].bill
    /\ claims[c].status = "VERIFIED" => PaymentsFor(c) # {}
    /\ claims[c].status = "PENDING" => PaymentsFor(c) = {}

-----------------------------------------------------------------------------
(* As long as no handler was overlapped *)

(* Nobody can pay more than a bill asks for, whichever mix of cash,         *)
(* claims and reversals it has seen.                                        *)
NoOverpayment ==
  ~ overlapped => \A b \in DOMAIN bills : Total(Posted(b)) <= Amount(b)

\* The status that the payments still standing give a bill.
DerivedStatus(b) == StatusAfterReversal(b, Total(Posted(b)))

\* The stored status is the derived one.
Settled(b) == bills[b] = DerivedStatus(b)

(* The stored status of a charge is always what its POSTED payments say,    *)
(* through part payments, claims, reversals and billing again; that of an   *)
(* invoice as long as no payment is reversed.                               *)
StatusesAreDerived ==
  ~ overlapped =>
    /\ \A b \in DOMAIN bills \cap Charges : Settled(b)
    /\ (\A p \in DOMAIN payments : payments[p].status = "POSTED") =>
         \A b \in DOMAIN bills \cap Invoices : Settled(b)

(* The abstract account: every step of the tables is one step of it.        *)
Account ==
  INSTANCE FeeAccount WITH
    Claims  <- ClaimIds,
    charged <- [e \in Enrollments |-> Charged(e)],
    paid    <- [e \in Enrollments |-> Paid(e)],
    waived  <- credit,
    claim   <- [c \in ClaimIds |-> IF c \in DOMAIN claims THEN claims[c].status ELSE "NONE"],
    claimed <- [c \in ClaimIds |-> IF c \in DOMAIN claims THEN claims[c].amount ELSE 0]

(* Handlers that were not overlapped implement the account: claims are      *)
(* decided once, only an accepted claim or cash lowers what is owed, and    *)
(* nobody pays more than was charged.                                       *)
ImplementsAccount ==
  /\ Account!AccountInit
  /\ [][~ overlapped' => (Account!AccountNext \/ UNCHANGED Account!accountVars)]_vars

-----------------------------------------------------------------------------
(* Said by the repository, not kept by the code *)

(* payment-submissions.service.ts:20 - "a rejected claim can never reduce   *)
(* a balance by construction".                                              *)
RejectedClaimPaysNothing ==
  \A c \in DOMAIN claims : claims[c].status = "REJECTED" => PaymentsFor(c) = {}

(* schema.prisma:1215 - reversing exists "so a mistaken payment can be      *)
(* corrected": an invoice that says PAID has been paid in full.             *)
PaidIsPaid ==
  \A b \in DOMAIN bills \cap Invoices : bills[b] = "PAID" => Total(Posted(b)) >= Amount(b)

=============================================================================
