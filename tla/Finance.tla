------------------------------ MODULE Finance -------------------------------
(***************************************************************************)
(* Student finance: invoices and charges, the payments posted against      *)
(* them, the reversal of a payment, mobile-money claims (payment           *)
(* submissions) and fee adjustments.                                       *)
(*                                                                         *)
(* Source: invoices, charges, payments, payment-submissions,               *)
(* fee-adjustments and student-ledger services of apps/api/src/finance.    *)
(*                                                                         *)
(* As in Enrollment a handler reads first and writes later: XRead keeps    *)
(* what it needs in pending, XCommit is its transaction.  Handlers that    *)
(* insert one row and depend on nothing they read are one action.  Verify  *)
(* has three steps: it looks at the claim, then reads the payments inside  *)
(* its transaction (READ COMMITTED, no lock), then writes.                 *)
(*                                                                         *)
(* An operator whose comment starts with "Mutant" is not used: it is a     *)
(* plausible bug of the definition that follows it.                        *)
(***************************************************************************)
EXTENDS Integers, FiniteSets, Functions, Tables

CONSTANTS
  Workers,       \* handlers that can be in progress at once
  Operations,    \* the operations clients call
  Enrollments,
  Fees,          \* fee structures
  Scope,         \* the enrollments of a fee's year and class
  FeeAmount,     \* its amount, in the smallest unit
  PeriodsOf,     \* the billing periods of its year
  NoPeriod,
  References,    \* provider transaction references
  NoReference,
  MaxPayments,   \* bound: payments ever posted
  MaxClaims,     \* bound: submissions ever made
  MaxAmount,     \* bound: amount of one payment, claim or adjustment
  MaxCredit      \* bound: adjustments of one enrollment, in total

ASSUME FeesAssumption ==
  /\ FeeAmount \in [Fees -> Nat \ {0}]
  /\ Scope \in [Fees -> SUBSET Enrollments]
  /\ \A f \in Fees : NoPeriod \notin PeriodsOf[f]
ASSUME NoReferenceAssumption == NoReference \notin References
ASSUME FinanceBoundsAssumption ==
  MaxPayments \in Nat /\ MaxClaims \in Nat /\ MaxAmount \in Nat /\ MaxCredit \in Nat

VARIABLES
  bills,     \* status of the invoices and charges that exist, by unique key
  payments,  \* table payments, in the order they were posted
  claims,    \* table payment_submissions
  credit,    \* APPROVED fee_adjustments of an enrollment, summed
  pending,   \* the handlers between their reads and their writes, by worker
  overlapped \* history: has anything ever run while another handler was in between?

tables == <<bills, payments, claims, credit>>
vars == <<tables, pending, overlapped>>

\* Invoice @@unique([enrollmentId, feeStructureId]); a charge has a period too.
\* A bill is its unique key: the amount is the fee's and never changes.
Invoices == [kind : {"INVOICE"}, fee : Fees, enrollment : Enrollments, period : {NoPeriod}]
Charges  == [kind : {"CHARGE"}, fee : Fees, enrollment : Enrollments,
             period : UNION {PeriodsOf[f] : f \in Fees}]
Bills == Invoices \cup Charges

NoBill == [kind |-> "NONE"]
NoClaim == 0

Amount(b) == FeeAmount[b.fee]

BillStatus  == {"UNPAID", "OUTSTANDING", "PARTIALLY_PAID", "PAID"}
ClaimStatus == {"PENDING", "VERIFIED", "REJECTED"}

Amounts == 1 .. MaxAmount
PaymentIds == 1 .. MaxPayments
ClaimIds == 1 .. MaxClaims

PaymentRow == [bill : Bills, amount : Amounts, status : {"POSTED", "REVERSED"},
               claim : ClaimIds \cup {NoClaim}]
ClaimRow == [bill : Bills \cup {NoBill}, amount : Amounts,
             reference : References \cup {NoReference}, status : ClaimStatus]

Request ==
  [op : {"record"}, bill : Bills, amount : Amounts, status : BillStatus]
    \cup [op : {"reverse"}, payment : PaymentIds, status : BillStatus]
    \cup [op : {"verify"}, claim : ClaimIds, bill : Bills]
    \cup [op : {"post"}, claim : ClaimIds, bill : Bills, status : BillStatus]
    \cup [op : {"reject"}, claim : ClaimIds]

-----------------------------------------------------------------------------
(* Queries *)

PaymentsOf(b) == {p \in DOMAIN payments : payments[p].bill = b}
Posted(b)     == {p \in PaymentsOf(b) : payments[p].status = "POSTED"}

Total(P) == SumFunctionOnSet([p \in DOMAIN payments |-> payments[p].amount], P)

\* The payments recordPayment counts: all of an invoice's, a charge's POSTED ones.
Counted(b) == IF b.kind = "INVOICE" THEN PaymentsOf(b) ELSE Posted(b)

\* The status a payment leaves behind, when `paid` is then the total.
StatusAfterPayment(b, paid) == IF paid >= Amount(b) THEN "PAID" ELSE "PARTIALLY_PAID"

Unpaid(b) == IF b.kind = "INVOICE" THEN "UNPAID" ELSE "OUTSTANDING"

StatusAfterReversal(b, paid) == IF paid <= 0 THEN Unpaid(b) ELSE StatusAfterPayment(b, paid)

-----------------------------------------------------------------------------
(* Handlers *)

Overlap == overlapped' = (overlapped \/ DOMAIN pending # {})

Begin(w, request) ==
  /\ request.op \in Operations
  /\ w \notin DOMAIN pending
  /\ pending' = Upsert(pending, OneRow(w, request))
  /\ Overlap
  /\ UNCHANGED tables

Writing(w, op) == w \in DOMAIN pending /\ pending[w].op = op

End(w) == pending' = Without(pending, {w}) /\ UNCHANGED overlapped

\* A statement failed, the transaction timed out or the process died: no effect.
Rollback(w) ==
  /\ w \in DOMAIN pending
  /\ End(w)
  /\ UNCHANGED tables

NextPayment == Cardinality(DOMAIN payments) + 1
NextClaim   == Cardinality(DOMAIN claims) + 1

Post(b, amount, claim) ==
  /\ NextPayment \in PaymentIds
  /\ payments' = Upsert(payments, OneRow(NextPayment,
       [bill |-> b, amount |-> amount, status |-> "POSTED", claim |-> claim]))

\* InvoicesService and ChargesService.generateForFeeStructure: one createMany with
\* skipDuplicates, for the enrollments of the fee's scope that were ACTIVE.
Generate(B) ==
  /\ "generate" \in Operations
  /\ bills' = Upsert(bills, [b \in B \ DOMAIN bills |-> Unpaid(b)])
  /\ Overlap
  /\ UNCHANGED <<payments, claims, credit, pending>>

GenerateInvoices(fee, E) ==
  Generate({b \in Invoices : b.fee = fee /\ b.enrollment \in E})

GenerateCharges(fee, period, E) ==
  Generate({b \in Charges : b.fee = fee /\ b.period = period /\ b.enrollment \in E})

(* InvoicesService and ChargesService.recordPayment *)

RecordRead(w, b, amount) ==
  /\ amount <= Amount(b) - Total(Counted(b))
  /\ Begin(w, [op |-> "record", bill |-> b, amount |-> amount,
               status |-> StatusAfterPayment(b, Total(Counted(b)) + amount)])

RecordCommit(w) ==
  /\ Writing(w, "record")
  /\ LET r == pending[w] IN
       /\ Post(r.bill, r.amount, NoClaim)
       /\ bills' = [bills EXCEPT ![r.bill] = r.status]
  /\ End(w)
  /\ UNCHANGED <<claims, credit>>

(* PaymentsService.reverse *)

\* Mutant: the payment being reversed still counts.
ReverseReadItself(w, p) ==
  LET b == payments[p].bill IN
  /\ payments[p].status = "POSTED"
  /\ Begin(w, [op |-> "reverse", payment |-> p,
               status |-> StatusAfterReversal(b, Total(Posted(b)))])

ReverseRead(w, p) ==
  LET b == payments[p].bill IN
  /\ payments[p].status = "POSTED"
  /\ Begin(w, [op |-> "reverse", payment |-> p,
               status |-> StatusAfterReversal(b, Total(Posted(b) \ {p}))])

ReverseCommit(w) ==
  /\ Writing(w, "reverse")
  /\ LET r == pending[w] IN
       /\ payments' = [payments EXCEPT ![r.payment].status = "REVERSED"]
       /\ bills' = [bills EXCEPT ![payments[r.payment].bill] = r.status]
  /\ End(w)
  /\ UNCHANGED <<claims, credit>>

(* PaymentSubmissionsService.createSubmission, for a guardian and for       *)
(* finance.  A null reference is never a duplicate.                         *)

Submit(b, amount, reference) ==
  /\ "submit" \in Operations
  /\ NextClaim \in ClaimIds
  /\ reference # NoReference => \A c \in DOMAIN claims : claims[c].reference # reference
  /\ claims' = Upsert(claims, OneRow(NextClaim,
       [bill |-> b, amount |-> amount, reference |-> reference, status |-> "PENDING"]))
  /\ Overlap
  /\ UNCHANGED <<bills, payments, credit, pending>>

(* PaymentSubmissionsService.verify: finance names the bill, or the claim   *)
(* does; naming both an invoice and a charge is refused.                    *)

VerifyRead(w, c, b) ==
  /\ claims[c].status = "PENDING"
  /\ claims[c].bill.kind \in {"NONE", b.kind}
  /\ Begin(w, [op |-> "verify", claim |-> c, bill |-> b])

\* Mutant: the balance is not looked at.
VerifyCheckNothing(w) ==
  /\ Writing(w, "verify")
  /\ LET r == pending[w] IN
     pending' = [pending EXCEPT ![w] =
       [op |-> "post", claim |-> r.claim, bill |-> r.bill,
        status |-> StatusAfterPayment(r.bill, Total(Posted(r.bill)) + claims[r.claim].amount)]]
  /\ UNCHANGED <<tables, overlapped>>

VerifyCheck(w) ==
  /\ Writing(w, "verify")
  /\ LET r == pending[w]
         amount == claims[r.claim].amount
         paid   == Total(Posted(r.bill))
     IN  /\ amount <= Amount(r.bill) - paid
         /\ pending' = [pending EXCEPT ![w] =
              [op |-> "post", claim |-> r.claim, bill |-> r.bill,
               status |-> StatusAfterPayment(r.bill, paid + amount)]]
  /\ UNCHANGED <<tables, overlapped>>

\* Mutant: nothing stops a second payment of the claim.
PaidAnyTime(c) == TRUE

\* Payment.paymentSubmissionId is unique.
NotYetPaid(c) == \A p \in DOMAIN payments : payments[p].claim # c

VerifyCommit(w) ==
  /\ Writing(w, "post")
  /\ LET r == pending[w] IN
       /\ NotYetPaid(r.claim)
       /\ Post(r.bill, claims[r.claim].amount, r.claim)
       /\ bills'  = [bills EXCEPT ![r.bill] = r.status]
       /\ claims' = [claims EXCEPT ![r.claim].status = "VERIFIED", ![r.claim].bill = r.bill]
  /\ End(w)
  /\ UNCHANGED credit

(* PaymentSubmissionsService.reject: check, then update by id *)

\* Mutant: any claim can be rejected.
RejectReadAny(w, c) == Begin(w, [op |-> "reject", claim |-> c])

RejectRead(w, c) ==
  /\ claims[c].status = "PENDING"
  /\ Begin(w, [op |-> "reject", claim |-> c])

RejectCommit(w) ==
  /\ Writing(w, "reject")
  /\ claims' = [claims EXCEPT ![pending[w].claim].status = "REJECTED"]
  /\ End(w)
  /\ UNCHANGED <<bills, payments, credit>>

\* FeeAdjustmentsService.create: APPROVED at once; no bill is touched.
Adjust(e, amount) ==
  /\ "adjust" \in Operations
  /\ credit[e] + amount <= MaxCredit
  /\ credit' = [credit EXCEPT ![e] = @ + amount]
  /\ Overlap
  /\ UNCHANGED <<bills, payments, claims, pending>>

-----------------------------------------------------------------------------
(* Views *)

BillsOf(e) == {b \in DOMAIN bills : b.enrollment = e}

\* StudentLedgerService.getLedger
Charged(e) == SumFunctionOnSet([b \in DOMAIN bills |-> Amount(b)], BillsOf(e))
Paid(e)    == Total(UNION {Posted(b) : b \in BillsOf(e)})

-----------------------------------------------------------------------------
(* The specification *)

Init ==
  /\ bills    = [b \in {} |-> {}]
  /\ payments = [p \in {} |-> {}]
  /\ claims   = [c \in {} |-> {}]
  /\ credit   = [e \in Enrollments |-> 0]
  /\ pending  = [w \in {} |-> {}]
  /\ overlapped = FALSE

Read(w) ==
  \/ \E b \in DOMAIN bills, amount \in Amounts : RecordRead(w, b, amount)
  \/ \E p \in DOMAIN payments : ReverseRead(w, p)
  \/ \E c \in DOMAIN claims, b \in DOMAIN bills : VerifyRead(w, c, b)
  \/ \E c \in DOMAIN claims : RejectRead(w, c)

Commit(w) ==
  \/ RecordCommit(w)
  \/ ReverseCommit(w)
  \/ VerifyCheck(w)
  \/ VerifyCommit(w)
  \/ RejectCommit(w)

Insert ==
  \/ \E fee \in Fees : \E E \in SUBSET Scope[fee] :
       \/ GenerateInvoices(fee, E)
       \/ \E period \in PeriodsOf[fee] : GenerateCharges(fee, period, E)
  \/ \E b \in DOMAIN bills \cup {NoBill}, amount \in Amounts,
        reference \in References \cup {NoReference} : Submit(b, amount, reference)
  \/ \E e \in Enrollments, amount \in Amounts : Adjust(e, amount)

Next ==
  \/ \E w \in Workers : Read(w) \/ Commit(w) \/ Rollback(w)
  \/ Insert

Spec == Init /\ [][Next]_vars

=============================================================================
