--------------------------- MODULE Finance_proofs ---------------------------
(***************************************************************************)
(* Student finance, for any number of handlers, fees, bills and claims.    *)
(* Whatever overlaps, a claim is paid once (IInv).  As long as no handler  *)
(* was overlapped, what a handler read still holds when it writes (SInv):  *)
(* nobody pays more than a bill asks for, a stored status is what the      *)
(* payments say, and every step is one step of the abstract account.       *)
(***************************************************************************)
EXTENDS FinanceProperties, Sums

\* Rows are numbered in the order they are stored.
Numbered(table) == \E n \in Nat : DOMAIN table = 1 .. n

\* What a handler carries to its writes exists, and is never deleted.
RequestOK(r) ==
  /\ r \in Request
  /\ r.op \in {"record", "verify", "post"} => r.bill \in DOMAIN bills
  /\ r.op = "reverse" => r.payment \in DOMAIN payments
  /\ r.op \in {"verify", "post", "reject"} => r.claim \in DOMAIN claims

IInv ==
  /\ TypeOK
  /\ Numbered(payments) /\ Numbered(claims)
  /\ \A w \in DOMAIN pending : RequestOK(pending[w])
  /\ ClaimIsPaidOnce

-----------------------------------------------------------------------------
(* Tables and requests *)

LEMMA NextIsNew ==
  ASSUME NEW table, Numbered(table), NEW rows, DOMAIN rows = {Cardinality(DOMAIN table) + 1}
  PROVE  Cardinality(DOMAIN table) + 1 \notin DOMAIN table /\ Numbered(Upsert(table, rows))
<1>1. PICK n \in Nat : DOMAIN table = 1 .. n
  BY DEF Numbered
<1>2. Cardinality(DOMAIN table) = n
  BY <1>1, FS_Interval
<1>3. DOMAIN Upsert(table, rows) = 1 .. (n + 1)
  BY <1>1, <1>2 DEF Upsert
<1> QED BY <1>1, <1>2, <1>3 DEF Numbered

LEMMA StatusTypes ==
  ASSUME NEW b, NEW paid
  PROVE  /\ StatusAfterPayment(b, paid) \in BillStatus
         /\ StatusAfterReversal(b, paid) \in BillStatus
         /\ Unpaid(b) \in BillStatus
BY DEF StatusAfterPayment, StatusAfterReversal, Unpaid, BillStatus

LEMMA BeginKeeps ==
  ASSUME IInv, NEW w \in Workers, NEW r, RequestOK(r), Begin(w, r)
  PROVE  IInv'
<1>1. /\ UNCHANGED <<bills, payments, claims, credit>>
      /\ DOMAIN pending' = DOMAIN pending \cup {w} /\ pending'[w] = r
      /\ \A v \in DOMAIN pending : pending'[v] = pending[v]
      /\ pending' \in [DOMAIN pending' -> Request]
      /\ overlapped' \in BOOLEAN
  BY DEF Begin, Upsert, OneRow, Overlap, tables, IInv, TypeOK, RequestOK
<1>2. TypeOK'
  BY <1>1 DEF IInv, TypeOK
<1>3. (\A v \in DOMAIN pending : RequestOK(pending[v]))'
  BY <1>1 DEF IInv, RequestOK
<1>4. ClaimIsPaidOnce' /\ Numbered(payments)' /\ Numbered(claims)'
  BY <1>1 DEF IInv, Numbered, ClaimIsPaidOnce, PaymentsFor
<1> QED BY <1>2, <1>3, <1>4 DEF IInv

-----------------------------------------------------------------------------
(* One lemma per step *)

LEMMA InitHolds == Init => IInv
<1> SUFFICES ASSUME Init PROVE IInv
  OBVIOUS
<1>1. /\ DOMAIN bills = {} /\ DOMAIN payments = {} /\ DOMAIN claims = {} /\ DOMAIN pending = {}
      /\ bills \in [{} -> BillStatus] /\ payments \in [{} -> PaymentRow] /\ claims \in [{} -> ClaimRow]
      /\ pending \in [{} -> Request] /\ credit \in [Enrollments -> 0 .. MaxCredit]
  BY FinanceBoundsAssumption DEF Init
<1>2. TypeOK
  BY <1>1 DEF TypeOK, Init
<1>3. Numbered(payments) /\ Numbered(claims)
  <2>1. 1 .. 0 = {}
    OBVIOUS
  <2> QED BY <1>1, <2>1 DEF Numbered
<1> QED BY <1>1, <1>2, <1>3 DEF IInv, ClaimIsPaidOnce

LEMMA GenerateKeeps ==
  ASSUME IInv, NEW B \in SUBSET Bills, Generate(B)
  PROVE  IInv'
<1>1. bills' = Upsert(bills, [b \in B \ DOMAIN bills |-> Unpaid(b)]) /\ UNCHANGED <<payments, claims, credit, pending>>
  BY DEF Generate
<1>2. DOMAIN bills' = DOMAIN bills \cup B
  BY <1>1 DEF Upsert
<1>3. bills' \in [DOMAIN bills' -> BillStatus]
  BY <1>1, StatusTypes DEF Upsert, IInv, TypeOK
<1>4. overlapped' \in BOOLEAN
  BY DEF Generate, Overlap, IInv, TypeOK
<1>5. TypeOK'
  BY <1>1, <1>2, <1>3, <1>4 DEF IInv, TypeOK
<1>6. (\A w \in DOMAIN pending : RequestOK(pending[w]))'
  BY <1>1, <1>2 DEF IInv, RequestOK
<1>7. ClaimIsPaidOnce' /\ Numbered(payments)' /\ Numbered(claims)'
  BY <1>1 DEF IInv, Numbered, ClaimIsPaidOnce, PaymentsFor
<1> QED BY <1>5, <1>6, <1>7 DEF IInv

LEMMA SubmitKeeps ==
  ASSUME IInv, NEW b \in DOMAIN bills \cup {NoBill}, NEW amount \in Amounts,
         NEW reference \in References \cup {NoReference}, Submit(b, amount, reference)
  PROVE  IInv'
<1> DEFINE row == [bill |-> b, amount |-> amount, reference |-> reference, status |-> "PENDING"]
<1>1. claims' = Upsert(claims, OneRow(NextClaim, row)) /\ UNCHANGED <<bills, payments, credit, pending>>
  BY DEF Submit
<1>2. row \in ClaimRow /\ row.status = "PENDING"
  BY DEF ClaimRow, ClaimStatus, IInv, TypeOK
<1> HIDE DEF row
<1>3. NextClaim \notin DOMAIN claims /\ Numbered(claims') /\ NextClaim \in ClaimIds
  BY <1>1, NextIsNew DEF IInv, NextClaim, OneRow, Submit
<1>4. /\ DOMAIN claims' = DOMAIN claims \cup {NextClaim} /\ claims'[NextClaim] = row
      /\ \A c \in DOMAIN claims : claims'[c] = claims[c]
  BY <1>1, <1>3 DEF Upsert, OneRow
<1>5. overlapped' \in BOOLEAN
  BY DEF Submit, Overlap, IInv, TypeOK
<1>6. claims' \in [DOMAIN claims' -> ClaimRow]
  BY <1>1, <1>2 DEF Upsert, OneRow, IInv, TypeOK
<1>7. TypeOK'
  BY <1>1, <1>3, <1>4, <1>5, <1>6 DEF IInv, TypeOK
<1>8. (\A w \in DOMAIN pending : RequestOK(pending[w]))'
  BY <1>1, <1>4 DEF IInv, RequestOK
<1>9. NextClaim # NoClaim
  BY <1>3, FinanceBoundsAssumption DEF ClaimIds, NoClaim
<1>10. PaymentsFor(NextClaim) = {}
  BY <1>3, <1>9 DEF IInv, TypeOK, PaymentsFor
<1>11. \A c : PaymentsFor(c)' = PaymentsFor(c)
  BY <1>1 DEF PaymentsFor
<1>12. ClaimIsPaidOnce'
  BY <1>1, <1>2, <1>4, <1>10, <1>11 DEF IInv, ClaimIsPaidOnce
<1>13. Numbered(payments)' /\ Numbered(claims)'
  BY <1>1, <1>3 DEF IInv, Numbered
<1> QED BY <1>7, <1>8, <1>12, <1>13 DEF IInv

LEMMA AdjustKeeps ==
  ASSUME IInv, NEW e \in Enrollments, NEW amount \in Amounts, Adjust(e, amount)
  PROVE  IInv'
<1>1. credit' = [credit EXCEPT ![e] = credit[e] + amount] /\ UNCHANGED <<bills, payments, claims, pending>>
  BY DEF Adjust
<1>2. credit[e] + amount \in 0 .. MaxCredit
  BY FinanceBoundsAssumption DEF Adjust, IInv, TypeOK, Amounts
<1>3. overlapped' \in BOOLEAN
  BY DEF Adjust, Overlap, IInv, TypeOK
<1>4. TypeOK'
  BY <1>1, <1>2, <1>3 DEF IInv, TypeOK
<1>5. (\A w \in DOMAIN pending : RequestOK(pending[w]))'
  BY <1>1 DEF IInv, RequestOK
<1>6. ClaimIsPaidOnce' /\ Numbered(payments)' /\ Numbered(claims)'
  BY <1>1 DEF IInv, Numbered, ClaimIsPaidOnce, PaymentsFor
<1> QED BY <1>4, <1>5, <1>6 DEF IInv

LEMMA ReadKeeps ==
  ASSUME IInv, NEW w \in Workers, Read(w)
  PROVE  IInv'
<1>1. ASSUME NEW b \in DOMAIN bills, NEW amount \in Amounts, RecordRead(w, b, amount)
      PROVE  IInv'
  <2> DEFINE r == [op |-> "record", bill |-> b, amount |-> amount,
                   status |-> StatusAfterPayment(b, Total(Counted(b)) + amount)]
  <2>1. Begin(w, r)
    BY <1>1 DEF RecordRead
  <2>2. r \in Request
    BY StatusTypes DEF Request, IInv, TypeOK
  <2>3. RequestOK(r)
    BY <2>2 DEF RequestOK
  <2> QED BY <2>1, <2>3, BeginKeeps
<1>2. ASSUME NEW p \in DOMAIN payments, ReverseRead(w, p) PROVE IInv'
  <2> DEFINE b == payments[p].bill
             r == [op |-> "reverse", payment |-> p,
                   status |-> StatusAfterReversal(b, Total(Posted(b) \ {p}))]
  <2>1. Begin(w, r)
    BY <1>2 DEF ReverseRead
  <2>2. r \in Request
    BY StatusTypes DEF Request, IInv, TypeOK
  <2>3. RequestOK(r)
    BY <2>2 DEF RequestOK
  <2> QED BY <2>1, <2>3, BeginKeeps
<1>3. ASSUME NEW c \in DOMAIN claims, NEW b \in DOMAIN bills, VerifyRead(w, c, b) PROVE IInv'
  <2> DEFINE r == [op |-> "verify", claim |-> c, bill |-> b]
  <2>1. Begin(w, r)
    BY <1>3 DEF VerifyRead
  <2>2. r \in Request
    BY DEF Request, IInv, TypeOK
  <2>3. RequestOK(r)
    BY <2>2 DEF RequestOK
  <2> QED BY <2>1, <2>3, BeginKeeps
<1>4. ASSUME NEW c \in DOMAIN claims, RejectRead(w, c) PROVE IInv'
  <2> DEFINE r == [op |-> "reject", claim |-> c]
  <2>1. Begin(w, r)
    BY <1>4 DEF RejectRead
  <2>2. r \in Request
    BY DEF Request, IInv, TypeOK
  <2>3. RequestOK(r)
    BY <2>2 DEF RequestOK
  <2> QED BY <2>1, <2>3, BeginKeeps
<1> QED BY <1>1, <1>2, <1>3, <1>4 DEF Read

\* A handler that ends leaves the others what they carry.
LEMMA EndRemoves ==
  ASSUME IInv, NEW w, End(w)
  PROVE  /\ DOMAIN pending' = DOMAIN pending \ {w} /\ UNCHANGED overlapped
         /\ \A v \in DOMAIN pending' : v \in DOMAIN pending /\ pending'[v] = pending[v] /\ RequestOK(pending[v])
         /\ pending' \in [DOMAIN pending' -> Request] /\ DOMAIN pending' \subseteq Workers
BY DEF End, Without, IInv, TypeOK

LEMMA RollbackKeeps ==
  ASSUME IInv, NEW w, Rollback(w)
  PROVE  IInv'
<1>1. UNCHANGED <<bills, payments, claims, credit>> /\ End(w)
  BY DEF Rollback, tables
<1>2. TypeOK'
  BY <1>1, EndRemoves DEF IInv, TypeOK
<1>3. (\A v \in DOMAIN pending : RequestOK(pending[v]))'
  BY <1>1, EndRemoves DEF RequestOK
<1>4. ClaimIsPaidOnce' /\ Numbered(payments)' /\ Numbered(claims)'
  BY <1>1 DEF IInv, Numbered, ClaimIsPaidOnce, PaymentsFor
<1> QED BY <1>2, <1>3, <1>4 DEF IInv

LEMMA PostAdds ==
  ASSUME IInv, NEW b \in DOMAIN bills, NEW amount \in Amounts, NEW claim \in DOMAIN claims \cup {NoClaim},
         Post(b, amount, claim)
  PROVE  /\ NextPayment \notin DOMAIN payments /\ Numbered(payments')
         /\ DOMAIN payments' = DOMAIN payments \cup {NextPayment} /\ DOMAIN payments' \subseteq PaymentIds
         /\ payments' \in [DOMAIN payments' -> PaymentRow]
         /\ payments'[NextPayment].bill = b /\ payments'[NextPayment].amount = amount
         /\ payments'[NextPayment].claim = claim /\ payments'[NextPayment].status = "POSTED"
         /\ \A p \in DOMAIN payments : payments'[p] = payments[p]
<1> DEFINE row == [bill |-> b, amount |-> amount, status |-> "POSTED", claim |-> claim]
<1>1. payments' = Upsert(payments, OneRow(NextPayment, row)) /\ NextPayment \in PaymentIds
  BY DEF Post
<1>2. row \in PaymentRow /\ row.bill = b /\ row.amount = amount /\ row.claim = claim
      /\ row.status = "POSTED"
  BY DEF PaymentRow, IInv, TypeOK
<1> HIDE DEF row
<1>3. NextPayment \notin DOMAIN payments /\ Numbered(payments')
  BY <1>1, NextIsNew DEF IInv, NextPayment, OneRow
<1>4. /\ DOMAIN payments' = DOMAIN payments \cup {NextPayment} /\ payments'[NextPayment] = row
      /\ \A p \in DOMAIN payments : payments'[p] = payments[p]
  BY <1>1, <1>3 DEF Upsert, OneRow
<1>5. payments' \in [DOMAIN payments' -> PaymentRow]
  BY <1>1, <1>2 DEF Upsert, OneRow, IInv, TypeOK
<1> QED BY <1>1, <1>2, <1>3, <1>4, <1>5 DEF IInv, TypeOK

LEMMA RecordCommitKeeps ==
  ASSUME IInv, NEW w \in Workers, RecordCommit(w)
  PROVE  IInv'
<1> DEFINE r == pending[w]
<1>1. r \in Request /\ RequestOK(r) /\ r.op = "record" /\ w \in DOMAIN pending
  BY DEF RecordCommit, Writing, IInv, RequestOK
<1>2. r.bill \in DOMAIN bills /\ r.amount \in Amounts /\ r.status \in BillStatus
  BY <1>1 DEF RequestOK, Request
<1>3. /\ Post(r.bill, r.amount, NoClaim) /\ bills' = [bills EXCEPT ![r.bill] = r.status]
      /\ End(w) /\ UNCHANGED <<claims, credit>>
  BY DEF RecordCommit
<1> HIDE DEF r
<1>4. /\ NextPayment \notin DOMAIN payments /\ Numbered(payments')
      /\ DOMAIN payments' = DOMAIN payments \cup {NextPayment} /\ DOMAIN payments' \subseteq PaymentIds
      /\ payments' \in [DOMAIN payments' -> PaymentRow]
      /\ payments'[NextPayment].bill = r.bill /\ payments'[NextPayment].claim = NoClaim
      /\ \A p \in DOMAIN payments : payments'[p] = payments[p]
  BY <1>2, <1>3, PostAdds
<1>5. bills' \in [DOMAIN bills' -> BillStatus] /\ DOMAIN bills' = DOMAIN bills
  BY <1>2, <1>3 DEF IInv, TypeOK
<1>6. TypeOK'
  BY <1>2, <1>3, <1>4, <1>5, EndRemoves DEF IInv, TypeOK
<1>7. (\A v \in DOMAIN pending : RequestOK(pending[v]))'
  BY <1>3, <1>4, <1>5, EndRemoves DEF RequestOK
<1>8. \A c \in DOMAIN claims : c # NoClaim
  BY FinanceBoundsAssumption DEF IInv, TypeOK, ClaimIds, NoClaim
<1>9. \A c \in DOMAIN claims : PaymentsFor(c)' = PaymentsFor(c)
  BY <1>4, <1>8 DEF PaymentsFor
<1>10. ClaimIsPaidOnce'
  BY <1>3, <1>4, <1>9 DEF IInv, ClaimIsPaidOnce, PaymentsFor
<1> QED BY <1>3, <1>4, <1>6, <1>7, <1>10 DEF IInv, Numbered

LEMMA ReverseCommitKeeps ==
  ASSUME IInv, NEW w \in Workers, ReverseCommit(w)
  PROVE  IInv'
<1> DEFINE r == pending[w]
<1>1. r \in Request /\ RequestOK(r) /\ r.op = "reverse" /\ w \in DOMAIN pending
  BY DEF ReverseCommit, Writing, IInv, RequestOK
<1>2. r.payment \in DOMAIN payments /\ r.status \in BillStatus
  BY <1>1 DEF RequestOK, Request
<1>3. /\ payments' = [payments EXCEPT ![r.payment] = [payments[r.payment] EXCEPT !.status = "REVERSED"]]
      /\ bills' = [bills EXCEPT ![payments[r.payment].bill] = r.status]
      /\ End(w) /\ UNCHANGED <<claims, credit>>
  BY DEF ReverseCommit
<1> HIDE DEF r
<1>4. payments[r.payment] \in PaymentRow /\ payments[r.payment].bill \in DOMAIN bills
  BY <1>2 DEF IInv, TypeOK
<1>5. /\ DOMAIN payments' = DOMAIN payments /\ payments' \in [DOMAIN payments' -> PaymentRow]
      /\ \A p \in DOMAIN payments : /\ payments'[p].bill = payments[p].bill
                                    /\ payments'[p].claim = payments[p].claim
                                    /\ payments'[p].amount = payments[p].amount
  BY <1>2, <1>3, <1>4 DEF IInv, TypeOK, PaymentRow
<1>6. bills' \in [DOMAIN bills' -> BillStatus] /\ DOMAIN bills' = DOMAIN bills
  BY <1>2, <1>3, <1>4 DEF IInv, TypeOK
<1>7. TypeOK'
  BY <1>3, <1>5, <1>6, EndRemoves DEF IInv, TypeOK
<1>8. (\A v \in DOMAIN pending : RequestOK(pending[v]))'
  BY <1>3, <1>5, <1>6, EndRemoves DEF RequestOK
<1>9. \A c : PaymentsFor(c)' = PaymentsFor(c)
  BY <1>5 DEF PaymentsFor
<1>10. ClaimIsPaidOnce'
  BY <1>3, <1>5, <1>9 DEF IInv, ClaimIsPaidOnce, PaymentsFor
<1> QED BY <1>3, <1>5, <1>7, <1>8, <1>10 DEF IInv, Numbered

LEMMA VerifyCheckKeeps ==
  ASSUME IInv, NEW w \in Workers, VerifyCheck(w)
  PROVE  IInv'
<1> DEFINE old == pending[w]
           new == [op |-> "post", claim |-> old.claim, bill |-> old.bill,
                   status |-> StatusAfterPayment(old.bill, Total(Posted(old.bill)) + claims[old.claim].amount)]
<1>1. /\ RequestOK(old) /\ old.op = "verify" /\ w \in DOMAIN pending
      /\ pending' = [pending EXCEPT ![w] = new] /\ UNCHANGED <<bills, payments, claims, credit, overlapped>>
  BY DEF VerifyCheck, Writing, IInv, RequestOK, tables
<1>2. new \in Request
  BY <1>1, StatusTypes DEF RequestOK, Request
<1>3. RequestOK(new)
  BY <1>1, <1>2 DEF RequestOK
<1> HIDE DEF new
<1>4. /\ DOMAIN pending' = DOMAIN pending /\ pending'[w] = new
      /\ \A v \in DOMAIN pending : v # w => pending'[v] = pending[v]
      /\ pending' \in [DOMAIN pending' -> Request]
  BY <1>1, <1>2 DEF IInv, TypeOK
<1>5. TypeOK'
  BY <1>1, <1>4 DEF IInv, TypeOK
<1>6. (\A v \in DOMAIN pending : RequestOK(pending[v]))'
  BY <1>1, <1>3, <1>4 DEF IInv, RequestOK
<1>7. ClaimIsPaidOnce' /\ Numbered(payments)' /\ Numbered(claims)'
  BY <1>1 DEF IInv, Numbered, ClaimIsPaidOnce, PaymentsFor
<1> QED BY <1>5, <1>6, <1>7 DEF IInv

LEMMA VerifyCommitKeeps ==
  ASSUME IInv, NEW w \in Workers, VerifyCommit(w)
  PROVE  IInv'
<1> DEFINE r == pending[w]
<1>1. r \in Request /\ RequestOK(r) /\ r.op = "post" /\ w \in DOMAIN pending
  BY DEF VerifyCommit, Writing, IInv, RequestOK
<1>2. r.bill \in DOMAIN bills /\ r.claim \in DOMAIN claims /\ r.status \in BillStatus
  BY <1>1 DEF RequestOK, Request
<1>3. /\ NotYetPaid(r.claim) /\ Post(r.bill, claims[r.claim].amount, r.claim)
      /\ bills' = [bills EXCEPT ![r.bill] = r.status]
      /\ claims' = [claims EXCEPT ![r.claim] = [claims[r.claim] EXCEPT !.status = "VERIFIED", !.bill = r.bill]]
      /\ End(w) /\ UNCHANGED credit
  BY DEF VerifyCommit
<1> HIDE DEF r
<1>4. claims[r.claim] \in ClaimRow /\ claims[r.claim].amount \in Amounts /\ r.bill \in Bills
  BY <1>2 DEF IInv, TypeOK, ClaimRow
<1>5. /\ NextPayment \notin DOMAIN payments /\ Numbered(payments')
      /\ DOMAIN payments' = DOMAIN payments \cup {NextPayment} /\ DOMAIN payments' \subseteq PaymentIds
      /\ payments' \in [DOMAIN payments' -> PaymentRow]
      /\ payments'[NextPayment].bill = r.bill /\ payments'[NextPayment].amount = claims[r.claim].amount
      /\ payments'[NextPayment].claim = r.claim
      /\ \A p \in DOMAIN payments : payments'[p] = payments[p]
  BY <1>2, <1>3, <1>4, PostAdds
<1>6. bills' \in [DOMAIN bills' -> BillStatus] /\ DOMAIN bills' = DOMAIN bills
  BY <1>2, <1>3 DEF IInv, TypeOK
<1>7. /\ DOMAIN claims' = DOMAIN claims /\ claims' \in [DOMAIN claims' -> ClaimRow]
      /\ claims'[r.claim].status = "VERIFIED" /\ claims'[r.claim].bill = r.bill
      /\ claims'[r.claim].amount = claims[r.claim].amount
      /\ \A c \in DOMAIN claims : c # r.claim => claims'[c] = claims[c]
  BY <1>2, <1>3, <1>4 DEF IInv, TypeOK, ClaimRow, ClaimStatus
<1>8. TypeOK'
  BY <1>2, <1>3, <1>5, <1>6, <1>7, EndRemoves DEF IInv, TypeOK
<1>9. (\A v \in DOMAIN pending : RequestOK(pending[v]))'
  BY <1>3, <1>5, <1>6, <1>7, EndRemoves DEF RequestOK
<1>10. PICK d \in DOMAIN claims : d = r.claim
  BY <1>2
<1>11. PaymentsFor(d)' = {NextPayment}
  BY <1>3, <1>5, <1>10 DEF PaymentsFor, NotYetPaid
<1>12. \A c : c # d => PaymentsFor(c)' = PaymentsFor(c)
  BY <1>5, <1>10 DEF PaymentsFor
<1>13. ClaimIsPaidOnce'
  BY <1>5, <1>7, <1>10, <1>11, <1>12 DEF IInv, ClaimIsPaidOnce, PaymentsFor
<1> QED BY <1>5, <1>7, <1>8, <1>9, <1>13 DEF IInv, Numbered

LEMMA RejectCommitKeeps ==
  ASSUME IInv, NEW w \in Workers, RejectCommit(w)
  PROVE  IInv'
<1> DEFINE c == pending[w].claim
<1>1. c \in DOMAIN claims
  BY DEF RejectCommit, Writing, IInv, RequestOK
<1>2. /\ claims' = [claims EXCEPT ![c] = [claims[c] EXCEPT !.status = "REJECTED"]]
      /\ End(w) /\ UNCHANGED <<bills, payments, credit>>
  BY DEF RejectCommit
<1> HIDE DEF c
<1>3. /\ DOMAIN claims' = DOMAIN claims /\ claims' \in [DOMAIN claims' -> ClaimRow]
      /\ claims'[c].status = "REJECTED" /\ claims'[c].bill = claims[c].bill /\ claims'[c].amount = claims[c].amount
      /\ \A d \in DOMAIN claims : d # c => claims'[d] = claims[d]
  BY <1>1, <1>2 DEF IInv, TypeOK, ClaimRow, ClaimStatus
<1>4. TypeOK'
  BY <1>2, <1>3, EndRemoves DEF IInv, TypeOK
<1>5. (\A v \in DOMAIN pending : RequestOK(pending[v]))'
  BY <1>2, <1>3, EndRemoves DEF RequestOK
<1>6. \A d : PaymentsFor(d)' = PaymentsFor(d)
  BY <1>2 DEF PaymentsFor
<1>7. ClaimIsPaidOnce'
  BY <1>2, <1>3, <1>6 DEF IInv, ClaimIsPaidOnce
<1> QED BY <1>2, <1>3, <1>4, <1>5, <1>7 DEF IInv, Numbered

LEMMA StepKeeps == ASSUME IInv, [Next]_vars PROVE IInv'
<1>1. ASSUME NEW w \in Workers, Read(w) \/ Commit(w) \/ Rollback(w) PROVE IInv'
  BY <1>1, ReadKeeps, RollbackKeeps, RecordCommitKeeps, ReverseCommitKeeps, VerifyCheckKeeps,
     VerifyCommitKeeps, RejectCommitKeeps DEF Commit
<1>2. CASE Insert
  <2>1. ASSUME NEW fee \in Fees, NEW E \in SUBSET Scope[fee], GenerateInvoices(fee, E) PROVE IInv'
    <3>1. {b \in Invoices : b.fee = fee /\ b.enrollment \in E} \in SUBSET Bills
      BY DEF Bills
    <3> QED BY <2>1, <3>1, GenerateKeeps DEF GenerateInvoices
  <2>2. ASSUME NEW fee \in Fees, NEW E \in SUBSET Scope[fee], NEW period \in PeriodsOf[fee],
               GenerateCharges(fee, period, E)
        PROVE  IInv'
    <3>1. {b \in Charges : b.fee = fee /\ b.period = period /\ b.enrollment \in E} \in SUBSET Bills
      BY DEF Bills
    <3> QED BY <2>2, <3>1, GenerateKeeps DEF GenerateCharges
  <2> QED BY <1>2, <2>1, <2>2, SubmitKeeps, AdjustKeeps DEF Insert
<1>3. CASE UNCHANGED vars
  <2>1. UNCHANGED <<bills, payments, claims, credit, pending, overlapped>>
    BY <1>3 DEF vars, tables
  <2> QED BY <2>1 DEF IInv, TypeOK, Numbered, RequestOK, ClaimIsPaidOnce, PaymentsFor
<1> QED BY <1>1, <1>2, <1>3 DEF Next

-----------------------------------------------------------------------------
(* The theorems *)

(* The tables of student finance are well typed, and every payment is for   *)
(* a bill and of a claim that exist, in every reachable state.              *)
THEOREM TypeCorrect == Spec => []TypeOK
<1>1. IInv => TypeOK
  BY DEF IInv
<1> QED BY <1>1, InitHolds, StepKeeps, PTL DEF Spec

(* Whatever overlaps, at most one payment comes of a claim, of its amount   *)
(* and for the bill it names, and a VERIFIED claim has its payment.         *)
THEOREM PaidOnce == Spec => []ClaimIsPaidOnce
<1>1. IInv => ClaimIsPaidOnce
  BY DEF IInv
<1> QED BY <1>1, InitHolds, StepKeeps, PTL DEF Spec

-----------------------------------------------------------------------------
(* The money of a bill *)

Money == [p \in DOMAIN payments |-> payments[p].amount]

AllPosted == \A p \in DOMAIN payments : payments[p].status = "POSTED"

LEMMA AmountIsPositive ==
  ASSUME NEW b \in Bills
  PROVE  Amount(b) \in Nat /\ Amount(b) > 0
<1>1. b.fee \in Fees
  BY DEF Bills, Invoices, Charges
<1>2. FeeAmount[b.fee] \in Nat \ {0}
  BY <1>1, FeesAssumption
<1> QED BY <1>2 DEF Amount

LEMMA MoneyIsPositive ==
  ASSUME IInv
  PROVE  /\ IsFiniteSet(DOMAIN payments)
         /\ \A p \in DOMAIN payments : Money[p] \in Nat /\ Money[p] > 0
<1>1. PICK n \in Nat : DOMAIN payments = 1 .. n
  BY DEF IInv, Numbered
<1>2. IsFiniteSet(1 .. n)
  BY FS_Interval
<1>3. ASSUME NEW p \in DOMAIN payments PROVE Money[p] \in Nat /\ Money[p] > 0
  <2>1. payments[p] \in PaymentRow
    BY DEF IInv, TypeOK
  <2>2. payments[p].amount \in 1 .. MaxAmount
    BY <2>1 DEF PaymentRow, Amounts
  <2> QED BY <2>2, FinanceBoundsAssumption DEF Money
<1> QED BY <1>1, <1>2, <1>3

LEMMA TotalIsNat ==
  ASSUME IInv, NEW P \in SUBSET DOMAIN payments
  PROVE  IsFiniteSet(P) /\ Adds(Money, P) /\ Total(P) = SumFunctionOnSet(Money, P) /\ Total(P) \in Nat
<1>1. IsFiniteSet(P) /\ \A p \in P : Money[p] \in Nat
  BY MoneyIsPositive, FS_Subset
<1>2. SumFunctionOnSet(Money, P) \in Nat
  <2> HIDE DEF Money
  <2> QED BY <1>1, SumNat
<1>3. Adds(Money, P)
  <2> HIDE DEF Money
  <2> QED BY <1>1 DEF Adds
<1> QED BY <1>1, <1>2, <1>3 DEF Total, Money

LEMMA PostedIsPaid ==
  ASSUME IInv, NEW b
  PROVE  /\ PaymentsOf(b) \in SUBSET DOMAIN payments /\ Posted(b) \in SUBSET PaymentsOf(b)
         /\ Total(Posted(b)) \in Nat /\ Total(PaymentsOf(b)) \in Nat
         /\ Total(Posted(b)) <= Total(PaymentsOf(b))
         /\ AllPosted => Posted(b) = PaymentsOf(b)
<1>1. PaymentsOf(b) \in SUBSET DOMAIN payments /\ Posted(b) \in SUBSET PaymentsOf(b)
  BY DEF PaymentsOf, Posted
<1>2. /\ IsFiniteSet(PaymentsOf(b)) /\ Total(PaymentsOf(b)) = SumFunctionOnSet(Money, PaymentsOf(b))
      /\ Total(PaymentsOf(b)) \in Nat
      /\ Total(Posted(b)) = SumFunctionOnSet(Money, Posted(b)) /\ Total(Posted(b)) \in Nat
  BY <1>1, TotalIsNat
<1>3. SumFunctionOnSet(Money, Posted(b)) <= SumFunctionOnSet(Money, PaymentsOf(b))
  <2>1. \A p \in PaymentsOf(b) : Money[p] \in Nat
    BY <1>1, MoneyIsPositive
  <2> HIDE DEF Money
  <2> QED BY <1>1, <1>2, <2>1, SumOfPart
<1>4. AllPosted => Posted(b) = PaymentsOf(b)
  BY <1>1 DEF Posted, AllPosted
<1> QED BY <1>1, <1>2, <1>3, <1>4

\* Payments keep what they are worth.
LEMMA TotalIsKept ==
  ASSUME IInv, NEW P \in SUBSET DOMAIN payments, DOMAIN payments \subseteq DOMAIN payments',
         \A p \in DOMAIN payments : payments'[p].amount = payments[p].amount
  PROVE  SumFunctionOnSet(Money', P) = Total(P)
<1>1. IsFiniteSet(P) /\ Total(P) = SumFunctionOnSet(Money, P)
  BY TotalIsNat
<1>2. \A p \in P : Money'[p] = Money[p]
  BY DEF Money
<1>3. SumFunctionOnSet(Money', P) = SumFunctionOnSet(Money, P)
  BY <1>1, <1>2, SumAgrees
<1> QED BY <1>1, <1>3

LEMMA TotalNext == \A b : Total(Posted(b))' = SumFunctionOnSet(Money', Posted(b)')
BY DEF Total, Money

LEMMA SamePayments ==
  ASSUME UNCHANGED payments
  PROVE  \A b : /\ Posted(b)' = Posted(b) /\ PaymentsOf(b)' = PaymentsOf(b)
                /\ Total(Posted(b))' = Total(Posted(b)) /\ Total(Counted(b))' = Total(Counted(b))
BY DEF Posted, PaymentsOf, Counted, Total

\* One payment more.
LEMMA PostPays ==
  ASSUME IInv, NEW b \in DOMAIN bills, NEW amount \in Amounts, NEW claim \in DOMAIN claims \cup {NoClaim},
         Post(b, amount, claim)
  PROVE  /\ Total(Posted(b))' = Total(Posted(b)) + amount
         /\ \A c : c # b => Posted(c)' = Posted(c) /\ Total(Posted(c))' = Total(Posted(c))
         /\ AllPosted' => AllPosted
<1>1. PICK n : /\ n = NextPayment /\ n \notin DOMAIN payments
               /\ DOMAIN payments' = DOMAIN payments \cup {n} /\ payments'[n].bill = b
               /\ payments'[n].amount = amount /\ payments'[n].status = "POSTED"
               /\ \A p \in DOMAIN payments : payments'[p] = payments[p]
  BY PostAdds
<1>2. Posted(b)' = Posted(b) \cup {n}
  BY <1>1 DEF Posted, PaymentsOf
<1>3. \A c : c # b => Posted(c)' = Posted(c)
  BY <1>1 DEF Posted, PaymentsOf
<1>4. \A c : SumFunctionOnSet(Money', Posted(c)) = Total(Posted(c))
  BY <1>1, PostedIsPaid, TotalIsKept
<1>5. \A c : c # b => Total(Posted(c))' = Total(Posted(c))
  BY <1>3, <1>4, TotalNext
<1>6. Total(Posted(b))' = Total(Posted(b)) + amount
  <2>1. IsFiniteSet(Posted(b)) /\ n \notin Posted(b)
    <3>1. Posted(b) \in SUBSET DOMAIN payments
      BY PostedIsPaid
    <3> QED BY <1>1, <3>1, TotalIsNat
  <2>2. Adds(Money', Posted(b) \cup {n}) /\ Money'[n] = amount
    <3>1. Money'[n] = amount /\ amount \in Int
      BY <1>1, FinanceBoundsAssumption DEF Money, Amounts
    <3>2. \A p \in Posted(b) : Money'[p] \in Int
      <4>1. \A p \in Posted(b) : p \in DOMAIN payments /\ Money[p] \in Int
        BY PostedIsPaid, MoneyIsPositive
      <4> QED BY <1>1, <4>1 DEF Money
    <3> QED BY <3>1, <3>2 DEF Adds
  <2>3. SumFunctionOnSet(Money', Posted(b) \cup {n}) = SumFunctionOnSet(Money', Posted(b)) + Money'[n]
    <3> HIDE DEF Money
    <3> QED BY <2>1, <2>2, SumWith
  <2> QED BY <1>2, <1>4, <2>2, <2>3, TotalNext
<1>7. AllPosted' => AllPosted
  BY <1>1 DEF AllPosted
<1> QED BY <1>3, <1>5, <1>6, <1>7

\* One payment less.
LEMMA ReversalPaysBack ==
  ASSUME IInv, NEW p \in DOMAIN payments, payments[p].status = "POSTED",
         payments' = [payments EXCEPT ![p].status = "REVERSED"], NEW b, b = payments[p].bill
  PROVE  /\ Total(Posted(b))' = Total(Posted(b) \ {p})
         /\ Total(Posted(b)) = Total(Posted(b) \ {p}) + payments[p].amount
         /\ Total(Posted(b) \ {p}) \in Nat
         /\ \A c : c # b => Posted(c)' = Posted(c) /\ Total(Posted(c))' = Total(Posted(c))
         /\ ~ AllPosted'
<1>1. payments[p] \in PaymentRow
  BY DEF IInv, TypeOK
<1>2. /\ DOMAIN payments' = DOMAIN payments
      /\ payments'[p].status = "REVERSED" /\ payments'[p].bill = b /\ payments'[p].amount = payments[p].amount
      /\ \A q \in DOMAIN payments : q # p => payments'[q] = payments[q]
  BY <1>1 DEF PaymentRow
<1>3. Posted(b)' = Posted(b) \ {p} /\ p \in Posted(b)
  BY <1>2 DEF Posted, PaymentsOf
<1>4. \A c : c # b => Posted(c)' = Posted(c)
  BY <1>2 DEF Posted, PaymentsOf
<1>5. \A P \in SUBSET DOMAIN payments : SumFunctionOnSet(Money', P) = Total(P)
  BY <1>2, TotalIsKept
<1>6. \A c : Posted(c) \in SUBSET DOMAIN payments
  BY PostedIsPaid
<1>7. Total(Posted(b))' = Total(Posted(b) \ {p})
  <2>1. Posted(b) \ {p} \in SUBSET DOMAIN payments
    BY <1>6
  <2> QED BY <1>3, <1>5, <2>1, TotalNext
<1>8. \A c : c # b => Total(Posted(c))' = Total(Posted(c))
  BY <1>4, <1>5, <1>6, TotalNext
<1>9. Total(Posted(b)) = Total(Posted(b) \ {p}) + payments[p].amount /\ Total(Posted(b) \ {p}) \in Nat
  <2>1. /\ IsFiniteSet(Posted(b)) /\ Adds(Money, Posted(b)) /\ Total(Posted(b)) = SumFunctionOnSet(Money, Posted(b))
        /\ Total(Posted(b) \ {p}) = SumFunctionOnSet(Money, Posted(b) \ {p})
        /\ Total(Posted(b) \ {p}) \in Nat
    <3>1. Posted(b) \in SUBSET DOMAIN payments /\ Posted(b) \ {p} \in SUBSET DOMAIN payments
      BY <1>6
    <3> QED BY <3>1, TotalIsNat
  <2>2. SumFunctionOnSet(Money, Posted(b)) = Money[p] + SumFunctionOnSet(Money, Posted(b) \ {p})
    BY <1>3, <2>1, SumWithout
  <2>3. Money[p] = payments[p].amount /\ Money[p] \in Nat
    BY MoneyIsPositive DEF Money
  <2> QED BY <2>1, <2>2, <2>3
<1>10. ~ AllPosted'
  BY <1>2 DEF AllPosted
<1> QED BY <1>4, <1>7, <1>8, <1>9, <1>10

-----------------------------------------------------------------------------
(* As long as no handler was overlapped *)

BillOK(b) ==
  /\ Total(Posted(b)) <= Amount(b)
  /\ b \in Charges \/ AllPosted => Settled(b)

\* What a handler read still holds when it writes.
Found(r) ==
  /\ r.op = "record" => /\ r.amount <= Amount(r.bill) - Total(Counted(r.bill))
                        /\ r.status = StatusAfterPayment(r.bill, Total(Counted(r.bill)) + r.amount)
  /\ r.op = "reverse" =>
       LET b == payments[r.payment].bill
       IN  /\ payments[r.payment].status = "POSTED"
           /\ r.status = StatusAfterReversal(b, Total(Posted(b) \ {r.payment}))
  /\ r.op \in {"verify", "post", "reject"} => claims[r.claim].status = "PENDING"
  /\ r.op = "post" =>
       LET amount == claims[r.claim].amount
       IN  /\ amount <= Amount(r.bill) - Total(Posted(r.bill))
           /\ r.status = StatusAfterPayment(r.bill, Total(Posted(r.bill)) + amount)

Alone == \A v, w \in DOMAIN pending : v = w

Calm ==
  /\ \A b \in DOMAIN bills : BillOK(b)
  /\ \A w \in DOMAIN pending : Found(pending[w])
  /\ Alone

\* An enrollment has finitely many bills, so that what it was charged is a sum.
FiniteBills == \A e \in Enrollments : IsFiniteSet(BillsOf(e))

SInv == IInv /\ FiniteBills /\ (~ overlapped => Calm)

LEMMA SameTables ==
  ASSUME UNCHANGED <<payments, claims>>
  PROVE  /\ \A r : Found(r)' <=> Found(r)
         /\ \A b : bills'[b] = bills[b] => (BillOK(b)' <=> BillOK(b))
<1>1. UNCHANGED payments /\ UNCHANGED claims
  OBVIOUS
<1>2. \A b : /\ Total(Posted(b))' = Total(Posted(b)) /\ Total(Counted(b))' = Total(Counted(b))
             /\ Posted(b)' = Posted(b)
  BY <1>1, SamePayments
<1>3. \A b : bills'[b] = bills[b] => (BillOK(b)' <=> BillOK(b))
  BY <1>1, <1>2 DEF BillOK, AllPosted, Settled, DerivedStatus
<1>4. ASSUME NEW r PROVE Found(r)' <=> Found(r)
  BY <1>1, <1>2 DEF Found, Total
<1> QED BY <1>3, <1>4

LEMMA BeginIsCalm ==
  ASSUME IInv, ~ overlapped => Calm, ~ overlapped', NEW w, NEW r, Begin(w, r), Found(r)
  PROVE  Calm'
<1>1. /\ UNCHANGED <<bills, payments, claims>> /\ ~ overlapped /\ DOMAIN pending = {}
      /\ DOMAIN pending' = {w} /\ pending'[w] = r
  BY DEF Begin, Overlap, Upsert, OneRow, tables
<1>2. (\A b \in DOMAIN bills : BillOK(b))'
  BY <1>1, SameTables DEF Calm
<1>3. (\A v \in DOMAIN pending : Found(pending[v]))'
  BY <1>1, SameTables
<1>4. Alone'
  BY <1>1 DEF Alone
<1> QED BY <1>2, <1>3, <1>4 DEF Calm

LEMMA ReadIsCalm ==
  ASSUME IInv, ~ overlapped => Calm, ~ overlapped', NEW w \in Workers, Read(w)
  PROVE  Calm'
<1>1. ASSUME NEW b \in DOMAIN bills, NEW amount \in Amounts, RecordRead(w, b, amount)
      PROVE  Calm'
  <2>1. PICK r : /\ r = [op |-> "record", bill |-> b, amount |-> amount,
                         status |-> StatusAfterPayment(b, Total(Counted(b)) + amount)]
                 /\ Begin(w, r)
    BY <1>1 DEF RecordRead
  <2>2. Found(r)
    BY <1>1, <2>1 DEF Found, RecordRead
  <2> QED BY <2>1, <2>2, BeginIsCalm
<1>2. ASSUME NEW p \in DOMAIN payments, ReverseRead(w, p) PROVE Calm'
  <2>1. PICK r : /\ r = [op |-> "reverse", payment |-> p,
                         status |-> StatusAfterReversal(payments[p].bill, Total(Posted(payments[p].bill) \ {p}))]
                 /\ Begin(w, r)
    BY <1>2 DEF ReverseRead
  <2>2. Found(r)
    BY <1>2, <2>1 DEF Found, ReverseRead
  <2> QED BY <2>1, <2>2, BeginIsCalm
<1>3. ASSUME NEW c \in DOMAIN claims, NEW b \in DOMAIN bills, VerifyRead(w, c, b) PROVE Calm'
  <2>1. PICK r : r = [op |-> "verify", claim |-> c, bill |-> b] /\ Begin(w, r)
    BY <1>3 DEF VerifyRead
  <2>2. Found(r)
    BY <1>3, <2>1 DEF Found, VerifyRead
  <2> QED BY <2>1, <2>2, BeginIsCalm
<1>4. ASSUME NEW c \in DOMAIN claims, RejectRead(w, c) PROVE Calm'
  <2>1. PICK r : r = [op |-> "reject", claim |-> c] /\ Begin(w, r)
    BY <1>4 DEF RejectRead
  <2>2. Found(r)
    BY <1>4, <2>1 DEF Found, RejectRead
  <2> QED BY <2>1, <2>2, BeginIsCalm
<1> QED BY <1>1, <1>2, <1>3, <1>4 DEF Read

LEMMA EndIsCalm ==
  ASSUME Alone, NEW w \in DOMAIN pending, End(w), \A b \in DOMAIN bills' : BillOK(b)'
  PROVE  Calm'
<1>1. DOMAIN pending' = {}
  BY DEF End, Without, Alone
<1> QED BY <1>1 DEF Calm, Alone

LEMMA RollbackIsCalm ==
  ASSUME IInv, Calm, NEW w, Rollback(w)
  PROVE  Calm'
<1>1. UNCHANGED <<bills, payments, claims>> /\ End(w) /\ w \in DOMAIN pending
  BY DEF Rollback, tables
<1>2. \A b \in DOMAIN bills' : BillOK(b)'
  BY <1>1, SameTables DEF Calm
<1> QED BY <1>1, <1>2, EndIsCalm DEF Calm

\* A payment of at most the balance, with the status it leaves behind.
LEMMA PostIsCalm ==
  ASSUME IInv, \A x \in DOMAIN bills : BillOK(x), NEW b \in DOMAIN bills, NEW amount \in Amounts,
         NEW claim \in DOMAIN claims \cup {NoClaim}, Post(b, amount, claim), NEW status,
         bills' = [bills EXCEPT ![b] = status],
         Total(Posted(b)) + amount <= Amount(b),
         b \in Charges \/ AllPosted => status = StatusAfterPayment(b, Total(Posted(b)) + amount)
  PROVE  \A x \in DOMAIN bills' : BillOK(x)'
<1>1. /\ Total(Posted(b))' = Total(Posted(b)) + amount
      /\ \A c : c # b => Total(Posted(c))' = Total(Posted(c))
      /\ AllPosted' => AllPosted
  BY PostPays
<1>2. DOMAIN bills' = DOMAIN bills /\ bills'[b] = status /\ \A x \in DOMAIN bills : x # b => bills'[x] = bills[x]
  BY DEF IInv, TypeOK
<1>3. ASSUME NEW x \in DOMAIN bills, x # b PROVE BillOK(x)'
  BY <1>1, <1>2, <1>3 DEF BillOK, Settled, DerivedStatus
<1>4. BillOK(b)'
  <2>1. Total(Posted(b)) + amount > 0
    <3>1. Total(Posted(b)) \in Nat
      BY PostedIsPaid
    <3>2. amount \in Nat /\ amount > 0
      BY FinanceBoundsAssumption DEF Amounts
    <3> QED BY <3>1, <3>2
  <2>2. ASSUME b \in Charges \/ AllPosted' PROVE Settled(b)'
    <3>1. StatusAfterReversal(b, Total(Posted(b)) + amount) = StatusAfterPayment(b, Total(Posted(b)) + amount)
      <4>1. Total(Posted(b)) \in Nat /\ amount \in Nat
        BY PostedIsPaid, FinanceBoundsAssumption DEF Amounts
      <4> QED BY <2>1, <4>1 DEF StatusAfterReversal
    <3>2. status = StatusAfterPayment(b, Total(Posted(b)) + amount)
      BY <1>1, <2>2
    <3> QED BY <1>1, <1>2, <3>1, <3>2 DEF Settled, DerivedStatus
  <2> QED BY <1>1, <2>2 DEF BillOK
<1> QED BY <1>2, <1>3, <1>4

LEMMA RecordCommitPays ==
  ASSUME IInv, Calm, NEW w \in Workers, RecordCommit(w), NEW b, b = pending[w].bill,
         NEW amount, amount = pending[w].amount
  PROVE  /\ b \in DOMAIN bills /\ amount \in Amounts /\ Post(b, amount, NoClaim)
         /\ bills' = [bills EXCEPT ![b] = pending[w].status]
         /\ Total(Posted(b)) + amount <= Amount(b)
         /\ b \in Charges \/ AllPosted => pending[w].status = StatusAfterPayment(b, Total(Posted(b)) + amount)
<1>1. w \in DOMAIN pending /\ pending[w].op = "record" /\ RequestOK(pending[w]) /\ Found(pending[w])
  BY DEF RecordCommit, Writing, IInv, Calm
<1>2. b \in DOMAIN bills /\ amount \in Amounts
  BY <1>1 DEF RequestOK, Request
<1>3. Post(b, amount, NoClaim) /\ bills' = [bills EXCEPT ![b] = pending[w].status]
  BY DEF RecordCommit
<1>4. /\ amount <= Amount(b) - Total(Counted(b))
      /\ pending[w].status = StatusAfterPayment(b, Total(Counted(b)) + amount)
  BY <1>1 DEF Found
<1>5. Total(Counted(b)) \in Nat /\ Total(Posted(b)) \in Nat /\ Total(Posted(b)) <= Total(Counted(b))
  BY PostedIsPaid DEF Counted
<1>6. Amount(b) \in Nat /\ amount \in Nat
  BY <1>2, AmountIsPositive, FinanceBoundsAssumption DEF IInv, TypeOK, Amounts
<1>7. Total(Posted(b)) + amount <= Amount(b)
  BY <1>4, <1>5, <1>6
<1>8. b \in Charges \/ AllPosted => Counted(b) = Posted(b)
  BY PostedIsPaid DEF Counted, Charges
<1> QED BY <1>2, <1>3, <1>4, <1>7, <1>8

LEMMA VerifyCommitPays ==
  ASSUME IInv, Calm, NEW w \in Workers, VerifyCommit(w), NEW c, c = pending[w].claim,
         NEW b, b = pending[w].bill, NEW amount, amount = claims[c].amount
  PROVE  /\ c \in DOMAIN claims /\ claims[c].status = "PENDING"
         /\ b \in DOMAIN bills /\ amount \in Amounts /\ Post(b, amount, c)
         /\ bills' = [bills EXCEPT ![b] = pending[w].status]
         /\ Total(Posted(b)) + amount <= Amount(b)
         /\ pending[w].status = StatusAfterPayment(b, Total(Posted(b)) + amount)
<1>1. w \in DOMAIN pending /\ pending[w].op = "post" /\ RequestOK(pending[w]) /\ Found(pending[w])
  BY DEF VerifyCommit, Writing, IInv, Calm
<1>2. b \in DOMAIN bills /\ c \in DOMAIN claims
  BY <1>1 DEF RequestOK
<1>3. amount \in Amounts
  BY <1>2 DEF IInv, TypeOK, ClaimRow
<1>4. Post(b, amount, c) /\ bills' = [bills EXCEPT ![b] = pending[w].status]
  BY DEF VerifyCommit
<1>5. /\ amount <= Amount(b) - Total(Posted(b)) /\ claims[c].status = "PENDING"
      /\ pending[w].status = StatusAfterPayment(b, Total(Posted(b)) + amount)
  BY <1>1 DEF Found
<1>6. Amount(b) \in Nat /\ amount \in Nat /\ Total(Posted(b)) \in Nat
  BY <1>2, <1>3, AmountIsPositive, PostedIsPaid, FinanceBoundsAssumption DEF IInv, TypeOK, Amounts
<1>7. Total(Posted(b)) + amount <= Amount(b)
  BY <1>5, <1>6
<1> QED BY <1>2, <1>3, <1>4, <1>5, <1>7

LEMMA ReverseCommitPaysBack ==
  ASSUME IInv, Calm, NEW w \in Workers, ReverseCommit(w), NEW p, p = pending[w].payment,
         NEW b, b = payments[p].bill
  PROVE  /\ p \in DOMAIN payments /\ payments[p].status = "POSTED" /\ b \in DOMAIN bills
         /\ payments' = [payments EXCEPT ![p].status = "REVERSED"]
         /\ bills' = [bills EXCEPT ![b] = pending[w].status]
         /\ pending[w].status = StatusAfterReversal(b, Total(Posted(b) \ {p}))
<1>1. w \in DOMAIN pending /\ pending[w].op = "reverse" /\ RequestOK(pending[w]) /\ Found(pending[w])
  BY DEF ReverseCommit, Writing, IInv, Calm
<1>2. p \in DOMAIN payments
  BY <1>1 DEF RequestOK
<1>3. b \in DOMAIN bills
  BY <1>2 DEF IInv, TypeOK
<1>4. /\ payments' = [payments EXCEPT ![p].status = "REVERSED"]
      /\ bills' = [bills EXCEPT ![b] = pending[w].status]
  BY DEF ReverseCommit
<1>5. payments[p].status = "POSTED" /\ pending[w].status = StatusAfterReversal(b, Total(Posted(b) \ {p}))
  BY <1>1 DEF Found
<1> QED BY <1>2, <1>3, <1>4, <1>5

LEMMA RecordCommitIsCalm ==
  ASSUME IInv, Calm, NEW w \in Workers, RecordCommit(w)
  PROVE  Calm'
<1>1. PICK b, amount : b = pending[w].bill /\ amount = pending[w].amount
  OBVIOUS
<1>2. \A x \in DOMAIN bills' : BillOK(x)'
  BY <1>1, RecordCommitPays, PostIsCalm DEF Calm
<1>3. w \in DOMAIN pending /\ End(w)
  BY DEF RecordCommit, Writing
<1> QED BY <1>2, <1>3, EndIsCalm DEF Calm

LEMMA VerifyCommitIsCalm ==
  ASSUME IInv, Calm, NEW w \in Workers, VerifyCommit(w)
  PROVE  Calm'
<1>1. PICK b, c, amount : b = pending[w].bill /\ c = pending[w].claim /\ amount = claims[c].amount
  OBVIOUS
<1>2. \A x \in DOMAIN bills' : BillOK(x)'
  BY <1>1, VerifyCommitPays, PostIsCalm DEF Calm
<1>3. w \in DOMAIN pending /\ End(w)
  BY DEF VerifyCommit, Writing
<1> QED BY <1>2, <1>3, EndIsCalm DEF Calm

LEMMA ReverseCommitIsCalm ==
  ASSUME IInv, Calm, NEW w \in Workers, ReverseCommit(w)
  PROVE  Calm'
<1>1. PICK p, b : p = pending[w].payment /\ b = payments[p].bill
  OBVIOUS
<1>2. /\ p \in DOMAIN payments /\ payments[p].status = "POSTED" /\ b \in DOMAIN bills
      /\ payments' = [payments EXCEPT ![p].status = "REVERSED"]
      /\ bills' = [bills EXCEPT ![b] = pending[w].status]
      /\ pending[w].status = StatusAfterReversal(b, Total(Posted(b) \ {p}))
  BY <1>1, ReverseCommitPaysBack
<1>3. /\ Total(Posted(b))' = Total(Posted(b) \ {p})
      /\ Total(Posted(b)) = Total(Posted(b) \ {p}) + payments[p].amount
      /\ Total(Posted(b) \ {p}) \in Nat
      /\ \A c : c # b => Total(Posted(c))' = Total(Posted(c))
      /\ ~ AllPosted'
  BY <1>1, <1>2, ReversalPaysBack
<1>4. DOMAIN bills' = DOMAIN bills /\ bills'[b] = pending[w].status
      /\ \A x \in DOMAIN bills : x # b => bills'[x] = bills[x]
  BY <1>2 DEF IInv, TypeOK
<1>5. ASSUME NEW x \in DOMAIN bills, x # b PROVE BillOK(x)'
  BY <1>3, <1>4, <1>5 DEF BillOK, Settled, DerivedStatus, Calm
<1>6. BillOK(b)'
  <2>1. Total(Posted(b))' <= Amount(b)
    <3>1. payments[p].amount \in Nat
      BY <1>2, FinanceBoundsAssumption DEF IInv, TypeOK, PaymentRow, Amounts
    <3>2. Total(Posted(b)) <= Amount(b)
      BY <1>2 DEF Calm, BillOK
    <3>3. Amount(b) \in Nat
      BY <1>2, AmountIsPositive DEF IInv, TypeOK
    <3> QED BY <1>3, <3>1, <3>2, <3>3
  <2>2. Settled(b)'
    BY <1>2, <1>3, <1>4 DEF Settled, DerivedStatus
  <2> QED BY <2>1, <2>2 DEF BillOK
<1>7. w \in DOMAIN pending /\ End(w)
  BY DEF ReverseCommit, Writing
<1> QED BY <1>4, <1>5, <1>6, <1>7, EndIsCalm DEF Calm

LEMMA VerifyCheckIsCalm ==
  ASSUME IInv, Calm, NEW w \in Workers, VerifyCheck(w)
  PROVE  Calm'
<1>1. w \in DOMAIN pending /\ pending[w].op = "verify" /\ RequestOK(pending[w]) /\ Found(pending[w])
  BY DEF VerifyCheck, Writing, IInv, Calm
<1>2. PICK b, c, amount : b = pending[w].bill /\ c = pending[w].claim /\ amount = claims[c].amount
  OBVIOUS
<1>3. PICK r : /\ r = [op |-> "post", claim |-> c, bill |-> b,
                       status |-> StatusAfterPayment(b, Total(Posted(b)) + amount)]
               /\ pending' = [pending EXCEPT ![w] = r]
               /\ amount <= Amount(b) - Total(Posted(b))
               /\ UNCHANGED <<bills, payments, claims, overlapped>>
  BY <1>2 DEF VerifyCheck, tables
<1>4. Found(r)
  <2>1. claims[c].status = "PENDING"
    BY <1>1, <1>2 DEF Found
  <2> QED BY <1>2, <1>3, <2>1 DEF Found
<1>5. DOMAIN pending' = DOMAIN pending /\ pending'[w] = r
  BY <1>1, <1>3 DEF IInv, TypeOK
<1>6. \A v \in DOMAIN pending : v = w
  BY <1>1 DEF Calm, Alone
<1>7. (\A v \in DOMAIN pending : Found(pending[v]))'
  BY <1>3, <1>4, <1>5, <1>6, SameTables
<1>8. Alone'
  BY <1>5, <1>6 DEF Alone
<1>9. (\A x \in DOMAIN bills : BillOK(x))'
  BY <1>3, SameTables DEF Calm
<1> QED BY <1>7, <1>8, <1>9 DEF Calm

LEMMA RejectCommitIsCalm ==
  ASSUME IInv, Calm, NEW w \in Workers, RejectCommit(w)
  PROVE  Calm'
<1>1. UNCHANGED <<bills, payments>> /\ End(w) /\ w \in DOMAIN pending
  BY DEF RejectCommit, Writing
<1>2. ASSUME NEW b \in DOMAIN bills PROVE BillOK(b)'
  BY <1>1, SamePayments DEF Calm, BillOK, AllPosted, Settled, DerivedStatus
<1> QED BY <1>1, <1>2, EndIsCalm DEF Calm

\* A handler that inserts rows and depends on nothing it read.
LEMMA InsertIsCalm ==
  ASSUME IInv, ~ overlapped => Calm, ~ overlapped', Overlap, UNCHANGED <<payments, pending>>,
         \A b \in DOMAIN bills : b \in DOMAIN bills' /\ bills'[b] = bills[b],
         \A b \in DOMAIN bills' \ DOMAIN bills : b \in Bills /\ bills'[b] = Unpaid(b)
  PROVE  Calm'
<1>1. ~ overlapped /\ DOMAIN pending = {} /\ DOMAIN pending' = {} /\ UNCHANGED payments
  BY DEF Overlap
<1>2. ASSUME NEW b \in DOMAIN bills PROVE BillOK(b)'
  BY <1>1, <1>2, SamePayments DEF Calm, BillOK, AllPosted, Settled, DerivedStatus
<1>3. ASSUME NEW b \in DOMAIN bills' \ DOMAIN bills PROVE BillOK(b)'
  <2>1. Posted(b) = {}
    BY DEF IInv, TypeOK, Posted, PaymentsOf
  <2>2. Total(Posted(b))' = 0
    BY <1>1, <2>1, SamePayments, SumOfNone DEF Total
  <2>3. Amount(b) \in Nat /\ bills'[b] = Unpaid(b)
    BY AmountIsPositive
  <2> QED BY <2>2, <2>3 DEF BillOK, Settled, DerivedStatus, StatusAfterReversal
<1> QED BY <1>1, <1>2, <1>3 DEF Calm, Alone

LEMMA StepIsCalm ==
  ASSUME SInv, [Next]_vars, ~ overlapped'
  PROVE  Calm'
<1> USE DEF SInv
<1>1. ASSUME NEW w \in Workers, Read(w) PROVE Calm'
  BY <1>1, ReadIsCalm
<1>2. ASSUME NEW w \in Workers, Commit(w) \/ Rollback(w) PROVE Calm'
  <2>1. UNCHANGED overlapped
    BY <1>2 DEF Commit, Rollback, RecordCommit, ReverseCommit, VerifyCheck, VerifyCommit, RejectCommit, End
  <2>2. Calm
    BY <2>1
  <2> QED BY <1>2, <2>2, RecordCommitIsCalm, VerifyCommitIsCalm, ReverseCommitIsCalm, VerifyCheckIsCalm,
             RejectCommitIsCalm, RollbackIsCalm DEF Commit
<1>3. ASSUME NEW B \in SUBSET Bills, Generate(B) PROVE Calm'
  <2>1. Overlap /\ UNCHANGED <<payments, pending>>
    BY <1>3 DEF Generate
  <2>2. bills' = Upsert(bills, [b \in B \ DOMAIN bills |-> Unpaid(b)])
    BY <1>3 DEF Generate
  <2>3. /\ \A b \in DOMAIN bills : b \in DOMAIN bills' /\ bills'[b] = bills[b]
        /\ \A b \in DOMAIN bills' \ DOMAIN bills : b \in Bills /\ bills'[b] = Unpaid(b)
    BY <2>2 DEF Upsert
  <2> QED BY <2>1, <2>3, InsertIsCalm
<1>4. ASSUME NEW b, NEW amount, NEW reference, Submit(b, amount, reference) PROVE Calm'
  <2>1. Overlap /\ UNCHANGED <<payments, pending>> /\ UNCHANGED bills
    BY <1>4 DEF Submit
  <2> QED BY <2>1, InsertIsCalm
<1>5. ASSUME NEW e, NEW amount, Adjust(e, amount) PROVE Calm'
  <2>1. Overlap /\ UNCHANGED <<payments, pending>> /\ UNCHANGED bills
    BY <1>5 DEF Adjust
  <2> QED BY <2>1, InsertIsCalm
<1>6. CASE UNCHANGED vars
  <2>1. UNCHANGED <<bills, payments, claims, pending, overlapped>> /\ Calm
    BY <1>6 DEF vars, tables
  <2>2. (\A b \in DOMAIN bills : BillOK(b))'
    BY <2>1, SameTables DEF Calm
  <2>3. (\A w \in DOMAIN pending : Found(pending[w]))'
    BY <2>1, SameTables DEF Calm
  <2> QED BY <2>1, <2>2, <2>3 DEF Calm, Alone
<1> HIDE DEF SInv
<1>7. ASSUME Insert PROVE Calm'
  <2>1. ASSUME NEW fee, NEW E, GenerateInvoices(fee, E) PROVE Calm'
    BY <1>3, <2>1 DEF GenerateInvoices, Bills
  <2>2. ASSUME NEW fee, NEW E, NEW period, GenerateCharges(fee, period, E) PROVE Calm'
    BY <1>3, <2>2 DEF GenerateCharges, Bills
  <2> QED BY <1>4, <1>5, <1>7, <2>1, <2>2 DEF Insert
<1> QED BY <1>1, <1>2, <1>6, <1>7 DEF Next

-----------------------------------------------------------------------------
(* What an enrollment was charged *)

LEMMA ChargeIsNat ==
  ASSUME IInv, FiniteBills, NEW e \in Enrollments
  PROVE  /\ IsFiniteSet(BillsOf(e))
         /\ \A b \in BillsOf(e) : b \in DOMAIN bills /\ b \in Bills /\ Amount(b) \in Nat
BY AmountIsPositive DEF FiniteBills, BillsOf, IInv, TypeOK

\* One generation bills an enrollment at most once.
OncePerEnrollment(B) == \A b, c \in B : b.enrollment = c.enrollment => b = c

LEMMA GenerateBills ==
  ASSUME IInv, FiniteBills, NEW B \in SUBSET Bills, OncePerEnrollment(B), Generate(B)
  PROVE  /\ DOMAIN bills' = DOMAIN bills \cup B
         /\ FiniteBills'
         /\ \A e \in Enrollments : Charged(e)' >= Charged(e)
<1>1. DOMAIN bills' = DOMAIN bills \cup B
  BY DEF Generate, Upsert
<1>2. ASSUME NEW e \in Enrollments
      PROVE  IsFiniteSet(BillsOf(e)') /\ BillsOf(e) \in SUBSET BillsOf(e)'
  <2>1. BillsOf(e)' = BillsOf(e) \cup {b \in B : b.enrollment = e}
    BY <1>1 DEF BillsOf
  <2>2. IsFiniteSet({b \in B : b.enrollment = e})
    <3>1. CASE {b \in B : b.enrollment = e} = {}
      BY <3>1, FS_EmptySet
    <3>2. ASSUME NEW b \in B, b.enrollment = e PROVE IsFiniteSet({c \in B : c.enrollment = e})
      <4>1. {c \in B : c.enrollment = e} = {b}
        BY <3>2 DEF OncePerEnrollment
      <4> QED BY <4>1, FS_Singleton
    <3> QED BY <3>1, <3>2
  <2> QED BY <2>1, <2>2, ChargeIsNat, FS_Union
<1>3. ASSUME NEW e \in Enrollments PROVE Charged(e)' >= Charged(e)
  <2> DEFINE f == [b \in DOMAIN bills |-> Amount(b)]
             g == [b \in DOMAIN bills' |-> Amount(b)]
  <2>1. Charged(e) = SumFunctionOnSet(f, BillsOf(e)) /\ Charged(e)' = SumFunctionOnSet(g, BillsOf(e)')
    BY DEF Charged, Amount
  <2>2. \A b \in BillsOf(e)' : g[b] \in Nat
    BY <1>1, AmountIsPositive DEF BillsOf, IInv, TypeOK
  <2>3. \A b \in BillsOf(e) : f[b] = g[b] /\ f[b] \in Nat
    BY <1>1, ChargeIsNat
  <2>4. IsFiniteSet(BillsOf(e)) /\ IsFiniteSet(BillsOf(e)') /\ BillsOf(e) \in SUBSET BillsOf(e)'
    BY <1>2, ChargeIsNat
  <2> HIDE DEF f, g
  <2>5. SumFunctionOnSet(f, BillsOf(e)) = SumFunctionOnSet(g, BillsOf(e))
    BY <2>3, <2>4, SumAgrees
  <2>6. SumFunctionOnSet(g, BillsOf(e)) <= SumFunctionOnSet(g, BillsOf(e)')
    BY <2>2, <2>4, SumOfPart
  <2>7. SumFunctionOnSet(f, BillsOf(e)) \in Nat /\ SumFunctionOnSet(g, BillsOf(e)') \in Nat
    BY <2>2, <2>3, <2>4, SumNat
  <2> QED BY <2>1, <2>5, <2>6, <2>7
<1> QED BY <1>1, <1>2, <1>3 DEF FiniteBills

LEMMA SameBills ==
  ASSUME DOMAIN bills' = DOMAIN bills
  PROVE  /\ FiniteBills' <=> FiniteBills
         /\ \A e : BillsOf(e)' = BillsOf(e) /\ Charged(e)' = Charged(e)
BY DEF FiniteBills, BillsOf, Charged, Amount

LEMMA InvoicesOncePerEnrollment ==
  ASSUME NEW fee, NEW E
  PROVE  /\ {b \in Invoices : b.fee = fee /\ b.enrollment \in E} \in SUBSET Bills
         /\ OncePerEnrollment({b \in Invoices : b.fee = fee /\ b.enrollment \in E})
BY DEF OncePerEnrollment, Invoices, Bills

LEMMA ChargesOncePerEnrollment ==
  ASSUME NEW fee, NEW period, NEW E
  PROVE  /\ {b \in Charges : b.fee = fee /\ b.period = period /\ b.enrollment \in E} \in SUBSET Bills
         /\ OncePerEnrollment({b \in Charges : b.fee = fee /\ b.period = period /\ b.enrollment \in E})
BY DEF OncePerEnrollment, Charges, Bills

\* Only generation adds bills.
LEMMA BillsStay ==
  ASSUME IInv, NEW w \in Workers, Read(w) \/ Commit(w) \/ Rollback(w)
  PROVE  DOMAIN bills' = DOMAIN bills
<1>1. CASE Read(w)
  BY <1>1 DEF Read, RecordRead, ReverseRead, VerifyRead, RejectRead, Begin, tables
<1>2. CASE Commit(w)
  BY <1>2 DEF Commit, RecordCommit, ReverseCommit, VerifyCheck, VerifyCommit, RejectCommit, tables, IInv, TypeOK
<1>3. CASE Rollback(w)
  BY <1>3 DEF Rollback, tables
<1> QED BY <1>1, <1>2, <1>3

LEMMA BillsAreFinite ==
  ASSUME SInv, [Next]_vars
  PROVE  FiniteBills'
<1>1. ASSUME NEW w \in Workers, Read(w) \/ Commit(w) \/ Rollback(w) PROVE FiniteBills'
  BY <1>1, BillsStay, SameBills DEF SInv
<1>2. ASSUME NEW fee, NEW E, GenerateInvoices(fee, E) PROVE FiniteBills'
  BY <1>2, InvoicesOncePerEnrollment, GenerateBills DEF GenerateInvoices, SInv
<1>3. ASSUME NEW fee, NEW E, NEW period, GenerateCharges(fee, period, E) PROVE FiniteBills'
  BY <1>3, ChargesOncePerEnrollment, GenerateBills DEF GenerateCharges, SInv
<1>4. ASSUME NEW b, NEW amount, NEW reference, Submit(b, amount, reference) PROVE FiniteBills'
  BY <1>4, SameBills DEF Submit, SInv
<1>5. ASSUME NEW e, NEW amount, Adjust(e, amount) PROVE FiniteBills'
  BY <1>5, SameBills DEF Adjust, SInv
<1>6. CASE UNCHANGED vars
  BY <1>6, SameBills DEF vars, tables, SInv
<1> QED BY <1>1, <1>2, <1>3, <1>4, <1>5, <1>6 DEF Next, Insert

LEMMA SInvHolds == Spec => []SInv
<1>1. Init => SInv
  <2> SUFFICES ASSUME Init PROVE SInv
    OBVIOUS
  <2>1. DOMAIN bills = {} /\ DOMAIN pending = {}
    BY DEF Init
  <2>2. FiniteBills
    <3>1. \A e : BillsOf(e) = {}
      BY <2>1 DEF BillsOf
    <3> QED BY <3>1, FS_EmptySet DEF FiniteBills
  <2> QED BY <2>1, <2>2, InitHolds DEF SInv, Calm, Alone
<1>2. SInv /\ [Next]_vars => SInv'
  BY StepKeeps, StepIsCalm, BillsAreFinite DEF SInv
<1> QED BY <1>1, <1>2, PTL DEF Spec

(* As long as no handler was overlapped, what still stands of the payments  *)
(* of a bill is never more than the bill asks for: cash payments, claims    *)
(* and reversals in any order, any number of fees, bills and payments.      *)
THEOREM NobodyOverpays == Spec => []NoOverpayment
<1>1. SInv => NoOverpayment
  BY DEF SInv, Calm, BillOK, NoOverpayment
<1> QED BY <1>1, SInvHolds, PTL

(* As long as no handler was overlapped, the stored status of a charge, and *)
(* of an invoice while nothing was reversed, is what its payments say.      *)
THEOREM StatusesFollow == Spec => []StatusesAreDerived
<1>1. SInv => StatusesAreDerived
  BY DEF SInv, Calm, BillOK, AllPosted, StatusesAreDerived
<1> QED BY <1>1, SInvHolds, PTL

-----------------------------------------------------------------------------
(* The account of an enrollment: what was charged, what was paid            *)

Standing(e) == {p \in DOMAIN payments : payments[p].status = "POSTED" /\ payments[p].bill.enrollment = e}

LEMMA PaidStands ==
  IInv => \A e : Paid(e) = Total(Standing(e)) /\ Standing(e) \in SUBSET DOMAIN payments /\ Paid(e) \in Nat
<1> SUFFICES ASSUME IInv, NEW e
             PROVE  Paid(e) = Total(Standing(e)) /\ Standing(e) \in SUBSET DOMAIN payments /\ Paid(e) \in Nat
  OBVIOUS
<1>1. UNION {Posted(b) : b \in BillsOf(e)} = Standing(e)
  BY DEF Posted, PaymentsOf, BillsOf, Standing, IInv, TypeOK
<1>2. Standing(e) \in SUBSET DOMAIN payments
  BY DEF Standing
<1> QED BY <1>1, <1>2, TotalIsNat DEF Paid

LEMMA PaidIsCovered ==
  IInv /\ FiniteBills /\ Calm => \A x \in Enrollments : Paid(x) <= Charged(x)
<1> SUFFICES ASSUME IInv, FiniteBills, Calm, NEW e \in Enrollments
             PROVE  Paid(e) <= Charged(e)
  OBVIOUS
<1> DEFINE S == BillsOf(e)
           Part == [b \in S |-> Posted(b)]
           g == [b \in DOMAIN bills |-> Amount(b)]
<1>1. IsFiniteSet(S) /\ \A b \in S : b \in DOMAIN bills /\ Amount(b) \in Nat
  BY ChargeIsNat
<1>2. \A b \in S : /\ Part[b] = Posted(b) /\ IsFiniteSet(Part[b]) /\ Adds(Money, Part[b])
                   /\ Total(Posted(b)) = SumFunctionOnSet(Money, Part[b])
  <2>1. \A b : Posted(b) \in SUBSET DOMAIN payments
    BY PostedIsPaid
  <2> QED BY <2>1, TotalIsNat
<1>3. \A b \in S : g[b] \in Int /\ SumFunctionOnSet(Money, Part[b]) <= g[b]
  BY <1>1, <1>2 DEF Calm, BillOK
<1>4. \A b, c \in S : b # c => Part[b] \cap Part[c] = {}
  BY <1>2 DEF Posted, PaymentsOf
<1>5. UNION {Part[b] : b \in S} = UNION {Posted(b) : b \in BillsOf(e)}
  BY <1>2
<1>6. Charged(e) = SumFunctionOnSet(g, S)
  BY DEF Charged
<1>7. Paid(e) = SumFunctionOnSet(Money, UNION {Part[b] : b \in S})
  BY <1>5 DEF Paid, Total, Money
<1>8. SumFunctionOnSet(Money, UNION {Part[b] : b \in S}) <= SumFunctionOnSet(g, S)
  <2> HIDE DEF S, Part, g, Money
  <2> QED BY <1>1, <1>2, <1>3, <1>4, SumOfParts
<1> QED BY <1>6, <1>7, <1>8

LEMMA PaidIsCoveredNext ==
  ASSUME IInv', FiniteBills', Calm'
  PROVE  (\A x \in Enrollments : Paid(x) <= Charged(x))'
BY PaidIsCovered, PTL

LEMMA PaidStandsNext ==
  ASSUME IInv'
  PROVE  \A e : Paid(e)' = SumFunctionOnSet(Money', Standing(e)')
<1>1. (\A e : Paid(e) = Total(Standing(e)) /\ Standing(e) \in SUBSET DOMAIN payments /\ Paid(e) \in Nat)'
  BY PaidStands, PTL
<1> QED BY <1>1 DEF Total, Money

LEMMA SamePaid ==
  ASSUME IInv, IInv', UNCHANGED payments
  PROVE  \A e : Paid(e)' = Paid(e)
<1>1. \A e : Standing(e)' = Standing(e)
  BY DEF Standing
<1> QED BY <1>1, PaidStands, PaidStandsNext DEF Total, Money

LEMMA PostIsReceived ==
  ASSUME IInv, IInv', NEW b \in DOMAIN bills, NEW amount \in Amounts, NEW claim \in DOMAIN claims \cup {NoClaim},
         Post(b, amount, claim)
  PROVE  /\ Paid(b.enrollment)' = Paid(b.enrollment) + amount
         /\ \A e : e # b.enrollment => Paid(e)' = Paid(e)
<1>1. PICK n : /\ n = NextPayment /\ n \notin DOMAIN payments
               /\ DOMAIN payments' = DOMAIN payments \cup {n} /\ payments'[n].bill = b
               /\ payments'[n].amount = amount /\ payments'[n].status = "POSTED"
               /\ \A p \in DOMAIN payments : payments'[p] = payments[p]
  BY PostAdds
<1>2. \A e : SumFunctionOnSet(Money', Standing(e)) = Paid(e)
  BY <1>1, PaidStands, TotalIsKept
<1>3. ASSUME NEW e, e # b.enrollment PROVE Paid(e)' = Paid(e)
  <2>1. Standing(e)' = Standing(e)
    BY <1>1, <1>3 DEF Standing
  <2> QED BY <1>2, <2>1, PaidStandsNext
<1>4. ASSUME NEW e, e = b.enrollment PROVE Paid(e)' = Paid(e) + amount
  <2>1. Standing(e)' = Standing(e) \cup {n} /\ n \notin Standing(e)
    BY <1>1, <1>4 DEF Standing
  <2>2. IsFiniteSet(Standing(e))
    BY PaidStands, TotalIsNat
  <2>3. Adds(Money', Standing(e) \cup {n}) /\ Money'[n] = amount
    <3>1. Money'[n] = amount /\ amount \in Int
      BY <1>1, FinanceBoundsAssumption DEF Money, Amounts
    <3>2. \A p \in Standing(e) : Money'[p] \in Int
      <4>1. \A p \in Standing(e) : p \in DOMAIN payments /\ Money[p] \in Int
        BY PaidStands, MoneyIsPositive
      <4> QED BY <1>1, <4>1 DEF Money
    <3> QED BY <3>1, <3>2 DEF Adds
  <2>4. SumFunctionOnSet(Money', Standing(e) \cup {n}) = SumFunctionOnSet(Money', Standing(e)) + Money'[n]
    <3> HIDE DEF Money
    <3> QED BY <2>1, <2>2, <2>3, SumWith
  <2> QED BY <1>2, <2>1, <2>3, <2>4, PaidStandsNext
<1> QED BY <1>3, <1>4

LEMMA ReversalIsPaidBack ==
  ASSUME IInv, IInv', NEW p \in DOMAIN payments, payments[p].status = "POSTED",
         payments' = [payments EXCEPT ![p].status = "REVERSED"], NEW x, x = payments[p].bill.enrollment
  PROVE  /\ Paid(x)' \in Nat /\ Paid(x) \in Nat /\ Paid(x)' < Paid(x)
         /\ \A e : e # x => Paid(e)' = Paid(e)
<1>1. payments[p] \in PaymentRow
  BY DEF IInv, TypeOK
<1>2. /\ DOMAIN payments' = DOMAIN payments /\ payments'[p].status = "REVERSED"
      /\ payments'[p].bill = payments[p].bill /\ payments'[p].amount = payments[p].amount
      /\ \A q \in DOMAIN payments : q # p => payments'[q] = payments[q]
  BY <1>1 DEF PaymentRow
<1>3. \A P \in SUBSET DOMAIN payments : SumFunctionOnSet(Money', P) = Total(P)
  BY <1>2, TotalIsKept
<1>4. ASSUME NEW e, e # x PROVE Paid(e)' = Paid(e)
  <2>1. Standing(e)' = Standing(e)
    BY <1>2, <1>4 DEF Standing
  <2> QED BY <1>3, <2>1, PaidStands, PaidStandsNext
<1>5. Paid(x)' \in Nat /\ Paid(x) \in Nat /\ Paid(x)' < Paid(x)
  <2>1. Standing(x)' = Standing(x) \ {p} /\ p \in Standing(x)
    BY <1>2 DEF Standing
  <2>2. Standing(x) \in SUBSET DOMAIN payments /\ Standing(x) \ {p} \in SUBSET DOMAIN payments
    BY PaidStands
  <2>3. /\ IsFiniteSet(Standing(x)) /\ Adds(Money, Standing(x))
        /\ Total(Standing(x)) = SumFunctionOnSet(Money, Standing(x))
        /\ Total(Standing(x) \ {p}) = SumFunctionOnSet(Money, Standing(x) \ {p})
        /\ Total(Standing(x) \ {p}) \in Nat
    BY <2>2, TotalIsNat
  <2>4. SumFunctionOnSet(Money, Standing(x)) = Money[p] + SumFunctionOnSet(Money, Standing(x) \ {p})
    BY <2>1, <2>3, SumWithout
  <2>5. Money[p] \in Nat /\ Money[p] > 0
    BY MoneyIsPositive
  <2>6. Paid(x)' = Total(Standing(x) \ {p}) /\ Paid(x) = Total(Standing(x))
    BY <1>3, <2>1, <2>2, PaidStands, PaidStandsNext
  <2> QED BY <2>3, <2>4, <2>5, <2>6
<1> QED BY <1>4, <1>5

-----------------------------------------------------------------------------
(* Every step is one step of the account                                    *)

LEMMA SameAccount ==
  ASSUME IInv, IInv', DOMAIN bills' = DOMAIN bills, UNCHANGED <<payments, claims, credit>>
  PROVE  UNCHANGED Account!accountVars
<1>1. \A e : Charged(e)' = Charged(e) /\ Paid(e)' = Paid(e)
  BY SameBills, SamePaid
<1> QED BY <1>1 DEF Account!accountVars

LEMMA GenerateIsCharge ==
  ASSUME IInv, IInv', FiniteBills, NEW B \in SUBSET Bills, OncePerEnrollment(B), Generate(B)
  PROVE  Account!Charge
<1>1. \A e \in Enrollments : Charged(e)' >= Charged(e)
  BY GenerateBills
<1>2. UNCHANGED <<payments, claims, credit>> /\ \A e : Paid(e)' = Paid(e)
  BY SamePaid DEF Generate
<1> QED BY <1>1, <1>2 DEF Account!Charge

LEMMA SubmitIsClaim ==
  ASSUME IInv, IInv', NEW b, NEW amount \in Amounts, NEW reference, Submit(b, amount, reference)
  PROVE  \E c \in ClaimIds : Account!MakeClaim(c)
<1>1. PICK c : c = NextClaim /\ c \in ClaimIds /\ c \notin DOMAIN claims
  BY NextIsNew DEF Submit, NextClaim, IInv, OneRow
<1>2. PICK row : row.status = "PENDING" /\ row.amount = amount /\ claims' = Upsert(claims, OneRow(c, row))
  BY <1>1 DEF Submit
<1>3. UNCHANGED <<bills, payments, credit>>
  BY DEF Submit
<1>4. /\ DOMAIN claims' = DOMAIN claims \cup {c} /\ claims'[c] = row
      /\ \A d \in DOMAIN claims : claims'[d] = claims[d]
  BY <1>1, <1>2 DEF Upsert, OneRow
<1>5. \A e : Charged(e)' = Charged(e) /\ Paid(e)' = Paid(e)
  BY <1>3, SameBills, SamePaid
<1>6. amount > 0
  BY FinanceBoundsAssumption DEF Amounts
<1>7. Account!MakeClaim(c)
  BY <1>1, <1>2, <1>3, <1>4, <1>5, <1>6 DEF Account!MakeClaim, Account!OnlyAt
<1> QED BY <1>1, <1>7

LEMMA AdjustIsWaive ==
  ASSUME IInv, IInv', NEW e \in Enrollments, NEW amount \in Amounts, Adjust(e, amount)
  PROVE  Account!Waive(e)
<1>1. credit' = [credit EXCEPT ![e] = credit[e] + amount] /\ UNCHANGED <<bills, payments, claims>>
  BY DEF Adjust
<1>2. \A x : Charged(x)' = Charged(x) /\ Paid(x)' = Paid(x)
  BY <1>1, SameBills, SamePaid
<1>3. credit \in [Enrollments -> 0 .. MaxCredit] /\ credit[e] \in Nat /\ amount \in Nat /\ amount > 0
  BY FinanceBoundsAssumption DEF IInv, TypeOK, Amounts
<1>4. credit'[e] = credit[e] + amount /\ credit' = [credit EXCEPT ![e] = credit'[e]]
  BY <1>1, <1>3
<1> QED BY <1>1, <1>2, <1>3, <1>4 DEF Account!Waive, Account!OnlyAt

\* A payment moves the money of one enrollment, by its amount.
LEMMA PostIsReceive ==
  ASSUME IInv, IInv', FiniteBills', Calm', NEW b \in DOMAIN bills, NEW amount \in Amounts,
         NEW claim \in DOMAIN claims \cup {NoClaim}, Post(b, amount, claim), NEW status,
         bills' = [bills EXCEPT ![b] = status], UNCHANGED credit, NEW e, e = b.enrollment
  PROVE  Account!Receive(e) /\ e \in Enrollments /\ Paid(e)' = Paid(e) + amount
<1>1. e \in Enrollments
  BY DEF IInv, TypeOK, Bills, Invoices, Charges
<1>2. Paid(e)' = Paid(e) + amount /\ \A x : x # e => Paid(x)' = Paid(x)
  BY PostIsReceived
<1>3. Paid(e) \in Nat /\ amount \in Nat /\ amount > 0
  BY PaidStands, FinanceBoundsAssumption DEF Amounts
<1>4. \A x : Charged(x)' = Charged(x)
  <2>1. DOMAIN bills' = DOMAIN bills
    OBVIOUS
  <2> QED BY <2>1, SameBills
<1>5. Paid(e)' <= Charged(e)
  <2>1. (\A x \in Enrollments : Paid(x) <= Charged(x))'
    BY PaidIsCoveredNext
  <2> QED BY <1>1, <1>4, <2>1
<1> QED BY <1>1, <1>2, <1>3, <1>4, <1>5 DEF Account!Receive, Account!OnlyAt

LEMMA RecordCommitIsCash ==
  ASSUME IInv, IInv', FiniteBills', Calm, Calm', NEW w \in Workers, RecordCommit(w)
  PROVE  \E e \in Enrollments : Account!Cash(e)
<1>1. PICK b, amount, e : b = pending[w].bill /\ amount = pending[w].amount /\ e = b.enrollment
  OBVIOUS
<1>2. UNCHANGED <<claims, credit>>
  BY DEF RecordCommit
<1>3. Account!Receive(e) /\ e \in Enrollments
  BY <1>1, <1>2, RecordCommitPays, PostIsReceive
<1> QED BY <1>2, <1>3 DEF Account!Cash

LEMMA ReverseCommitIsReverse ==
  ASSUME IInv, IInv', Calm, NEW w \in Workers, ReverseCommit(w)
  PROVE  \E e \in Enrollments : Account!Reverse(e)
<1>1. PICK p, b, e : p = pending[w].payment /\ b = payments[p].bill /\ e = b.enrollment
  OBVIOUS
<1>2. /\ p \in DOMAIN payments /\ payments[p].status = "POSTED" /\ b \in DOMAIN bills
      /\ payments' = [payments EXCEPT ![p].status = "REVERSED"]
      /\ bills' = [bills EXCEPT ![b] = pending[w].status]
  BY <1>1, ReverseCommitPaysBack
<1>3. UNCHANGED <<claims, credit>>
  BY DEF ReverseCommit
<1>4. e \in Enrollments
  BY <1>1, <1>2 DEF IInv, TypeOK, Bills, Invoices, Charges
<1>5. Paid(e)' \in Nat /\ Paid(e) \in Nat /\ Paid(e)' < Paid(e) /\ \A x : x # e => Paid(x)' = Paid(x)
  BY <1>1, <1>2, ReversalIsPaidBack
<1>6. \A x : Charged(x)' = Charged(x)
  <2>1. DOMAIN bills' = DOMAIN bills
    BY <1>2
  <2> QED BY <2>1, SameBills
<1>7. Account!Reverse(e)
  <2>1. 0 <= Paid(e)'
    BY <1>5
  <2>2. [x \in Enrollments |-> Paid(x)'] = [[x \in Enrollments |-> Paid(x)] EXCEPT ![e] = Paid(e)']
    BY <1>4, <1>5
  <2> QED BY <1>3, <1>4, <1>5, <1>6, <2>1, <2>2 DEF Account!Reverse, Account!OnlyAt
<1> QED BY <1>4, <1>7

LEMMA VerifyCommitIsAccept ==
  ASSUME IInv, IInv', FiniteBills', Calm, Calm', NEW w \in Workers, VerifyCommit(w)
  PROVE  \E c \in ClaimIds : \E e \in Enrollments : Account!Accept(c, e)
<1>1. PICK c, b, amount, e : /\ c = pending[w].claim /\ b = pending[w].bill
                             /\ amount = claims[c].amount /\ e = b.enrollment
  OBVIOUS
<1>2. /\ c \in DOMAIN claims /\ claims[c].status = "PENDING"
      /\ b \in DOMAIN bills /\ amount \in Amounts /\ Post(b, amount, c)
      /\ bills' = [bills EXCEPT ![b] = pending[w].status]
  BY <1>1, VerifyCommitPays
<1>3. claims' = [claims EXCEPT ![c].status = "VERIFIED", ![c].bill = b] /\ UNCHANGED credit
  BY <1>1 DEF VerifyCommit
<1>4. Account!Receive(e) /\ e \in Enrollments /\ Paid(e)' = Paid(e) + amount
  BY <1>1, <1>2, <1>3, PostIsReceive
<1>5. c \in ClaimIds /\ claims[c] \in ClaimRow
  BY <1>2 DEF IInv, TypeOK
<1>6. /\ DOMAIN claims' = DOMAIN claims /\ claims'[c].status = "VERIFIED" /\ claims'[c].amount = amount
      /\ \A d \in DOMAIN claims : d # c => claims'[d] = claims[d]
  BY <1>1, <1>2, <1>3, <1>5 DEF ClaimRow
<1>7. Account!Accept(c, e)
  BY <1>1, <1>2, <1>4, <1>5, <1>6 DEF Account!Accept
<1> QED BY <1>4, <1>5, <1>7

LEMMA RejectCommitIsRefuse ==
  ASSUME IInv, IInv', Calm, NEW w \in Workers, RejectCommit(w)
  PROVE  \E c \in ClaimIds : Account!Refuse(c)
<1>1. PICK c : c = pending[w].claim
  OBVIOUS
<1>2. w \in DOMAIN pending /\ pending[w].op = "reject" /\ RequestOK(pending[w]) /\ Found(pending[w])
  BY DEF RejectCommit, Writing, IInv, Calm
<1>3. c \in DOMAIN claims /\ claims[c].status = "PENDING"
  BY <1>1, <1>2 DEF RequestOK, Found
<1>4. claims' = [claims EXCEPT ![c].status = "REJECTED"] /\ UNCHANGED <<bills, payments, credit>>
  BY <1>1 DEF RejectCommit
<1>5. c \in ClaimIds /\ claims[c] \in ClaimRow
  BY <1>3 DEF IInv, TypeOK
<1>6. /\ DOMAIN claims' = DOMAIN claims /\ claims'[c].status = "REJECTED" /\ claims'[c].amount = claims[c].amount
      /\ \A d \in DOMAIN claims : d # c => claims'[d] = claims[d]
  BY <1>3, <1>4, <1>5 DEF ClaimRow
<1>7. \A e : Charged(e)' = Charged(e) /\ Paid(e)' = Paid(e)
  BY <1>4, SameBills, SamePaid
<1>8. Account!Refuse(c)
  BY <1>3, <1>4, <1>5, <1>6, <1>7 DEF Account!Refuse
<1> QED BY <1>5, <1>8

\* A handler that only reads, or gives up, moves nothing.
LEMMA ReadMovesNothing ==
  ASSUME IInv, IInv', NEW w \in Workers, Read(w) \/ VerifyCheck(w) \/ Rollback(w)
  PROVE  UNCHANGED Account!accountVars
<1>1. UNCHANGED tables
  BY DEF Read, RecordRead, ReverseRead, VerifyRead, RejectRead, Begin, VerifyCheck, Rollback
<1> QED BY <1>1, SameAccount DEF tables

LEMMA StepOfTheAccount ==
  ASSUME SInv, SInv', [Next]_vars, ~ overlapped'
  PROVE  Account!AccountNext \/ UNCHANGED Account!accountVars
<1>1. IInv /\ IInv' /\ FiniteBills /\ FiniteBills' /\ Calm'
  BY DEF SInv
<1>2. ASSUME NEW w \in Workers, Read(w) \/ VerifyCheck(w) \/ Rollback(w)
      PROVE  UNCHANGED Account!accountVars
  BY <1>1, <1>2, ReadMovesNothing
<1>3. ASSUME NEW w \in Workers, RecordCommit(w) \/ ReverseCommit(w) \/ VerifyCommit(w) \/ RejectCommit(w)
      PROVE  Account!AccountNext
  <2>1. UNCHANGED overlapped
    BY <1>3 DEF RecordCommit, ReverseCommit, VerifyCommit, RejectCommit, End
  <2>2. Calm
    BY <2>1 DEF SInv
  <2> QED BY <1>1, <1>3, <2>2, RecordCommitIsCash, ReverseCommitIsReverse, VerifyCommitIsAccept,
             RejectCommitIsRefuse DEF Account!AccountNext
<1>4. ASSUME NEW fee, NEW E, GenerateInvoices(fee, E) PROVE Account!Charge
  BY <1>1, <1>4, InvoicesOncePerEnrollment, GenerateIsCharge DEF GenerateInvoices
<1>5. ASSUME NEW fee, NEW E, NEW period, GenerateCharges(fee, period, E) PROVE Account!Charge
  BY <1>1, <1>5, ChargesOncePerEnrollment, GenerateIsCharge DEF GenerateCharges
<1>6. ASSUME Insert PROVE Account!AccountNext
  <2>1. ASSUME NEW b, NEW amount \in Amounts, NEW reference, Submit(b, amount, reference)
        PROVE  Account!AccountNext
    BY <1>1, <2>1, SubmitIsClaim DEF Account!AccountNext
  <2>2. ASSUME NEW e \in Enrollments, NEW amount \in Amounts, Adjust(e, amount)
        PROVE  Account!AccountNext
    BY <1>1, <2>2, AdjustIsWaive DEF Account!AccountNext
  <2>3. Account!Charge => Account!AccountNext
    BY DEF Account!AccountNext
  <2> QED BY <1>4, <1>5, <1>6, <2>1, <2>2, <2>3 DEF Insert
<1>7. CASE UNCHANGED vars
  BY <1>1, <1>7, SameAccount DEF vars, tables
<1> QED BY <1>2, <1>3, <1>6, <1>7 DEF Next, Commit

LEMMA EmptyAccount == Init => Account!AccountInit
<1> SUFFICES ASSUME Init PROVE Account!AccountInit
  OBVIOUS
<1>1. DOMAIN bills = {} /\ DOMAIN claims = {} /\ credit = [e \in Enrollments |-> 0]
  BY DEF Init
<1>2. \A e : BillsOf(e) = {} /\ UNION {Posted(b) : b \in BillsOf(e)} = {}
  BY <1>1 DEF BillsOf
<1>3. \A e : Charged(e) = 0 /\ Paid(e) = 0
  BY <1>2, SumOfNone DEF Charged, Paid, Total
<1> QED BY <1>1, <1>3 DEF Account!AccountInit

(* The tables implement the account: every step of a handler that was not   *)
(* overlapped is one atomic operation of FeeAccount, or moves no money, for *)
(* any number of fees, bills, payments and claims.                          *)
THEOREM TablesImplementAccount == Spec => ImplementsAccount
<1>1. SInv /\ SInv' /\ [Next]_vars =>
        [~ overlapped' => (Account!AccountNext \/ UNCHANGED Account!accountVars)]_vars
  BY StepOfTheAccount
<1> QED BY <1>1, EmptyAccount, SInvHolds, PTL DEF Spec, ImplementsAccount

=============================================================================
