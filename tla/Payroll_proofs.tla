--------------------------- MODULE Payroll_proofs ---------------------------
(***************************************************************************)
(* For any number of payslips, advances, salaries and periods: whatever    *)
(* overlaps, what the advances were repaid is what the payslips were       *)
(* charged; and as long as no handler is overlapped, an advance is repaid  *)
(* once, a net is what its lines add up to and then stands, and salaries   *)
(* follow one another.                                                     *)
(***************************************************************************)
EXTENDS PayrollProperties, Sums

RowsTyped ==
  /\ period \in [Periods -> {"OPEN", "CLOSED"}]
  /\ salary \in Seq(Salary)
  /\ payslip \in Seq(Payslip)
  /\ advance \in Seq(Advance)

\* What a handler carries to its writes, whatever ran since it read.
Carries(r) ==
  CASE r.op = "raise" -> r.basic \in Basics /\ r.day \in 1..LastDay /\ r.current \in {0} \cup DOMAIN salary
    [] r.op = "create" -> r.period \in Periods /\ r.basic \in Basics
    [] r.op = "line" -> r.row \in DOMAIN payslip /\ r.type \in LineType /\ r.amount \in Nat
    [] r.op = "calculate" -> r.row \in DOMAIN payslip
    [] r.op = "store" -> /\ r.row \in DOMAIN payslip /\ r.before \in Int
                         /\ DOMAIN r.due \subseteq DOMAIN advance
                         /\ \A a \in DOMAIN r.due : r.due[a] \in Nat
    [] r.op = "transition" -> r.row \in DOMAIN payslip /\ r.to \in {"REVIEWED", "APPROVED", "PAID"}
    [] OTHER -> FALSE

TypeOK ==
  /\ RowsTyped
  /\ \A w \in DOMAIN pending : Carries(pending[w])
  /\ overlapped \in BOOLEAN

AdvancesOK ==
  \A a \in DOMAIN advance :
    /\ advance[a].repaid <= advance[a].amount
    /\ advance[a].status = "COMPLETED" <=> advance[a].repaid = advance[a].amount

\* Only the last salary is open.
SalariesOK ==
  /\ \A i, j \in DOMAIN salary : i < j => salary[i].to # Open /\ salary[i].to <= salary[j].from
  /\ salary # << >> => salary[Len(salary)].to = Open

Balanced(p) ==
  IF p.status = "DRAFT" THEN p.net = p.basic /\ p.repaid = 0
  ELSE p.net = p.basic + p.plus - p.minus - p.repaid

NetsOK == \A s \in DOMAIN payslip : Balanced(payslip[s])

\* What a handler found when it read is still so.
Found(r) ==
  CASE r.op = "raise" ->
         \/ r.current = 0 /\ \A i \in DOMAIN salary : salary[i].to # Open
         \/ r.current \in DOMAIN salary /\ salary[r.current].to = Open /\ salary[r.current].from < r.day
    [] r.op = "create" -> TRUE
    [] r.op \in {"line", "calculate"} -> payslip[r.row].status = "DRAFT"
    [] r.op = "store" ->
         /\ payslip[r.row].status = "DRAFT"
         /\ r.before = payslip[r.row].basic + payslip[r.row].plus - payslip[r.row].minus
         /\ r.due = Due /\ r.cleared = Cleared
    [] r.op = "transition" -> payslip[r.row].status = From(r.to)
    [] OTHER -> FALSE

PendingOK == \A w \in DOMAIN pending : Found(pending[w]) /\ \A v \in DOMAIN pending : v = w

Alone == AdvancesOK /\ SalariesOK /\ NetsOK /\ PendingOK

IInv == TypeOK /\ RepaymentsAreCharged /\ (~ overlapped => Alone)

-----------------------------------------------------------------------------
(* Tables *)

\* No row is ever deleted.
Grow ==
  /\ DOMAIN salary \subseteq DOMAIN salary'
  /\ DOMAIN payslip \subseteq DOMAIN payslip'
  /\ DOMAIN advance \subseteq DOMAIN advance'

LEMMA RowAdded ==
  ASSUME NEW Row, NEW table \in Seq(Row), NEW r \in Row, NEW new, new = Append(table, r)
  PROVE  /\ new \in Seq(Row) /\ Len(table) \in Nat /\ Len(table) + 1 \notin DOMAIN table
         /\ DOMAIN table = 1..Len(table) /\ DOMAIN new = DOMAIN table \cup {Len(table) + 1}
         /\ new[Len(table) + 1] = r /\ \A i \in DOMAIN table : new[i] = table[i]
<1>1. PICK n \in Nat : n = Len(table) /\ DOMAIN table = 1..n
  OBVIOUS
<1>2. /\ new \in Seq(Row) /\ DOMAIN new = 1..(n + 1)
      /\ new[n + 1] = r /\ \A i \in 1..n : new[i] = table[i]
  BY <1>1
<1>3. 1..(n + 1) = (1..n) \cup {n + 1} /\ n + 1 \notin 1..n
  BY <1>1
<1> QED BY <1>1, <1>2, <1>3

LEMMA RowChanged ==
  ASSUME NEW Row, NEW table \in Seq(Row), NEW i \in DOMAIN table, NEW r \in Row,
         NEW new, new = [table EXCEPT ![i] = r]
  PROVE  /\ new \in Seq(Row) /\ DOMAIN new = DOMAIN table
         /\ new[i] = r /\ \A j \in DOMAIN table : j # i => new[j] = table[j]
<1>1. PICK n \in Nat : n = Len(table) /\ DOMAIN table = 1..n
  OBVIOUS
<1>2. DOMAIN new = 1..n /\ new[i] = r /\ \A j \in 1..n : j # i => new[j] = table[j]
  BY <1>1
<1>3. \A j \in 1..n : new[j] \in Row
  BY <1>1, <1>2
<1> QED BY <1>1, <1>2, <1>3

LEMMA RowsCarried == ASSUME Grow PROVE \A r : Carries(r) => Carries(r)'
BY DEF Grow, Carries

LEMMA BasicsAreNumbers == Basics \subseteq Int
<1>1. Basics \subseteq Nat
  BY PayrollAssumption
<1> QED BY <1>1

LEMMA PayslipFigures ==
  ASSUME NEW p \in Payslip
  PROVE  p.basic \in Int /\ p.plus \in Int /\ p.minus \in Int
<1>1. p.basic \in Basics /\ p.plus \in Nat /\ p.minus \in Nat
  BY DEF Payslip
<1>2. p.basic \in Int
  BY <1>1, BasicsAreNumbers
<1>3. p.plus \in Int /\ p.minus \in Int
  BY <1>1
<1> QED BY <1>2, <1>3

LEMMA FiniteTable ==
  ASSUME NEW Row, NEW table \in Seq(Row)
  PROVE  IsFiniteSet(DOMAIN table)
<1>1. PICK n \in Nat : n = Len(table) /\ DOMAIN table = 1..n
  OBVIOUS
<1>2. IsFiniteSet(1..n)
  BY FS_Interval
<1> QED BY <1>1, <1>2

-----------------------------------------------------------------------------
(* What the payslips were charged and what the advances were repaid *)

Charges == [s \in DOMAIN payslip |-> payslip[s].repaid]
Repayments == [a \in DOMAIN advance |-> advance[a].repaid]

LEMMA SumsTyped ==
  ASSUME RowsTyped
  PROVE  /\ IsFiniteSet(DOMAIN payslip) /\ IsFiniteSet(DOMAIN advance)
         /\ Adds(Charges, DOMAIN payslip) /\ Adds(Repayments, DOMAIN advance)
<1>1. IsFiniteSet(DOMAIN payslip) /\ IsFiniteSet(DOMAIN advance)
  BY FiniteTable DEF RowsTyped
<1>2. ASSUME NEW s \in DOMAIN payslip PROVE Charges[s] \in Int
  <2>1. payslip[s] \in Payslip
    BY DEF RowsTyped
  <2> QED BY <2>1 DEF Payslip, Charges
<1>3. ASSUME NEW a \in DOMAIN advance PROVE Repayments[a] \in Int
  <2>1. advance[a] \in Advance
    BY DEF RowsTyped
  <2> QED BY <2>1 DEF Advance, Repayments
<1> QED BY <1>1, <1>2, <1>3 DEF Adds

\* Whatever touches no repayment keeps both sums.
LEMMA SumsAreKept ==
  ASSUME RepaymentsAreCharged, UNCHANGED advance, DOMAIN payslip' = DOMAIN payslip,
         \A s \in DOMAIN payslip : payslip'[s].repaid = payslip[s].repaid
  PROVE  RepaymentsAreCharged'
<1>1. Charges' = Charges
  BY DEF Charges
<1>2. Repayments' = Repayments
  BY DEF Repayments
<1> QED BY <1>1, <1>2 DEF RepaymentsAreCharged, Charges, Repayments

-----------------------------------------------------------------------------
(* Handlers that begin and end *)

\* A handler that begins is alone if nothing was overlapped.
LEMMA BeginKeeps ==
  ASSUME IInv, NEW w \in Workers, NEW r, Begin(w, r), UNCHANGED tables, Carries(r), ~ overlapped' => Found(r)
  PROVE  IInv'
<1>1. overlapped' \in BOOLEAN /\ (~ overlapped' => ~ overlapped /\ DOMAIN pending = {})
  BY DEF IInv, TypeOK, Begin, Disturb
<1>2. pending' = [k \in DOMAIN pending \cup {w} |-> IF k \in {w} THEN r ELSE pending[k]]
  BY DEF Begin, Upsert, OneRow
<1>3. PICK q : q = r
  OBVIOUS
<1>4. /\ \A v \in DOMAIN pending' : pending'[v] = q \/ (v \in DOMAIN pending /\ pending'[v] = pending[v])
      /\ ~ overlapped' => \A v \in DOMAIN pending' : v = w /\ pending'[v] = q
  BY <1>1, <1>2, <1>3
<1>5. UNCHANGED <<period, salary, payslip, advance>>
  BY DEF tables
<1>6. TypeOK'
  <2>1. RowsTyped'
    BY <1>5 DEF IInv, TypeOK, RowsTyped
  <2>2. ASSUME NEW v \in DOMAIN pending' PROVE Carries(pending[v])'
    <3>1. PICK p : p = pending'[v]
      OBVIOUS
    <3>2. Carries(p)
      BY <1>3, <1>4, <3>1 DEF IInv, TypeOK
    <3>3. Carries(p)'
      BY <1>5, <3>2, RowsCarried DEF Grow
    <3> QED BY <3>1, <3>3 DEF Carries
  <2> QED BY <1>1, <2>1, <2>2 DEF TypeOK
<1>7. RepaymentsAreCharged'
  BY <1>5, SumsAreKept DEF IInv
<1>8. ASSUME ~ overlapped' PROVE Alone'
  <2>1. Found(q) => Found(q)'
    BY <1>5 DEF Found, Due, Cleared, Remaining, Installment, From
  <2>2. \A v \in DOMAIN pending' : pending'[v] = q
    BY <1>4, <1>8
  <2>3. \A v \in DOMAIN pending' : Found(pending[v])'
    BY <1>3, <1>8, <2>1, <2>2 DEF Found, Due, Cleared, Remaining, Installment, From
  <2>4. PendingOK'
    BY <1>4, <1>8, <2>3 DEF PendingOK
  <2>5. AdvancesOK' /\ SalariesOK' /\ NetsOK'
    BY <1>1, <1>5, <1>8 DEF IInv, Alone, AdvancesOK, SalariesOK, NetsOK, Balanced
  <2> QED BY <2>4, <2>5 DEF Alone
<1> QED BY <1>6, <1>7, <1>8 DEF IInv

LEMMA CarriedOn ==
  ASSUME TypeOK, Grow, DOMAIN pending' \subseteq DOMAIN pending,
         \A v \in DOMAIN pending' : pending'[v] = pending[v]
  PROVE  \A v \in DOMAIN pending' : Carries(pending[v])'
<1> SUFFICES ASSUME NEW v \in DOMAIN pending' PROVE Carries(pending[v])'
  OBVIOUS
<1>1. PICK p : p = pending'[v]
  OBVIOUS
<1>2. Carries(p)
  BY <1>1 DEF TypeOK
<1>3. Carries(p)'
  BY <1>2, RowsCarried
<1> QED BY <1>1, <1>3 DEF Carries

\* A handler that ends leaves nobody behind.
LEMMA EndKeeps ==
  ASSUME IInv, NEW w \in DOMAIN pending, End(w), RowsTyped', Grow, RepaymentsAreCharged',
         ~ overlapped => AdvancesOK' /\ SalariesOK' /\ NetsOK'
  PROVE  IInv'
<1>1. overlapped' = overlapped /\ pending' = [k \in DOMAIN pending \ {w} |-> pending[k]]
  BY DEF End, Without
<1>2. TypeOK'
  <2>1. \A v \in DOMAIN pending' : Carries(pending[v])'
    BY <1>1, CarriedOn DEF IInv
  <2> QED BY <1>1, <2>1 DEF IInv, TypeOK
<1>3. ASSUME ~ overlapped PROVE Alone'
  <2>1. DOMAIN pending' = {}
    BY <1>1, <1>3 DEF IInv, Alone, PendingOK
  <2> QED BY <1>3, <2>1 DEF Alone, PendingOK
<1> QED BY <1>1, <1>2, <1>3 DEF IInv

\* Whatever happens while a handler is in progress overlaps it.
LEMMA NowKeeps ==
  ASSUME IInv, Disturb, UNCHANGED pending, RowsTyped', Grow, RepaymentsAreCharged',
         ~ overlapped => AdvancesOK' /\ SalariesOK' /\ NetsOK'
  PROVE  IInv'
<1>1. overlapped' \in BOOLEAN /\ (~ overlapped' => ~ overlapped /\ DOMAIN pending' = {})
  BY DEF IInv, TypeOK, Disturb
<1>2. DOMAIN pending' = {} => PendingOK'
  BY DEF PendingOK
<1>3. TypeOK'
  <2>1. \A v \in DOMAIN pending' : Carries(pending[v])'
    BY CarriedOn DEF IInv
  <2> QED BY <1>1, <2>1 DEF TypeOK
<1> QED BY <1>1, <1>2, <1>3 DEF IInv, Alone

\* What a handler carries and, if it is the only one, has found.
LEMMA FoundHolds ==
  ASSUME IInv, NEW w \in DOMAIN pending
  PROVE  RowsTyped /\ RepaymentsAreCharged /\ Carries(pending[w]) /\ (~ overlapped => Alone /\ Found(pending[w]))
BY DEF IInv, TypeOK, Alone, PendingOK

-----------------------------------------------------------------------------
(* One lemma per step *)

LEMMA InitHolds == Init => IInv
<1> SUFFICES ASSUME Init PROVE IInv
  OBVIOUS
<1>1. DOMAIN pending = {} /\ overlapped = FALSE
  BY DEF Init, Without
<1>2. salary = << >> /\ payslip = << >> /\ advance = << >>
  BY DEF Init
<1>3. TypeOK
  <2>1. period \in [Periods -> {"OPEN", "CLOSED"}]
    BY DEF Init
  <2>2. salary \in Seq(Salary) /\ payslip \in Seq(Payslip) /\ advance \in Seq(Advance)
    BY <1>2
  <2> QED BY <1>1, <2>1, <2>2 DEF TypeOK, RowsTyped
<1>4. RepaymentsAreCharged
  <2>1. Charges = Repayments
    BY <1>2 DEF Charges, Repayments
  <2> QED BY <2>1 DEF RepaymentsAreCharged, Charges, Repayments
<1>5. AdvancesOK /\ NetsOK /\ PendingOK
  BY <1>1, <1>2 DEF AdvancesOK, NetsOK, PendingOK
<1>6. SalariesOK
  BY <1>2 DEF SalariesOK
<1> QED BY <1>3, <1>4, <1>5, <1>6 DEF IInv, Alone

LEMMA ReadsKeep ==
  ASSUME IInv, NEW w \in Workers, Reads(w)
  PROVE  IInv'
<1>1. ASSUME NEW basic \in Basics, NEW day \in 1..LastDay, RaiseRead(w, basic, day) PROVE IInv'
  <2>1. PICK current :
          /\ \/ current = 0 /\ \A i \in DOMAIN salary : salary[i].to # Open
             \/ current \in DOMAIN salary /\ salary[current].to = Open /\ salary[current].from < day
          /\ Begin(w, [op |-> "raise", basic |-> basic, day |-> day, current |-> current])
    BY <1>1 DEF RaiseRead
  <2>2. /\ Carries([op |-> "raise", basic |-> basic, day |-> day, current |-> current])
        /\ Found([op |-> "raise", basic |-> basic, day |-> day, current |-> current])
    BY <2>1 DEF Carries, Found
  <2> QED BY <1>1, <2>1, <2>2, BeginKeeps DEF RaiseRead
<1>2. ASSUME NEW p \in Periods, NEW given, CreateRead(w, p, given) PROVE IInv'
  <2>1. PICK basic \in Basics : Begin(w, [op |-> "create", period |-> p, basic |-> basic])
    <3>1. CASE given \in Basics
      BY <1>2, <3>1, PayrollAssumption DEF CreateRead
    <3>2. ASSUME NEW i \in Current, Begin(w, [op |-> "create", period |-> p, basic |-> salary[i].basic])
          PROVE  \E basic \in Basics : Begin(w, [op |-> "create", period |-> p, basic |-> basic])
      <4>1. salary[i] \in Salary
        BY DEF Current, IInv, TypeOK, RowsTyped
      <4> QED BY <3>2, <4>1 DEF Salary
    <3> QED BY <1>2, <3>1, <3>2 DEF CreateRead
  <2>2. /\ Carries([op |-> "create", period |-> p, basic |-> basic])
        /\ Found([op |-> "create", period |-> p, basic |-> basic])
    BY DEF Carries, Found
  <2> QED BY <1>2, <2>1, <2>2, BeginKeeps DEF CreateRead
<1>3. ASSUME NEW s \in DOMAIN payslip, NEW type \in LineTypes, NEW amount \in LineAmounts,
             AddLineRead(w, s, type, amount)
      PROVE  IInv'
  <2>1. Carries([op |-> "line", row |-> s, type |-> type, amount |-> amount])
    BY PayrollAssumption DEF Carries
  <2>2. Found([op |-> "line", row |-> s, type |-> type, amount |-> amount])
    BY <1>3 DEF Found, AddLineRead
  <2> QED BY <1>3, <2>1, <2>2, BeginKeeps DEF AddLineRead
<1>4. ASSUME NEW s \in DOMAIN payslip, CalculateCheck(w, s) PROVE IInv'
  <2>1. Carries([op |-> "calculate", row |-> s]) /\ Found([op |-> "calculate", row |-> s])
    BY <1>4 DEF Carries, Found, CalculateCheck
  <2> QED BY <1>4, <2>1, BeginKeeps DEF CalculateCheck
<1>5. ASSUME NEW s \in DOMAIN payslip, NEW to \in {"REVIEWED", "APPROVED", "PAID"}, TransitionRead(w, s, to)
      PROVE  IInv'
  <2>1. /\ Carries([op |-> "transition", row |-> s, to |-> to])
        /\ Found([op |-> "transition", row |-> s, to |-> to])
    BY <1>5 DEF Carries, Found, TransitionRead
  <2> QED BY <1>5, <2>1, BeginKeeps DEF TransitionRead
<1> QED BY <1>1, <1>2, <1>3, <1>4, <1>5 DEF Reads

LEMMA RaiseWriteIsKept ==
  ASSUME IInv, NEW w, RaiseWrite(w)
  PROVE  IInv'
<1>1. w \in DOMAIN pending /\ pending[w].op = "raise" /\ End(w) /\ UNCHANGED <<period, payslip, advance>>
  BY DEF RaiseWrite, Writing
<1>2. PICK r : r = pending[w]
  OBVIOUS
<1>3. r.basic \in Basics /\ r.day \in 1..LastDay /\ r.day \in Nat /\ r.day # Open
  <2>1. r.basic \in Basics /\ r.day \in 1..LastDay
    BY <1>1, <1>2, FoundHolds DEF Carries
  <2> QED BY <2>1, PayrollAssumption DEF Open
<1>4. PICK n \in Nat : n = Len(salary) /\ DOMAIN salary = 1..n /\ \A i \in 1..n : salary[i] \in Salary
  BY DEF IInv, TypeOK, RowsTyped
<1> DEFINE closed == [i \in 1..n |-> IF i = r.current THEN [salary[i] EXCEPT !.to = r.day] ELSE salary[i]]
           new == [basic |-> r.basic, from |-> r.day, to |-> Open]
<1>5. new \in Salary /\ new.from = r.day /\ new.to = Open
  BY <1>3, PayrollAssumption DEF Salary, Open
<1>6. \A i \in 1..n : [salary[i] EXCEPT !.to = r.day] \in Salary
  <2>1. r.day \in 0..LastDay
    BY <1>3, PayrollAssumption
  <2> QED BY <1>4, <2>1 DEF Salary
<1>7. closed \in Seq(Salary) /\ Len(closed) = n /\ DOMAIN closed = 1..n
  BY <1>4, <1>6
<1>8. \A i \in 1..n : /\ closed[i].from = salary[i].from
                      /\ closed[i].to = IF i = r.current THEN r.day ELSE salary[i].to
  BY <1>4 DEF Salary
<1>9. salary' = Append(closed, new)
  BY <1>2, <1>4 DEF RaiseWrite
<1> HIDE DEF closed, new
<1>10. /\ salary' \in Seq(Salary) /\ Len(salary') = n + 1 /\ DOMAIN salary' = 1..(n + 1)
       /\ salary'[n + 1] = new /\ \A i \in 1..n : salary'[i] = closed[i]
  BY <1>4, <1>5, <1>7, <1>9
<1>11. RowsTyped' /\ Grow
  BY <1>1, <1>4, <1>10 DEF IInv, TypeOK, RowsTyped, Grow
<1>12. RepaymentsAreCharged'
  BY <1>1, SumsAreKept DEF IInv
<1>13. ASSUME ~ overlapped PROVE AdvancesOK' /\ SalariesOK' /\ NetsOK'
  <2>1. /\ \A i, j \in 1..n : i < j => salary[i].to # Open /\ salary[i].to <= salary[j].from
        /\ n # 0 => salary[n].to = Open
    BY <1>4, <1>13 DEF IInv, Alone, SalariesOK
  <2>2. \/ r.current = 0 /\ \A i \in 1..n : salary[i].to # Open
        \/ r.current \in 1..n /\ salary[r.current].to = Open /\ salary[r.current].from < r.day
    BY <1>1, <1>2, <1>4, <1>13, FoundHolds DEF Found
  <2>3. n # 0 => r.current = n
    <3> SUFFICES ASSUME n # 0 PROVE r.current = n
      OBVIOUS
    <3>1. n \in 1..n /\ salary[n].to = Open
      BY <1>4, <2>1
    <3>2. r.current \in 1..n /\ salary[r.current].to = Open
      BY <2>2, <3>1
    <3> QED BY <1>4, <2>1, <3>1, <3>2
  <2>4. ASSUME NEW i \in 1..(n + 1), NEW j \in 1..(n + 1), i < j
        PROVE  salary'[i].to # Open /\ salary'[i].to <= salary'[j].from
    <3>1. i \in 1..n
      BY <1>4, <2>4
    <3>2. CASE j = n + 1
      <4>1. CASE i = n
        BY <1>3, <1>4, <1>5, <1>8, <1>10, <2>3, <3>1, <3>2, <4>1
      <4>2. CASE i < n
        <5>1. salary[i].to # Open /\ salary[i].to <= salary[n].from /\ n \in 1..n /\ r.current = n
          BY <1>4, <2>1, <2>3, <3>1, <4>2
        <5>2. salary[n].from < r.day
          BY <1>3, <2>2, <5>1
        <5>3. salary'[i].to = salary[i].to /\ salary'[j].from = r.day
          BY <1>5, <1>8, <1>10, <3>1, <3>2, <4>2, <5>1
        <5>4. salary[i].to \in Nat /\ salary[n].from \in Nat
          BY <1>4, <3>1, <5>1, PayrollAssumption DEF Salary
        <5> QED BY <1>3, <5>1, <5>2, <5>3, <5>4
      <4> QED BY <1>4, <3>1, <4>1, <4>2
    <3>3. CASE j # n + 1
      <4>1. j \in 1..n /\ i # n
        BY <1>4, <2>4, <3>3
      <4> QED BY <1>4, <1>8, <1>10, <2>1, <2>3, <2>4, <3>1, <4>1
    <3> QED BY <3>2, <3>3
  <2>5. SalariesOK'
    BY <1>4, <1>5, <1>10, <2>4 DEF SalariesOK
  <2>6. AdvancesOK' /\ NetsOK'
    BY <1>1, <1>13 DEF IInv, Alone, AdvancesOK, NetsOK, Balanced
  <2> QED BY <2>5, <2>6
<1> QED BY <1>1, <1>11, <1>12, <1>13, EndKeeps

LEMMA CreateWriteKeeps ==
  ASSUME IInv, NEW w, CreateWrite(w)
  PROVE  IInv' /\ \A s \in DOMAIN payslip : payslip'[s] = payslip[s]
<1>1. w \in DOMAIN pending /\ pending[w].op = "create" /\ End(w) /\ UNCHANGED <<period, salary, advance>>
  BY DEF CreateWrite, Writing
<1>2. pending[w].period \in Periods /\ pending[w].basic \in Basics
  BY <1>1, FoundHolds DEF Carries
<1>3. PICK p \in Payslip : p.repaid = 0 /\ Balanced(p) /\ payslip' = Append(payslip, p)
  <2>1. PICK b : b = pending[w].basic
    OBVIOUS
  <2>2. PICK p : p = [period |-> pending[w].period, basic |-> b, plus |-> 0, minus |-> 0, other |-> 0,
                      lines |-> 0, repaid |-> 0, net |-> b, status |-> "DRAFT"]
    OBVIOUS
  <2>3. p \in Payslip
    <3>1. b \in Basics /\ b \in Int
      BY <1>2, <2>1, BasicsAreNumbers
    <3>2. PICK q \in Periods : q = pending[w].period
      BY <1>2
    <3>3. p = [period |-> q, basic |-> b, plus |-> 0, minus |-> 0, other |-> 0,
               lines |-> 0, repaid |-> 0, net |-> b, status |-> "DRAFT"]
      BY <2>2, <3>2
    <3> QED BY <3>1, <3>3 DEF Payslip, Stage
  <2>4. p.repaid = 0 /\ Balanced(p)
    BY <2>2 DEF Balanced
  <2>5. payslip' = Append(payslip, p)
    BY <2>1, <2>2 DEF CreateWrite
  <2> QED BY <2>3, <2>4, <2>5
<1>4. PICK n \in Nat : n = Len(payslip) + 1
  BY DEF IInv, TypeOK, RowsTyped
<1>5. /\ payslip' \in Seq(Payslip) /\ n \notin DOMAIN payslip /\ DOMAIN payslip' = DOMAIN payslip \cup {n}
      /\ payslip'[n] = p /\ \A s \in DOMAIN payslip : payslip'[s] = payslip[s]
  BY <1>3, <1>4, RowAdded DEF IInv, TypeOK, RowsTyped
<1>6. RowsTyped' /\ Grow
  BY <1>1, <1>5 DEF IInv, TypeOK, RowsTyped, Grow
<1>7. RepaymentsAreCharged'
  <2>1. IsFiniteSet(DOMAIN Charges) /\ Adds(Charges, DOMAIN Charges) /\ DOMAIN Charges = DOMAIN payslip
    BY SumsTyped DEF Charges, IInv, TypeOK
  <2>2. /\ DOMAIN Charges' = DOMAIN Charges \cup {n} /\ Charges'[n] = 0
        /\ \A s \in DOMAIN Charges : Charges'[s] = Charges[s]
    BY <1>3, <1>5 DEF Charges
  <2>3. SumFunction(Charges') = SumFunction(Charges)
    BY <1>5, <2>1, <2>2, SumOfLonger
  <2>4. Repayments' = Repayments
    BY <1>1 DEF Repayments
  <2> QED BY <2>3, <2>4 DEF IInv, RepaymentsAreCharged, Charges, Repayments
<1>8. ASSUME ~ overlapped PROVE AdvancesOK' /\ SalariesOK' /\ NetsOK'
  <2>1. AdvancesOK' /\ SalariesOK'
    BY <1>1, <1>8 DEF IInv, Alone, AdvancesOK, SalariesOK
  <2>2. NetsOK'
    BY <1>3, <1>5, <1>8 DEF IInv, Alone, NetsOK, Balanced
  <2> QED BY <2>1, <2>2
<1> QED BY <1>1, <1>5, <1>6, <1>7, <1>8, EndKeeps

LEMMA AddLineWriteKeeps ==
  ASSUME IInv, NEW w, AddLineWrite(w)
  PROVE  /\ IInv'
         /\ ~ overlapped => \A s \in DOMAIN payslip : payslip[s].status # "DRAFT" => payslip'[s] = payslip[s]
<1>1. w \in DOMAIN pending /\ pending[w].op = "line" /\ End(w) /\ UNCHANGED <<period, salary, advance>>
  BY DEF AddLineWrite, Writing
<1>2. PICK s \in DOMAIN payslip : s = pending[w].row /\ payslip[s] \in Payslip
  BY <1>1, FoundHolds DEF Carries, RowsTyped
<1>3. pending[w].type \in LineType /\ pending[w].amount \in Nat
  BY <1>1, FoundHolds DEF Carries
<1>4. PICK a \in Nat, b \in Nat, c \in Nat, d \in Nat :
        payslip' = [payslip EXCEPT ![s] = [payslip[s] EXCEPT !.plus = a, !.minus = b, !.other = c, !.lines = d]]
  <2> DEFINE Plus(type) == IF pending[w].type = type THEN pending[w].amount ELSE 0
  <2>2. Plus("plus") \in Nat /\ Plus("minus") \in Nat /\ Plus("other") \in Nat
    BY <1>3
  <2>3. /\ payslip[s].plus \in Nat /\ payslip[s].minus \in Nat /\ payslip[s].other \in Nat
        /\ payslip[s].lines \in Nat
    BY <1>2 DEF Payslip
  <2>4. /\ payslip[s].plus + Plus("plus") \in Nat /\ payslip[s].minus + Plus("minus") \in Nat
        /\ payslip[s].other + Plus("other") \in Nat /\ payslip[s].lines + 1 \in Nat
    BY <2>2, <2>3
  <2>5. payslip' = [payslip EXCEPT ![s] =
          [payslip[s] EXCEPT !.plus = payslip[s].plus + Plus("plus"), !.minus = payslip[s].minus + Plus("minus"),
                             !.other = payslip[s].other + Plus("other"), !.lines = payslip[s].lines + 1]]
    BY <1>2 DEF AddLineWrite
  <2> HIDE DEF Plus
  <2> QED BY <2>4, <2>5
<1>5. PICK q : q = [payslip[s] EXCEPT !.plus = a, !.minus = b, !.other = c, !.lines = d]
  OBVIOUS
<1>6. q \in Payslip
  BY <1>2, <1>5 DEF Payslip
<1>7. /\ q.status = payslip[s].status /\ q.net = payslip[s].net /\ q.basic = payslip[s].basic
      /\ q.repaid = payslip[s].repaid
  BY <1>2, <1>5 DEF Payslip
<1>8. payslip' = [payslip EXCEPT ![s] = q]
  BY <1>4, <1>5
<1>9. /\ payslip' \in Seq(Payslip) /\ DOMAIN payslip' = DOMAIN payslip
      /\ payslip'[s] = q /\ \A u \in DOMAIN payslip : u # s => payslip'[u] = payslip[u]
  BY <1>6, <1>8, RowChanged DEF IInv, TypeOK, RowsTyped
<1>10. RowsTyped' /\ Grow
  BY <1>1, <1>9 DEF IInv, TypeOK, RowsTyped, Grow
<1>11. RepaymentsAreCharged'
  BY <1>1, <1>7, <1>9, SumsAreKept DEF IInv
<1>12. ASSUME ~ overlapped
       PROVE  /\ AdvancesOK' /\ SalariesOK' /\ NetsOK'
              /\ \A u \in DOMAIN payslip : payslip[u].status # "DRAFT" => payslip'[u] = payslip[u]
  <2>1. Alone /\ payslip[s].status = "DRAFT"
    BY <1>1, <1>2, <1>12, FoundHolds DEF Found
  <2>2. Balanced(q)
    BY <1>7, <2>1 DEF Alone, NetsOK, Balanced
  <2>3. NetsOK'
    BY <1>9, <2>1, <2>2 DEF Alone, NetsOK, Balanced
  <2>4. AdvancesOK' /\ SalariesOK'
    BY <1>1, <2>1 DEF Alone, AdvancesOK, SalariesOK
  <2> QED BY <1>9, <2>1, <2>3, <2>4
<1> QED BY <1>1, <1>10, <1>11, <1>12, EndKeeps

LEMMA TransitionWriteKeeps ==
  ASSUME IInv, NEW w, TransitionWrite(w)
  PROVE  /\ IInv'
         /\ ~ overlapped => \A s \in DOMAIN payslip :
              /\ payslip'[s].net = payslip[s].net /\ payslip'[s].repaid = payslip[s].repaid
              /\ payslip'[s].lines = payslip[s].lines
              /\ payslip[s].status = "PAID" => payslip'[s] = payslip[s]
<1>1. w \in DOMAIN pending /\ pending[w].op = "transition" /\ End(w) /\ UNCHANGED <<period, salary, advance>>
  BY DEF TransitionWrite, Writing
<1>2. PICK s \in DOMAIN payslip : s = pending[w].row /\ payslip[s] \in Payslip
  BY <1>1, FoundHolds DEF Carries, RowsTyped
<1>3. PICK to \in {"REVIEWED", "APPROVED", "PAID"} : to = pending[w].to
  BY <1>1, FoundHolds DEF Carries
<1>4. PICK q : q = [payslip[s] EXCEPT !.status = to]
  OBVIOUS
<1>5. payslip' = [payslip EXCEPT ![s] = q]
  BY <1>2, <1>3, <1>4 DEF TransitionWrite
<1>6. q \in Payslip
  BY <1>2, <1>4 DEF Payslip, Stage
<1>7. /\ q.net = payslip[s].net /\ q.repaid = payslip[s].repaid /\ q.lines = payslip[s].lines /\ q.status = to
      /\ q.basic = payslip[s].basic /\ q.plus = payslip[s].plus /\ q.minus = payslip[s].minus
  BY <1>2, <1>4 DEF Payslip
<1>8. /\ payslip' \in Seq(Payslip) /\ DOMAIN payslip' = DOMAIN payslip
      /\ payslip'[s] = q /\ \A u \in DOMAIN payslip : u # s => payslip'[u] = payslip[u]
  BY <1>5, <1>6, RowChanged DEF IInv, TypeOK, RowsTyped
<1>9. RowsTyped' /\ Grow
  BY <1>1, <1>8 DEF IInv, TypeOK, RowsTyped, Grow
<1>10. RepaymentsAreCharged'
  BY <1>1, <1>7, <1>8, SumsAreKept DEF IInv
<1>11. ASSUME ~ overlapped
       PROVE  /\ AdvancesOK' /\ SalariesOK' /\ NetsOK'
              /\ \A u \in DOMAIN payslip :
                   /\ payslip'[u].net = payslip[u].net /\ payslip'[u].repaid = payslip[u].repaid
                   /\ payslip'[u].lines = payslip[u].lines
                   /\ payslip[u].status = "PAID" => payslip'[u] = payslip[u]
  <2>1. Alone /\ payslip[s].status = From(to)
    BY <1>1, <1>2, <1>3, <1>11, FoundHolds DEF Found
  <2>2. payslip[s].status # "PAID" /\ payslip[s].status # "DRAFT"
    BY <2>1 DEF From
  <2>3. Balanced(q)
    BY <1>7, <2>1, <2>2 DEF Alone, NetsOK, Balanced
  <2>4. NetsOK'
    BY <1>8, <2>1, <2>3 DEF Alone, NetsOK, Balanced
  <2>5. AdvancesOK' /\ SalariesOK'
    BY <1>1, <2>1 DEF Alone, AdvancesOK, SalariesOK
  <2> QED BY <1>7, <1>8, <2>2, <2>4, <2>5
<1> QED BY <1>1, <1>9, <1>10, <1>11, EndKeeps

\* What is due of an advance, and what is left of it then.
LEMMA Repaying ==
  ASSUME RowsTyped, NEW a \in DOMAIN advance
  PROVE  /\ advance[a] \in Advance /\ advance[a].amount \in Nat /\ advance[a].repaid \in Nat
         /\ a \in DOMAIN Due => /\ advance[a].status = "ACTIVE" /\ Due[a] \in Nat
                                /\ advance[a].repaid + Due[a] <= advance[a].amount
                                /\ a \in Cleared <=> advance[a].repaid + Due[a] = advance[a].amount
<1>1. /\ advance[a] \in Advance
      /\ advance[a].amount \in Nat /\ advance[a].per \in Nat /\ advance[a].repaid \in Nat
  <2>1. advance[a] \in Advance
    BY DEF RowsTyped
  <2>2. advance[a].amount \in Amounts /\ advance[a].per \in Installments /\ advance[a].repaid \in Nat
    BY <2>1 DEF Advance
  <2> QED BY <2>1, <2>2, PayrollAssumption
<1>2. ASSUME a \in DOMAIN Due
      PROVE  /\ advance[a].status = "ACTIVE" /\ Due[a] \in Nat
             /\ advance[a].repaid + Due[a] <= advance[a].amount
             /\ a \in Cleared <=> advance[a].repaid + Due[a] = advance[a].amount
  <2>1. advance[a].status = "ACTIVE" /\ Remaining(a) > 0 /\ Due[a] = Installment(a)
    BY <1>2 DEF Due
  <2>2. Remaining(a) = advance[a].amount - advance[a].repaid /\ Remaining(a) \in Int
    BY <1>1 DEF Remaining
  <2>3. Due[a] \in Nat /\ Due[a] <= Remaining(a)
    BY <1>1, <2>1, <2>2 DEF Installment
  <2>4. a \in Cleared <=> Remaining(a) = Due[a]
    BY <1>2 DEF Cleared
  <2> QED BY <1>1, <2>1, <2>2, <2>3, <2>4
<1> QED BY <1>1, <1>2

\* calculate repays r.due, for what it charges to payslip r.row.
Repays(r) ==
  advance' = [i \in DOMAIN advance |->
    IF i \in DOMAIN r.due
    THEN [advance[i] EXCEPT !.repaid = advance[i].repaid + r.due[i],
                            !.status = IF i \in r.cleared THEN "COMPLETED" ELSE advance[i].status]
    ELSE advance[i]]

LEMMA RepaysRow ==
  ASSUME RowsTyped, NEW r, Repays(r), \A a \in DOMAIN r.due : r.due[a] \in Nat
  PROVE  /\ advance' \in Seq(Advance) /\ DOMAIN advance' = DOMAIN advance
         /\ \A i \in DOMAIN advance :
              /\ advance'[i].amount = advance[i].amount
              /\ i \in DOMAIN r.due => /\ advance'[i].repaid = advance[i].repaid + r.due[i]
                                       /\ advance'[i].status = IF i \in r.cleared THEN "COMPLETED" ELSE advance[i].status
              /\ i \notin DOMAIN r.due => advance'[i] = advance[i]
<1>1. PICK n \in Nat : n = Len(advance) /\ DOMAIN advance = 1..n
  BY DEF RowsTyped
<1>2. DOMAIN advance' = 1..n /\ advance' = [i \in 1..n |-> advance'[i]]
  BY <1>1 DEF Repays
<1>3. ASSUME NEW i \in DOMAIN advance
      PROVE  /\ advance'[i] \in Advance /\ advance'[i].amount = advance[i].amount
             /\ i \in DOMAIN r.due => /\ advance'[i].repaid = advance[i].repaid + r.due[i]
                                      /\ advance'[i].status = IF i \in r.cleared THEN "COMPLETED" ELSE advance[i].status
             /\ i \notin DOMAIN r.due => advance'[i] = advance[i]
  <2>1. advance[i] \in Advance /\ advance[i].repaid \in Nat
    BY Repaying
  <2>2. CASE i \in DOMAIN r.due
    <3>1. PICK m \in Nat : m = advance[i].repaid + r.due[i]
      BY <2>1, <2>2
    <3>2. PICK st \in {"ACTIVE", "COMPLETED"} : st = IF i \in r.cleared THEN "COMPLETED" ELSE advance[i].status
      BY <2>1 DEF Advance
    <3>3. advance'[i] = [advance[i] EXCEPT !.repaid = m, !.status = st]
      BY <2>2, <3>1, <3>2 DEF Repays
    <3>4. /\ advance'[i] \in Advance /\ advance'[i].repaid = m /\ advance'[i].status = st
          /\ advance'[i].amount = advance[i].amount
      BY <2>1, <3>3 DEF Advance
    <3> QED BY <2>2, <3>1, <3>2, <3>4
  <2>3. CASE i \notin DOMAIN r.due
    BY <2>1, <2>3 DEF Repays
  <2> QED BY <2>2, <2>3
<1>4. advance' \in Seq(Advance)
  BY <1>1, <1>2, <1>3
<1> QED BY <1>1, <1>2, <1>3, <1>4

\* What was charged is what is repaid, however stale it is.
LEMMA ChargedIsRepaid ==
  ASSUME IInv, NEW r, Repays(r), NEW s \in DOMAIN payslip, DOMAIN r.due \subseteq DOMAIN advance,
         \A a \in DOMAIN r.due : r.due[a] \in Nat, DOMAIN payslip' = DOMAIN payslip,
         payslip'[s].repaid = payslip[s].repaid + Total(r.due),
         \A u \in DOMAIN payslip : u # s => payslip'[u].repaid = payslip[u].repaid
  PROVE  RepaymentsAreCharged' /\ Total(r.due) \in Nat
<1>1. /\ IsFiniteSet(DOMAIN payslip) /\ IsFiniteSet(DOMAIN advance)
      /\ Adds(Charges, DOMAIN payslip) /\ Adds(Repayments, DOMAIN advance)
  BY SumsTyped DEF IInv, TypeOK
<1>2. IsFiniteSet(DOMAIN r.due)
  BY <1>1, FS_Subset
<1>3. Total(r.due) \in Nat
  BY <1>2, SumNat DEF Total, SumFunction
<1>4. SumFunction(Charges') = SumFunction(Charges) + Total(r.due)
  <2>1. /\ DOMAIN Charges = DOMAIN payslip /\ DOMAIN Charges' = DOMAIN payslip
        /\ Charges'[s] = Charges[s] + Total(r.due) /\ \A u \in DOMAIN payslip \ {s} : Charges'[u] = Charges[u]
    BY DEF Charges
  <2> QED BY <1>1, <1>3, <2>1, SumOfChanged
<1>5. SumFunction(Repayments') = SumFunction(Repayments) + Total(r.due)
  <2>1. /\ DOMAIN advance' = DOMAIN advance
        /\ \A i \in DOMAIN advance :
             /\ i \in DOMAIN r.due => advance'[i].repaid = advance[i].repaid + r.due[i]
             /\ i \notin DOMAIN r.due => advance'[i] = advance[i]
    BY RepaysRow DEF IInv, TypeOK
  <2>2. /\ DOMAIN Repayments = DOMAIN advance /\ DOMAIN Repayments' = DOMAIN advance
        /\ \A i \in DOMAIN advance :
             Repayments'[i] = IF i \in DOMAIN r.due THEN Repayments[i] + r.due[i] ELSE Repayments[i]
    BY <2>1 DEF Repayments
  <2>3. Adds(r.due, DOMAIN r.due)
    BY DEF Adds
  <2> QED BY <1>1, <2>2, <2>3, SumOfIncreased DEF Total
<1>6. SumFunction(Charges) = SumFunction(Repayments)
  BY DEF IInv, RepaymentsAreCharged, Charges, Repayments
<1>7. SumFunction(Charges') = SumFunction(Repayments')
  BY <1>4, <1>5, <1>6
<1> QED BY <1>3, <1>7 DEF RepaymentsAreCharged, Charges, Repayments

LEMMA CalculateWriteKeeps ==
  ASSUME IInv, NEW w, CalculateWrite(w)
  PROVE  /\ IInv'
         /\ ~ overlapped => \A s \in DOMAIN payslip : payslip[s].status # "DRAFT" => payslip'[s] = payslip[s]
<1>1. w \in DOMAIN pending /\ pending[w].op = "store" /\ End(w) /\ UNCHANGED <<period, salary>>
  BY DEF CalculateWrite, Writing
<1>2. PICK r : r = pending[w]
  OBVIOUS
<1>3. /\ r.before \in Int /\ DOMAIN r.due \subseteq DOMAIN advance
      /\ \A a \in DOMAIN r.due : r.due[a] \in Nat
  BY <1>1, <1>2, FoundHolds DEF Carries
<1>4. PICK s \in DOMAIN payslip : s = r.row /\ payslip[s] \in Payslip
  BY <1>1, <1>2, FoundHolds DEF Carries, RowsTyped
<1>5. Repays(r)
  BY <1>2 DEF CalculateWrite, Repays
<1>6. PICK k \in Nat : k = Total(r.due)
  <2>1. IsFiniteSet(DOMAIN r.due)
    BY <1>3, SumsTyped, FS_Subset DEF IInv, TypeOK
  <2> QED BY <1>3, <2>1, SumNat DEF Total, SumFunction
<1>7. PICK a \in Nat, b \in Int : a = payslip[s].repaid + k /\ b = r.before - k
  <2>1. payslip[s].repaid \in Nat
    BY <1>4 DEF Payslip
  <2> QED BY <1>3, <2>1
<1>8. PICK q : q = [payslip[s] EXCEPT !.repaid = a, !.net = b, !.status = "CALCULATED"]
  OBVIOUS
<1>9. q \in Payslip
  BY <1>4, <1>8 DEF Payslip, Stage
<1>10. /\ q.repaid = payslip[s].repaid + k /\ q.net = r.before - k /\ q.status = "CALCULATED"
       /\ q.basic = payslip[s].basic /\ q.plus = payslip[s].plus /\ q.minus = payslip[s].minus
  BY <1>4, <1>7, <1>8 DEF Payslip
<1>11. /\ payslip' \in Seq(Payslip) /\ DOMAIN payslip' = DOMAIN payslip
       /\ payslip'[s] = q /\ \A u \in DOMAIN payslip : u # s => payslip'[u] = payslip[u]
  <2>2. payslip' = [payslip EXCEPT ![s] =
          [payslip[s] EXCEPT !.repaid = payslip[s].repaid + Total(r.due), !.net = r.before - Total(r.due),
                             !.status = "CALCULATED"]]
    BY <1>2, <1>4 DEF CalculateWrite
  <2>3. payslip' = [payslip EXCEPT ![s] = q]
    BY <1>6, <1>7, <1>8, <2>2
  <2> QED BY <1>9, <2>3, RowChanged DEF IInv, TypeOK, RowsTyped
<1>12. /\ advance' \in Seq(Advance) /\ DOMAIN advance' = DOMAIN advance
       /\ \A i \in DOMAIN advance :
            /\ advance'[i].amount = advance[i].amount
            /\ i \in DOMAIN r.due => /\ advance'[i].repaid = advance[i].repaid + r.due[i]
                                     /\ advance'[i].status = IF i \in r.cleared THEN "COMPLETED" ELSE advance[i].status
            /\ i \notin DOMAIN r.due => advance'[i] = advance[i]
  BY <1>3, <1>5, RepaysRow DEF IInv, TypeOK
<1>13. RowsTyped' /\ Grow
  BY <1>1, <1>11, <1>12 DEF IInv, TypeOK, RowsTyped, Grow
<1>14. RepaymentsAreCharged'
  BY <1>3, <1>5, <1>6, <1>10, <1>11, ChargedIsRepaid
<1>15. ASSUME ~ overlapped
       PROVE  /\ AdvancesOK' /\ SalariesOK' /\ NetsOK'
              /\ \A u \in DOMAIN payslip : payslip[u].status # "DRAFT" => payslip'[u] = payslip[u]
  <2>1. /\ Alone /\ payslip[s].status = "DRAFT"
        /\ r.before = payslip[s].basic + payslip[s].plus - payslip[s].minus
        /\ r.due = Due /\ r.cleared = Cleared
    BY <1>1, <1>2, <1>4, <1>15, FoundHolds DEF Found
  <2>2. NetsOK'
    <3>1. payslip[s].repaid = 0
      BY <2>1 DEF Alone, NetsOK, Balanced
    <3>2. payslip[s].basic \in Int /\ payslip[s].plus \in Int /\ payslip[s].minus \in Int
      BY <1>4, PayslipFigures
    <3>3. Balanced(q)
      BY <1>10, <2>1, <3>1, <3>2 DEF Balanced
    <3> QED BY <1>11, <2>1, <3>3 DEF Alone, NetsOK, Balanced
  <2>3. AdvancesOK'
    <3> SUFFICES ASSUME NEW i \in DOMAIN advance
                 PROVE  /\ advance'[i].repaid <= advance'[i].amount
                        /\ advance'[i].status = "COMPLETED" <=> advance'[i].repaid = advance'[i].amount
      BY <1>12 DEF AdvancesOK
    <3>1. CASE i \in DOMAIN Due
      <4>1. /\ advance[i].status = "ACTIVE" /\ Due[i] \in Nat
            /\ advance[i].repaid + Due[i] <= advance[i].amount
            /\ i \in Cleared <=> advance[i].repaid + Due[i] = advance[i].amount
        BY <3>1, Repaying DEF IInv, TypeOK
      <4>2. /\ advance'[i].amount = advance[i].amount /\ advance'[i].repaid = advance[i].repaid + Due[i]
            /\ advance'[i].status = IF i \in Cleared THEN "COMPLETED" ELSE advance[i].status
        BY <1>12, <2>1, <3>1
      <4> QED BY <4>1, <4>2
    <3>2. CASE i \notin DOMAIN Due
      BY <1>12, <2>1, <3>2 DEF Alone, AdvancesOK
    <3> QED BY <3>1, <3>2
  <2>4. SalariesOK'
    BY <1>1, <2>1 DEF Alone, SalariesOK
  <2> QED BY <1>11, <2>1, <2>2, <2>3, <2>4
<1> QED BY <1>1, <1>13, <1>14, <1>15, EndKeeps

LEMMA CalculateReadKeeps ==
  ASSUME IInv, NEW w, CalculateRead(w)
  PROVE  IInv'
<1>1. w \in DOMAIN pending /\ pending[w].op = "calculate" /\ UNCHANGED <<period, salary, payslip, advance>>
  BY DEF CalculateRead, Writing, tables
<1>2. overlapped' \in BOOLEAN /\ (~ overlapped' => ~ overlapped /\ DOMAIN pending = {w})
  BY DEF IInv, TypeOK, CalculateRead
<1>3. PICK s \in DOMAIN payslip : s = pending[w].row /\ payslip[s] \in Payslip
  BY <1>1, FoundHolds DEF Carries, RowsTyped
<1>4. PICK r : /\ r.op = "store" /\ r.row = s /\ r.due = Due /\ r.cleared = Cleared
               /\ r.before = payslip[s].basic + payslip[s].plus - payslip[s].minus
               /\ pending' = [pending EXCEPT ![w] = r]
  BY <1>3 DEF CalculateRead
<1>5. TypeOK'
  <2>1. RowsTyped'
    BY <1>1 DEF IInv, TypeOK, RowsTyped
  <2>2. Carries(r)
    <3>1. r.before \in Int
      <4>1. payslip[s].basic \in Int /\ payslip[s].plus \in Int /\ payslip[s].minus \in Int
        BY <1>3, PayslipFigures
      <4> QED BY <1>4, <4>1
    <3>2. DOMAIN r.due \subseteq DOMAIN advance
      BY <1>4 DEF Due
    <3>3. \A a \in DOMAIN r.due : r.due[a] \in Nat
      BY <1>4, <3>2, Repaying DEF IInv, TypeOK
    <3> QED BY <1>4, <3>1, <3>2, <3>3 DEF Carries
  <2>3. ASSUME NEW v \in DOMAIN pending' PROVE Carries(pending[v])'
    <3>1. PICK p : p = pending'[v]
      OBVIOUS
    <3>2. Carries(p)
      BY <1>4, <2>2, <3>1 DEF IInv, TypeOK
    <3>3. Carries(p)'
      BY <1>1, <3>2, RowsCarried DEF Grow
    <3> QED BY <3>1, <3>3 DEF Carries
  <2> QED BY <1>2, <2>1, <2>3 DEF TypeOK
<1>6. RepaymentsAreCharged'
  BY <1>1, SumsAreKept DEF IInv
<1>7. ASSUME ~ overlapped' PROVE Alone'
  <2>1. Alone /\ payslip[s].status = "DRAFT"
    BY <1>1, <1>2, <1>3, <1>7, FoundHolds DEF Found
  <2>2. DOMAIN pending' = {w} /\ pending'[w] = r
    BY <1>2, <1>4, <1>7
  <2>3. Found(r)
    BY <1>4, <2>1 DEF Found
  <2>4. Found(pending[w])'
    BY <1>1, <1>4, <2>1, <2>2, <2>3 DEF Found, Due, Cleared, Remaining, Installment
  <2>5. PendingOK'
    BY <2>2, <2>4 DEF PendingOK
  <2>6. AdvancesOK' /\ SalariesOK' /\ NetsOK'
    BY <1>1, <2>1 DEF Alone, AdvancesOK, SalariesOK, NetsOK, Balanced
  <2> QED BY <2>5, <2>6 DEF Alone
<1> QED BY <1>5, <1>6, <1>7 DEF IInv

LEMMA OthersKeep ==
  ASSUME IInv,
         \/ \E w \in Workers : Rollback(w)
         \/ \E p \in Periods : Close(p)
         \/ \E amount \in Amounts, per \in Installments : IssueAdvance(amount, per)
         \/ UNCHANGED vars
  PROVE  IInv'
<1>1. ASSUME UNCHANGED <<salary, payslip, advance>>, period' \in [Periods -> {"OPEN", "CLOSED"}]
      PROVE  /\ RowsTyped' /\ Grow /\ RepaymentsAreCharged'
             /\ ~ overlapped => AdvancesOK' /\ SalariesOK' /\ NetsOK'
  <2>1. RowsTyped' /\ Grow
    BY <1>1 DEF IInv, TypeOK, RowsTyped, Grow
  <2>2. RepaymentsAreCharged'
    BY <1>1, SumsAreKept DEF IInv
  <2>3. ~ overlapped => AdvancesOK' /\ SalariesOK' /\ NetsOK'
    BY <1>1 DEF IInv, Alone, AdvancesOK, SalariesOK, NetsOK, Balanced
  <2> QED BY <2>1, <2>2, <2>3
<1>2. ASSUME NEW w \in Workers, Rollback(w) PROVE IInv'
  <2>1. UNCHANGED <<salary, payslip, advance>> /\ period' \in [Periods -> {"OPEN", "CLOSED"}]
    BY <1>2 DEF Rollback, tables, IInv, TypeOK, RowsTyped
  <2> QED BY <1>1, <1>2, <2>1, EndKeeps DEF Rollback
<1>3. ASSUME NEW p \in Periods, Close(p) PROVE IInv'
  <2>1. UNCHANGED <<salary, payslip, advance>> /\ period' \in [Periods -> {"OPEN", "CLOSED"}]
    BY <1>3 DEF Close, Now, IInv, TypeOK, RowsTyped
  <2> QED BY <1>1, <1>3, <2>1, NowKeeps DEF Close, Now
<1>4. ASSUME NEW amount \in Amounts, NEW per \in Installments, IssueAdvance(amount, per) PROVE IInv'
  <2>1. PICK r : r = [amount |-> amount, per |-> per, status |-> "ACTIVE", repaid |-> 0]
    OBVIOUS
  <2>2. r \in Advance /\ r.repaid = 0 /\ r.repaid <= r.amount /\ r.status # "COMPLETED" /\ r.repaid # r.amount
    BY <2>1, PayrollAssumption DEF Advance
  <2>3. advance' = Append(advance, r) /\ UNCHANGED <<period, salary, payslip>>
    BY <1>4, <2>1 DEF IssueAdvance, Now
  <2>4. PICK n \in Nat : n = Len(advance) + 1
    BY DEF IInv, TypeOK, RowsTyped
  <2>5. /\ advance' \in Seq(Advance) /\ n \notin DOMAIN advance /\ DOMAIN advance' = DOMAIN advance \cup {n}
        /\ advance'[n] = r /\ \A a \in DOMAIN advance : advance'[a] = advance[a]
    BY <2>2, <2>3, <2>4, RowAdded DEF IInv, TypeOK, RowsTyped
  <2>6. RowsTyped' /\ Grow
    BY <2>3, <2>5 DEF IInv, TypeOK, RowsTyped, Grow
  <2>7. RepaymentsAreCharged'
    <3>1. /\ IsFiniteSet(DOMAIN Repayments) /\ Adds(Repayments, DOMAIN Repayments)
          /\ DOMAIN Repayments = DOMAIN advance
      BY SumsTyped DEF Repayments, IInv, TypeOK
    <3>2. /\ DOMAIN Repayments' = DOMAIN Repayments \cup {n} /\ Repayments'[n] = 0
          /\ \A a \in DOMAIN Repayments : Repayments'[a] = Repayments[a]
      BY <2>2, <2>5 DEF Repayments
    <3>3. SumFunction(Repayments') = SumFunction(Repayments)
      BY <2>5, <3>1, <3>2, SumOfLonger
    <3>4. Charges' = Charges
      BY <2>3 DEF Charges
    <3> QED BY <3>3, <3>4 DEF IInv, RepaymentsAreCharged, Charges, Repayments
  <2>8. ~ overlapped => AdvancesOK' /\ SalariesOK' /\ NetsOK'
    BY <2>2, <2>3, <2>5 DEF IInv, Alone, AdvancesOK, SalariesOK, NetsOK, Balanced
  <2> QED BY <1>4, <2>6, <2>7, <2>8, NowKeeps DEF IssueAdvance, Now
<1>5. CASE UNCHANGED vars
  <2>1. UNCHANGED <<period, salary, payslip, advance, pending, overlapped>>
    BY <1>5 DEF vars, tables
  <2>2. PendingOK => PendingOK'
    <3>1. Due' = Due /\ Cleared' = Cleared
      BY <2>1 DEF Due, Cleared, Remaining, Installment
    <3>2. \A w \in DOMAIN pending : Found(pending[w]) => Found(pending[w])'
      BY <2>1, <3>1 DEF Found
    <3> QED BY <2>1, <3>2 DEF PendingOK
  <2>3. RowsTyped' /\ RepaymentsAreCharged' /\ Grow /\ (~ overlapped => AdvancesOK' /\ SalariesOK' /\ NetsOK')
    BY <1>1, <2>1 DEF IInv, TypeOK, RowsTyped
  <2>4. TypeOK'
    <3>1. \A v \in DOMAIN pending' : Carries(pending[v])'
      BY <2>1, <2>3, CarriedOn DEF IInv
    <3> QED BY <2>1, <2>3, <3>1 DEF IInv, TypeOK
  <2> QED BY <2>1, <2>2, <2>3, <2>4 DEF IInv, Alone
<1> QED BY <1>2, <1>3, <1>4, <1>5

LEMMA StepKeeps == ASSUME IInv, [Next]_vars PROVE IInv'
<1>1. ASSUME NEW w \in Workers, Reads(w) PROVE IInv'
  BY <1>1, ReadsKeep
<1>2. ASSUME NEW w \in Workers, Writes(w) PROVE IInv'
  BY <1>2, RaiseWriteIsKept, CreateWriteKeeps, AddLineWriteKeeps, CalculateReadKeeps, CalculateWriteKeeps,
     TransitionWriteKeeps, OthersKeep DEF Writes
<1> QED BY <1>1, <1>2, OthersKeep DEF Next

LEMMA Invariance == Spec => []IInv
<1>1. IInv /\ [Next]_vars => IInv'
  BY StepKeeps
<1> QED BY InitHolds, <1>1, PTL DEF Spec

(* Every table keeps its type, and every handler carries rows that exist: none is ever deleted.    *)
THEOREM TypeCorrect == Spec => []TypeOK
<1>1. IInv => TypeOK
  BY DEF IInv
<1> QED BY Invariance, <1>1, PTL

(* "Payroll automatically reflects repayment": whatever overlaps calculate, what it records as  *)
(* repaid it charges to a payslip, for any number of payslips, advances and handlers.           *)
THEOREM Charged == Spec => []RepaymentsAreCharged
<1>1. IInv => RepaymentsAreCharged
  BY DEF IInv
<1> QED BY Invariance, <1>1, PTL

(* calculate stores the net once, and it is what the lines add up to: nothing that is allowed    *)
(* before or after it - lines, review, approve, pay - makes it wrong.                            *)
THEOREM NetsAreRight == Spec => []NetIsRight
<1>1. IInv => NetIsRight
  BY DEF IInv, Alone, NetsOK, Balanced, NetIsRight
<1> QED BY Invariance, <1>1, PTL

(* calculate: the installments of an advance add up to its amount exactly, for any amount,   *)
(* installment and number of payslips.                                                        *)
THEOREM SettledOnce == Spec => []AdvanceIsSettledOnce
<1>1. IInv => AdvanceIsSettledOnce
  BY DEF IInv, Alone, AdvancesOK, AdvanceIsSettledOnce
<1> QED BY Invariance, <1>1, PTL

(* SalaryHistoryService.create closes the salary before, so that one salary is current.       *)
THEOREM OneSalary == Spec => []OneSalaryAtATime
<1>1. ASSUME IInv PROVE OneSalaryAtATime
  <2> SUFFICES ASSUME ~ overlapped, salary # << >> PROVE Cardinality(Current) = 1
    BY <1>1 DEF IInv, Alone, SalariesOK, OneSalaryAtATime
  <2>1. SalariesOK
    BY <1>1 DEF IInv, Alone
  <2>2. PICK n \in Nat \ {0} : n = Len(salary) /\ DOMAIN salary = 1..n
    BY <1>1 DEF IInv, TypeOK, RowsTyped
  <2>3. salary[n].to = Open /\ \A i \in 1..n : salary[i].to = Open => i = n
    <3>1. salary[n].to = Open
      BY <2>1, <2>2 DEF SalariesOK
    <3>2. \A i \in 1..n : i # n => salary[i].to # Open
      BY <2>1, <2>2 DEF SalariesOK
    <3> QED BY <3>1, <3>2
  <2>4. salary[n].from \in Int
    <3>1. salary[n] \in Salary
      BY <1>1, <2>2 DEF IInv, TypeOK, RowsTyped
    <3> QED BY <3>1 DEF Salary
  <2>5. Current = {n}
    BY <2>2, <2>3, <2>4 DEF Current
  <2> QED BY <2>5, FS_Singleton
<1> QED BY Invariance, <1>1, PTL

(* review, approve and pay leave the figures of a payslip as calculate stored them.            *)
THEOREM FiguresStand == Spec => CalculatedStands
<1> DEFINE Stands == ~ overlapped /\ ~ overlapped' =>
       \A s \in DOMAIN payslip :
         payslip[s].status # "DRAFT" =>
           /\ payslip'[s].net = payslip[s].net /\ payslip'[s].repaid = payslip[s].repaid
           /\ payslip'[s].lines = payslip[s].lines
           /\ payslip[s].status = "PAID" => payslip'[s].status = "PAID"
<1>1. ASSUME IInv, [Next]_vars PROVE Stands
  <2>1. CASE UNCHANGED payslip
    BY <2>1
  <2>2. ASSUME NEW w \in Workers, CreateWrite(w) PROVE Stands
    <3>1. ~ overlapped => \A s \in DOMAIN payslip : payslip'[s] = payslip[s]
      BY <1>1, <2>2, CreateWriteKeeps DEF IInv
    <3> QED BY <3>1
  <2>3. ASSUME NEW w \in Workers, AddLineWrite(w) PROVE Stands
    BY <1>1, <2>3, AddLineWriteKeeps
  <2>4. ASSUME NEW w \in Workers, CalculateWrite(w) PROVE Stands
    BY <1>1, <2>4, CalculateWriteKeeps
  <2>5. ASSUME NEW w \in Workers, TransitionWrite(w) PROVE Stands
    BY <1>1, <2>5, TransitionWriteKeeps
  <2>6. ASSUME NEW w \in Workers, Reads(w) PROVE UNCHANGED payslip
    BY <2>6 DEF Reads, RaiseRead, CreateRead, AddLineRead, CalculateCheck, TransitionRead, tables
  <2>7. ASSUME NEW w \in Workers, RaiseWrite(w) \/ CalculateRead(w) \/ Rollback(w) PROVE UNCHANGED payslip
    BY <2>7 DEF RaiseWrite, CalculateRead, Rollback, tables
  <2>8. ASSUME \/ \E p \in Periods : Close(p)
               \/ \E amount \in Amounts, per \in Installments : IssueAdvance(amount, per)
               \/ UNCHANGED vars
        PROVE  UNCHANGED payslip
    BY <2>8 DEF Close, IssueAdvance, vars, tables
  <2> HIDE DEF Stands
  <2> QED BY <1>1, <2>1, <2>2, <2>3, <2>4, <2>5, <2>6, <2>7, <2>8 DEF Next, Writes
<1>2. [][Stands]_vars <=> CalculatedStands
  BY DEF CalculatedStands
<1>3. IInv /\ [Next]_vars => [Stands]_vars
  BY <1>1
<1> HIDE DEF Stands
<1> QED BY Invariance, <1>2, <1>3, PTL DEF Spec

=============================================================================
