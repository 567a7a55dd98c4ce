------------------------- MODULE Enrollment_proofs -------------------------
(***************************************************************************)
(* Proofs about the enrollment lifecycle, for any number of concurrent     *)
(* handlers, students, sections and enrollments; in the second half, of    *)
(* what holds as long as handlers run one after another: reasons and       *)
(* requests, the seats of a student, the capacity of a section.            *)
(***************************************************************************)
EXTENDS EnrollmentProperties, FiniteSetTheorems, TLAPS

-----------------------------------------------------------------------------
(* Tables *)

LEMMA UpsertType ==
  ASSUME NEW R, NEW t, NEW rows, t \in [DOMAIN t -> R], rows \in [DOMAIN rows -> R]
  PROVE  /\ Upsert(t, rows) \in [DOMAIN t \cup DOMAIN rows -> R]
         /\ DOMAIN Upsert(t, rows) = DOMAIN t \cup DOMAIN rows
         /\ \A k \in DOMAIN rows : Upsert(t, rows)[k] = rows[k]
         /\ \A k \in DOMAIN t : k \notin DOMAIN rows => Upsert(t, rows)[k] = t[k]
BY DEF Upsert

LEMMA WithoutType ==
  ASSUME NEW R, NEW t, NEW K, t \in [DOMAIN t -> R]
  PROVE  /\ Without(t, K) \in [DOMAIN t \ K -> R]
         /\ DOMAIN Without(t, K) = DOMAIN t \ K
         /\ \A k \in DOMAIN t \ K : Without(t, K)[k] = t[k]
BY DEF Without

LEMMA OneRowType ==
  ASSUME NEW R, NEW k, NEW row \in R
  PROVE  /\ OneRow(k, row) \in [{k} -> R]
         /\ DOMAIN OneRow(k, row) = {k}
         /\ OneRow(k, row)[k] = row
BY DEF OneRow

\* An insert of one row, or the update of it.
LEMMA InsertType ==
  ASSUME NEW R, NEW t, t \in [DOMAIN t -> R], NEW k, NEW row, row \in R,
         NEW u, u = Upsert(t, OneRow(k, row))
  PROVE  /\ u \in [DOMAIN t \cup {k} -> R]
         /\ DOMAIN u = DOMAIN t \cup {k}
         /\ u[k] = row
         /\ \A j \in DOMAIN t : j # k => u[j] = t[j]
<1>1. u = [j \in DOMAIN t \cup {k} |-> IF j = k THEN row ELSE t[j]]
  BY DEF Upsert, OneRow
<1> QED BY <1>1

-----------------------------------------------------------------------------
(* Batches *)

\* Sets of enrollments that exist are finite.
LEMMA EnrollmentsFinite ==
  ASSUME TypeOK, NEW E, E \subseteq DOMAIN enr
  PROVE  IsFiniteSet(E) /\ Cardinality(E) \in Nat
<1>1. nextEnr \in Nat /\ DOMAIN enr \subseteq 1 .. nextEnr - 1
  BY BoundsAssumption DEF TypeOK
<1>2. IsFiniteSet(1 .. nextEnr - 1)
  BY <1>1, FS_Interval
<1>3. IsFiniteSet(E)
  BY <1>1, <1>2, FS_Subset
<1> QED BY <1>3, FS_CardinalityType

LEMMA LastRollType ==
  ASSUME TypeOK, NEW sec
  PROVE  LastRoll(sec) \in Nat
<1> DEFINE rolls == {enr[e].roll : e \in ActiveIn(sec)}
<1>1. rolls \subseteq Nat
  BY DEF ActiveIn, TypeOK, EnrollmentRow
<1> QED BY <1>1 DEF LastRoll

\* The keys of a batch are new, distinct, and below the next free key.
LEMMA NewKeysType ==
  ASSUME TypeOK, NEW E, E \subseteq DOMAIN enr, NEW key \in NewKeys(E)
  PROVE  /\ DOMAIN key = E
         /\ \A e \in E : key[e] \in Nat /\ nextEnr <= key[e] /\ key[e] < nextEnr + Cardinality(E)
         /\ \A e \in E : key[e] \notin DOMAIN enr
         /\ \A e, f \in E : key[e] = key[f] => e = f
         /\ \A e \in E : Source(key, key[e]) = e
<1>1. nextEnr \in Nat /\ DOMAIN enr \subseteq 1 .. nextEnr - 1
  BY BoundsAssumption DEF TypeOK
<1>2. Cardinality(E) \in Nat
  BY EnrollmentsFinite
<1>3. /\ key \in [E -> nextEnr .. nextEnr + Cardinality(E) - 1]
      /\ \A e, f \in E : key[e] = key[f] => e = f
  BY DEF NewKeys
<1>4. \A e \in E : key[e] \in Nat /\ nextEnr <= key[e] /\ key[e] < nextEnr + Cardinality(E)
  BY <1>1, <1>2, <1>3
<1>5. \A e \in E : key[e] \notin DOMAIN enr
  BY <1>1, <1>4
<1>6. \A e \in E : Source(key, key[e]) = e
  BY <1>3 DEF Source
<1> QED BY <1>3, <1>4, <1>5, <1>6

\* The rows a batch creates: one ACTIVE row per enrollment, of its student.
BatchOf(rows, E, key, target, number) ==
  /\ rows \in [DOMAIN rows -> EnrollmentRow]
  /\ DOMAIN rows = {key[e] : e \in E}
  /\ \A e \in E : /\ rows[key[e]].student = enr[e].student
                  /\ rows[key[e]].status = "ACTIVE"
                  /\ rows[key[e]].section = target[e]
                  /\ rows[key[e]].number = number[e]

LEMMA BatchRowsType ==
  ASSUME TypeOK, NEW E, E \subseteq DOMAIN enr, NEW key \in NewKeys(E),
         NEW target \in [E -> Sections], NEW number \in [E -> Numbers]
  PROVE  BatchOf(BatchRows(key, target, number), E, key, target, number)
<1>0. PICK rows : rows = BatchRows(key, target, number)
  OBVIOUS
<1> DEFINE Row(e) == NewRow(enr[e].student, target[e], number[e],
                            LastRoll(target[e]) + RankInSection(key, target, e))
<1>1. DOMAIN key = E /\ \A e \in E : Source(key, key[e]) = e
  BY NewKeysType
<1>2. DOMAIN rows = {key[e] : e \in E}
  BY <1>0, <1>1 DEF BatchRows
<1>3. ASSUME NEW e \in E PROVE rows[key[e]] = Row(e)
  BY <1>0, <1>1, <1>3 DEF BatchRows
<1>4. ASSUME NEW e \in E PROVE Row(e) \in EnrollmentRow
  <2>1. enr[e].student \in Students /\ target[e] \in Sections /\ number[e] \in Numbers
    BY <1>4 DEF TypeOK, EnrollmentRow
  <2>2. LastRoll(target[e]) \in Nat
    BY LastRollType
  <2>3. RankInSection(key, target, e) \in Nat
    <3>1. {f \in DOMAIN key : target[f] = target[e] /\ key[f] <= key[e]} \subseteq DOMAIN enr
      BY <1>1
    <3> QED BY <3>1, EnrollmentsFinite DEF RankInSection
  <2>4. 0 \in 0 .. MaxUndo
    BY BoundsAssumption
  <2> QED BY <2>1, <2>2, <2>3, <2>4 DEF NewRow, EnrollmentRow, EnrollmentStatus
<1>5. rows \in [DOMAIN rows -> EnrollmentRow]
  <2>1. \A k \in DOMAIN rows : rows[k] \in EnrollmentRow
    BY <1>2, <1>3, <1>4
  <2> QED BY <2>1, <1>0, <1>2 DEF BatchRows
<1>6. \A e \in E : /\ rows[key[e]].student = enr[e].student
                   /\ rows[key[e]].status = "ACTIVE"
                   /\ rows[key[e]].section = target[e]
                   /\ rows[key[e]].number = number[e]
  <2> TAKE e \in E
  <2>1. rows[key[e]] = Row(e)
    BY <1>3
  <2> QED BY <2>1 DEF NewRow
<1> QED BY <1>0, <1>2, <1>5, <1>6 DEF BatchOf

-----------------------------------------------------------------------------
(* Requests *)

\* The fields of a request, by operation.
LEMMA RequestFields ==
  ASSUME NEW r \in Request
  PROVE  /\ r.op \in {"create", "approve"} =>
              r.section \in Sections /\ r.number \in Numbers /\ r.roll \in Nat
         /\ r.op = "edit" => r.section \in Sections /\ r.roll \in Nat
         /\ r.op \in {"edit", "approve", "decide", "request", "reverse"} => r.enrollment \in Ids
         /\ r.op = "archive" => r.student \in Students /\ r.enrollment \in Ids \cup {NoEnrollment}
         /\ r.op = "request" => r.toSchool \in Schools
         /\ r.op = "decide" => r.verdict \in {"REJECTED", "CANCELLED"}
         /\ r.op \in {"bulk", "form1", "promote"} => r.target \in Assignments(Sections)
         /\ r.op = "promote" => r.outcome \in Assignments(Progressed)
         /\ r.op = "reverse" => r.hasItem \in BOOLEAN /\ r.undone \in 0 .. MaxUndo - 1 /\ r.roll \in Nat
BY DEF Request

LEMMA AssignmentsType ==
  ASSUME NEW V, NEW f \in Assignments(V)
  PROVE  f \in [DOMAIN f -> V] /\ DOMAIN f \subseteq Ids
BY DEF Assignments

\* The request a worker writes for.
LEMMA WritingType ==
  ASSUME TypeOK, NEW w, NEW op, Writing(w, op)
  PROVE  pending[w] \in Request /\ pending[w].op = op
BY DEF TypeOK, Writing

LEMMA EndType ==
  ASSUME TypeOK, NEW w, End(w)
  PROVE  /\ pending' \in [DOMAIN pending' -> Request]
         /\ DOMAIN pending' \subseteq Workers
         /\ DOMAIN pending' = DOMAIN pending \ {w}
         /\ \A v \in DOMAIN pending' : pending'[v] = pending[v]
BY WithoutType DEF TypeOK, End, Without

-----------------------------------------------------------------------------
(* What every step keeps *)

\* The requests in progress after the step were in progress before it.
NoNewRequest ==
  /\ DOMAIN pending' \subseteq DOMAIN pending
  /\ \A v \in DOMAIN pending' : pending'[v] = pending[v]

\* Ids are not reused; an enrollment keeps its student, number and school, a
\* transfer its destination for as long as the enrollment exists.
KeepsIdentity ==
  /\ nextEnr \in Nat /\ nextEnr' \in Nat /\ nextEnr <= nextEnr'
  /\ \A e \in DOMAIN enr : e \in Nat /\ e < nextEnr
  /\ \A e \in DOMAIN enr' : e \in Nat
  /\ \A e \in DOMAIN enr' :
       \/ e >= nextEnr
       \/ /\ e \in DOMAIN enr
          /\ enr'[e].student = enr[e].student
          /\ enr'[e].number = enr[e].number
          /\ SchoolOf(enr'[e].section) = SchoolOf(enr[e].section)
  /\ \A e \in DOMAIN transfers \cap DOMAIN enr' :
       e \in DOMAIN transfers' /\ transfers'[e].toSchool = transfers[e].toSchool

LEMMA RequestsKept ==
  ASSUME TypeOK, RequestsOK, NoNewRequest, KeepsIdentity
  PROVE  RequestsOK'
<1> SUFFICES ASSUME NEW v \in DOMAIN pending', NEW r, r = pending[v]
             PROVE  RequestOK(r)'
  BY DEF RequestsOK, NoNewRequest
<1>1. RequestOK(r) /\ r \in Request
  BY DEF RequestsOK, NoNewRequest, TypeOK
<1>2. r.op = "promote" => DOMAIN r.target = Continues(r.outcome)
  BY <1>1 DEF RequestOK
<1>3. ASSUME r.op \in {"archive", "approve", "edit"}
      PROVE  /\ r.enrollment \in Int /\ r.enrollment < nextEnr /\ r.enrollment < nextEnr'
             /\ r.enrollment \in DOMAIN enr' =>
                  /\ r.enrollment \in DOMAIN enr
                  /\ enr'[r.enrollment].student = enr[r.enrollment].student
                  /\ SchoolOf(enr'[r.enrollment].section) = SchoolOf(enr[r.enrollment].section)
  <2>1. r.enrollment \in Int
    BY <1>1, <1>3, RequestFields, BoundsAssumption DEF Ids, NoEnrollment
  <2>2. r.enrollment < nextEnr
    BY <1>1, <1>3 DEF RequestOK
  <2> QED BY <2>1, <2>2 DEF KeepsIdentity
<1>4. r.op = "archive" /\ r.enrollment \in DOMAIN enr' => enr'[r.enrollment].student = r.student
  BY <1>1, <1>3 DEF RequestOK
<1>5. r.op = "approve" /\ r.enrollment \in DOMAIN enr'
        => /\ r.enrollment \in DOMAIN transfers'
           /\ transfers'[r.enrollment].toSchool = SchoolOf(r.section)
  BY <1>1, <1>3 DEF RequestOK, KeepsIdentity
<1>6. r.op = "edit" /\ r.enrollment \in DOMAIN enr'
        => SchoolOf(enr'[r.enrollment].section) = SchoolOf(r.section)
  BY <1>1, <1>3 DEF RequestOK
<1> QED BY <1>2, <1>3, <1>4, <1>5, <1>6 DEF RequestOK, SchoolOf

\* A step keeps the students of the rows it keeps together, and every link of
\* its tables is an old one or leads to an enrollment the step creates.
LinksTransfer(e) ==
  LET to == transfers'[e].toEnrollment IN
  /\ e \in DOMAIN enr /\ to \in DOMAIN enr' /\ to >= nextEnr
  /\ enr'[to].student = enr[e].student
  /\ SchoolOf(enr'[to].section) = transfers'[e].toSchool

LinksItem(e) ==
  LET to == items'[e].toEnrollment IN
  /\ e \in DOMAIN enr /\ to \in DOMAIN enr' /\ to >= nextEnr
  /\ enr'[to].student = enr[e].student /\ enr'[to].number = enr[e].number

KeepsTransfer(e) == e \in TransferTargets /\ transfers'[e].toEnrollment = transfers[e].toEnrollment
KeepsItem(e) == e \in ItemTargets /\ items'[e].toEnrollment = items[e].toEnrollment

KeepsHistory ==
  /\ \A e, f \in DOMAIN enr :
       enr[e].student = enr[f].student /\ e \in DOMAIN enr' => f \in DOMAIN enr'
  /\ \A e \in TransferTargets' : KeepsTransfer(e) \/ LinksTransfer(e)
  /\ \A e \in ItemTargets' : KeepsItem(e) \/ LinksItem(e)
  /\ \A e \in DOMAIN items' : items'[e].outcome \in {"PROMOTED", "RETAINED"} => e \in ItemTargets'
  /\ \A e \in DOMAIN transfers' : transfers'[e].status = "EXECUTED" => e \in TransferTargets'

LEMMA HistoryKept ==
  ASSUME TypeOK, TypeOK', HistoryLeadsForward, KeepsIdentity, KeepsHistory
  PROVE  HistoryLeadsForward'
<1>1. DOMAIN transfers' \subseteq DOMAIN enr' /\ DOMAIN items' \subseteq DOMAIN enr'
  BY DEF TypeOK
<1>2. ASSUME NEW e \in DOMAIN enr, e \in DOMAIN enr'
      PROVE  /\ e \in Nat /\ e < nextEnr
             /\ enr'[e].student = enr[e].student /\ enr'[e].number = enr[e].number
             /\ SchoolOf(enr'[e].section) = SchoolOf(enr[e].section)
  BY <1>2 DEF KeepsIdentity
<1>3. ASSUME NEW e \in TransferTargets', NEW to, to = transfers'[e].toEnrollment
      PROVE  /\ to \in DOMAIN enr' /\ to > e
             /\ enr'[to].student = enr'[e].student
             /\ SchoolOf(enr'[to].section) = transfers'[e].toSchool
  <2>1. e \in DOMAIN transfers' /\ e \in DOMAIN enr'
    BY <1>1, <1>3 DEF TransferTargets
  <2>2. CASE KeepsTransfer(e)
    <3>1. e \in DOMAIN transfers /\ e \in DOMAIN enr /\ transfers[e].toEnrollment = to
      BY <1>3, <2>2 DEF KeepsTransfer, TransferTargets, TypeOK
    <3>2. /\ to \in DOMAIN enr /\ to > e /\ enr[to].student = enr[e].student
          /\ SchoolOf(enr[to].section) = transfers[e].toSchool
      BY <2>2, <3>1 DEF KeepsTransfer, HistoryLeadsForward
    <3>3. to \in DOMAIN enr'
      BY <2>1, <3>1, <3>2 DEF KeepsHistory
    <3>4. transfers'[e].toSchool = transfers[e].toSchool
      BY <2>1, <3>1 DEF KeepsIdentity
    <3> QED BY <1>2, <2>1, <3>1, <3>2, <3>3, <3>4
  <2>3. CASE LinksTransfer(e)
    BY <1>2, <1>3, <2>1, <2>3 DEF LinksTransfer, KeepsIdentity
  <2> QED BY <1>3, <2>2, <2>3 DEF KeepsHistory
<1>4. ASSUME NEW e \in ItemTargets', NEW to, to = items'[e].toEnrollment
      PROVE  /\ to \in DOMAIN enr' /\ to > e
             /\ enr'[to].student = enr'[e].student /\ enr'[to].number = enr'[e].number
  <2>1. e \in DOMAIN items' /\ e \in DOMAIN enr'
    BY <1>1, <1>4 DEF ItemTargets
  <2>2. CASE KeepsItem(e)
    <3>1. e \in DOMAIN items /\ e \in DOMAIN enr /\ items[e].toEnrollment = to
      BY <1>4, <2>2 DEF KeepsItem, ItemTargets, TypeOK
    <3>2. /\ to \in DOMAIN enr /\ to > e /\ enr[to].student = enr[e].student
          /\ enr[to].number = enr[e].number
      BY <2>2, <3>1 DEF KeepsItem, HistoryLeadsForward
    <3>3. to \in DOMAIN enr'
      BY <2>1, <3>1, <3>2 DEF KeepsHistory
    <3> QED BY <1>2, <2>1, <3>1, <3>2, <3>3
  <2>3. CASE LinksItem(e)
    BY <1>2, <1>4, <2>1, <2>3 DEF LinksItem, KeepsIdentity
  <2> QED BY <1>4, <2>2, <2>3 DEF KeepsHistory
<1> QED BY <1>3, <1>4 DEF HistoryLeadsForward, KeepsHistory, SchoolOf

\* The links a step makes lead to different enrollments.
DistinctLinks ==
  /\ \A e, f \in TransferTargets' :
       ~ KeepsTransfer(e) /\ ~ KeepsTransfer(f)
         /\ transfers'[e].toEnrollment = transfers'[f].toEnrollment => e = f
  /\ \A e, f \in ItemTargets' :
       ~ KeepsItem(e) /\ ~ KeepsItem(f)
         /\ items'[e].toEnrollment = items'[f].toEnrollment => e = f
  /\ (\A e \in TransferTargets' : KeepsTransfer(e)) \/ (\A e \in ItemTargets' : KeepsItem(e))

LEMMA OneOriginKept ==
  ASSUME TypeOK, HistoryLeadsForward, OneOriginAtMost, KeepsIdentity, KeepsHistory, DistinctLinks
  PROVE  OneOriginAtMost'
<1>1. /\ \A e \in TransferTargets' : KeepsTransfer(e) =>
            transfers'[e].toEnrollment \in Nat /\ transfers'[e].toEnrollment < nextEnr
      /\ \A e \in ItemTargets' : KeepsItem(e) =>
            items'[e].toEnrollment \in Nat /\ items'[e].toEnrollment < nextEnr
  BY DEF HistoryLeadsForward, KeepsIdentity, KeepsTransfer, KeepsItem
<1>2. /\ \A e \in TransferTargets' : ~ KeepsTransfer(e) =>
            transfers'[e].toEnrollment \in Nat /\ transfers'[e].toEnrollment >= nextEnr
      /\ \A e \in ItemTargets' : ~ KeepsItem(e) =>
            items'[e].toEnrollment \in Nat /\ items'[e].toEnrollment >= nextEnr
  BY DEF KeepsHistory, LinksTransfer, LinksItem, KeepsIdentity
<1>0. nextEnr \in Nat
  BY DEF KeepsIdentity
<1>3. ASSUME NEW e \in TransferTargets', NEW f \in TransferTargets',
             transfers'[e].toEnrollment = transfers'[f].toEnrollment
      PROVE  e = f
  <2>1. CASE KeepsTransfer(e) /\ KeepsTransfer(f)
    BY <1>3, <2>1 DEF OneOriginAtMost, KeepsTransfer
  <2>2. CASE ~ KeepsTransfer(e) /\ ~ KeepsTransfer(f)
    BY <1>3, <2>2 DEF DistinctLinks
  <2>3. CASE KeepsTransfer(e) /\ ~ KeepsTransfer(f)
    BY <1>0, <1>1, <1>2, <1>3, <2>3
  <2>4. CASE ~ KeepsTransfer(e) /\ KeepsTransfer(f)
    BY <1>0, <1>1, <1>2, <1>3, <2>4
  <2> QED BY <2>1, <2>2, <2>3, <2>4
<1>4. ASSUME NEW e \in ItemTargets', NEW f \in ItemTargets',
             items'[e].toEnrollment = items'[f].toEnrollment
      PROVE  e = f
  <2>1. CASE KeepsItem(e) /\ KeepsItem(f)
    BY <1>4, <2>1 DEF OneOriginAtMost, KeepsItem
  <2>2. CASE ~ KeepsItem(e) /\ ~ KeepsItem(f)
    BY <1>4, <2>2 DEF DistinctLinks
  <2>3. CASE KeepsItem(e) /\ ~ KeepsItem(f)
    BY <1>0, <1>1, <1>2, <1>4, <2>3
  <2>4. CASE ~ KeepsItem(e) /\ KeepsItem(f)
    BY <1>0, <1>1, <1>2, <1>4, <2>4
  <2> QED BY <2>1, <2>2, <2>3, <2>4
<1>5. ASSUME NEW e \in TransferTargets', NEW f \in ItemTargets'
      PROVE  transfers'[e].toEnrollment # items'[f].toEnrollment
  <2>1. CASE KeepsTransfer(e) /\ KeepsItem(f)
    BY <2>1 DEF OneOriginAtMost, KeepsTransfer, KeepsItem
  <2>2. CASE KeepsTransfer(e) /\ ~ KeepsItem(f)
    BY <1>0, <1>1, <1>2, <1>5, <2>2
  <2>3. CASE ~ KeepsTransfer(e) /\ KeepsItem(f)
    BY <1>0, <1>1, <1>2, <1>5, <2>3
  <2>4. CASE ~ KeepsTransfer(e) /\ ~ KeepsItem(f)
    BY <1>5, <2>4 DEF DistinctLinks
  <2> QED BY <2>1, <2>2, <2>3, <2>4
<1> QED BY <1>3, <1>4, <1>5 DEF OneOriginAtMost

-----------------------------------------------------------------------------
(* The inductive invariant *)

IInv ==
  /\ TypeOK
  /\ RequestsOK
  /\ ActiveStudentIsEnrolled
  /\ ProgressIsRecorded
  /\ HistoryLeadsForward
  /\ OneOriginAtMost

LEMMA InitInv ==
  Init => IInv
<1> SUFFICES ASSUME Init PROVE IInv
  OBVIOUS
<1>1. TypeOK
  BY BoundsAssumption DEF Init, TypeOK, StudentStatus
<1> QED BY <1>1 DEF Init, IInv, RequestsOK, ActiveStudentIsEnrolled, ProgressIsRecorded,
     HistoryLeadsForward, OneOriginAtMost, TransferTargets, ItemTargets

\* What is left to show of a step that begins no request.
LEMMA StepKeeps ==
  ASSUME IInv, TypeOK', NoNewRequest, KeepsIdentity, KeepsHistory, DistinctLinks,
         ActiveStudentIsEnrolled', ProgressIsRecorded'
  PROVE  IInv'
BY RequestsKept, HistoryKept, OneOriginKept DEF IInv

\* The invariant speaks of the tables and, in TypeOK and RequestsOK, of pending.
LEMMA TablesUnchanged ==
  ASSUME IInv, UNCHANGED <<student, enr, nextEnr, transfers, items>>,
         pending' \in [DOMAIN pending' -> Request], DOMAIN pending' \subseteq Workers,
         RequestsOK'
  PROVE  IInv'
<1>1. TypeOK'
  BY DEF IInv, TypeOK
<1>2. ActiveStudentIsEnrolled' /\ ProgressIsRecorded'
  BY DEF IInv, ActiveStudentIsEnrolled, ProgressIsRecorded
<1>3. HistoryLeadsForward'
  BY DEF IInv, HistoryLeadsForward, TransferTargets, ItemTargets, SchoolOf
<1>4. OneOriginAtMost'
  BY DEF IInv, OneOriginAtMost, TransferTargets, ItemTargets
<1> QED BY <1>1, <1>2, <1>3, <1>4 DEF IInv

LEMMA BeginKeeps ==
  ASSUME IInv, NEW w \in Workers, NEW r \in Request, RequestOK(r), Begin(w, r)
  PROVE  IInv'
<1>1. pending \in [DOMAIN pending -> Request] /\ DOMAIN pending \subseteq Workers
  BY DEF IInv, TypeOK
<1>2. pending' = Upsert(pending, OneRow(w, r)) /\ w \notin DOMAIN pending
      /\ UNCHANGED <<student, enr, nextEnr, transfers, items>>
  BY DEF Begin
<1>3. /\ pending' \in [DOMAIN pending \cup {w} -> Request]
      /\ pending'[w] = r
      /\ \A v \in DOMAIN pending : pending'[v] = pending[v]
  BY <1>1, <1>2 DEF Upsert, OneRow
<1>4. RequestsOK'
  <2>1. \A v \in DOMAIN pending' : RequestOK(pending'[v])
    BY <1>3 DEF IInv, RequestsOK
  <2> QED BY <2>1, <1>2 DEF RequestsOK, RequestOK, SchoolOf
<1> QED BY <1>1, <1>2, <1>3, <1>4, TablesUnchanged

LEMMA RollbackKeeps ==
  ASSUME IInv, NEW w, Rollback(w)
  PROVE  IInv'
<1>1. UNCHANGED <<student, enr, nextEnr, transfers, items>>
  BY DEF Rollback
<1>2. /\ pending' \in [DOMAIN pending' -> Request] /\ DOMAIN pending' \subseteq Workers
      /\ DOMAIN pending' = DOMAIN pending \ {w}
      /\ \A v \in DOMAIN pending' : pending'[v] = pending[v]
  BY EndType DEF Rollback, IInv
<1>3. RequestsOK'
  BY <1>1, <1>2 DEF IInv, RequestsOK, RequestOK, SchoolOf
<1> QED BY <1>1, <1>2, <1>3, TablesUnchanged

-----------------------------------------------------------------------------
(* Reads *)

LEMMA ReadTypes ==
  ASSUME TypeOK
  PROVE  /\ \A e \in DOMAIN enr : /\ e \in Ids /\ e \in Nat /\ e < nextEnr
                                 /\ enr[e] \in EnrollmentRow
         /\ DOMAIN transfers \subseteq DOMAIN enr
         /\ \A sec \in Sections : SchoolOf(sec) \in Schools /\ YearOf(sec) \in Nat
         /\ \A sec \in Sections : NumberChoices(sec) \subseteq Numbers
         /\ \A sec \in Sections : RollChoices(sec) \subseteq Nat
<1>1. \A e \in DOMAIN enr : e \in Ids /\ e \in Nat /\ e < nextEnr /\ enr[e] \in EnrollmentRow
  BY BoundsAssumption DEF TypeOK, Ids
<1>2. \A sec \in Sections : SchoolOf(sec) \in Schools /\ YearOf(sec) \in Nat
  BY ClassesAssumption DEF SchoolOf, YearOf, Schools
<1>3. ASSUME NEW sec \in Sections
      PROVE  NumberChoices(sec) \subseteq Numbers /\ RollChoices(sec) \subseteq Nat
  <2>1. Cardinality({e \in DOMAIN enr : SameYear(enr[e].section, sec)}) \in Nat
    BY EnrollmentsFinite
  <2>2. NextNumber(sec) \in Numbers
    BY <1>2, <2>1 DEF NextNumber, NumberAfter, Numbers
  <2>3. NextRoll(sec) \in Nat
    BY LastRollType DEF NextRoll
  <2> QED BY <2>2, <2>3, ChosenAssumption DEF NumberChoices, RollChoices, Numbers
<1> QED BY <1>1, <1>2, <1>3 DEF TypeOK

LEMMA ReadKeeps ==
  ASSUME IInv, NEW w \in Workers, Read(w)
  PROVE  IInv'
<1>0. TypeOK
  BY DEF IInv
<1>1. ASSUME NEW sec \in Sections, CreateRead(w, sec) PROVE IInv'
  <2>1. PICK number \in NumberChoices(sec), roll \in RollChoices(sec) :
          Begin(w, [op |-> "create", section |-> sec, number |-> number, roll |-> roll])
    BY <1>1 DEF CreateRead
  <2> DEFINE r == [op |-> "create", section |-> sec, number |-> number, roll |-> roll]
  <2>2. r \in Request /\ RequestOK(r)
    BY <1>0, ReadTypes DEF Request, RequestOK
  <2> QED BY <2>1, <2>2, BeginKeeps
<1>2. ASSUME NEW e \in DOMAIN enr, NEW sec \in Sections, EditRead(w, e, sec) PROVE IInv'
  <2>1. PICK roll \in {enr[e].roll} \cup ChosenRolls :
          Begin(w, [op |-> "edit", enrollment |-> e, section |-> sec, roll |-> roll])
    BY <1>2 DEF EditRead
  <2> DEFINE r == [op |-> "edit", enrollment |-> e, section |-> sec, roll |-> roll]
  <2>2. roll \in Nat /\ e \in Ids /\ e < nextEnr
    BY <1>0, ReadTypes, ChosenAssumption DEF EnrollmentRow
  <2>3. r \in Request /\ RequestOK(r)
    BY <1>2, <2>2 DEF Request, RequestOK, EditRead
  <2> QED BY <2>1, <2>3, BeginKeeps
<1>3. ASSUME NEW s \in Students, ArchiveRead(w, s) PROVE IInv'
  <2>1. PICK e \in {NoEnrollment} \cup EnrollmentsOf(s) :
          Begin(w, [op |-> "archive", student |-> s, enrollment |-> e])
    BY <1>3 DEF ArchiveRead
  <2> DEFINE r == [op |-> "archive", student |-> s, enrollment |-> e]
  <2>2. e \in Ids \cup {NoEnrollment} /\ e < nextEnr /\ (e \in DOMAIN enr => enr[e].student = s)
    BY <1>0, ReadTypes DEF EnrollmentsOf, NoEnrollment, TypeOK
  <2>3. r \in Request /\ RequestOK(r)
    BY <2>2 DEF Request, RequestOK
  <2> QED BY <2>1, <2>3, BeginKeeps
<1>4. ASSUME NEW e \in DOMAIN enr, NEW school \in Schools, RequestRead(w, e, school) PROVE IInv'
  <2> DEFINE r == [op |-> "request", enrollment |-> e, toSchool |-> school]
  <2>1. r \in Request /\ RequestOK(r)
    BY <1>0, ReadTypes DEF Request, RequestOK
  <2> QED BY <1>4, <2>1, BeginKeeps DEF RequestRead
<1>5. ASSUME NEW e \in DOMAIN transfers, NEW sec \in Sections, ApproveRead(w, e, sec) PROVE IInv'
  <2>1. PICK number \in NumberChoices(sec), roll \in RollChoices(sec) :
          Begin(w, [op |-> "approve", enrollment |-> e, section |-> sec,
                    number |-> number, roll |-> roll])
    BY <1>5 DEF ApproveRead
  <2> DEFINE r == [op |-> "approve", enrollment |-> e, section |-> sec,
                   number |-> number, roll |-> roll]
  <2>2. e \in Ids /\ e < nextEnr /\ number \in Numbers /\ roll \in Nat
    BY <1>0, ReadTypes
  <2>3. r \in Request /\ RequestOK(r)
    BY <1>5, <2>2 DEF Request, RequestOK, ApproveRead
  <2> QED BY <2>1, <2>3, BeginKeeps
<1>6. ASSUME NEW e \in DOMAIN transfers, NEW verdict \in {"REJECTED", "CANCELLED"},
             DecideRead(w, e, verdict)
      PROVE  IInv'
  <2> DEFINE r == [op |-> "decide", enrollment |-> e, verdict |-> verdict]
  <2>1. r \in Request /\ RequestOK(r)
    BY <1>0, ReadTypes DEF Request, RequestOK
  <2> QED BY <1>6, <2>1, BeginKeeps DEF DecideRead
<1>7. ASSUME NEW target \in Batches({e \in DOMAIN enr : Movable(e)}), BulkRead(w, target)
      PROVE  IInv'
  <2> DEFINE r == [op |-> "bulk", target |-> target]
  <2>1. target \in Assignments(Sections)
    BY <1>0, ReadTypes DEF Batches, Assignments
  <2>2. r \in Request /\ RequestOK(r)
    BY <2>1 DEF Request, RequestOK
  <2> QED BY <1>7, <2>2, BeginKeeps DEF BulkRead
<1>8. ASSUME NEW sec \in Sections, NEW E \in SUBSET ActiveIn(sec),
             NEW outcome \in [E -> PossibleOutcomes(ClassOf[sec])],
             NEW target \in [Continues(outcome) -> Sections],
             PromoteRead(w, sec, outcome, target)
      PROVE  IInv'
  <2> DEFINE r == [op |-> "promote", outcome |-> outcome, target |-> target]
  <2>1. E \subseteq Ids
    BY <1>0, ReadTypes DEF ActiveIn
  <2>2. outcome \in [E -> Progressed]
    BY DEF PossibleOutcomes, NaturalOutcome, Progressed
  <2>3. outcome \in Assignments(Progressed)
    BY <2>1, <2>2 DEF Assignments
  <2>4. target \in Assignments(Sections)
    BY <2>1, <2>2 DEF Assignments, Continues
  <2>5. r \in Request /\ RequestOK(r)
    BY <1>8, <2>3, <2>4 DEF Request, RequestOK, PromoteRead
  <2> QED BY <1>8, <2>5, BeginKeeps DEF PromoteRead
<1>9. ASSUME NEW target \in Batches({e \in DOMAIN enr : AwaitsForm1(e)}), Form1Read(w, target)
      PROVE  IInv'
  <2> DEFINE r == [op |-> "form1", target |-> target]
  <2>1. target \in Assignments(Sections)
    BY <1>0, ReadTypes DEF Batches, Assignments
  <2>2. r \in Request /\ RequestOK(r)
    BY <2>1 DEF Request, RequestOK
  <2> QED BY <1>9, <2>2, BeginKeeps DEF Form1Read
<1>10. ASSUME NEW e \in DOMAIN enr, ReverseRead(w, e) PROVE IInv'
  <2>1. PICK roll \in {enr[e].roll, NextRoll(enr[e].section)} :
          Begin(w, [op |-> "reverse", enrollment |-> e, hasItem |-> e \in DOMAIN items,
                    undone |-> enr[e].undone, roll |-> roll])
    BY <1>10 DEF ReverseRead
  <2> DEFINE r == [op |-> "reverse", enrollment |-> e, hasItem |-> e \in DOMAIN items,
                   undone |-> enr[e].undone, roll |-> roll]
  <2>2. enr[e] \in EnrollmentRow /\ e \in Ids
    BY <1>0, ReadTypes
  <2>3. roll \in Nat
    BY <1>0, <2>2, LastRollType DEF NextRoll, EnrollmentRow
  <2>4. enr[e].undone \in 0 .. MaxUndo - 1
    BY <1>10, <2>2, BoundsAssumption DEF ReverseRead, EnrollmentRow
  <2>5. r \in Request /\ RequestOK(r)
    BY <2>2, <2>3, <2>4 DEF Request, RequestOK
  <2> QED BY <2>1, <2>5, BeginKeeps
<1> QED BY <1>1, <1>2, <1>3, <1>4, <1>5, <1>6, <1>7, <1>8, <1>9, <1>10 DEF Read

-----------------------------------------------------------------------------
(* Writes *)

LEMMA TypeFacts ==
  ASSUME TypeOK
  PROVE  /\ nextEnr \in Nat /\ MaxEnrollments \in Nat /\ 0 \in 0 .. MaxUndo
         /\ \A e \in DOMAIN enr :
              /\ e \in Nat /\ e < nextEnr
              /\ enr[e].student \in Students /\ enr[e].section \in Sections
              /\ enr[e].number \in Numbers /\ enr[e].roll \in Nat
              /\ enr[e].status \in EnrollmentStatus
BY BoundsAssumption DEF TypeOK, EnrollmentRow

\* The key of a new enrollment is the next one.
LEMMA NextKey ==
  ASSUME TypeOK, nextEnr \in Ids, nextEnr' = nextEnr + 1,
         DOMAIN enr' = DOMAIN enr \cup {nextEnr}
  PROVE  nextEnr' \in 1 .. MaxEnrollments + 1 /\ DOMAIN enr' \subseteq 1 .. nextEnr' - 1
<1>1. nextEnr \in 1 .. MaxEnrollments + 1 /\ DOMAIN enr \subseteq 1 .. nextEnr - 1
  BY DEF TypeOK
<1>2. nextEnr \in 1 .. MaxEnrollments /\ MaxEnrollments \in Nat
  BY BoundsAssumption DEF Ids
<1> QED BY <1>1, <1>2

LEMMA EndKeeps ==
  ASSUME TypeOK, NEW w, End(w)
  PROVE  NoNewRequest
BY EndType DEF NoNewRequest

\* A table that does not change keeps its links.
LEMMA TransfersUnchanged ==
  ASSUME HistoryLeadsForward, transfers' = transfers
  PROVE  /\ \A e \in TransferTargets' : KeepsTransfer(e)
         /\ \A e \in DOMAIN transfers' : transfers'[e].status = "EXECUTED" => e \in TransferTargets'
BY DEF HistoryLeadsForward, TransferTargets, KeepsTransfer

LEMMA ItemsUnchanged ==
  ASSUME HistoryLeadsForward, items' = items
  PROVE  /\ \A e \in ItemTargets' : KeepsItem(e)
         /\ \A e \in DOMAIN items' : items'[e].outcome \in {"PROMOTED", "RETAINED"} => e \in ItemTargets'
BY DEF HistoryLeadsForward, ItemTargets, KeepsItem

LEMMA CreateKeeps ==
  ASSUME IInv, NEW w, CreateCommit(w)
  PROVE  IInv'
<1> DEFINE r == pending[w]
<1>1. TypeOK
  BY DEF IInv
<1>2. r.section \in Sections /\ r.number \in Numbers /\ r.roll \in Nat
  BY <1>1, WritingType, RequestFields DEF CreateCommit
<1>3. PICK s, row :
        /\ s \in Students
        /\ row = NewRow(s, r.section, r.number, r.roll)
        /\ student' = [student EXCEPT ![s] = "ACTIVE"]
        /\ enr' = Upsert(enr, OneRow(nextEnr, row))
  BY DEF CreateCommit
<1>4. row \in EnrollmentRow /\ row.student = s /\ row.status = "ACTIVE"
  BY <1>2, <1>3, BoundsAssumption DEF NewRow, EnrollmentRow, EnrollmentStatus
<1>5. /\ enr' \in [DOMAIN enr \cup {nextEnr} -> EnrollmentRow]
      /\ enr'[nextEnr] = row
      /\ \A e \in DOMAIN enr : enr'[e] = enr[e]
  <2>1. enr \in [DOMAIN enr -> EnrollmentRow] /\ nextEnr \notin DOMAIN enr
    BY <1>1, TypeFacts DEF TypeOK
  <2> QED BY <2>1, <1>3, <1>4 DEF Upsert, OneRow
<1>6. /\ nextEnr \in Ids /\ nextEnr' = nextEnr + 1 /\ End(w)
      /\ UNCHANGED <<transfers, items>>
  BY DEF CreateCommit
<1>7. TypeOK'
  <2>1. nextEnr' \in 1 .. MaxEnrollments + 1 /\ DOMAIN enr' \subseteq 1 .. nextEnr' - 1
    BY <1>1, <1>5, <1>6, TypeFacts DEF TypeOK, Ids
  <2>2. enr' \in [DOMAIN enr' -> EnrollmentRow] /\ DOMAIN enr \subseteq DOMAIN enr'
    BY <1>5
  <2>3. student' \in [Students -> StudentStatus]
    BY <1>1, <1>3 DEF TypeOK, StudentStatus
  <2> QED BY <1>1, <1>6, <2>1, <2>2, <2>3, EndType DEF TypeOK
<1>8. KeepsIdentity
  BY <1>1, <1>5, <1>6, TypeFacts DEF KeepsIdentity, TypeOK
<1>9. KeepsHistory /\ DistinctLinks
  BY <1>5, <1>6, TransfersUnchanged, ItemsUnchanged DEF KeepsHistory, DistinctLinks, IInv
<1>10. ActiveStudentIsEnrolled'
  BY <1>1, <1>3, <1>4, <1>5, TypeFacts DEF ActiveStudentIsEnrolled, IInv, TypeOK
<1>11. ProgressIsRecorded'
  BY <1>4, <1>5, <1>6 DEF ProgressIsRecorded, IInv, Progressed
<1> QED BY <1>1, <1>6, <1>7, <1>8, <1>9, <1>10, <1>11, EndKeeps, StepKeeps

LEMMA EditKeeps ==
  ASSUME IInv, NEW w, EditCommit(w)
  PROVE  IInv'
<1> DEFINE r == pending[w]
           e == r.enrollment
<1>1. TypeOK
  BY DEF IInv
<1>2. r.section \in Sections /\ r.roll \in Nat
  BY <1>1, WritingType, RequestFields DEF EditCommit
<1>3. /\ e \in DOMAIN enr
      /\ enr' = [enr EXCEPT ![e].section = r.section, ![e].roll = r.roll]
      /\ End(w)
      /\ UNCHANGED <<student, nextEnr, transfers, items>>
  BY DEF EditCommit
<1>4. /\ enr' \in [DOMAIN enr -> EnrollmentRow]
      /\ enr'[e].section = r.section
      /\ \A f \in DOMAIN enr : f # e => enr'[f] = enr[f]
      /\ \A f \in DOMAIN enr : /\ enr'[f].student = enr[f].student
                               /\ enr'[f].number = enr[f].number
                               /\ enr'[f].status = enr[f].status
  BY <1>1, <1>2, <1>3 DEF TypeOK, EnrollmentRow
<1>5. SchoolOf(enr[e].section) = SchoolOf(r.section)
  BY <1>3 DEF EditCommit, Writing, IInv, RequestsOK, RequestOK
<1>6. TypeOK'
  BY <1>1, <1>3, <1>4, EndType DEF TypeOK
<1>7. KeepsIdentity
  BY <1>1, <1>3, <1>4, <1>5, TypeFacts DEF KeepsIdentity, TypeOK
<1>8. KeepsHistory /\ DistinctLinks
  BY <1>3, <1>4, TransfersUnchanged, ItemsUnchanged DEF KeepsHistory, DistinctLinks, IInv
<1>9. ActiveStudentIsEnrolled'
  BY <1>3, <1>4 DEF ActiveStudentIsEnrolled, IInv
<1>10. ProgressIsRecorded'
  BY <1>3, <1>4 DEF ProgressIsRecorded, IInv
<1> QED BY <1>1, <1>3, <1>6, <1>7, <1>8, <1>9, <1>10, EndKeeps, StepKeeps

LEMMA ArchiveKeeps ==
  ASSUME IInv, NEW w, ArchiveCommit(w)
  PROVE  IInv'
<1> DEFINE r == pending[w]
           e == r.enrollment
<1>1. TypeOK
  BY DEF IInv
<1>2. r.student \in Students /\ RequestOK(r) /\ r.op = "archive"
  BY <1>1, WritingType, RequestFields DEF ArchiveCommit, Writing, IInv, RequestsOK
<1>3. /\ student' = [student EXCEPT ![r.student] = "ARCHIVED"]
      /\ End(w)
      /\ UNCHANGED <<nextEnr, transfers, items>>
  BY DEF ArchiveCommit
<1>4. /\ enr' \in [DOMAIN enr -> EnrollmentRow]
      /\ \A f \in DOMAIN enr :
           /\ enr'[f].student = enr[f].student
           /\ enr'[f].number = enr[f].number
           /\ enr'[f].section = enr[f].section
           /\ \/ enr'[f].status = enr[f].status
              \/ enr'[f].status = "WITHDRAWN" /\ enr[f].student = r.student
  <2>1. CASE UNCHANGED enr
    BY <1>1, <2>1 DEF TypeOK
  <2>2. CASE e \in DOMAIN enr /\ enr' = [enr EXCEPT ![e].status = "WITHDRAWN"]
    <3>1. enr[e].student = r.student
      BY <1>2, <2>2 DEF RequestOK
    <3> QED BY <1>1, <2>2, <3>1 DEF TypeOK, EnrollmentRow, EnrollmentStatus
  <2> QED BY <2>1, <2>2 DEF ArchiveCommit
<1>5. TypeOK'
  BY <1>1, <1>2, <1>3, <1>4, EndType DEF TypeOK, StudentStatus
<1>6. KeepsIdentity
  BY <1>1, <1>3, <1>4, TypeFacts DEF KeepsIdentity, TypeOK
<1>7. KeepsHistory /\ DistinctLinks
  BY <1>3, <1>4, TransfersUnchanged, ItemsUnchanged DEF KeepsHistory, DistinctLinks, IInv
<1>8. ActiveStudentIsEnrolled'
  <2> SUFFICES ASSUME NEW s \in Students, student'[s] = "ACTIVE"
               PROVE  \E f \in DOMAIN enr' : enr'[f].student = s /\ enr'[f].status = "ACTIVE"
    BY DEF ActiveStudentIsEnrolled
  <2>1. s # r.student /\ student[s] = "ACTIVE"
    BY <1>1, <1>2, <1>3 DEF TypeOK
  <2> QED BY <1>4, <2>1 DEF ActiveStudentIsEnrolled, IInv
<1>9. ProgressIsRecorded'
  BY <1>3, <1>4 DEF ProgressIsRecorded, IInv, Progressed
<1> QED BY <1>1, <1>3, <1>5, <1>6, <1>7, <1>8, <1>9, EndKeeps, StepKeeps

LEMMA RequestKeeps ==
  ASSUME IInv, NEW w, RequestCommit(w)
  PROVE  IInv'
<1> DEFINE r == pending[w]
           e == r.enrollment
<1>1. TypeOK
  BY DEF IInv
<1>2. r.toSchool \in Schools
  BY <1>1, WritingType, RequestFields DEF RequestCommit
<1>3. PICK row :
        /\ row = [status |-> "REQUESTED", toSchool |-> r.toSchool, toEnrollment |-> NoEnrollment]
        /\ transfers' = Upsert(transfers, OneRow(e, row))
        /\ e \in DOMAIN enr /\ e \notin DOMAIN transfers
        /\ End(w)
        /\ UNCHANGED <<student, enr, nextEnr, items>>
  BY DEF RequestCommit, TransferInsertFits
<1>4. /\ transfers' \in [DOMAIN transfers \cup {e} -> TransferRow]
      /\ transfers'[e] = row
      /\ \A f \in DOMAIN transfers : transfers'[f] = transfers[f]
  <2>1. row \in TransferRow
    BY <1>2, <1>3 DEF TransferRow, TransferStatus
  <2>2. transfers \in [DOMAIN transfers -> TransferRow]
    BY <1>1 DEF TypeOK
  <2> QED BY <2>1, <2>2, <1>3 DEF Upsert, OneRow
<1>5. TypeOK'
  <2>1. transfers' \in [DOMAIN transfers' -> TransferRow] /\ DOMAIN transfers' \subseteq DOMAIN enr
    BY <1>1, <1>3, <1>4 DEF TypeOK
  <2> QED BY <1>1, <1>3, <2>1, EndType DEF TypeOK
<1>6. KeepsIdentity
  BY <1>1, <1>3, <1>4, TypeFacts DEF KeepsIdentity, SchoolOf
<1>7. \A f \in TransferTargets' : KeepsTransfer(f)
  BY <1>3, <1>4 DEF TransferTargets, KeepsTransfer
<1>8. \A f \in DOMAIN transfers' : transfers'[f].status = "EXECUTED" => f \in TransferTargets'
  BY <1>3, <1>4 DEF TransferTargets, HistoryLeadsForward, IInv
<1>9. KeepsHistory /\ DistinctLinks
  BY <1>3, <1>7, <1>8, ItemsUnchanged DEF KeepsHistory, DistinctLinks, IInv
<1>10. ActiveStudentIsEnrolled' /\ ProgressIsRecorded'
  BY <1>3 DEF ActiveStudentIsEnrolled, ProgressIsRecorded, IInv
<1> QED BY <1>1, <1>3, <1>5, <1>6, <1>9, <1>10, EndKeeps, StepKeeps

LEMMA DecideKeeps ==
  ASSUME IInv, NEW w, DecideCommit(w)
  PROVE  IInv'
<1> DEFINE r == pending[w]
           e == r.enrollment
<1>1. TypeOK
  BY DEF IInv
<1>2. r.verdict \in {"REJECTED", "CANCELLED"}
  BY <1>1, WritingType, RequestFields DEF DecideCommit
<1>3. /\ transfers' = [transfers EXCEPT ![e].status = r.verdict]
      /\ e \in DOMAIN transfers
      /\ End(w)
      /\ UNCHANGED <<student, enr, nextEnr, items>>
  BY DEF DecideCommit
<1>4. /\ transfers' \in [DOMAIN transfers -> TransferRow]
      /\ transfers'[e].status = r.verdict
      /\ \A f \in DOMAIN transfers : /\ f # e => transfers'[f] = transfers[f]
                                     /\ transfers'[f].toEnrollment = transfers[f].toEnrollment
                                     /\ transfers'[f].toSchool = transfers[f].toSchool
  BY <1>1, <1>2, <1>3 DEF TypeOK, TransferRow, TransferStatus
<1>5. TypeOK'
  BY <1>1, <1>3, <1>4, EndType DEF TypeOK
<1>6. KeepsIdentity
  BY <1>1, <1>3, <1>4, TypeFacts DEF KeepsIdentity, SchoolOf
<1>7. \A f \in TransferTargets' : KeepsTransfer(f)
  BY <1>4 DEF TransferTargets, KeepsTransfer
<1>8. \A f \in DOMAIN transfers' : transfers'[f].status = "EXECUTED" => f \in TransferTargets'
  BY <1>2, <1>4 DEF TransferTargets, HistoryLeadsForward, IInv
<1>9. KeepsHistory /\ DistinctLinks
  BY <1>3, <1>7, <1>8, ItemsUnchanged DEF KeepsHistory, DistinctLinks, IInv
<1>10. ActiveStudentIsEnrolled' /\ ProgressIsRecorded'
  BY <1>3 DEF ActiveStudentIsEnrolled, ProgressIsRecorded, IInv
<1> QED BY <1>1, <1>3, <1>5, <1>6, <1>9, <1>10, EndKeeps, StepKeeps

\* updateMany closes ACTIVE rows and changes nothing else.
LEMMA TransferOutType ==
  ASSUME TypeOK, NEW E, NEW t, t = TransferOut(enr, E)
  PROVE  /\ t \in [DOMAIN enr -> EnrollmentRow]
         /\ \A e \in DOMAIN enr : /\ t[e].student = enr[e].student
                                  /\ t[e].section = enr[e].section
                                  /\ t[e].number = enr[e].number
                                  /\ \/ t[e] = enr[e]
                                     \/ e \in E /\ t[e].status = "TRANSFERRED_OUT"
<1>1. ASSUME NEW e \in DOMAIN enr
      PROVE  /\ t[e] \in EnrollmentRow
             /\ t[e].student = enr[e].student
             /\ t[e].section = enr[e].section
             /\ t[e].number = enr[e].number
             /\ t[e] = enr[e] \/ (e \in E /\ t[e].status = "TRANSFERRED_OUT")
  <2>1. enr[e] \in EnrollmentRow
    BY DEF TypeOK
  <2>2. CASE e \in E /\ enr[e].status = "ACTIVE"
    <3>1. t[e] = [enr[e] EXCEPT !.status = "TRANSFERRED_OUT"]
      BY <2>2 DEF TransferOut
    <3>2. t[e] \in EnrollmentRow
      BY <2>1, <3>1 DEF EnrollmentRow, EnrollmentStatus
    <3>3. /\ t[e].student = enr[e].student /\ t[e].section = enr[e].section
          /\ t[e].number = enr[e].number /\ t[e].status = "TRANSFERRED_OUT"
      BY <2>1, <3>1 DEF EnrollmentRow
    <3> QED BY <2>2, <3>2, <3>3
  <2>3. CASE ~ (e \in E /\ enr[e].status = "ACTIVE")
    <3>1. t[e] = enr[e]
      BY <2>3 DEF TransferOut
    <3> QED BY <2>1, <3>1
  <2> QED BY <2>2, <2>3
<1> QED BY <1>1 DEF TransferOut

LEMMA ApproveKeeps ==
  ASSUME IInv, NEW w, ApproveCommit(w)
  PROVE  IInv'
<1> DEFINE r == pending[w]
           e == r.enrollment
           out == TransferOut(enr, {e})
<1>1. TypeOK
  BY DEF IInv
<1>2. /\ r.section \in Sections /\ r.number \in Numbers /\ r.roll \in Nat
      /\ r.op = "approve" /\ RequestOK(r)
  BY <1>1, WritingType, RequestFields DEF ApproveCommit, Writing, IInv, RequestsOK
<1>3. PICK row :
        /\ row = NewRow(enr[e].student, r.section, r.number, r.roll)
        /\ enr' = Upsert(out, OneRow(nextEnr, row))
        /\ nextEnr \in Ids /\ nextEnr' = nextEnr + 1
        /\ e \in DOMAIN transfers
        /\ student' = [student EXCEPT ![enr[e].student] = "ACTIVE"]
        /\ transfers' = [transfers EXCEPT ![e].status = "EXECUTED", ![e].toEnrollment = nextEnr]
        /\ End(w) /\ UNCHANGED items
  BY DEF ApproveCommit
<1>4. e \in DOMAIN enr /\ enr[e].student \in Students
  BY <1>1, <1>3, TypeFacts DEF TypeOK
<1>5. /\ row \in EnrollmentRow /\ row.student = enr[e].student
      /\ row.status = "ACTIVE" /\ row.section = r.section
  BY <1>2, <1>3, <1>4, BoundsAssumption DEF NewRow, EnrollmentRow, EnrollmentStatus
<1>6. /\ out \in [DOMAIN enr -> EnrollmentRow]
      /\ \A f \in DOMAIN enr : /\ out[f].student = enr[f].student
                               /\ out[f].section = enr[f].section
                               /\ out[f].number = enr[f].number
                               /\ \/ out[f] = enr[f]
                                  \/ f = e /\ out[f].status = "TRANSFERRED_OUT"
  BY <1>1, TransferOutType
<1> HIDE DEF out
<1>7. /\ enr' \in [DOMAIN enr \cup {nextEnr} -> EnrollmentRow]
      /\ enr'[nextEnr] = row
      /\ \A f \in DOMAIN enr : enr'[f] = out[f]
  <2>1. nextEnr \notin DOMAIN enr
    BY <1>1, TypeFacts
  <2> QED BY <2>1, <1>3, <1>5, <1>6 DEF Upsert, OneRow
<1>8. /\ transfers' \in [DOMAIN transfers -> TransferRow]
      /\ transfers'[e].toEnrollment = nextEnr
      /\ \A f \in DOMAIN transfers : /\ transfers'[f].toSchool = transfers[f].toSchool
                                     /\ f # e => transfers'[f] = transfers[f]
  <2> DEFINE executed == [transfers[e] EXCEPT !.status = "EXECUTED", !.toEnrollment = nextEnr]
  <2>1. transfers \in [DOMAIN transfers -> TransferRow] /\ transfers[e] \in TransferRow
    BY <1>1, <1>3 DEF TypeOK
  <2>2. /\ executed \in TransferRow /\ executed.toEnrollment = nextEnr
        /\ executed.toSchool = transfers[e].toSchool
    BY <1>3, <2>1 DEF TransferRow, TransferStatus
  <2>3. transfers' = [transfers EXCEPT ![e] = executed]
    BY <1>3
  <2> HIDE DEF executed
  <2> QED BY <1>3, <2>1, <2>2, <2>3
<1>9. TypeOK'
  <2>1. nextEnr' \in 1 .. MaxEnrollments + 1 /\ DOMAIN enr' \subseteq 1 .. nextEnr' - 1
    <3>1. DOMAIN enr' = DOMAIN enr \cup {nextEnr}
      BY <1>7
    <3> QED BY <1>1, <1>3, <3>1, NextKey
  <2>2. enr' \in [DOMAIN enr' -> EnrollmentRow] /\ DOMAIN enr \subseteq DOMAIN enr'
    BY <1>7
  <2>3. student' \in [Students -> StudentStatus]
    BY <1>1, <1>3, <1>4 DEF TypeOK, StudentStatus
  <2>4. transfers' \in [DOMAIN transfers' -> TransferRow] /\ DOMAIN transfers' = DOMAIN transfers
    BY <1>8
  <2> QED BY <1>1, <1>3, <2>1, <2>2, <2>3, <2>4, EndType DEF TypeOK
<1>10. KeepsIdentity
  <2>1. nextEnr' \in Nat /\ nextEnr <= nextEnr'
    BY <1>1, <1>3, TypeFacts
  <2>2. \A f \in DOMAIN enr' :
          \/ f = nextEnr
          \/ /\ f \in DOMAIN enr /\ enr'[f].student = enr[f].student
             /\ enr'[f].number = enr[f].number /\ enr'[f].section = enr[f].section
    BY <1>6, <1>7
  <2>3. \A f \in DOMAIN transfers \cap DOMAIN enr' :
          f \in DOMAIN transfers' /\ transfers'[f].toSchool = transfers[f].toSchool
    BY <1>8
  <2> QED BY <1>1, <2>1, <2>2, <2>3, TypeFacts DEF KeepsIdentity
<1>11. KeepsHistory
  <2>1. ASSUME NEW f \in TransferTargets' PROVE KeepsTransfer(f) \/ LinksTransfer(f)
    <3>1. CASE f = e
      <4>1. transfers'[e].toSchool = SchoolOf(r.section)
        BY <1>2, <1>3, <1>4, <1>8 DEF RequestOK
      <4>2. nextEnr >= nextEnr /\ nextEnr \in DOMAIN enr'
        BY <1>1, <1>7, TypeFacts
      <4>3. transfers'[e].toEnrollment = nextEnr
        BY <1>8
      <4>4. enr'[nextEnr].student = enr[e].student /\ enr'[nextEnr].section = r.section
        BY <1>5, <1>7
      <4> QED BY <1>4, <3>1, <4>1, <4>2, <4>3, <4>4 DEF LinksTransfer
    <3>2. CASE f # e
      BY <1>8, <3>2 DEF KeepsTransfer, TransferTargets
    <3> QED BY <3>1, <3>2
  <2>2. ASSUME NEW f \in DOMAIN transfers', transfers'[f].status = "EXECUTED"
        PROVE  f \in TransferTargets'
    <3>1. CASE f = e
      BY <1>3, <1>8, <2>2, <3>1, BoundsAssumption DEF TransferTargets, NoEnrollment, Ids
    <3>2. CASE f # e
      BY <1>8, <2>2, <3>2 DEF TransferTargets, HistoryLeadsForward, IInv
    <3> QED BY <3>1, <3>2
  <2> QED BY <1>3, <1>7, <2>1, <2>2, ItemsUnchanged DEF KeepsHistory, IInv
<1>12. DistinctLinks
  <2>1. \A f \in TransferTargets' : f # e => KeepsTransfer(f)
    BY <1>8 DEF KeepsTransfer, TransferTargets
  <2> QED BY <1>3, <2>1, ItemsUnchanged DEF DistinctLinks, IInv
<1>13. ActiveStudentIsEnrolled'
  <2> SUFFICES ASSUME NEW s \in Students, student'[s] = "ACTIVE"
               PROVE  \E f \in DOMAIN enr' : enr'[f].student = s /\ enr'[f].status = "ACTIVE"
    BY DEF ActiveStudentIsEnrolled
  <2>1. CASE s = enr[e].student
    BY <1>5, <1>7, <2>1
  <2>2. CASE s # enr[e].student
    <3>1. student[s] = "ACTIVE"
      BY <1>1, <1>3, <2>2 DEF TypeOK
    <3>2. PICK f \in DOMAIN enr : enr[f].student = s /\ enr[f].status = "ACTIVE"
      BY <3>1 DEF ActiveStudentIsEnrolled, IInv
    <3> QED BY <1>6, <1>7, <2>2, <3>2
  <2> QED BY <2>1, <2>2
<1>14. ProgressIsRecorded'
  <2> SUFFICES ASSUME NEW f \in DOMAIN enr', enr'[f].status \in Progressed
               PROVE  f \in DOMAIN items /\ items[f].outcome = enr'[f].status
    BY <1>3 DEF ProgressIsRecorded
  <2>1. f \in DOMAIN enr /\ enr'[f] = enr[f]
    BY <1>5, <1>6, <1>7 DEF Progressed
  <2> QED BY <2>1 DEF ProgressIsRecorded, IInv
<1> QED BY <1>1, <1>3, <1>9, <1>10, <1>11, <1>12, <1>13, <1>14, EndKeeps, StepKeeps

LEMMA ReverseKeeps ==
  ASSUME IInv, NEW w, ReverseCommit(w)
  PROVE  IInv'
<1> DEFINE r == pending[w]
           e == r.enrollment
<1>1. TypeOK
  BY DEF IInv
<1>2. r.undone \in 0 .. MaxUndo - 1 /\ r.roll \in Nat
  BY <1>1, WritingType, RequestFields DEF ReverseCommit
<1>3. /\ e \in DOMAIN enr
      /\ enr' = [enr EXCEPT ![e].status = "ACTIVE", ![e].roll = r.roll, ![e].undone = r.undone + 1]
      /\ student' = [student EXCEPT ![enr[e].student] = "ACTIVE"]
      /\ items' = Without(items, {e}) \/ items' = items
      /\ End(w)
      /\ UNCHANGED <<nextEnr, transfers>>
  BY DEF ReverseCommit
<1>4. enr[e] \in EnrollmentRow /\ enr[e].student \in Students
  BY <1>1, <1>3, TypeFacts DEF TypeOK
<1>5. /\ enr' \in [DOMAIN enr -> EnrollmentRow]
      /\ enr'[e].status = "ACTIVE"
      /\ \A f \in DOMAIN enr : /\ f # e => enr'[f] = enr[f]
                               /\ enr'[f].student = enr[f].student
                               /\ enr'[f].number = enr[f].number
                               /\ enr'[f].section = enr[f].section
  <2>1. r.undone + 1 \in 0 .. MaxUndo
    BY <1>2, BoundsAssumption
  <2>2. [enr[e] EXCEPT !.status = "ACTIVE", !.roll = r.roll, !.undone = r.undone + 1] \in EnrollmentRow
    BY <1>2, <1>4, <2>1 DEF EnrollmentRow, EnrollmentStatus
  <2>3. enr' = [enr EXCEPT ![e] = [enr[e] EXCEPT !.status = "ACTIVE", !.roll = r.roll, !.undone = r.undone + 1]]
    BY <1>3
  <2>4. enr \in [DOMAIN enr -> EnrollmentRow]
    BY <1>1 DEF TypeOK
  <2>5. enr' \in [DOMAIN enr -> EnrollmentRow]
    BY <2>2, <2>3, <2>4
  <2>6. enr'[e] = [enr[e] EXCEPT !.status = "ACTIVE", !.roll = r.roll, !.undone = r.undone + 1]
    BY <1>3, <2>3, <2>4
  <2>7. /\ enr'[e].status = "ACTIVE" /\ enr'[e].student = enr[e].student
        /\ enr'[e].number = enr[e].number /\ enr'[e].section = enr[e].section
    BY <1>4, <2>6 DEF EnrollmentRow
  <2>8. \A f \in DOMAIN enr : f # e => enr'[f] = enr[f]
    BY <2>3, <2>4
  <2> QED BY <2>5, <2>7, <2>8
<1>6. /\ items' \in [DOMAIN items' -> ItemRow] /\ DOMAIN items' \subseteq DOMAIN items
      /\ \A f \in DOMAIN items' : items'[f] = items[f]
      /\ \A f \in DOMAIN items : f # e => f \in DOMAIN items'
  BY <1>1, <1>3 DEF TypeOK, Without
<1>7. TypeOK'
  <2>1. student' \in [Students -> StudentStatus]
    BY <1>1, <1>3, <1>4 DEF TypeOK, StudentStatus
  <2>2. DOMAIN enr' = DOMAIN enr /\ enr' \in [DOMAIN enr' -> EnrollmentRow]
    BY <1>5
  <2>3. /\ nextEnr' \in 1 .. MaxEnrollments + 1 /\ DOMAIN enr' \subseteq 1 .. nextEnr' - 1
        /\ transfers' \in [DOMAIN transfers' -> TransferRow]
        /\ DOMAIN transfers' \subseteq DOMAIN enr' /\ DOMAIN items' \subseteq DOMAIN enr'
    <3>1. nextEnr' = nextEnr /\ transfers' = transfers
      BY <1>3
    <3>2. /\ nextEnr \in 1 .. MaxEnrollments + 1 /\ DOMAIN enr \subseteq 1 .. nextEnr - 1
          /\ transfers \in [DOMAIN transfers -> TransferRow]
          /\ DOMAIN transfers \subseteq DOMAIN enr /\ DOMAIN items \subseteq DOMAIN enr
      BY <1>1 DEF TypeOK
    <3> QED BY <1>6, <2>2, <3>1, <3>2
  <2>4. pending' \in [DOMAIN pending' -> Request] /\ DOMAIN pending' \subseteq Workers
    BY <1>1, <1>3, EndType
  <2> QED BY <1>6, <2>1, <2>2, <2>3, <2>4 DEF TypeOK
<1>8. KeepsIdentity
  <2>1. \A f \in DOMAIN enr : f \in Nat /\ f < nextEnr
    BY <1>1, TypeFacts
  <2>2. nextEnr \in Nat /\ nextEnr' = nextEnr
    BY <1>1, <1>3, TypeFacts
  <2>3. DOMAIN enr' = DOMAIN enr /\ transfers' = transfers
    BY <1>3, <1>5
  <2> QED BY <1>5, <2>1, <2>2, <2>3 DEF KeepsIdentity
<1>9. \A f \in ItemTargets' : KeepsItem(f)
  BY <1>6 DEF ItemTargets, KeepsItem
<1>10. \A f \in DOMAIN items' : items'[f].outcome \in {"PROMOTED", "RETAINED"} => f \in ItemTargets'
  BY <1>6 DEF ItemTargets, HistoryLeadsForward, IInv
<1>11. KeepsHistory /\ DistinctLinks
  BY <1>3, <1>5, <1>9, <1>10, TransfersUnchanged DEF KeepsHistory, DistinctLinks, IInv
<1>12. ActiveStudentIsEnrolled'
  <2> SUFFICES ASSUME NEW s \in Students, student'[s] = "ACTIVE"
               PROVE  \E f \in DOMAIN enr' : enr'[f].student = s /\ enr'[f].status = "ACTIVE"
    BY DEF ActiveStudentIsEnrolled
  <2>1. CASE s = enr[e].student
    BY <1>3, <1>5, <2>1
  <2>2. CASE s # enr[e].student
    <3>1. student[s] = "ACTIVE"
      BY <1>1, <1>3, <2>2 DEF TypeOK
    <3> QED BY <1>5, <3>1 DEF ActiveStudentIsEnrolled, IInv
  <2> QED BY <2>1, <2>2
<1>13. ProgressIsRecorded'
  BY <1>5, <1>6 DEF ProgressIsRecorded, IInv, Progressed
<1> QED BY <1>1, <1>3, <1>7, <1>8, <1>11, <1>12, <1>13, EndKeeps, StepKeeps

LEMMA RemoveKeeps ==
  ASSUME IInv, NEW s \in Students, Remove(s)
  PROVE  IInv'
<1> DEFINE K == EnrollmentsOf(s)
<1>1. TypeOK
  BY DEF IInv
<1>2. /\ student' = [student EXCEPT ![s] = "REMOVED"]
      /\ enr' = Without(enr, K)
      /\ transfers' = Without(transfers, K)
      /\ items' = Without(items, K)
      /\ UNCHANGED <<nextEnr, pending>>
  BY DEF Remove
<1>3. \A e \in DOMAIN enr : e \in K <=> enr[e].student = s
  BY DEF EnrollmentsOf
<1> HIDE DEF K
<1>4. /\ DOMAIN enr' = DOMAIN enr \ K /\ enr' \in [DOMAIN enr' -> EnrollmentRow]
      /\ \A e \in DOMAIN enr' : enr'[e] = enr[e]
  BY <1>1, <1>2 DEF TypeOK, Without
<1>5. /\ DOMAIN transfers' = DOMAIN transfers \ K
      /\ transfers' \in [DOMAIN transfers' -> TransferRow]
      /\ \A e \in DOMAIN transfers' : transfers'[e] = transfers[e]
  BY <1>1, <1>2 DEF TypeOK, Without
<1>6. /\ DOMAIN items' = DOMAIN items \ K /\ items' \in [DOMAIN items' -> ItemRow]
      /\ \A e \in DOMAIN items' : items'[e] = items[e]
  BY <1>1, <1>2 DEF TypeOK, Without
<1>7. TypeOK'
  <2>1. student' \in [Students -> StudentStatus]
    BY <1>1, <1>2 DEF TypeOK, StudentStatus
  <2> QED BY <1>1, <1>2, <1>4, <1>5, <1>6, <2>1 DEF TypeOK
<1>8. NoNewRequest
  BY <1>2 DEF NoNewRequest
<1>9. KeepsIdentity
  BY <1>1, <1>2, <1>4, <1>5, TypeFacts DEF KeepsIdentity
<1>10. /\ \A e \in TransferTargets' : KeepsTransfer(e)
       /\ \A e \in ItemTargets' : KeepsItem(e)
  BY <1>5, <1>6 DEF TransferTargets, ItemTargets, KeepsTransfer, KeepsItem
<1>11. /\ \A e \in DOMAIN transfers' : transfers'[e].status = "EXECUTED" => e \in TransferTargets'
       /\ \A e \in DOMAIN items' : items'[e].outcome \in {"PROMOTED", "RETAINED"} => e \in ItemTargets'
  BY <1>5, <1>6 DEF TransferTargets, ItemTargets, HistoryLeadsForward, IInv
<1>12. KeepsHistory /\ DistinctLinks
  BY <1>3, <1>4, <1>10, <1>11 DEF KeepsHistory, DistinctLinks
<1>13. ActiveStudentIsEnrolled'
  BY <1>1, <1>2, <1>3, <1>4 DEF ActiveStudentIsEnrolled, IInv, TypeOK
<1>14. ProgressIsRecorded'
  BY <1>4, <1>6 DEF ProgressIsRecorded, IInv
<1> QED BY <1>7, <1>8, <1>9, <1>12, <1>13, <1>14, StepKeeps

\* A batch writes t, its changes to the rows that exist, and its new rows.
BatchWritten(t, E, key, target, number) ==
  /\ nextEnr' \in 1 .. MaxEnrollments + 1
  /\ DOMAIN enr \subseteq DOMAIN enr' /\ DOMAIN enr' \subseteq 1 .. nextEnr' - 1
  /\ enr' \in [DOMAIN enr' -> EnrollmentRow]
  /\ \A e \in DOMAIN enr : enr'[e] = t[e]
  /\ \A e \in E : /\ key[e] \in Ids /\ key[e] \in Nat /\ key[e] >= nextEnr
                  /\ key[e] \in DOMAIN enr'
                  /\ enr'[key[e]].student = enr[e].student
                  /\ enr'[key[e]].section = target[e]
                  /\ enr'[key[e]].number = number[e]
                  /\ enr'[key[e]].status = "ACTIVE"
  /\ \A k \in DOMAIN enr' : k \in DOMAIN enr \/ \E e \in E : k = key[e]
  /\ KeepsIdentity

\* t changes neither whose enrollment a row is nor where.
SameSeats(t) ==
  /\ t \in [DOMAIN enr -> EnrollmentRow]
  /\ \A e \in DOMAIN enr : /\ t[e].student = enr[e].student
                           /\ t[e].section = enr[e].section
                           /\ t[e].number = enr[e].number

LEMMA BatchWrites ==
  ASSUME TypeOK, NEW E, E \subseteq DOMAIN enr, NEW key \in NewKeys(E),
         NEW target \in [E -> Sections], NEW number \in [E -> Numbers],
         NEW t, SameSeats(t),
         nextEnr + Cardinality(E) - 1 \in 0 .. MaxEnrollments,
         nextEnr' = nextEnr + Cardinality(E),
         enr' = Upsert(t, BatchRows(key, target, number)),
         \A e \in DOMAIN transfers : e \in DOMAIN transfers' /\ transfers'[e].toSchool = transfers[e].toSchool
  PROVE  BatchWritten(t, E, key, target, number)
<1>1. /\ DOMAIN key = E
      /\ \A e \in E : /\ key[e] \in Nat /\ nextEnr <= key[e] /\ key[e] < nextEnr + Cardinality(E)
                      /\ key[e] \notin DOMAIN enr
  BY NewKeysType
<1>2. /\ nextEnr \in Nat /\ 1 <= nextEnr /\ MaxEnrollments \in Nat /\ Cardinality(E) \in Nat
      /\ \A e \in DOMAIN enr : e \in Nat /\ e >= 1 /\ e < nextEnr
  BY TypeFacts, EnrollmentsFinite DEF TypeOK
<1>0. PICK rows : rows = BatchRows(key, target, number)
  OBVIOUS
<1>3. /\ rows \in [DOMAIN rows -> EnrollmentRow]
      /\ DOMAIN rows = {key[e] : e \in E}
      /\ \A e \in E : /\ rows[key[e]].student = enr[e].student
                      /\ rows[key[e]].status = "ACTIVE"
                      /\ rows[key[e]].section = target[e]
                      /\ rows[key[e]].number = number[e]
  <2>1. BatchOf(rows, E, key, target, number)
    BY <1>0, BatchRowsType
  <2> QED BY <2>1 DEF BatchOf
<1>4. enr' = Upsert(t, rows)
  BY <1>0
<1>5. /\ DOMAIN enr' = DOMAIN enr \cup {key[e] : e \in E}
      /\ enr' \in [DOMAIN enr' -> EnrollmentRow]
      /\ \A k \in DOMAIN enr' : enr'[k] = IF k \in DOMAIN rows THEN rows[k] ELSE t[k]
  BY <1>3, <1>4 DEF Upsert, SameSeats
<1>6. \A e \in DOMAIN enr : enr'[e] = t[e]
  BY <1>1, <1>3, <1>5
<1>7. \A e \in E : key[e] \in DOMAIN enr' /\ enr'[key[e]] = rows[key[e]]
  BY <1>3, <1>5
<1>8. \A e \in E : key[e] \in Ids /\ key[e] >= nextEnr
  BY <1>1, <1>2 DEF Ids
<1>9. nextEnr' \in 1 .. MaxEnrollments + 1
  BY <1>2
<1>10. DOMAIN enr' \subseteq 1 .. nextEnr' - 1
  BY <1>1, <1>2, <1>5
<1>11. KeepsIdentity
  <2>1. ASSUME NEW k \in DOMAIN enr'
        PROVE  /\ k \in Nat
               /\ \/ k >= nextEnr
                  \/ /\ k \in DOMAIN enr
                     /\ enr'[k].student = enr[k].student
                     /\ enr'[k].number = enr[k].number
                     /\ SchoolOf(enr'[k].section) = SchoolOf(enr[k].section)
    <3>1. CASE k \in DOMAIN enr
      BY <1>2, <1>6, <3>1 DEF SameSeats
    <3>2. CASE k \notin DOMAIN enr
      <4>1. PICK e \in E : k = key[e]
        BY <1>5, <3>2
      <4> QED BY <4>1, <1>1, <1>8
    <3> QED BY <3>1, <3>2
  <2>2. nextEnr' \in Nat /\ nextEnr <= nextEnr'
    BY <1>2
  <2> QED BY <1>2, <2>1, <2>2 DEF KeepsIdentity
<1> QED BY <1>1, <1>3, <1>5, <1>6, <1>7, <1>8, <1>9, <1>10, <1>11 DEF BatchWritten

\* A batch leaves the other rows alone, gives its students an ACTIVE row and makes
\* nobody else ACTIVE.
MovesActive(E, key) ==
  /\ \A e \in DOMAIN enr : /\ e \in DOMAIN enr' /\ enr'[e].student = enr[e].student
                           /\ e \notin E => enr'[e].status = enr[e].status
  /\ \A e \in E : /\ key[e] \in DOMAIN enr' /\ enr'[key[e]].status = "ACTIVE"
                  /\ enr'[key[e]].student = enr[e].student
  /\ \A s \in Students : \/ \E e \in E : s = enr[e].student
                         \/ student'[s] = student[s]

\* After a batch a student is ACTIVE in the new row or as before.
LEMMA BatchActive ==
  ASSUME IInv, NEW E, NEW key, MovesActive(E, key)
  PROVE  ActiveStudentIsEnrolled'
<1> SUFFICES ASSUME NEW s \in Students, student'[s] = "ACTIVE"
             PROVE  \E f \in DOMAIN enr' : enr'[f].student = s /\ enr'[f].status = "ACTIVE"
  BY DEF ActiveStudentIsEnrolled
<1>1. CASE \E e \in E : s = enr[e].student
  BY <1>1 DEF MovesActive
<1>2. CASE ~ \E e \in E : s = enr[e].student
  <2>1. student[s] = "ACTIVE"
    BY <1>2 DEF MovesActive
  <2>2. PICK f \in DOMAIN enr : enr[f].student = s /\ enr[f].status = "ACTIVE"
    BY <2>1 DEF ActiveStudentIsEnrolled, IInv
  <2>3. f \notin E
    BY <1>2, <2>2
  <2> QED BY <2>2, <2>3 DEF MovesActive
<1> QED BY <1>1, <1>2

LEMMA BulkKeeps ==
  ASSUME IInv, NEW w, BulkCommit(w)
  PROVE  IInv'
<1> DEFINE target == pending[w].target
           E == DOMAIN target
           out == TransferOut(enr, E)
           number(key) == [e \in E |-> NumberAfter(target[e], RankInBatch(key, e))]
           moved(key) == BulkTransfers(target, key)
<1>1. TypeOK
  BY DEF IInv
<1>2. target \in [E -> Sections]
  BY <1>1, WritingType, RequestFields, AssignmentsType DEF BulkCommit
<1>3. PICK key \in NewKeys(E) :
        /\ enr' = Upsert(out, BatchRows(key, target, number(key)))
        /\ transfers' = Upsert(transfers, moved(key))
  BY DEF BulkCommit
<1>4. /\ E \subseteq DOMAIN enr /\ E \cap DOMAIN transfers = {}
      /\ nextEnr + Cardinality(E) - 1 \in Ids /\ nextEnr' = nextEnr + Cardinality(E)
      /\ student' = [s \in Students |->
                       IF s \in {enr[e].student : e \in E} THEN "ACTIVE" ELSE student[s]]
      /\ End(w) /\ UNCHANGED items
  BY DEF BulkCommit, TransferInsertFits
<1>5. number(key) \in [E -> Numbers]
  <2> SUFFICES ASSUME NEW e \in E PROVE NumberAfter(target[e], RankInBatch(key, e)) \in Numbers
    OBVIOUS
  <2>1. RankInBatch(key, e) \in Nat
    BY <1>1, <1>4, NewKeysType, EnrollmentsFinite DEF RankInBatch
  <2>2. Cardinality({f \in DOMAIN enr : SameYear(enr[f].section, target[e])}) \in Nat
    BY <1>1, EnrollmentsFinite
  <2>3. YearOf(target[e]) \in Nat
    BY <1>1, <1>2, ReadTypes
  <2> QED BY <2>1, <2>2, <2>3 DEF NumberAfter, Numbers
<1>6. /\ out \in [DOMAIN enr -> EnrollmentRow]
      /\ \A f \in DOMAIN enr : /\ out[f].student = enr[f].student
                               /\ out[f].section = enr[f].section
                               /\ out[f].number = enr[f].number
                               /\ \/ out[f] = enr[f]
                                  \/ f \in E /\ out[f].status = "TRANSFERRED_OUT"
  BY <1>1, TransferOutType
<1>7. /\ transfers' = [e \in DOMAIN transfers \cup E |->
                         IF e \in E THEN moved(key)[e] ELSE transfers[e]]
      /\ \A e \in DOMAIN transfers : e \notin E
  BY <1>3, <1>4 DEF Upsert, BulkTransfers
<1>8. /\ DOMAIN transfers' = DOMAIN transfers \cup E
      /\ \A e \in DOMAIN transfers : transfers'[e] = transfers[e]
      /\ \A e \in E : /\ transfers'[e].status = "EXECUTED"
                      /\ transfers'[e].toSchool = SchoolOf(target[e])
                      /\ transfers'[e].toEnrollment = key[e]
                      /\ transfers'[e] = [status |-> "EXECUTED", toSchool |-> SchoolOf(target[e]),
                                          toEnrollment |-> key[e]]
  BY <1>7 DEF BulkTransfers
<1>9. nextEnr + Cardinality(E) - 1 \in 0 .. MaxEnrollments
  BY <1>4, BoundsAssumption DEF Ids
<1> HIDE DEF target, E, out, number, moved
<1>10. BatchWritten(out, E, key, target, number(key))
  <2>1. SameSeats(out)
    BY <1>6 DEF SameSeats
  <2> QED BY <1>1, <1>2, <1>3, <1>4, <1>5, <1>8, <1>9, <2>1, BatchWrites
<1>11. TypeOK'
  <2>1. student' \in [Students -> StudentStatus]
    BY <1>1, <1>4 DEF TypeOK, StudentStatus
  <2>2. \A e \in E : SchoolOf(target[e]) \in Schools
    BY <1>1, <1>2, ReadTypes
  <2>3. \A e \in E : transfers'[e] \in TransferRow
    BY <1>8, <1>10, <2>2 DEF TransferRow, TransferStatus, BatchWritten
  <2>4. transfers' \in [DOMAIN transfers' -> TransferRow]
    BY <1>1, <1>7, <1>8, <2>3 DEF TypeOK
  <2> QED BY <1>1, <1>4, <1>8, <1>10, <2>1, <2>4, EndType DEF TypeOK, BatchWritten
<1>12. \A f \in TransferTargets' : KeepsTransfer(f) \/ (f \in E /\ LinksTransfer(f))
  BY <1>4, <1>8, <1>10 DEF TransferTargets, KeepsTransfer, LinksTransfer, BatchWritten
<1>13. \A f \in DOMAIN transfers' : transfers'[f].status = "EXECUTED" => f \in TransferTargets'
  <2> SUFFICES ASSUME NEW f \in DOMAIN transfers', transfers'[f].status = "EXECUTED"
               PROVE  f \in TransferTargets'
    OBVIOUS
  <2>1. CASE f \in E
    BY <1>8, <1>10, <2>1, BoundsAssumption DEF TransferTargets, NoEnrollment, Ids, BatchWritten
  <2>2. CASE f \notin E
    BY <1>8, <2>2 DEF TransferTargets, HistoryLeadsForward, IInv
  <2> QED BY <2>1, <2>2
<1>14. KeepsHistory
  BY <1>4, <1>10, <1>12, <1>13, ItemsUnchanged DEF KeepsHistory, IInv, BatchWritten
<1>15. DistinctLinks
  BY <1>1, <1>4, <1>8, <1>12, ItemsUnchanged, NewKeysType DEF DistinctLinks, IInv
<1>16. ActiveStudentIsEnrolled'
  <2>1. \A e \in DOMAIN enr : /\ e \in DOMAIN enr' /\ enr'[e].student = enr[e].student
                              /\ e \notin E => enr'[e].status = enr[e].status
    BY <1>6, <1>10 DEF BatchWritten
  <2>2. \A s \in Students : \/ \E e \in E : s = enr[e].student
                            \/ student'[s] = student[s]
    BY <1>4
  <2>3. \A e \in E : /\ key[e] \in DOMAIN enr' /\ enr'[key[e]].status = "ACTIVE"
                     /\ enr'[key[e]].student = enr[e].student
    BY <1>10 DEF BatchWritten
  <2>4. MovesActive(E, key)
    BY <2>1, <2>2, <2>3 DEF MovesActive
  <2> QED BY <2>4, BatchActive
<1>17. ProgressIsRecorded'
  <2> SUFFICES ASSUME NEW f \in DOMAIN enr', enr'[f].status \in Progressed
               PROVE  f \in DOMAIN items /\ items[f].outcome = enr'[f].status
    BY <1>4 DEF ProgressIsRecorded
  <2>1. f \in DOMAIN enr /\ enr'[f] = enr[f]
    BY <1>6, <1>10 DEF Progressed, BatchWritten
  <2> QED BY <2>1 DEF ProgressIsRecorded, IInv
<1> QED BY <1>1, <1>4, <1>10, <1>11, <1>14, <1>15, <1>16, <1>17, EndKeeps, StepKeeps DEF BatchWritten

LEMMA Form1Keeps ==
  ASSUME IInv, NEW w, Form1Commit(w)
  PROVE  IInv'
<1> DEFINE target == pending[w].target
           E == DOMAIN target
           number == [e \in E |-> enr[e].number]
<1>1. TypeOK
  BY DEF IInv
<1>2. target \in [E -> Sections]
  BY <1>1, WritingType, RequestFields, AssignmentsType DEF Form1Commit
<1>3. PICK key \in NewKeys(E) :
        /\ enr' = Upsert(enr, BatchRows(key, target, number))
        /\ items' = [e \in DOMAIN items |->
             IF e \in E THEN [items[e] EXCEPT !.toEnrollment = key[e]] ELSE items[e]]
  BY DEF Form1Commit
<1>4. /\ E \subseteq DOMAIN enr /\ E \subseteq DOMAIN items
      /\ nextEnr + Cardinality(E) - 1 \in Ids /\ nextEnr' = nextEnr + Cardinality(E)
      /\ student' = [s \in Students |->
                       IF s \in {enr[e].student : e \in E} THEN "ACTIVE" ELSE student[s]]
      /\ End(w) /\ UNCHANGED transfers
  BY DEF Form1Commit
<1>5. number \in [E -> Numbers] /\ \A e \in E : number[e] = enr[e].number
  BY <1>1, <1>4, TypeFacts
<1> HIDE DEF target, E, number
<1>6. BatchWritten(enr, E, key, target, number)
  <2>1. SameSeats(enr)
    BY <1>1 DEF SameSeats, TypeOK
  <2>2. nextEnr + Cardinality(E) - 1 \in 0 .. MaxEnrollments
    BY <1>4, BoundsAssumption DEF Ids
  <2> QED BY <1>1, <1>2, <1>3, <1>4, <1>5, <2>1, <2>2, BatchWrites
<1>7. /\ DOMAIN items' = DOMAIN items
      /\ \A f \in DOMAIN items : /\ items'[f] \in ItemRow
                                 /\ items'[f].outcome = items[f].outcome
                                 /\ f \notin E => items'[f] = items[f]
                                 /\ f \in E => items'[f].toEnrollment = key[f]
  <2>1. \A f \in DOMAIN items : items[f] \in ItemRow
    BY <1>1 DEF TypeOK
  <2>2. \A f \in E : key[f] \in Ids
    BY <1>6 DEF BatchWritten
  <2> QED BY <1>3, <2>1, <2>2 DEF ItemRow
<1>8. TypeOK'
  <2>1. student' \in [Students -> StudentStatus]
    BY <1>1, <1>4 DEF TypeOK, StudentStatus
  <2>2. items' \in [DOMAIN items' -> ItemRow]
    BY <1>3, <1>7
  <2> QED BY <1>1, <1>4, <1>6, <1>7, <2>1, <2>2, EndType DEF TypeOK, BatchWritten
<1>9. \A f \in ItemTargets' : KeepsItem(f) \/ (f \in E /\ LinksItem(f))
  BY <1>4, <1>5, <1>6, <1>7 DEF ItemTargets, KeepsItem, LinksItem, BatchWritten
<1>10. \A f \in DOMAIN items' : items'[f].outcome \in {"PROMOTED", "RETAINED"} => f \in ItemTargets'
  <2> SUFFICES ASSUME NEW f \in DOMAIN items', items'[f].outcome \in {"PROMOTED", "RETAINED"}
               PROVE  f \in ItemTargets'
    OBVIOUS
  <2>1. CASE f \in E
    BY <1>6, <1>7, <2>1, BoundsAssumption DEF ItemTargets, NoEnrollment, Ids, BatchWritten
  <2>2. CASE f \notin E
    BY <1>7, <2>2 DEF ItemTargets, HistoryLeadsForward, IInv
  <2> QED BY <2>1, <2>2
<1>11. KeepsHistory
  BY <1>4, <1>6, <1>9, <1>10, TransfersUnchanged DEF KeepsHistory, IInv, BatchWritten
<1>12. DistinctLinks
  BY <1>1, <1>4, <1>7, <1>9, TransfersUnchanged, NewKeysType DEF DistinctLinks, IInv
<1>13. ActiveStudentIsEnrolled'
  <2>1. \A e \in DOMAIN enr : /\ e \in DOMAIN enr' /\ enr'[e].student = enr[e].student
                              /\ e \notin E => enr'[e].status = enr[e].status
    BY <1>6 DEF BatchWritten
  <2>2. \A s \in Students : (\E e \in E : s = enr[e].student) \/ student'[s] = student[s]
    BY <1>4
  <2>3. \A e \in E : /\ key[e] \in DOMAIN enr' /\ enr'[key[e]].status = "ACTIVE"
                     /\ enr'[key[e]].student = enr[e].student
    BY <1>6 DEF BatchWritten
  <2>4. MovesActive(E, key)
    BY <2>1, <2>2, <2>3 DEF MovesActive
  <2> QED BY <2>4, BatchActive
<1>14. ProgressIsRecorded'
  <2> SUFFICES ASSUME NEW f \in DOMAIN enr', enr'[f].status \in Progressed
               PROVE  f \in DOMAIN items' /\ items'[f].outcome = enr'[f].status
    BY DEF ProgressIsRecorded
  <2>1. f \in DOMAIN enr /\ enr'[f] = enr[f]
    BY <1>6 DEF Progressed, BatchWritten
  <2> QED BY <2>1, <1>7 DEF ProgressIsRecorded, IInv
<1>15. KeepsIdentity
  BY <1>6 DEF BatchWritten
<1> QED BY <1>1, <1>4, <1>8, <1>11, <1>12, <1>13, <1>14, <1>15, EndKeeps, StepKeeps

LEMMA PromoteKeeps ==
  ASSUME IInv, NEW w, PromoteCommit(w)
  PROVE  IInv'
<1> DEFINE outcome == pending[w].outcome
           target == pending[w].target
           E == DOMAIN outcome
           C == DOMAIN target
           ended == {enr[e].student : e \in E \ C}
           closed == [e \in DOMAIN enr |->
                        IF e \in E THEN [enr[e] EXCEPT !.status = outcome[e]] ELSE enr[e]]
           number == [e \in C |-> enr[e].number]
           item(key) == PromotionItems(outcome, target, key)
<1>1. TypeOK
  BY DEF IInv
<1>2. pending[w] \in Request /\ pending[w].op = "promote" /\ RequestOK(pending[w])
  BY <1>1, WritingType DEF PromoteCommit, Writing, IInv, RequestsOK
<1>3. target \in [C -> Sections] /\ outcome \in [E -> Progressed]
  BY <1>2, RequestFields, AssignmentsType
<1>4. C = {e \in E : outcome[e] \in {"PROMOTED", "RETAINED"}}
  BY <1>2 DEF RequestOK, Continues
<1>5. PICK key \in NewKeys(C) :
        /\ enr' = Upsert(closed, BatchRows(key, target, number))
        /\ items' = Upsert(items, item(key))
  BY DEF PromoteCommit
<1>6. /\ E \subseteq DOMAIN enr /\ E \cap DOMAIN items = {}
      /\ nextEnr + Cardinality(C) - 1 \in 0 .. MaxEnrollments /\ nextEnr' = nextEnr + Cardinality(C)
      /\ student' = [s \in Students |->
           IF s \in ended THEN outcome[CHOOSE e \in E \ C : enr[e].student = s] ELSE student[s]]
      /\ End(w) /\ UNCHANGED transfers
  BY DEF PromoteCommit
<1>7. C \subseteq E
  BY <1>4
<1>8. number \in [C -> Numbers] /\ \A e \in C : number[e] = enr[e].number
  BY <1>1, <1>6, <1>7, TypeFacts
<1>9. /\ \A e \in DOMAIN enr : e \notin E => closed[e] = enr[e]
      /\ \A e \in E : closed[e].status = outcome[e]
      /\ SameSeats(closed)
  <2>1. ASSUME NEW e \in DOMAIN enr
        PROVE  /\ closed[e] \in EnrollmentRow
               /\ closed[e].student = enr[e].student
               /\ closed[e].section = enr[e].section
               /\ closed[e].number = enr[e].number
               /\ e \in E => closed[e].status = outcome[e]
    <3>1. enr[e] \in EnrollmentRow
      BY <1>1 DEF TypeOK
    <3>2. CASE e \in E
      <4>1. outcome[e] \in EnrollmentStatus
        BY <1>3, <3>2 DEF Progressed, EnrollmentStatus
      <4> QED BY <3>1, <3>2, <4>1 DEF EnrollmentRow
    <3>3. CASE e \notin E
      BY <3>1, <3>3
    <3> QED BY <3>2, <3>3
  <2> QED BY <1>6, <2>1 DEF SameSeats
<1>10. /\ DOMAIN items' = DOMAIN items \cup E
       /\ \A f \in DOMAIN items : f \notin E /\ items'[f] = items[f]
       /\ \A f \in E : items'[f] = [outcome |-> outcome[f],
                          toEnrollment |-> IF f \in C THEN key[f] ELSE NoEnrollment]
  BY <1>5, <1>6 DEF Upsert, PromotionItems
<1>11. \A s \in Students :
         IF s \in ended THEN student'[s] \in {"COMPLETED", "GRADUATED"} ELSE student'[s] = student[s]
  <2> SUFFICES ASSUME NEW s \in Students, s \in ended
               PROVE  student'[s] \in {"COMPLETED", "GRADUATED"}
    BY <1>6
  <2>1. PICK e \in E \ C : student'[s] = outcome[e]
    BY <1>6
  <2> QED BY <2>1, <1>3, <1>4 DEF Progressed
<1>12. \A e \in E : enr[e].student \in ended \/ e \in C
  OBVIOUS
<1> HIDE DEF outcome, target, E, C, ended, closed, number, item
<1>13. BatchWritten(closed, C, key, target, number)
  BY <1>1, <1>3, <1>5, <1>6, <1>7, <1>8, <1>9, BatchWrites
<1>14. \A f \in C : key[f] \in Ids /\ key[f] # NoEnrollment
  BY <1>13, BoundsAssumption DEF BatchWritten, Ids, NoEnrollment
<1>15. TypeOK'
  <2>1. student' \in [Students -> StudentStatus]
    BY <1>1, <1>6, <1>11 DEF TypeOK, StudentStatus
  <2>2. \A f \in E : items'[f] \in ItemRow
    BY <1>3, <1>10, <1>14 DEF ItemRow
  <2>3. items' \in [DOMAIN items' -> ItemRow]
    BY <1>1, <1>5, <1>10, <2>2 DEF TypeOK, Upsert
  <2> QED BY <1>1, <1>6, <1>10, <1>13, <2>1, <2>3, EndType DEF TypeOK, BatchWritten
<1>16. \A f \in ItemTargets' : KeepsItem(f) \/ (f \in C /\ items'[f].toEnrollment = key[f] /\ LinksItem(f))
  <2> SUFFICES ASSUME NEW f \in ItemTargets', f \in E
               PROVE  f \in C /\ items'[f].toEnrollment = key[f] /\ LinksItem(f)
    BY <1>10 DEF ItemTargets, KeepsItem
  <2>1. f \in C /\ items'[f].toEnrollment = key[f]
    BY <1>10 DEF ItemTargets
  <2> QED BY <1>6, <1>8, <1>13, <2>1 DEF LinksItem, BatchWritten
<1>17. \A f \in DOMAIN items' : items'[f].outcome \in {"PROMOTED", "RETAINED"} => f \in ItemTargets'
  <2> SUFFICES ASSUME NEW f \in DOMAIN items', items'[f].outcome \in {"PROMOTED", "RETAINED"}
               PROVE  f \in ItemTargets'
    OBVIOUS
  <2>1. CASE f \in E
    BY <1>4, <1>10, <1>14, <2>1 DEF ItemTargets
  <2>2. CASE f \notin E
    BY <1>10, <2>2 DEF ItemTargets, HistoryLeadsForward, IInv
  <2> QED BY <2>1, <2>2
<1>18. KeepsHistory
  BY <1>6, <1>13, <1>16, <1>17, TransfersUnchanged DEF KeepsHistory, IInv, BatchWritten
<1>19. DistinctLinks
  BY <1>1, <1>6, <1>7, <1>16, TransfersUnchanged, NewKeysType DEF DistinctLinks, IInv
<1>20. ActiveStudentIsEnrolled'
  <2> SUFFICES ASSUME NEW s \in Students, student'[s] = "ACTIVE"
               PROVE  \E f \in DOMAIN enr' : enr'[f].student = s /\ enr'[f].status = "ACTIVE"
    BY DEF ActiveStudentIsEnrolled
  <2>1. s \notin ended /\ student[s] = "ACTIVE"
    BY <1>11
  <2>2. PICK f \in DOMAIN enr : enr[f].student = s /\ enr[f].status = "ACTIVE"
    BY <2>1 DEF ActiveStudentIsEnrolled, IInv
  <2>3. CASE f \in E
    BY <1>12, <1>13, <2>1, <2>2, <2>3 DEF BatchWritten
  <2>4. CASE f \notin E
    BY <1>9, <1>13, <2>2, <2>4 DEF BatchWritten
  <2> QED BY <2>3, <2>4
<1>21. ProgressIsRecorded'
  <2> SUFFICES ASSUME NEW f \in DOMAIN enr', enr'[f].status \in Progressed
               PROVE  f \in DOMAIN items' /\ items'[f].outcome = enr'[f].status
    BY DEF ProgressIsRecorded
  <2>1. f \in DOMAIN enr /\ enr'[f] = closed[f]
    BY <1>13 DEF Progressed, BatchWritten
  <2>2. CASE f \in E
    BY <1>9, <1>10, <2>1, <2>2
  <2>3. CASE f \notin E
    BY <1>9, <1>10, <2>1, <2>3 DEF ProgressIsRecorded, IInv
  <2> QED BY <2>2, <2>3
<1>22. KeepsIdentity
  BY <1>13 DEF BatchWritten
<1> QED BY <1>1, <1>6, <1>15, <1>18, <1>19, <1>20, <1>21, <1>22, EndKeeps, StepKeeps

-----------------------------------------------------------------------------
(* The theorems *)

LEMMA NextKeeps ==
  IInv /\ [Next]_vars => IInv'
<1> SUFFICES ASSUME IInv, [Next]_vars PROVE IInv'
  OBVIOUS
<1>1. ASSUME NEW w \in Workers, Read(w) PROVE IInv'
  BY <1>1, ReadKeeps
<1>2. ASSUME NEW w \in Workers, Commit(w) PROVE IInv'
  BY <1>2, CreateKeeps, EditKeeps, ArchiveKeeps, RequestKeeps, ApproveKeeps, DecideKeeps,
     BulkKeeps, PromoteKeeps, Form1Keeps, ReverseKeeps DEF Commit
<1>3. ASSUME NEW w \in Workers, Rollback(w) PROVE IInv'
  BY <1>3, RollbackKeeps
<1>4. ASSUME NEW s \in Students, Remove(s) PROVE IInv'
  BY <1>4, RemoveKeeps
<1>5. ASSUME UNCHANGED vars PROVE IInv'
  <2>1. UNCHANGED <<student, enr, nextEnr, transfers, items>> /\ UNCHANGED pending
    BY <1>5 DEF vars
  <2>2. RequestsOK'
    BY <2>1 DEF IInv, RequestsOK, RequestOK, SchoolOf
  <2> QED BY <2>1, <2>2, TablesUnchanged DEF IInv, TypeOK
<1> QED BY <1>1, <1>2, <1>3, <1>4, <1>5 DEF Next

THEOREM Invariance ==
  Spec => []IInv
BY InitInv, NextKeeps, PTL DEF Spec

(* Every reachable state is well typed; no foreign key dangles.             *)
THEOREM TypeCorrect ==
  Spec => []TypeOK
<1>1. IInv => TypeOK
  BY DEF IInv
<1> QED BY Invariance, <1>1, PTL

(* However many handlers interleave, what a handler read and writes by later *)
(* is still true: the enrollment it closes or follows is the student's it     *)
(* looked at.                                                                *)
THEOREM RequestsStayTrue ==
  Spec => []RequestsOK
<1>1. IInv => RequestsOK
  BY DEF IInv
<1> QED BY Invariance, <1>1, PTL

(* However many handlers interleave, a student whose status says ACTIVE has *)
(* an ACTIVE enrollment.                                                    *)
THEOREM ActiveStudents ==
  Spec => []ActiveStudentIsEnrolled
<1>1. IInv => ActiveStudentIsEnrolled
  BY DEF IInv
<1> QED BY Invariance, <1>1, PTL

(* However many handlers interleave, an enrollment closed by progression    *)
(* has the promotion item that says so.                                     *)
THEOREM Progress ==
  Spec => []ProgressIsRecorded
<1>1. IInv => ProgressIsRecorded
  BY DEF IInv
<1> QED BY Invariance, <1>1, PTL

(* However many handlers interleave, transfers and items lead to a later    *)
(* enrollment of the same student.                                          *)
THEOREM History ==
  Spec => []HistoryLeadsForward
<1>1. IInv => HistoryLeadsForward
  BY DEF IInv
<1> QED BY Invariance, <1>1, PTL

(* However many handlers interleave, no enrollment has two origins.         *)
THEOREM Origins ==
  Spec => []OneOriginAtMost
<1>1. IInv => OneOriginAtMost
  BY DEF IInv
<1> QED BY Invariance, <1>1, PTL

-----------------------------------------------------------------------------
(* One handler at a time *)

OneHandler == \A v, w \in Workers : v = w

\* What a handler found is still so when it writes, of the enrollments that were
\* not deleted meanwhile.
StillTrue(r) ==
  /\ (r.op = "archive" /\ r.enrollment \in DOMAIN enr) => enr[r.enrollment].status = "ACTIVE"
  /\ (r.op = "request" /\ r.enrollment \in DOMAIN enr)
       => ~ HasPendingTransfer(enr[r.enrollment].student)
  /\ (r.op = "decide" /\ r.enrollment \in DOMAIN transfers)
       => transfers[r.enrollment].status = "REQUESTED"
  /\ r.op = "promote" =>
       \A e \in DOMAIN r.target \cap DOMAIN enr : SchoolOf(r.target[e]) = SchoolOf(enr[e].section)
  /\ r.op = "form1" => \A e \in DOMAIN r.target \cap DOMAIN enr : enr[e].status = "COMPLETED"
  /\ (r.op = "reverse" /\ r.enrollment \in DOMAIN enr)
       => (r.hasItem <=> r.enrollment \in DOMAIN items)

Orderly ==
  /\ ClosedForAReason
  /\ OneRequestPerStudent
  /\ \A w \in DOMAIN pending : StillTrue(pending[w])

\* A step that leaves the reasons of the closed enrollments as they are, or gives
\* new ones.
LEMMA ReasonsKept ==
  ASSUME IInv, IInv', ClosedForAReason,
         \A e \in DOMAIN enr \cap DOMAIN enr' : SchoolOf(enr'[e].section) = SchoolOf(enr[e].section),
         \A e \in DOMAIN items' :
           \/ /\ e \in DOMAIN items /\ enr'[e].status = enr[e].status
              /\ items'[e].outcome = items[e].outcome
              /\ items[e].outcome \in {"PROMOTED", "RETAINED"} => items'[e].toEnrollment = items[e].toEnrollment
           \/ /\ enr'[e].status = items'[e].outcome
              /\ items'[e].outcome \in {"PROMOTED", "RETAINED"} =>
                   SchoolOf(enr'[items'[e].toEnrollment].section) = SchoolOf(enr'[e].section),
         \A e \in DOMAIN enr' : enr'[e].status = "TRANSFERRED_OUT" =>
           \/ e \in DOMAIN transfers' /\ transfers'[e].status = "EXECUTED"
           \/ /\ e \in DOMAIN enr /\ enr[e].status = "TRANSFERRED_OUT"
              /\ transfers[e].status = "EXECUTED" =>
                   e \in DOMAIN transfers' /\ transfers'[e].status = "EXECUTED"
  PROVE  ClosedForAReason'
<1>1. DOMAIN items \subseteq DOMAIN enr /\ DOMAIN items' \subseteq DOMAIN enr'
  BY DEF IInv, TypeOK
<1>2. ASSUME NEW e \in DOMAIN items'
      PROVE  /\ enr'[e].status = items'[e].outcome
             /\ items'[e].outcome \in {"PROMOTED", "RETAINED"} =>
                  SchoolOf(enr'[items'[e].toEnrollment].section) = SchoolOf(enr'[e].section)
  <2>1. CASE /\ e \in DOMAIN items /\ enr'[e].status = enr[e].status
             /\ items'[e].outcome = items[e].outcome
             /\ items[e].outcome \in {"PROMOTED", "RETAINED"} => items'[e].toEnrollment = items[e].toEnrollment
    <3>1. enr[e].status = items[e].outcome
      BY <2>1 DEF ClosedForAReason
    <3>2. ASSUME items[e].outcome \in {"PROMOTED", "RETAINED"}
          PROVE  SchoolOf(enr'[items'[e].toEnrollment].section) = SchoolOf(enr'[e].section)
      <4>1. items[e].toEnrollment \in DOMAIN enr
        BY <2>1, <3>2 DEF IInv, HistoryLeadsForward, ItemTargets
      <4>2. items'[e].toEnrollment \in DOMAIN enr'
        BY <2>1, <3>2 DEF IInv, HistoryLeadsForward, ItemTargets
      <4>3. SchoolOf(enr[items[e].toEnrollment].section) = SchoolOf(enr[e].section)
        BY <2>1, <3>2 DEF ClosedForAReason
      <4> QED BY <1>1, <2>1, <3>2, <4>1, <4>2, <4>3
    <3> QED BY <2>1, <3>1, <3>2
  <2> QED BY <2>1
<1>3. ASSUME NEW e \in DOMAIN enr', enr'[e].status = "TRANSFERRED_OUT"
      PROVE  e \in DOMAIN transfers' /\ transfers'[e].status = "EXECUTED"
  BY <1>3 DEF ClosedForAReason
<1> QED BY <1>2, <1>3 DEF ClosedForAReason, SchoolOf

\* A step after which no request waits that did not wait before.
LEMMA WaitingKept ==
  ASSUME OneRequestPerStudent,
         \A e \in DOMAIN transfers' : transfers'[e].status = "REQUESTED" =>
           e \in DOMAIN transfers /\ transfers[e].status = "REQUESTED" /\ enr'[e].student = enr[e].student
  PROVE  OneRequestPerStudent'
BY DEF OneRequestPerStudent

LEMMA BeginOrderly ==
  ASSUME OneHandler, IInv, Orderly, NEW w \in Workers, NEW r, StillTrue(r), Begin(w, r)
  PROVE  Orderly'
<1>1. UNCHANGED <<student, enr, nextEnr, transfers, items>>
  BY DEF Begin
<1>2. \A v \in DOMAIN pending' : pending'[v] = r
  BY DEF Begin, Upsert, OneRow, OneHandler, IInv, TypeOK
<1>3. \A v \in DOMAIN pending' : StillTrue(pending[v])'
  BY <1>1, <1>2 DEF StillTrue, HasPendingTransfer, SchoolOf
<1> QED BY <1>1, <1>3 DEF Orderly, ClosedForAReason, OneRequestPerStudent, SchoolOf

\* The handler ends and no other is in progress.
LEMMA EndsAlone ==
  ASSUME OneHandler, IInv, NEW w, w \in DOMAIN pending, End(w)
  PROVE  DOMAIN pending' = {}
BY EndType DEF OneHandler, IInv, TypeOK

LEMMA RollbackOrderly ==
  ASSUME OneHandler, IInv, Orderly, NEW w, Rollback(w)
  PROVE  Orderly'
<1>1. UNCHANGED <<student, enr, nextEnr, transfers, items>> /\ DOMAIN pending' = {}
  BY EndsAlone DEF Rollback
<1> QED BY <1>1 DEF Orderly, ClosedForAReason, OneRequestPerStudent, SchoolOf

LEMMA ReadOrderly ==
  ASSUME OneHandler, IInv, Orderly, NEW w \in Workers, Read(w)
  PROVE  Orderly'
<1>1. ASSUME NEW sec \in Sections, CreateRead(w, sec) PROVE Orderly'
  <2>1. PICK number, roll :
          Begin(w, [op |-> "create", section |-> sec, number |-> number, roll |-> roll])
    BY <1>1 DEF CreateRead
  <2> QED BY <2>1, BeginOrderly DEF StillTrue
<1>2. ASSUME NEW e \in DOMAIN enr, NEW sec \in Sections, EditRead(w, e, sec) PROVE Orderly'
  <2>1. PICK roll : Begin(w, [op |-> "edit", enrollment |-> e, section |-> sec, roll |-> roll])
    BY <1>2 DEF EditRead
  <2> QED BY <2>1, BeginOrderly DEF StillTrue
<1>3. ASSUME NEW s \in Students, ArchiveRead(w, s) PROVE Orderly'
  <2>1. PICK e : /\ e \in DOMAIN enr => enr[e].status = "ACTIVE"
                 /\ Begin(w, [op |-> "archive", student |-> s, enrollment |-> e])
    <3>1. 0 \notin DOMAIN enr
      BY TypeFacts DEF IInv, TypeOK
    <3> QED BY <1>3, <3>1 DEF ArchiveRead, NoEnrollment
  <2> QED BY <2>1, BeginOrderly DEF StillTrue
<1>4. ASSUME NEW e \in DOMAIN enr, NEW school \in Schools, RequestRead(w, e, school) PROVE Orderly'
  <2>1. /\ ~ HasPendingTransfer(enr[e].student)
        /\ Begin(w, [op |-> "request", enrollment |-> e, toSchool |-> school])
    BY <1>4 DEF RequestRead, Movable
  <2> QED BY <2>1, BeginOrderly DEF StillTrue
<1>5. ASSUME NEW e \in DOMAIN transfers, NEW sec \in Sections, ApproveRead(w, e, sec) PROVE Orderly'
  <2>1. PICK number, roll : Begin(w, [op |-> "approve", enrollment |-> e, section |-> sec,
                                      number |-> number, roll |-> roll])
    BY <1>5 DEF ApproveRead
  <2> QED BY <2>1, BeginOrderly DEF StillTrue
<1>6. ASSUME NEW e \in DOMAIN transfers, NEW verdict \in {"REJECTED", "CANCELLED"},
             DecideRead(w, e, verdict)
      PROVE  Orderly'
  <2>1. /\ transfers[e].status = "REQUESTED"
        /\ Begin(w, [op |-> "decide", enrollment |-> e, verdict |-> verdict])
    BY <1>6 DEF DecideRead
  <2> QED BY <2>1, BeginOrderly DEF StillTrue
<1>7. ASSUME NEW target, BulkRead(w, target) PROVE Orderly'
  <2>1. Begin(w, [op |-> "bulk", target |-> target])
    BY <1>7 DEF BulkRead
  <2> QED BY <2>1, BeginOrderly DEF StillTrue
<1>8. ASSUME NEW sec \in Sections, NEW outcome, NEW target, PromoteRead(w, sec, outcome, target)
      PROVE  Orderly'
  <2>1. Begin(w, [op |-> "promote", outcome |-> outcome, target |-> target])
    BY <1>8 DEF PromoteRead
  <2>2. ASSUME NEW e \in DOMAIN target PROVE SchoolOf(target[e]) = SchoolOf(enr[e].section)
    <3>1. e \in Continues(outcome) /\ e \in DOMAIN outcome /\ enr[e].section = sec
      BY <1>8, <2>2 DEF PromoteRead, Continues, ActiveIn
    <3>2. PICK toYear : ClassOf[target[e]] = TargetClass(ClassOf[sec], outcome[e], toYear)
      BY <1>8, <2>2, <3>1 DEF PromoteRead
    <3>3. PICK c \in Classes : c = ClassOf[sec] /\ c = [school |-> c.school, year |-> c.year,
                                                        division |-> c.division, level |-> c.level]
      BY ClassesAssumption
    <3>4. TargetClass(c, outcome[e], toYear).school = c.school
      BY <3>3 DEF TargetClass
    <3> QED BY <3>1, <3>2, <3>3, <3>4 DEF SchoolOf
  <2> QED BY <2>1, <2>2, BeginOrderly DEF StillTrue
<1>9. ASSUME NEW target, Form1Read(w, target) PROVE Orderly'
  <2>1. /\ \A e \in DOMAIN target : enr[e].status = "COMPLETED"
        /\ Begin(w, [op |-> "form1", target |-> target])
    BY <1>9 DEF Form1Read, AwaitsForm1
  <2> QED BY <2>1, BeginOrderly DEF StillTrue
<1>10. ASSUME NEW e \in DOMAIN enr, ReverseRead(w, e) PROVE Orderly'
  <2>1. PICK roll : Begin(w, [op |-> "reverse", enrollment |-> e, hasItem |-> e \in DOMAIN items,
                              undone |-> enr[e].undone, roll |-> roll])
    BY <1>10 DEF ReverseRead
  <2> QED BY <2>1, BeginOrderly DEF StillTrue
<1> QED BY <1>1, <1>2, <1>3, <1>4, <1>5, <1>6, <1>7, <1>8, <1>9, <1>10 DEF Read

LEMMA HandlerEnds ==
  ASSUME OneHandler, IInv, NEW w, NEW op, Writing(w, op), End(w),
         ClosedForAReason', OneRequestPerStudent'
  PROVE  Orderly'
BY EndsAlone DEF Orderly, Writing

\* An insert of one enrollment.
LEMMA NewSeat ==
  ASSUME TypeOK, NEW t, DOMAIN t = DOMAIN enr, NEW row, enr' = Upsert(t, OneRow(nextEnr, row))
  PROVE  /\ DOMAIN enr' = DOMAIN enr \cup {nextEnr} /\ nextEnr \notin DOMAIN enr
         /\ enr'[nextEnr] = row
         /\ \A e \in DOMAIN enr : enr'[e] = t[e]
<1>1. nextEnr \notin DOMAIN enr
  BY TypeFacts
<1> QED BY <1>1 DEF Upsert, OneRow

\* What the inserts of a batch make of the table t.
Seated(E, key, target, number, t) ==
  /\ DOMAIN enr' = DOMAIN enr \cup {key[e] : e \in E}
  /\ \A e \in E : key[e] \notin DOMAIN enr
  /\ \A e, f \in E : key[e] = key[f] => e = f
  /\ \A e \in DOMAIN enr : enr'[e] = t[e]
  /\ \A e \in E : /\ enr'[key[e]].status = "ACTIVE" /\ enr'[key[e]].section = target[e]
                  /\ enr'[key[e]].student = enr[e].student /\ enr'[key[e]].number = number[e]

LEMMA NewSeats ==
  ASSUME TypeOK, NEW E, E \subseteq DOMAIN enr, NEW key \in NewKeys(E),
         NEW target, NEW number, NEW t, DOMAIN t = DOMAIN enr,
         enr' = Upsert(t, BatchRows(key, target, number))
  PROVE  Seated(E, key, target, number, t)
<1> DEFINE rows == BatchRows(key, target, number)
<1>1. /\ DOMAIN key = E /\ \A e \in E : Source(key, key[e]) = e /\ key[e] \notin DOMAIN enr
      /\ \A e, f \in E : key[e] = key[f] => e = f
  BY NewKeysType
<1>2. /\ DOMAIN rows = {key[e] : e \in E}
      /\ \A e \in E : /\ rows[key[e]].status = "ACTIVE" /\ rows[key[e]].section = target[e]
                      /\ rows[key[e]].student = enr[e].student /\ rows[key[e]].number = number[e]
  BY <1>1 DEF BatchRows, NewRow
<1> HIDE DEF rows
<1>3. enr' = Upsert(t, rows)
  BY DEF rows
<1>4. DOMAIN enr' = DOMAIN enr \cup {key[e] : e \in E}
  BY <1>2, <1>3 DEF Upsert
<1>5. ASSUME NEW e \in E PROVE enr'[key[e]] = rows[key[e]]
  <2>1. key[e] \in DOMAIN rows
    BY <1>2
  <2> QED BY <1>3, <2>1 DEF Upsert
<1>6. \A e \in DOMAIN enr : enr'[e] = t[e]
  BY <1>1, <1>2, <1>3 DEF Upsert
<1> QED BY <1>1, <1>2, <1>4, <1>5, <1>6 DEF Seated

\* A student number or seat that nobody has an item for.
LEMMA ItemsAreOfClosed ==
  ASSUME IInv, Orderly
  PROVE  /\ TypeOK /\ DOMAIN items \subseteq DOMAIN enr /\ DOMAIN transfers \subseteq DOMAIN enr
         /\ \A e \in DOMAIN items : enr[e].status = items[e].outcome /\ items[e].outcome \in Progressed
         /\ \A e \in DOMAIN enr : enr[e].status = "TRANSFERRED_OUT" =>
              e \in DOMAIN transfers /\ transfers[e].status = "EXECUTED"
         /\ ClosedForAReason /\ OneRequestPerStudent
BY DEF IInv, TypeOK, ItemRow, Orderly, ClosedForAReason

LEMMA CreateOrderly ==
  ASSUME OneHandler, IInv, IInv', Orderly, NEW w, CreateCommit(w)
  PROVE  Orderly'
<1>1. PICK s, row : /\ row = NewRow(s, pending[w].section, pending[w].number, pending[w].roll)
                   /\ enr' = Upsert(enr, OneRow(nextEnr, row))
  BY DEF CreateCommit
<1>2. Writing(w, "create") /\ End(w) /\ UNCHANGED <<transfers, items>>
  BY DEF CreateCommit
<1>3. /\ DOMAIN enr' = DOMAIN enr \cup {nextEnr} /\ nextEnr \notin DOMAIN enr
      /\ enr'[nextEnr].status = "ACTIVE"
      /\ \A e \in DOMAIN enr : enr'[e] = enr[e]
  <2>1. TypeOK
    BY DEF IInv
  <2>2. enr' = Upsert(enr, OneRow(nextEnr, row))
    BY <1>1
  <2>3. DOMAIN enr' = DOMAIN enr \cup {nextEnr}
    BY <2>1, <2>2, NewSeat
  <2>4. nextEnr \notin DOMAIN enr /\ enr'[nextEnr] = row
    BY <2>1, <2>2, NewSeat
  <2>5. \A e \in DOMAIN enr : enr'[e] = enr[e]
    BY <2>1, <2>2, NewSeat
  <2> QED BY <1>1, <2>3, <2>4, <2>5 DEF NewRow
<1>4. OneRequestPerStudent'
  BY <1>2, <1>3, WaitingKept, ItemsAreOfClosed
<1>5. ClosedForAReason'
  BY <1>2, <1>3, ReasonsKept, ItemsAreOfClosed
<1> QED BY <1>2, <1>4, <1>5, HandlerEnds

LEMMA EditOrderly ==
  ASSUME OneHandler, IInv, IInv', Orderly, NEW w, EditCommit(w)
  PROVE  Orderly'
<1> DEFINE r == pending[w]
<1>1. /\ Writing(w, "edit") /\ End(w) /\ UNCHANGED <<transfers, items>>
      /\ r.enrollment \in DOMAIN enr
      /\ enr' = [enr EXCEPT ![r.enrollment].section = r.section, ![r.enrollment].roll = r.roll]
  BY DEF EditCommit
<1>2. SchoolOf(enr[r.enrollment].section) = SchoolOf(r.section)
  BY <1>1 DEF Writing, IInv, RequestsOK, RequestOK
<1>3. /\ DOMAIN enr' = DOMAIN enr
      /\ \A e \in DOMAIN enr : /\ enr'[e].status = enr[e].status
                               /\ enr'[e].student = enr[e].student
                               /\ SchoolOf(enr'[e].section) = SchoolOf(enr[e].section)
  BY <1>1, <1>2 DEF IInv, TypeOK, EnrollmentRow
<1>4. OneRequestPerStudent'
  BY <1>1, <1>3, WaitingKept, ItemsAreOfClosed
<1>5. ClosedForAReason'
  BY <1>1, <1>3, ReasonsKept, ItemsAreOfClosed
<1> QED BY <1>1, <1>4, <1>5, HandlerEnds

LEMMA ArchiveOrderly ==
  ASSUME OneHandler, IInv, IInv', Orderly, NEW w, ArchiveCommit(w)
  PROVE  Orderly'
<1> DEFINE r == pending[w]
<1>1. /\ Writing(w, "archive") /\ End(w) /\ UNCHANGED <<transfers, items>>
      /\ \/ enr' = enr
         \/ r.enrollment \in DOMAIN enr /\ enr' = [enr EXCEPT ![r.enrollment].status = "WITHDRAWN"]
  BY DEF ArchiveCommit
<1>2. r.enrollment \in DOMAIN enr => enr[r.enrollment].status = "ACTIVE"
  BY <1>1 DEF Writing, Orderly, StillTrue
<1>3. /\ DOMAIN enr' = DOMAIN enr
      /\ \A e \in DOMAIN enr :
           /\ enr'[e].student = enr[e].student /\ enr'[e].section = enr[e].section
           /\ \/ enr'[e].status = enr[e].status
              \/ enr[e].status = "ACTIVE" /\ enr'[e].status = "WITHDRAWN"
  BY <1>1, <1>2 DEF IInv, TypeOK, EnrollmentRow
<1>4. OneRequestPerStudent'
  BY <1>1, <1>3, WaitingKept, ItemsAreOfClosed
<1>5. \A e \in DOMAIN items : enr'[e].status = enr[e].status
  BY <1>3, ItemsAreOfClosed DEF Progressed
<1>6. ClosedForAReason'
  BY <1>1, <1>3, <1>5, ReasonsKept, ItemsAreOfClosed
<1> QED BY <1>1, <1>4, <1>6, HandlerEnds

LEMMA RequestOrderly ==
  ASSUME OneHandler, IInv, IInv', Orderly, NEW w, RequestCommit(w)
  PROVE  Orderly'
<1> DEFINE r == pending[w]
           e == r.enrollment
<1>1. /\ Writing(w, "request") /\ End(w) /\ UNCHANGED <<enr, items>>
      /\ e \in DOMAIN enr /\ e \notin DOMAIN transfers
      /\ \A f \in DOMAIN transfers' : f = e \/ (f \in DOMAIN transfers /\ transfers'[f] = transfers[f])
      /\ \A f \in DOMAIN transfers : f \in DOMAIN transfers' /\ transfers'[f] = transfers[f]
  BY DEF RequestCommit, TransferInsertFits, Upsert, OneRow
<1>2. ~ HasPendingTransfer(enr[e].student)
  BY <1>1 DEF Writing, Orderly, StillTrue
<1>3. OneRequestPerStudent'
  BY <1>1, <1>2, ItemsAreOfClosed DEF OneRequestPerStudent, HasPendingTransfer
<1>4. ClosedForAReason'
  BY <1>1, ReasonsKept, ItemsAreOfClosed
<1> QED BY <1>1, <1>3, <1>4, HandlerEnds

LEMMA DecideOrderly ==
  ASSUME OneHandler, IInv, IInv', Orderly, NEW w, DecideCommit(w)
  PROVE  Orderly'
<1> DEFINE r == pending[w]
           e == r.enrollment
<1>1. /\ Writing(w, "decide") /\ End(w) /\ UNCHANGED <<enr, items>>
      /\ e \in DOMAIN transfers /\ transfers' = [transfers EXCEPT ![e].status = r.verdict]
  BY DEF DecideCommit
<1>2. r.verdict \in {"REJECTED", "CANCELLED"} /\ transfers[e].status = "REQUESTED"
  BY <1>1, WritingType, RequestFields, ItemsAreOfClosed DEF Writing, Orderly, StillTrue
<1>3. /\ DOMAIN transfers' = DOMAIN transfers /\ transfers'[e].status = r.verdict
      /\ \A f \in DOMAIN transfers : f # e => transfers'[f] = transfers[f]
  BY <1>1 DEF IInv, TypeOK, TransferRow
<1>4. OneRequestPerStudent'
  BY <1>1, <1>2, <1>3, WaitingKept, ItemsAreOfClosed
<1>5. ClosedForAReason'
  BY <1>1, <1>2, <1>3, ReasonsKept, ItemsAreOfClosed
<1> QED BY <1>1, <1>4, <1>5, HandlerEnds

LEMMA ApproveOrderly ==
  ASSUME OneHandler, IInv, IInv', Orderly, NEW w, ApproveCommit(w)
  PROVE  Orderly'
<1> DEFINE r == pending[w]
           e == r.enrollment
           out == TransferOut(enr, {e})
<1>1. /\ Writing(w, "approve") /\ End(w) /\ UNCHANGED items /\ e \in DOMAIN transfers
      /\ \E row : /\ row = NewRow(enr[e].student, r.section, r.number, r.roll)
                 /\ enr' = Upsert(out, OneRow(nextEnr, row))
      /\ transfers' = [transfers EXCEPT ![e].status = "EXECUTED", ![e].toEnrollment = nextEnr]
  BY DEF ApproveCommit
<1>2. /\ DOMAIN out = DOMAIN enr
      /\ \A f \in DOMAIN enr : /\ out[f].student = enr[f].student /\ out[f].section = enr[f].section
                               /\ out[f] = enr[f] \/ (f = e /\ out[f].status = "TRANSFERRED_OUT")
                               /\ enr[f].status # "ACTIVE" => out[f] = enr[f]
  BY TransferOutType, ItemsAreOfClosed DEF TransferOut
<1> HIDE DEF out
<1>3. /\ DOMAIN enr' = DOMAIN enr \cup {nextEnr} /\ nextEnr \notin DOMAIN enr
      /\ enr'[nextEnr].status = "ACTIVE"
      /\ \A f \in DOMAIN enr : enr'[f] = out[f]
  <2>1. PICK row : row.status = "ACTIVE" /\ enr' = Upsert(out, OneRow(nextEnr, row))
    BY <1>1 DEF NewRow
  <2>2. TypeOK /\ DOMAIN out = DOMAIN enr /\ enr' = Upsert(out, OneRow(nextEnr, row))
    BY <1>2, <2>1 DEF IInv
  <2>3. DOMAIN enr' = DOMAIN enr \cup {nextEnr}
    BY <2>2, NewSeat
  <2>4. nextEnr \notin DOMAIN enr /\ enr'[nextEnr] = row
    BY <2>2, NewSeat
  <2>5. \A f \in DOMAIN enr : enr'[f] = out[f]
    BY <2>2, NewSeat
  <2> QED BY <2>1, <2>3, <2>4, <2>5
<1>4. /\ DOMAIN transfers' = DOMAIN transfers /\ transfers'[e].status = "EXECUTED"
      /\ \A f \in DOMAIN transfers : f # e => transfers'[f] = transfers[f]
  BY <1>1 DEF IInv, TypeOK, TransferRow
<1>5. OneRequestPerStudent'
  BY <1>2, <1>3, <1>4, WaitingKept, ItemsAreOfClosed
<1>6. \A f \in DOMAIN items : enr'[f].status = enr[f].status
  BY <1>2, <1>3, ItemsAreOfClosed DEF Progressed
<1>7. ASSUME NEW f \in DOMAIN enr', enr'[f].status = "TRANSFERRED_OUT"
      PROVE  \/ f \in DOMAIN transfers' /\ transfers'[f].status = "EXECUTED"
             \/ /\ f \in DOMAIN enr /\ enr[f].status = "TRANSFERRED_OUT"
                /\ transfers[f].status = "EXECUTED" =>
                     f \in DOMAIN transfers' /\ transfers'[f].status = "EXECUTED"
  <2>1. CASE f = nextEnr
    BY <1>3, <1>7, <2>1
  <2>2. CASE f = e
    BY <1>1, <1>4, <2>2
  <2>3. CASE f # nextEnr /\ f # e
    <3>1. f \in DOMAIN enr /\ enr[f].status = "TRANSFERRED_OUT"
      BY <1>2, <1>3, <1>7, <2>3
    <3>2. f \in DOMAIN transfers
      BY <3>1, ItemsAreOfClosed
    <3> QED BY <1>4, <2>3, <3>1, <3>2
  <2> QED BY <2>1, <2>2, <2>3
<1>8. \A f \in DOMAIN enr \cap DOMAIN enr' : SchoolOf(enr'[f].section) = SchoolOf(enr[f].section)
  BY <1>2, <1>3
<1>9. \A f \in DOMAIN items' : f \in DOMAIN items /\ items'[f] = items[f] /\ enr'[f].status = enr[f].status
  BY <1>1, <1>6
<1>10. ClosedForAReason
  BY DEF Orderly
<1>11. ClosedForAReason'
  BY <1>7, <1>8, <1>9, <1>10, ReasonsKept
<1> QED BY <1>1, <1>5, <1>11, HandlerEnds

LEMMA ReverseOrderly ==
  ASSUME OneHandler, IInv, IInv', Orderly, NEW w, ReverseCommit(w)
  PROVE  Orderly'
<1> DEFINE r == pending[w]
           e == r.enrollment
<1>1. /\ Writing(w, "reverse") /\ End(w) /\ UNCHANGED transfers /\ e \in DOMAIN enr
      /\ enr' = [enr EXCEPT ![e].status = "ACTIVE", ![e].roll = r.roll, ![e].undone = r.undone + 1]
      /\ items' = IF r.hasItem THEN Without(items, {e}) ELSE items
  BY DEF ReverseCommit
<1>2. r.hasItem <=> e \in DOMAIN items
  BY <1>1 DEF Writing, Orderly, StillTrue
<1>3. DOMAIN items' = DOMAIN items \ {e} /\ \A f \in DOMAIN items' : items'[f] = items[f]
  BY <1>1, <1>2 DEF Without
<1>4. /\ DOMAIN enr' = DOMAIN enr /\ enr'[e].status = "ACTIVE"
      /\ \A f \in DOMAIN enr : /\ enr'[f].student = enr[f].student /\ enr'[f].section = enr[f].section
                               /\ f # e => enr'[f] = enr[f]
  <2> DEFINE row == [enr[e] EXCEPT !.status = "ACTIVE", !.roll = r.roll, !.undone = r.undone + 1]
  <2>1. enr' = [enr EXCEPT ![e] = row]
    BY <1>1
  <2>2. row.status = "ACTIVE" /\ row.student = enr[e].student /\ row.section = enr[e].section
    BY <1>1 DEF IInv, TypeOK, EnrollmentRow
  <2> HIDE DEF row
  <2> QED BY <1>1, <2>1, <2>2
<1>5. OneRequestPerStudent'
  BY <1>1, <1>4, WaitingKept, ItemsAreOfClosed
<1>6. \A f \in DOMAIN enr \cap DOMAIN enr' : SchoolOf(enr'[f].section) = SchoolOf(enr[f].section)
  BY <1>4
<1>7. \A f \in DOMAIN items' : f \in DOMAIN items /\ items'[f] = items[f] /\ enr'[f].status = enr[f].status
  BY <1>3, <1>4, ItemsAreOfClosed
<1>8. ASSUME NEW f \in DOMAIN enr', enr'[f].status = "TRANSFERRED_OUT"
      PROVE  f \in DOMAIN enr /\ enr[f].status = "TRANSFERRED_OUT" /\ transfers' = transfers
  BY <1>1, <1>4, <1>8
<1>9. /\ ClosedForAReason
      /\ \A f \in DOMAIN enr' : enr'[f].status = "TRANSFERRED_OUT" =>
           f \in DOMAIN transfers' /\ transfers'[f].status = "EXECUTED"
  <2>1. \A f \in DOMAIN enr : enr[f].status = "TRANSFERRED_OUT" =>
          f \in DOMAIN transfers /\ transfers[f].status = "EXECUTED"
    BY ItemsAreOfClosed
  <2> QED BY <1>8, <2>1 DEF Orderly
<1>10. ClosedForAReason'
  BY <1>6, <1>7, <1>9, ReasonsKept
<1> QED BY <1>1, <1>5, <1>10, HandlerEnds

LEMMA BulkOrderly ==
  ASSUME OneHandler, IInv, IInv', Orderly, NEW w, BulkCommit(w)
  PROVE  Orderly'
<1> DEFINE target == pending[w].target
           E == DOMAIN target
           out == TransferOut(enr, E)
           number(key) == [e \in E |-> NumberAfter(target[e], RankInBatch(key, e))]
<1>1. PICK key \in NewKeys(E) :
        /\ enr' = Upsert(out, BatchRows(key, target, number(key)))
        /\ transfers' = Upsert(transfers, BulkTransfers(target, key))
  BY DEF BulkCommit
<1>2. /\ Writing(w, "bulk") /\ End(w) /\ UNCHANGED items
      /\ E \subseteq DOMAIN enr /\ E \cap DOMAIN transfers = {}
  BY DEF BulkCommit, TransferInsertFits
<1>3. /\ DOMAIN out = DOMAIN enr
      /\ \A f \in DOMAIN enr : /\ out[f].student = enr[f].student /\ out[f].section = enr[f].section
                               /\ out[f] = enr[f] \/ (f \in E /\ out[f].status = "TRANSFERRED_OUT")
                               /\ enr[f].status # "ACTIVE" => out[f] = enr[f]
  BY TransferOutType, ItemsAreOfClosed DEF TransferOut
<1>4. /\ DOMAIN transfers' = DOMAIN transfers \cup E
      /\ \A f \in E : transfers'[f].status = "EXECUTED"
      /\ \A f \in DOMAIN transfers : transfers'[f] = transfers[f]
  BY <1>1, <1>2 DEF Upsert, BulkTransfers
<1> HIDE DEF target, E, out, number
<1>5. /\ DOMAIN enr' = DOMAIN enr \cup {key[e] : e \in E}
      /\ \A e \in E : key[e] \notin DOMAIN enr /\ enr'[key[e]].status = "ACTIVE"
      /\ \A f \in DOMAIN enr : enr'[f] = out[f]
  <2>1. TypeOK /\ E \subseteq DOMAIN enr /\ DOMAIN out = DOMAIN enr /\ key \in NewKeys(E)
    BY <1>1, <1>2, <1>3 DEF IInv
  <2>2. enr' = Upsert(out, BatchRows(key, target, number(key)))
    BY <1>1
  <2>3. Seated(E, key, target, number(key), out)
    BY <2>1, <2>2, NewSeats
  <2> QED BY <2>3 DEF Seated
<1>6. OneRequestPerStudent'
  BY <1>3, <1>4, <1>5, WaitingKept, ItemsAreOfClosed
<1>7. \A f \in DOMAIN items : enr'[f].status = enr[f].status
  BY <1>3, <1>5, ItemsAreOfClosed DEF Progressed
<1>8. ClosedForAReason'
  BY <1>2, <1>3, <1>4, <1>5, <1>7, ReasonsKept, ItemsAreOfClosed
<1> QED BY <1>2, <1>6, <1>8, HandlerEnds

LEMMA Form1Orderly ==
  ASSUME OneHandler, IInv, IInv', Orderly, NEW w, Form1Commit(w)
  PROVE  Orderly'
<1> DEFINE target == pending[w].target
           E == DOMAIN target
           number == [e \in E |-> enr[e].number]
<1>1. PICK key \in NewKeys(E) :
        /\ enr' = Upsert(enr, BatchRows(key, target, number))
        /\ items' = [e \in DOMAIN items |->
             IF e \in E THEN [items[e] EXCEPT !.toEnrollment = key[e]] ELSE items[e]]
  BY DEF Form1Commit
<1>2. /\ Writing(w, "form1") /\ End(w) /\ UNCHANGED transfers
      /\ E \subseteq DOMAIN enr /\ E \subseteq DOMAIN items
  BY DEF Form1Commit
<1>3. \A e \in E : enr[e].status = "COMPLETED"
  BY <1>2 DEF Writing, Orderly, StillTrue
<1> HIDE DEF target, E, number
<1>4. /\ DOMAIN enr' = DOMAIN enr \cup {key[e] : e \in E}
      /\ \A e \in E : key[e] \notin DOMAIN enr /\ enr'[key[e]].status = "ACTIVE"
      /\ \A f \in DOMAIN enr : enr'[f] = enr[f]
  <2>1. TypeOK /\ E \subseteq DOMAIN enr /\ DOMAIN enr = DOMAIN enr /\ key \in NewKeys(E)
    BY <1>1, <1>2 DEF IInv
  <2>2. enr' = Upsert(enr, BatchRows(key, target, number))
    BY <1>1
  <2>3. Seated(E, key, target, number, enr)
    BY <2>1, <2>2, NewSeats
  <2> QED BY <2>3 DEF Seated
<1>5. /\ DOMAIN items' = DOMAIN items
      /\ \A f \in DOMAIN items : /\ items'[f].outcome = items[f].outcome
                                 /\ f \notin E => items'[f] = items[f]
  BY <1>1 DEF IInv, TypeOK, ItemRow
<1>6. \A f \in E : items[f].outcome = "COMPLETED"
  BY <1>2, <1>3, ItemsAreOfClosed
<1>7. OneRequestPerStudent'
  BY <1>2, <1>4, WaitingKept, ItemsAreOfClosed
<1>8. ClosedForAReason'
  BY <1>2, <1>4, <1>5, <1>6, ReasonsKept, ItemsAreOfClosed
<1> QED BY <1>2, <1>7, <1>8, HandlerEnds

LEMMA PromoteOrderly ==
  ASSUME OneHandler, IInv, IInv', Orderly, NEW w, PromoteCommit(w)
  PROVE  Orderly'
<1> DEFINE outcome == pending[w].outcome
           target == pending[w].target
           E == DOMAIN outcome
           C == DOMAIN target
           closed == [e \in DOMAIN enr |->
                        IF e \in E THEN [enr[e] EXCEPT !.status = outcome[e]] ELSE enr[e]]
           number == [e \in C |-> enr[e].number]
<1>1. PICK key \in NewKeys(C) :
        /\ enr' = Upsert(closed, BatchRows(key, target, number))
        /\ items' = Upsert(items, PromotionItems(outcome, target, key))
  BY DEF PromoteCommit
<1>2. /\ Writing(w, "promote") /\ End(w) /\ UNCHANGED transfers
      /\ E \subseteq DOMAIN enr /\ E \cap DOMAIN items = {}
  BY DEF PromoteCommit
<1>3. /\ outcome \in [E -> Progressed]
      /\ C = {e \in E : outcome[e] \in {"PROMOTED", "RETAINED"}}
      /\ \A e \in C : SchoolOf(target[e]) = SchoolOf(enr[e].section)
  <2>1. pending[w] \in Request /\ pending[w].op = "promote" /\ RequestOK(pending[w])
    BY <1>2, WritingType, ItemsAreOfClosed DEF Writing, IInv, RequestsOK
  <2>2. outcome \in [E -> Progressed]
    BY <2>1, RequestFields, AssignmentsType
  <2>3. C = {e \in E : outcome[e] \in {"PROMOTED", "RETAINED"}}
    BY <2>1 DEF RequestOK, Continues
  <2>4. \A e \in C : SchoolOf(target[e]) = SchoolOf(enr[e].section)
    BY <1>2, <2>1, <2>3 DEF Writing, Orderly, StillTrue
  <2> QED BY <2>2, <2>3, <2>4
<1>4. /\ DOMAIN closed = DOMAIN enr
      /\ \A e \in DOMAIN enr : /\ closed[e].student = enr[e].student
                               /\ closed[e].section = enr[e].section
                               /\ e \in E => closed[e].status = outcome[e]
                               /\ e \notin E => closed[e] = enr[e]
  BY DEF IInv, TypeOK, EnrollmentRow
<1>5. /\ DOMAIN items' = DOMAIN items \cup E
      /\ \A f \in DOMAIN items : items'[f] = items[f]
      /\ \A f \in E : /\ items'[f].outcome = outcome[f]
                      /\ f \in C => items'[f].toEnrollment = key[f]
  BY <1>1, <1>2 DEF Upsert, PromotionItems
<1> HIDE DEF outcome, target, E, C, closed, number
<1>6. /\ DOMAIN enr' = DOMAIN enr \cup {key[e] : e \in C}
      /\ \A e \in C : /\ key[e] \notin DOMAIN enr
                      /\ enr'[key[e]].status = "ACTIVE" /\ enr'[key[e]].section = target[e]
      /\ \A f \in DOMAIN enr : enr'[f] = closed[f]
  <2>1. TypeOK /\ C \subseteq DOMAIN enr /\ DOMAIN closed = DOMAIN enr /\ key \in NewKeys(C)
    BY <1>1, <1>2, <1>3, <1>4 DEF IInv
  <2>2. enr' = Upsert(closed, BatchRows(key, target, number))
    BY <1>1
  <2>3. Seated(C, key, target, number, closed)
    BY <2>1, <2>2, NewSeats
  <2> QED BY <2>3 DEF Seated
<1>7. OneRequestPerStudent'
  BY <1>2, <1>4, <1>6, WaitingKept, ItemsAreOfClosed
<1>8. ASSUME NEW f \in E
      PROVE  /\ enr'[f].status = items'[f].outcome
             /\ items'[f].outcome \in {"PROMOTED", "RETAINED"} =>
                  SchoolOf(enr'[items'[f].toEnrollment].section) = SchoolOf(enr'[f].section)
  BY <1>2, <1>3, <1>4, <1>5, <1>6
<1>9. ASSUME NEW f \in DOMAIN items
      PROVE  items'[f] = items[f] /\ enr'[f].status = enr[f].status
  BY <1>2, <1>4, <1>5, <1>6, ItemsAreOfClosed
<1>10. \A f \in DOMAIN enr' : enr'[f].status = "TRANSFERRED_OUT" =>
         f \in DOMAIN enr /\ enr[f].status = "TRANSFERRED_OUT"
  BY <1>3, <1>4, <1>6 DEF Progressed
<1>11. ClosedForAReason'
  BY <1>2, <1>4, <1>5, <1>6, <1>8, <1>9, <1>10, ReasonsKept, ItemsAreOfClosed
<1> QED BY <1>2, <1>7, <1>11, HandlerEnds

LEMMA RemoveOrderly ==
  ASSUME OneHandler, IInv, IInv', Orderly, NEW s \in Students, Remove(s)
  PROVE  Orderly'
<1> DEFINE K == EnrollmentsOf(s)
<1>1. /\ enr' = Without(enr, K) /\ transfers' = Without(transfers, K) /\ items' = Without(items, K)
      /\ UNCHANGED pending
  BY DEF Remove
<1> HIDE DEF K
<1>2. /\ DOMAIN enr' = DOMAIN enr \ K /\ \A e \in DOMAIN enr' : enr'[e] = enr[e]
      /\ DOMAIN transfers' = DOMAIN transfers \ K /\ \A e \in DOMAIN transfers' : transfers'[e] = transfers[e]
      /\ DOMAIN items' = DOMAIN items \ K /\ \A e \in DOMAIN items' : items'[e] = items[e]
  BY <1>1 DEF Without
<1>3. OneRequestPerStudent'
  BY <1>2, WaitingKept, ItemsAreOfClosed
<1>4. ClosedForAReason'
  BY <1>2, ReasonsKept, ItemsAreOfClosed
<1>5. ASSUME NEW w \in DOMAIN pending PROVE StillTrue(pending[w])'
  <2>1. StillTrue(pending[w])
    BY DEF Orderly
  <2>2. ASSUME NEW x, HasPendingTransfer(x)' PROVE HasPendingTransfer(x)
    BY <1>2, <2>2, ItemsAreOfClosed DEF HasPendingTransfer
  <2>3. pending'[w] = pending[w]
    BY <1>1
  <2> QED BY <1>2, <2>1, <2>2, <2>3 DEF StillTrue, SchoolOf
<1> QED BY <1>1, <1>3, <1>4, <1>5 DEF Orderly

LEMMA OrderlyHolds ==
  ASSUME OneHandler
  PROVE  Spec => []Orderly
<1>1. Init => Orderly
  BY DEF Init, Orderly, ClosedForAReason, OneRequestPerStudent
<1>2. IInv /\ Orderly /\ [Next]_vars => Orderly'
  <2> SUFFICES ASSUME IInv, Orderly, [Next]_vars PROVE Orderly'
    OBVIOUS
  <2>1. IInv'
    BY NextKeeps
  <2>2. ASSUME NEW w \in Workers, Commit(w) PROVE Orderly'
    BY <2>1, <2>2, CreateOrderly, EditOrderly, ArchiveOrderly, RequestOrderly, ApproveOrderly,
       DecideOrderly, BulkOrderly, PromoteOrderly, Form1Orderly, ReverseOrderly DEF Commit
  <2>3. CASE UNCHANGED vars
    BY <2>3 DEF Orderly, StillTrue, HasPendingTransfer, ClosedForAReason, OneRequestPerStudent,
       SchoolOf, vars
  <2> QED BY <2>1, <2>2, <2>3, ReadOrderly, RollbackOrderly, RemoveOrderly DEF Next
<1> QED BY <1>1, <1>2, Invariance, PTL DEF Spec

(* As long as handlers run one after another a student has at most one      *)
(* transfer request waiting, for any number of students and schools.        *)
THEOREM OneRequest ==
  ASSUME OneHandler
  PROVE  Spec => []OneRequestPerStudent
<1>1. Orderly => OneRequestPerStudent
  BY DEF Orderly
<1> QED BY <1>1, OrderlyHolds, PTL

(* As long as handlers run one after another every closed enrollment has    *)
(* its reason on record, through promotions, transfers, Form 1 transitions, *)
(* reversals and deletions.                                                 *)
THEOREM Reasons ==
  ASSUME OneHandler
  PROVE  Spec => []ClosedForAReason
<1>1. Orderly => ClosedForAReason
  BY DEF Orderly
<1> QED BY <1>1, OrderlyHolds, PTL

-----------------------------------------------------------------------------
(* Seats: one handler at a time, and nobody is transferred                  *)

NoTransfers == "approve" \notin Operations /\ "bulk" \notin Operations

NoSeat(s) == \A e \in EnrollmentsOf(s) : enr[e].status # "ACTIVE"

(* A seat is held by a student whose status says ACTIVE.  Without transfers *)
(* a student keeps the number of the admission, and the unique index on the *)
(* number then keeps a Form 1 batch from seating a student twice.           *)
OneSeat ==
  /\ OneActiveEnrollment
  /\ \A e \in DOMAIN enr : student[enr[e].student] # "UNKNOWN"
  /\ \A e \in DOMAIN enr : enr[e].status = "ACTIVE" => student[enr[e].student] = "ACTIVE"
  /\ \A e, f \in DOMAIN enr : enr[e].student = enr[f].student => enr[e].number = enr[f].number

\* What a handler found of seats is still so when it writes.
StillSeated(r) ==
  /\ r.op \in Operations
  /\ r.op = "archive" =>
       /\ r.enrollment = NoEnrollment => NoSeat(r.student)
       /\ r.enrollment \in DOMAIN enr => enr[r.enrollment].status = "ACTIVE"
  /\ r.op = "promote" => \A e \in DOMAIN r.outcome \cap DOMAIN enr : enr[e].status = "ACTIVE"
  /\ r.op = "form1" =>
       /\ \A e \in DOMAIN r.target \cap DOMAIN enr : student[enr[e].student] = "COMPLETED"
       /\ \A e, f \in DOMAIN r.target : SameYear(r.target[e], r.target[f])
  /\ (r.op = "reverse" /\ r.enrollment \in DOMAIN enr) => NoSeat(enr[r.enrollment].student)

SeatInv == OneSeat /\ \A w \in DOMAIN pending : StillSeated(pending[w])

LEMMA BeginSeated ==
  ASSUME OneHandler, IInv, SeatInv, NEW w \in Workers, NEW r, r.op \in Operations => StillSeated(r), Begin(w, r)
  PROVE  SeatInv'
<1>1. UNCHANGED <<student, enr, nextEnr, transfers, items>> /\ StillSeated(r)
  BY DEF Begin
<1>2. \A v \in DOMAIN pending' : pending'[v] = r
  BY DEF Begin, Upsert, OneRow, OneHandler, IInv, TypeOK
<1>3. \A v \in DOMAIN pending' : StillSeated(pending[v])'
  BY <1>1, <1>2 DEF StillSeated, NoSeat, EnrollmentsOf, SameYear, SchoolOf, YearOf
<1>4. OneSeat'
  BY <1>1 DEF SeatInv, OneSeat, OneActiveEnrollment
<1> QED BY <1>3, <1>4 DEF SeatInv

LEMMA ReadSeated ==
  ASSUME OneHandler, IInv, SeatInv, NEW w \in Workers, Read(w)
  PROVE  SeatInv'
<1>1. ASSUME NEW r, r.op \in {"create", "edit", "request", "approve", "decide", "bulk"}, Begin(w, r)
      PROVE  SeatInv'
  <2>1. r.op \in Operations => StillSeated(r)
    BY <1>1 DEF StillSeated
  <2> QED BY <1>1, <2>1, BeginSeated
<1>2. ASSUME NEW s \in Students, ArchiveRead(w, s) PROVE SeatInv'
  <2>1. PICK e : /\ e = NoEnrollment => NoSeat(s)
                 /\ e \in DOMAIN enr => enr[e].status = "ACTIVE"
                 /\ Begin(w, [op |-> "archive", student |-> s, enrollment |-> e])
    <3>1. 0 \notin DOMAIN enr
      BY TypeFacts DEF IInv, TypeOK
    <3> QED BY <1>2, <3>1 DEF ArchiveRead, NoSeat, NoEnrollment, EnrollmentsOf
  <2>2. PICK r : r = [op |-> "archive", student |-> s, enrollment |-> e]
    OBVIOUS
  <2>3. r.op \in Operations => StillSeated(r)
    BY <2>1, <2>2 DEF StillSeated
  <2> QED BY <2>1, <2>2, <2>3, BeginSeated
<1>3. ASSUME NEW sec \in Sections, NEW outcome, NEW target, PromoteRead(w, sec, outcome, target)
      PROVE  SeatInv'
  <2>1. PICK r : r = [op |-> "promote", outcome |-> outcome, target |-> target] /\ Begin(w, r)
    BY <1>3 DEF PromoteRead
  <2>2. \A e \in DOMAIN outcome : enr[e].status = "ACTIVE"
    BY <1>3 DEF PromoteRead, ActiveIn
  <2>3. r.op \in Operations => StillSeated(r)
    BY <2>1, <2>2 DEF StillSeated
  <2> QED BY <2>1, <2>3, BeginSeated
<1>4. ASSUME NEW target, Form1Read(w, target) PROVE SeatInv'
  <2>1. PICK r : r = [op |-> "form1", target |-> target] /\ Begin(w, r)
    BY <1>4 DEF Form1Read
  <2>2. /\ \A e \in DOMAIN target : student[enr[e].student] = "COMPLETED"
        /\ \A e, f \in DOMAIN target : SameYear(target[e], target[f])
    BY <1>4 DEF Form1Read, AwaitsForm1, OneClass, SameYear, SchoolOf, YearOf
  <2>3. r.op \in Operations => StillSeated(r)
    BY <2>1, <2>2 DEF StillSeated
  <2> QED BY <2>1, <2>3, BeginSeated
<1>5. ASSUME NEW e \in DOMAIN enr, ReverseRead(w, e) PROVE SeatInv'
  <2>1. PICK r : r.op = "reverse" /\ r.enrollment = e /\ Begin(w, r)
    BY <1>5 DEF ReverseRead
  <2>2. NoSeat(enr[e].student)
    BY <1>5 DEF ReverseRead, NoSeat, EnrollmentsOf
  <2>3. r.op \in Operations => StillSeated(r)
    BY <2>1, <2>2 DEF StillSeated
  <2> QED BY <2>1, <2>3, BeginSeated
<1>6. \A sec \in Sections : CreateRead(w, sec) => SeatInv'
  BY <1>1 DEF CreateRead
<1>7. \A e \in DOMAIN enr, sec \in Sections : EditRead(w, e, sec) => SeatInv'
  BY <1>1 DEF EditRead
<1>8. \A e \in DOMAIN enr, school \in Schools : RequestRead(w, e, school) => SeatInv'
  BY <1>1 DEF RequestRead
<1>9. \A e \in DOMAIN transfers, sec \in Sections : ApproveRead(w, e, sec) => SeatInv'
  BY <1>1 DEF ApproveRead
<1>10. \A e \in DOMAIN transfers : \A verdict : DecideRead(w, e, verdict) => SeatInv'
  BY <1>1 DEF DecideRead
<1>11. \A target : BulkRead(w, target) => SeatInv'
  BY <1>1 DEF BulkRead
<1> QED BY <1>2, <1>3, <1>4, <1>5, <1>6, <1>7, <1>8, <1>9, <1>10, <1>11 DEF Read

LEMMA EndSeated ==
  ASSUME OneHandler, IInv, OneSeat', NEW w \in DOMAIN pending, End(w)
  PROVE  SeatInv'
BY EndsAlone DEF SeatInv

\* A step that adds no row and gives nobody a seat.
LEMMA SeatsKept ==
  ASSUME OneSeat, DOMAIN enr' \subseteq DOMAIN enr,
         \A e \in DOMAIN enr' : /\ enr'[e].student = enr[e].student /\ enr'[e].number = enr[e].number
                                /\ enr'[e].status = "ACTIVE" => /\ enr[e].status = "ACTIVE"
                                                                /\ student'[enr[e].student] = student[enr[e].student]
                                /\ student'[enr[e].student] # "UNKNOWN"
  PROVE  OneSeat'
BY DEF OneSeat, OneActiveEnrollment

LEMMA RollbackSeated ==
  ASSUME OneHandler, IInv, SeatInv, NEW w, Rollback(w)
  PROVE  SeatInv'
<1>1. UNCHANGED <<student, enr>> /\ w \in DOMAIN pending /\ End(w)
  BY DEF Rollback
<1>2. OneSeat'
  BY <1>1, SeatsKept DEF SeatInv, OneSeat
<1> QED BY <1>1, <1>2, EndSeated

LEMMA CreateSeated ==
  ASSUME IInv, SeatInv, NEW w, CreateCommit(w)
  PROVE  OneSeat'
<1>1. PICK s, row :
        /\ s \in Students /\ row = NewRow(s, pending[w].section, pending[w].number, pending[w].roll)
        /\ enr' = Upsert(enr, OneRow(nextEnr, row))
        /\ student[s] = "UNKNOWN" /\ student' = [student EXCEPT ![s] = "ACTIVE"]
  BY DEF CreateCommit
<1>2. TypeOK /\ OneSeat
  BY DEF IInv, SeatInv
<1>3. DOMAIN enr' = DOMAIN enr \cup {nextEnr} /\ nextEnr \notin DOMAIN enr /\ enr'[nextEnr] = row
      /\ \A e \in DOMAIN enr : enr'[e] = enr[e]
  BY <1>1, <1>2, NewSeat
<1>4. row.student = s /\ \A e \in DOMAIN enr : enr[e].student # s
  BY <1>1, <1>2 DEF NewRow, OneSeat
<1>5. student'[s] = "ACTIVE" /\ \A e \in DOMAIN enr : student'[enr[e].student] = student[enr[e].student]
  BY <1>1, <1>2, <1>4 DEF TypeOK
<1>6. OneActiveEnrollment'
  BY <1>2, <1>3, <1>4 DEF OneSeat, OneActiveEnrollment
<1> QED BY <1>2, <1>3, <1>4, <1>5, <1>6 DEF OneSeat

LEMMA EditSeated ==
  ASSUME IInv, SeatInv, NEW w, EditCommit(w)
  PROVE  OneSeat'
<1>1. PICK e, sec, roll :
        /\ e \in DOMAIN enr /\ enr' = [enr EXCEPT ![e].section = sec, ![e].roll = roll]
        /\ student' = student
  BY DEF EditCommit
<1>2. /\ DOMAIN enr' = DOMAIN enr
      /\ \A f \in DOMAIN enr : /\ enr'[f].student = enr[f].student /\ enr'[f].number = enr[f].number
                               /\ enr'[f].status = enr[f].status
  BY <1>1 DEF IInv, TypeOK, EnrollmentRow
<1> QED BY <1>1, <1>2, SeatsKept DEF SeatInv, OneSeat

LEMMA ArchiveSeated ==
  ASSUME IInv, SeatInv, NEW w, ArchiveCommit(w)
  PROVE  OneSeat'
<1>1. PICK s, e : s = pending[w].student /\ e = pending[w].enrollment
  OBVIOUS
<1>2. /\ student' = [student EXCEPT ![s] = "ARCHIVED"]
      /\ \/ e = NoEnrollment /\ enr' = enr
         \/ e \in DOMAIN enr /\ enr' = [enr EXCEPT ![e].status = "WITHDRAWN"]
  BY <1>1 DEF ArchiveCommit
<1>3. /\ e \in DOMAIN enr => enr[e].student = s
      /\ e = NoEnrollment => NoSeat(s)
      /\ e \in DOMAIN enr => enr[e].status = "ACTIVE"
  BY <1>1 DEF ArchiveCommit, Writing, SeatInv, StillSeated, IInv, RequestsOK, RequestOK
<1>4. TypeOK /\ OneSeat /\ NoEnrollment \notin DOMAIN enr
  BY DEF IInv, SeatInv, TypeOK, NoEnrollment
<1>5. /\ DOMAIN enr' = DOMAIN enr
      /\ \A f \in DOMAIN enr : /\ enr'[f].student = enr[f].student /\ enr'[f].number = enr[f].number
                               /\ enr'[f].status = "ACTIVE" => enr[f].status = "ACTIVE" /\ (f = e => enr' = enr)
  BY <1>2, <1>4 DEF TypeOK, EnrollmentRow
<1>6. ASSUME NEW f \in DOMAIN enr, enr'[f].status = "ACTIVE" PROVE enr[f].student # s
  <2>1. CASE e = NoEnrollment
    BY <1>3, <1>5, <1>6, <2>1 DEF NoSeat, EnrollmentsOf
  <2>2. CASE e # NoEnrollment
    <3>1. e \in DOMAIN enr /\ enr'[e].status = "WITHDRAWN" /\ enr[e].status = "ACTIVE" /\ enr[e].student = s
      BY <1>2, <1>3, <1>4, <2>2 DEF TypeOK, EnrollmentRow
    <3>2. f # e
      BY <1>6, <3>1
    <3> QED BY <1>4, <1>5, <1>6, <3>1, <3>2 DEF OneSeat, OneActiveEnrollment
  <2> QED BY <2>1, <2>2
<1>7. \A x \in Students : student'[x] = student[x] \/ (x = s /\ student'[x] = "ARCHIVED")
  BY <1>2, <1>4 DEF TypeOK
<1>8. \A f \in DOMAIN enr : enr[f].student \in Students
  BY <1>4, TypeFacts
<1> QED BY <1>4, <1>5, <1>6, <1>7, <1>8, SeatsKept DEF OneSeat

\* What a batch makes of the seats, when its students have no other.
LEMMA BatchSeats ==
  ASSUME IInv, OneSeat, NEW E, E \subseteq DOMAIN enr, NEW key, NEW target, NEW number, NEW t,
         Seated(E, key, target, number, t),
         \A e \in E : number[e] = enr[e].number,
         \A e \in DOMAIN enr : /\ t[e].student = enr[e].student /\ t[e].number = enr[e].number
                               /\ t[e].status = "ACTIVE" => enr[e].status = "ACTIVE",
         \A e \in E, f \in DOMAIN enr : enr[e].student = enr[f].student => t[f].status # "ACTIVE",
         \A e, f \in E : enr[e].student = enr[f].student => e = f,
         \A e \in E : student'[enr[e].student] = "ACTIVE",
         \A e \in DOMAIN enr : student'[enr[e].student] # "UNKNOWN",
         \A e \in DOMAIN enr : t[e].status = "ACTIVE" => student'[enr[e].student] = "ACTIVE"
  PROVE  OneSeat'
<1>1. /\ DOMAIN enr' = DOMAIN enr \cup {key[e] : e \in E}
      /\ \A e \in DOMAIN enr : enr'[e] = t[e]
      /\ \A e \in E : /\ enr'[key[e]].status = "ACTIVE"
                      /\ enr'[key[e]].student = enr[e].student /\ enr'[key[e]].number = enr[e].number
  BY DEF Seated
<1>2. ASSUME NEW k \in DOMAIN enr'
      PROVE  \E e \in DOMAIN enr : /\ enr'[k].student = enr[e].student /\ enr'[k].number = enr[e].number
                                   /\ (k = e /\ enr'[k] = t[e]) \/ (e \in E /\ k = key[e])
  BY <1>1
<1>3. OneActiveEnrollment'
  <2> SUFFICES ASSUME NEW k \in DOMAIN enr', NEW l \in DOMAIN enr', k # l,
                      enr'[k].status = "ACTIVE", enr'[l].status = "ACTIVE",
                      enr'[k].student = enr'[l].student
               PROVE  FALSE
    BY DEF OneActiveEnrollment
  <2>1. PICK e \in DOMAIN enr :
         /\ enr'[k].student = enr[e].student
         /\ (k = e /\ enr'[k] = t[e]) \/ (e \in E /\ k = key[e])
    BY <1>2
  <2>2. PICK f \in DOMAIN enr :
         /\ enr'[l].student = enr[f].student
         /\ (l = f /\ enr'[l] = t[f]) \/ (f \in E /\ l = key[f])
    BY <1>2
  <2>6. enr[e].student = enr[f].student
    BY <2>1, <2>2
  <2>3. ASSUME e \in E, k = key[e] PROVE FALSE
    <3>1. CASE f \in E /\ l = key[f]
      BY <2>3, <2>6, <3>1
    <3>2. CASE l = f /\ enr'[l] = t[f]
      <4>1. t[f].status # "ACTIVE"
        BY <2>3, <2>6
      <4> QED BY <3>2, <4>1
    <3> QED BY <2>2, <3>1, <3>2
  <2>4. ASSUME f \in E, l = key[f], k = e, enr'[k] = t[e] PROVE FALSE
    <3>1. t[e].status # "ACTIVE"
      BY <2>4, <2>6
    <3> QED BY <2>4, <3>1
  <2>5. CASE k = e /\ enr'[k] = t[e] /\ l = f /\ enr'[l] = t[f]
    <3>1. t[e].status = "ACTIVE" /\ t[f].status = "ACTIVE" /\ e # f
      BY <2>5
    <3>2. enr[e].status = "ACTIVE" /\ enr[f].status = "ACTIVE"
      BY <3>1
    <3> QED BY <2>6, <3>1, <3>2 DEF OneSeat, OneActiveEnrollment
  <2> QED BY <2>1, <2>2, <2>3, <2>4, <2>5
<1>4. \A k \in DOMAIN enr' : /\ student'[enr'[k].student] # "UNKNOWN"
                             /\ enr'[k].status = "ACTIVE" => student'[enr'[k].student] = "ACTIVE"
  BY <1>1, <1>2
<1>5. \A k, l \in DOMAIN enr' : enr'[k].student = enr'[l].student => enr'[k].number = enr'[l].number
  BY <1>2 DEF OneSeat
<1> QED BY <1>3, <1>4, <1>5 DEF OneSeat

LEMMA Form1Seated ==
  ASSUME IInv, SeatInv, NEW w, Form1Commit(w)
  PROVE  OneSeat'
<1> DEFINE target == pending[w].target
           E == DOMAIN target
           number == [e \in E |-> enr[e].number]
<1>1. PICK key \in NewKeys(E) : enr' = Upsert(enr, BatchRows(key, target, number))
  BY DEF Form1Commit
<1>2. /\ E \subseteq DOMAIN enr /\ Fits(enr')
      /\ student' = [s \in Students |-> IF s \in {enr[e].student : e \in E} THEN "ACTIVE" ELSE student[s]]
  BY DEF Form1Commit
<1>3. /\ \A e \in E : student[enr[e].student] = "COMPLETED"
      /\ \A e, f \in E : SameYear(target[e], target[f])
  BY <1>2 DEF Form1Commit, Writing, SeatInv, StillSeated
<1>4. \A e \in E : number[e] = enr[e].number
  OBVIOUS
<1> HIDE DEF target, E, number
<1>5. Seated(E, key, target, number, enr)
  BY <1>1, <1>2, NewSeats DEF IInv
<1>6. OneSeat /\ \A e \in DOMAIN enr : enr[e].student \in Students
  BY TypeFacts DEF IInv, SeatInv
<1>7. \A e \in E, f \in DOMAIN enr : enr[e].student = enr[f].student => enr[f].status # "ACTIVE"
  BY <1>3, <1>6 DEF OneSeat
<1>8. ASSUME NEW e \in E, NEW f \in E, enr[e].student = enr[f].student, e # f PROVE FALSE
  <2>1. /\ key[e] \in DOMAIN enr' /\ key[f] \in DOMAIN enr' /\ key[e] # key[f]
        /\ enr'[key[e]].status = "ACTIVE" /\ enr'[key[f]].status = "ACTIVE"
        /\ enr'[key[e]].section = target[e] /\ enr'[key[f]].section = target[f]
        /\ enr'[key[e]].number = enr[e].number /\ enr'[key[f]].number = enr[f].number
    BY <1>4, <1>5, <1>8 DEF Seated
  <2>2. enr[e].number = enr[f].number
    BY <1>2, <1>6, <1>8 DEF OneSeat
  <2>3. SameYear(target[e], target[f])
    BY <1>3
  <2> QED BY <1>2, <2>1, <2>2, <2>3 DEF Fits
<1>9. \A e \in DOMAIN enr : /\ student'[enr[e].student] # "UNKNOWN"
                            /\ enr[e].status = "ACTIVE" => student'[enr[e].student] = "ACTIVE"
  BY <1>2, <1>6 DEF OneSeat
<1>10. \A e \in E : student'[enr[e].student] = "ACTIVE"
  BY <1>2, <1>6
<1>11. \A e, f \in E : enr[e].student = enr[f].student => e = f
  BY <1>8
<1>12. E \subseteq DOMAIN enr /\ \A e \in DOMAIN enr : student'[enr[e].student] # "UNKNOWN"
  BY <1>2, <1>9
<1>13. \A e \in DOMAIN enr : enr[e].status = "ACTIVE" => student'[enr[e].student] = "ACTIVE"
  BY <1>9
<1>14. IInv /\ OneSeat
  BY <1>6
<1> QED BY <1>4, <1>5, <1>7, <1>10, <1>11, <1>12, <1>13, <1>14, BatchSeats

LEMMA PromoteSeated ==
  ASSUME IInv, SeatInv, NEW w, PromoteCommit(w)
  PROVE  OneSeat'
<1> DEFINE outcome == pending[w].outcome
           target == pending[w].target
           E == DOMAIN outcome
           C == DOMAIN target
           ended == {enr[e].student : e \in E \ C}
           closed == [e \in DOMAIN enr |->
                        IF e \in E THEN [enr[e] EXCEPT !.status = outcome[e]] ELSE enr[e]]
           number == [e \in C |-> enr[e].number]
<1>1. PICK key \in NewKeys(C) : enr' = Upsert(closed, BatchRows(key, target, number))
  BY DEF PromoteCommit
<1>2. E \subseteq DOMAIN enr /\ Writing(w, "promote")
  BY DEF PromoteCommit
<1>3. \A e \in E : enr[e].status = "ACTIVE"
  BY <1>2 DEF Writing, SeatInv, StillSeated
<1>4. outcome \in [E -> Progressed] /\ C \subseteq E
  <2>1. pending[w] \in Request /\ pending[w].op = "promote" /\ RequestOK(pending[w])
    BY <1>2, WritingType DEF Writing, IInv, RequestsOK
  <2> QED BY <2>1, RequestFields, AssignmentsType DEF RequestOK, Continues
<1>5. \A s \in Students : \/ s \in ended /\ student'[s] \in Progressed
                          \/ s \notin ended /\ student'[s] = student[s]
  <2>1. student' = [s \in Students |->
          IF s \in ended THEN outcome[CHOOSE e \in E \ C : enr[e].student = s] ELSE student[s]]
    BY DEF PromoteCommit
  <2>2. \A s \in ended : (CHOOSE e \in E \ C : enr[e].student = s) \in E
    OBVIOUS
  <2> HIDE DEF ended, E, C, outcome
  <2> QED BY <1>4, <2>1, <2>2
<1>6. \A e \in DOMAIN enr : /\ closed[e].student = enr[e].student /\ closed[e].number = enr[e].number
                            /\ e \in E => closed[e].status = outcome[e]
                            /\ e \notin E => closed[e] = enr[e]
  BY DEF IInv, TypeOK, EnrollmentRow
<1>7. DOMAIN closed = DOMAIN enr /\ \A e \in C : number[e] = enr[e].number
  OBVIOUS
<1>8. \A s : s \in ended <=> \E e \in E \ C : s = enr[e].student
  OBVIOUS
<1> HIDE DEF outcome, target, E, C, ended, closed, number
<1>9. Seated(C, key, target, number, closed)
  BY <1>1, <1>2, <1>4, <1>7, NewSeats DEF IInv
<1>10. /\ OneSeat /\ \A e \in DOMAIN enr : enr[e].student \in Students
       /\ \A e, f \in DOMAIN enr :
            (enr[e].status = "ACTIVE" /\ enr[f].status = "ACTIVE" /\ enr[e].student = enr[f].student) => e = f
  BY TypeFacts DEF IInv, SeatInv, OneSeat, OneActiveEnrollment
<1>11. \A e \in DOMAIN enr : closed[e].status = "ACTIVE" => enr[e].status = "ACTIVE" /\ e \notin E
  BY <1>4, <1>6 DEF Progressed
<1>12. \A e \in C, f \in DOMAIN enr : enr[e].student = enr[f].student => closed[f].status # "ACTIVE"
  BY <1>2, <1>3, <1>4, <1>10, <1>11
<1>13. \A e, f \in C : enr[e].student = enr[f].student => e = f
  BY <1>2, <1>3, <1>4, <1>10
<1>14. \A e \in DOMAIN enr : enr[e].status = "ACTIVE" /\ e \notin E \ C => student'[enr[e].student] = "ACTIVE"
  BY <1>2, <1>3, <1>5, <1>8, <1>10 DEF OneSeat
<1>15. \A e \in C : student'[enr[e].student] = "ACTIVE"
  BY <1>2, <1>3, <1>4, <1>14
<1>16. \A e \in DOMAIN enr : student'[enr[e].student] # "UNKNOWN"
  BY <1>5, <1>10 DEF OneSeat, Progressed
<1>17. C \subseteq DOMAIN enr /\ \A e \in DOMAIN enr : closed[e].status = "ACTIVE" => student'[enr[e].student] = "ACTIVE"
  BY <1>2, <1>4, <1>11, <1>14
<1> QED BY <1>6, <1>7, <1>9, <1>10, <1>11, <1>12, <1>13, <1>15, <1>16, <1>17, BatchSeats

LEMMA ReverseSeated ==
  ASSUME IInv, SeatInv, NEW w, ReverseCommit(w)
  PROVE  OneSeat'
<1>1. PICK e, roll, undone :
        /\ e = pending[w].enrollment /\ e \in DOMAIN enr
        /\ enr' = [enr EXCEPT ![e].status = "ACTIVE", ![e].roll = roll, ![e].undone = undone]
        /\ student' = [student EXCEPT ![enr[e].student] = "ACTIVE"]
  BY DEF ReverseCommit
<1>2. NoSeat(enr[e].student)
  BY <1>1 DEF ReverseCommit, Writing, SeatInv, StillSeated
<1>3. /\ DOMAIN enr' = DOMAIN enr
      /\ \A f \in DOMAIN enr : /\ enr'[f].student = enr[f].student /\ enr'[f].number = enr[f].number
                               /\ f # e => enr'[f].status = enr[f].status
  BY <1>1 DEF IInv, TypeOK, EnrollmentRow
<1>4. \A f \in DOMAIN enr : enr[f].student = enr[e].student => enr[f].status # "ACTIVE"
  BY <1>2 DEF NoSeat, EnrollmentsOf
<1>5. \A x \in Students : student'[x] = IF x = enr[e].student THEN "ACTIVE" ELSE student[x]
  BY <1>1 DEF IInv, TypeOK
<1>6. OneSeat /\ \A f \in DOMAIN enr : enr[f].student \in Students
  BY TypeFacts DEF IInv, SeatInv
<1>7. OneActiveEnrollment'
  BY <1>1, <1>3, <1>4, <1>6 DEF OneSeat, OneActiveEnrollment
<1>8. \A f \in DOMAIN enr' : student'[enr'[f].student] # "UNKNOWN"
  BY <1>3, <1>5, <1>6 DEF OneSeat
<1>9. \A f \in DOMAIN enr' : enr'[f].status = "ACTIVE" => student'[enr'[f].student] = "ACTIVE"
  <2> SUFFICES ASSUME NEW f \in DOMAIN enr', enr'[f].status = "ACTIVE" PROVE student'[enr'[f].student] = "ACTIVE"
    OBVIOUS
  <2>1. CASE f = e
    BY <1>3, <1>5, <1>6, <2>1
  <2>2. CASE f # e
    <3>1. student[enr[f].student] = "ACTIVE"
      BY <1>3, <1>6, <2>2 DEF OneSeat
    <3> QED BY <1>3, <1>5, <1>6, <3>1
  <2> QED BY <2>1, <2>2
<1>10. \A f, g \in DOMAIN enr' : enr'[f].student = enr'[g].student => enr'[f].number = enr'[g].number
  BY <1>3, <1>6 DEF OneSeat
<1> QED BY <1>7, <1>8, <1>9, <1>10 DEF OneSeat

LEMMA RemoveSeated ==
  ASSUME IInv, SeatInv, NEW s \in Students, Remove(s)
  PROVE  SeatInv'
<1>1. /\ DOMAIN enr' = DOMAIN enr \ EnrollmentsOf(s) /\ \A e \in DOMAIN enr' : enr'[e] = enr[e]
      /\ \A x \in Students : x # s => student'[x] = student[x]
      /\ UNCHANGED pending
  BY DEF Remove, Without, IInv, TypeOK
<1>2. \A e \in DOMAIN enr' : /\ e \in DOMAIN enr /\ enr[e].student # s /\ enr[e].student \in Students
                             /\ enr'[e] = enr[e] /\ student'[enr[e].student] = student[enr[e].student]
  BY <1>1, TypeFacts DEF EnrollmentsOf, IInv
<1>3. OneSeat'
  BY <1>2, SeatsKept DEF SeatInv, OneSeat
<1>4. \A x : NoSeat(x) => NoSeat(x)'
  BY <1>2 DEF NoSeat, EnrollmentsOf
<1>5. ASSUME NEW w \in DOMAIN pending PROVE StillSeated(pending[w])'
  <2>1. StillSeated(pending[w]) /\ pending' = pending
    BY <1>1 DEF SeatInv
  <2> QED BY <1>2, <1>4, <2>1 DEF StillSeated, SameYear, SchoolOf, YearOf
<1> QED BY <1>1, <1>3, <1>5 DEF SeatInv

LEMMA SeatsHold ==
  ASSUME OneHandler, NoTransfers
  PROVE  Spec => []SeatInv
<1>1. Init => SeatInv
  BY DEF Init, SeatInv, OneSeat, OneActiveEnrollment
<1>2. IInv /\ SeatInv /\ [Next]_vars => SeatInv'
  <2> SUFFICES ASSUME IInv, SeatInv, [Next]_vars PROVE SeatInv'
    OBVIOUS
  <2>1. ASSUME NEW w \in Workers, Commit(w) PROVE SeatInv'
    <3>1. w \in DOMAIN pending /\ End(w) /\ pending[w].op \in Operations
      BY <2>1 DEF Commit, CreateCommit, EditCommit, ArchiveCommit, RequestCommit, ApproveCommit, DecideCommit,
         BulkCommit, PromoteCommit, Form1Commit, ReverseCommit, Writing, SeatInv, StillSeated
    <3>2. ~ ApproveCommit(w) /\ ~ BulkCommit(w)
      BY <3>1 DEF NoTransfers, ApproveCommit, BulkCommit, Writing
    <3>3. RequestCommit(w) \/ DecideCommit(w) => OneSeat'
      BY SeatsKept DEF RequestCommit, DecideCommit, SeatInv, OneSeat
    <3>4. OneSeat'
      BY <2>1, <3>2, <3>3, CreateSeated, EditSeated, ArchiveSeated, PromoteSeated, Form1Seated, ReverseSeated DEF Commit
    <3> QED BY <3>1, <3>4, EndSeated
  <2>2. CASE UNCHANGED vars
    BY <2>2 DEF SeatInv, OneSeat, OneActiveEnrollment, StillSeated, NoSeat, EnrollmentsOf, SameYear,
       SchoolOf, YearOf, vars
  <2> QED BY <2>1, <2>2, ReadSeated, RollbackSeated, RemoveSeated DEF Next
<1> QED BY <1>1, <1>2, Invariance, PTL DEF Spec

(* As long as handlers run one after another and nobody is transferred, a   *)
(* student holds at most one ACTIVE enrollment: through admissions,         *)
(* corrections, progressions, Form 1 transitions, reversals and deletions.  *)
THEOREM OneSeatPerStudent ==
  ASSUME OneHandler, NoTransfers
  PROVE  Spec => []OneActiveEnrollment
<1>1. SeatInv => OneActiveEnrollment
  BY DEF SeatInv, OneSeat
<1> QED BY <1>1, SeatsHold, PTL

-----------------------------------------------------------------------------
(* Capacity: one handler at a time                                          *)

\* The room a handler found is still there when it writes.  Whoever undoes a
\* final outcome has found its item.
RoomStill(r) ==
  /\ r.op \in {"create", "approve"} => Room(r.section, 1)
  /\ (r.op = "edit" /\ r.enrollment \in DOMAIN enr /\ r.section # enr[r.enrollment].section)
       => Room(r.section, 1)
  /\ r.op \in {"bulk", "form1", "promote"} => RoomForBatch(r.target)
  /\ r.op = "reverse" => r.hasItem

RoomInv == \A w \in DOMAIN pending : RoomStill(pending[w])

\* What a step makes of a section: it may fill up, but not overflow.
FilledWithin(sec) ==
  (Capacity[sec] # Unlimited /\ Cardinality(ActiveIn(sec))' > Cardinality(ActiveIn(sec)))
    => Cardinality(ActiveIn(sec))' <= Capacity[sec]

LEMMA SeatsFinite ==
  ASSUME TypeOK, NEW sec
  PROVE  IsFiniteSet(ActiveIn(sec)) /\ Cardinality(ActiveIn(sec)) \in Nat
BY EnrollmentsFinite DEF ActiveIn

LEMMA SeatsFiniteNext ==
  TypeOK' => (\A sec : IsFiniteSet(ActiveIn(sec)) /\ Cardinality(ActiveIn(sec)) \in Nat)'
<1>1. TypeOK => \A sec : IsFiniteSet(ActiveIn(sec)) /\ Cardinality(ActiveIn(sec)) \in Nat
  BY SeatsFinite
<1> QED BY <1>1, PTL

\* The students a step seats in a section that had room for as many.
LEMMA Filled ==
  ASSUME TypeOK, TypeOK', NEW sec \in Sections, NEW N, NEW n \in Nat,
         IsFiniteSet(N), Cardinality(N) <= n, Room(sec, n),
         ActiveIn(sec)' \subseteq ActiveIn(sec) \cup N
  PROVE  FilledWithin(sec)
<1>1. PICK A : A = ActiveIn(sec)
  OBVIOUS
<1>2. PICK B : B = ActiveIn(sec)'
  OBVIOUS
<1>3. IsFiniteSet(A) /\ Cardinality(A) \in Nat
  BY <1>1, SeatsFinite
<1>4. IsFiniteSet(B) /\ Cardinality(B) \in Nat
  BY <1>2, SeatsFiniteNext
<1>5. IsFiniteSet(A \cup N) /\ Cardinality(A \cup N) = Cardinality(A) + Cardinality(N) - Cardinality(A \cap N)
  BY <1>3, FS_Union
<1>6. Cardinality(B) <= Cardinality(A \cup N)
  BY <1>1, <1>2, <1>5, FS_Subset
<1>7. Cardinality(N) \in Nat /\ Cardinality(A \cap N) \in Nat
  <2>1. IsFiniteSet(A \cap N)
    BY <1>3, FS_Subset
  <2> QED BY <2>1, FS_CardinalityType
<1>8. Cardinality(B) <= Cardinality(A) + n
  BY <1>3, <1>4, <1>5, <1>6, <1>7
<1>9. Capacity[sec] # Unlimited => Capacity[sec] \in Nat /\ Cardinality(A) + n <= Capacity[sec]
  BY <1>1, CapacityAssumption DEF Room
<1>10. Capacity[sec] # Unlimited => Cardinality(B) <= Capacity[sec]
  BY <1>3, <1>4, <1>8, <1>9
<1> QED BY <1>2, <1>10 DEF FilledWithin

\* A step that seats nobody new in a section.
LEMMA NotFilled ==
  ASSUME TypeOK, TypeOK', NEW sec, ActiveIn(sec)' \subseteq ActiveIn(sec)
  PROVE  FilledWithin(sec)
<1>1. PICK A : A = ActiveIn(sec)
  OBVIOUS
<1>2. PICK B : B = ActiveIn(sec)'
  OBVIOUS
<1>3. IsFiniteSet(A) /\ Cardinality(A) \in Nat
  BY <1>1, SeatsFinite
<1>4. Cardinality(B) \in Nat
  BY <1>2, SeatsFiniteNext
<1>5. Cardinality(B) <= Cardinality(A)
  BY <1>1, <1>2, <1>3, FS_Subset
<1>6. ~ (Cardinality(B) > Cardinality(A))
  BY <1>3, <1>4, <1>5
<1> QED BY <1>1, <1>2, <1>6 DEF FilledWithin

\* One new seat, in a section with room for one.
LEMMA OneFilled ==
  ASSUME TypeOK, TypeOK', NEW sec \in Sections, Room(sec, 1), NEW k,
         ActiveIn(sec)' \subseteq ActiveIn(sec) \cup {k}
  PROVE  FilledWithin(sec)
<1>1. IsFiniteSet({k}) /\ Cardinality({k}) = 1
  BY FS_Singleton
<1>2. Cardinality({k}) <= 1
  BY <1>1
<1> QED BY <1>1, <1>2, Filled

\* The new rows of a batch in a section are as many as the students sent there.
LEMMA BatchFilled ==
  ASSUME TypeOK, TypeOK', NEW sec \in Sections, NEW E, E \subseteq DOMAIN enr,
         NEW key, NEW target, NEW number, NEW t, DOMAIN target = E,
         Seated(E, key, target, number, t), RoomForBatch(target),
         \A e \in DOMAIN enr : /\ t[e].section = enr[e].section
                               /\ t[e].status = "ACTIVE" => enr[e].status = "ACTIVE"
  PROVE  FilledWithin(sec)
<1> DEFINE F == {e \in E : target[e] = sec}
           N == {key[e] : e \in F}
           f == [e \in F |-> key[e]]
<1>1. ActiveIn(sec)' \subseteq ActiveIn(sec) \cup N
  BY DEF Seated, ActiveIn
<1>2. IsFiniteSet(F) /\ Cardinality(F) \in Nat
  BY EnrollmentsFinite
<1>3. f \in Surjection(F, N)
  BY DEF Surjection
<1>4. F # {} => Room(sec, Cardinality(F))
  BY DEF RoomForBatch
<1>5. F = {} => N = {}
  OBVIOUS
<1> HIDE DEF F, N, f
<1>6. IsFiniteSet(N) /\ Cardinality(N) <= Cardinality(F)
  BY <1>2, <1>3, FS_Surjection
<1>7. CASE F = {}
  BY <1>1, <1>5, <1>7, NotFilled
<1>8. CASE F # {}
  BY <1>1, <1>2, <1>4, <1>6, <1>8, Filled
<1> QED BY <1>7, <1>8

LEMMA CreateFilled ==
  ASSUME IInv, IInv', RoomInv, NEW w, CreateCommit(w), NEW sec \in Sections
  PROVE  FilledWithin(sec)
<1>1. PICK r, row :
        /\ r = pending[w] /\ row.section = r.section
        /\ enr' = Upsert(enr, OneRow(nextEnr, row))
  BY DEF CreateCommit, NewRow
<1>2. Room(r.section, 1)
  BY <1>1 DEF CreateCommit, Writing, RoomInv, RoomStill
<1>3. TypeOK /\ TypeOK'
  BY DEF IInv
<1>4. DOMAIN enr' = DOMAIN enr \cup {nextEnr} /\ nextEnr \notin DOMAIN enr /\ enr'[nextEnr] = row
      /\ \A e \in DOMAIN enr : enr'[e] = enr[e]
  BY <1>1, <1>3, NewSeat
<1>5. CASE sec = r.section
  <2>1. ActiveIn(sec)' \subseteq ActiveIn(sec) \cup {nextEnr}
    BY <1>4 DEF ActiveIn
  <2>2. PICK k : k = nextEnr
    OBVIOUS
  <2> QED BY <1>2, <1>3, <1>5, <2>1, <2>2, OneFilled
<1>6. CASE sec # r.section
  <2>1. ActiveIn(sec)' \subseteq ActiveIn(sec)
    BY <1>1, <1>4, <1>6 DEF ActiveIn
  <2> QED BY <1>3, <2>1, NotFilled
<1> QED BY <1>5, <1>6

LEMMA EditFilled ==
  ASSUME IInv, IInv', RoomInv, NEW w, EditCommit(w), NEW sec \in Sections
  PROVE  FilledWithin(sec)
<1>1. PICK r : r = pending[w]
  OBVIOUS
<1>2. PICK e, roll :
        /\ e = r.enrollment /\ e \in DOMAIN enr
        /\ enr' = [enr EXCEPT ![e].section = r.section, ![e].roll = roll]
  BY <1>1 DEF EditCommit
<1>3. r.section # enr[e].section => Room(r.section, 1)
  BY <1>1, <1>2 DEF EditCommit, Writing, RoomInv, RoomStill
<1>4. TypeOK /\ TypeOK'
  BY DEF IInv
<1>5. /\ DOMAIN enr' = DOMAIN enr /\ enr'[e].section = r.section
      /\ \A f \in DOMAIN enr : /\ enr'[f].status = enr[f].status
                               /\ f # e => enr'[f].section = enr[f].section
  BY <1>2, <1>4 DEF TypeOK, EnrollmentRow
<1>6. CASE sec = r.section /\ r.section # enr[e].section
  <2>1. ActiveIn(sec)' \subseteq ActiveIn(sec) \cup {e}
    BY <1>5 DEF ActiveIn
  <2> QED BY <1>3, <1>4, <1>6, <2>1, OneFilled
<1>7. CASE sec # r.section \/ r.section = enr[e].section
  <2>1. ActiveIn(sec)' \subseteq ActiveIn(sec)
    BY <1>2, <1>5, <1>7 DEF ActiveIn
  <2> QED BY <1>4, <2>1, NotFilled
<1> QED BY <1>6, <1>7

LEMMA ArchiveFilled ==
  ASSUME IInv, IInv', NEW w, ArchiveCommit(w), NEW sec
  PROVE  FilledWithin(sec)
<1>1. PICK e : enr' = enr \/ (e \in DOMAIN enr /\ enr' = [enr EXCEPT ![e].status = "WITHDRAWN"])
  BY DEF ArchiveCommit
<1>2. TypeOK /\ TypeOK'
  BY DEF IInv
<1>3. /\ DOMAIN enr' = DOMAIN enr
      /\ \A f \in DOMAIN enr : /\ enr'[f].section = enr[f].section
                               /\ enr'[f].status = "ACTIVE" => enr[f].status = "ACTIVE"
  <2>1. CASE enr' = enr
    BY <2>1
  <2>2. CASE e \in DOMAIN enr /\ enr' = [enr EXCEPT ![e].status = "WITHDRAWN"]
    BY <1>2, <2>2 DEF TypeOK, EnrollmentRow
  <2> QED BY <1>1, <2>1, <2>2
<1>4. ActiveIn(sec)' \subseteq ActiveIn(sec)
  BY <1>3 DEF ActiveIn
<1> QED BY <1>2, <1>4, NotFilled

LEMMA ApproveFilled ==
  ASSUME IInv, IInv', RoomInv, NEW w, ApproveCommit(w), NEW sec \in Sections
  PROVE  FilledWithin(sec)
<1>1. PICK r, e, row, out :
        /\ r = pending[w] /\ row.section = r.section /\ out = TransferOut(enr, {e})
        /\ enr' = Upsert(out, OneRow(nextEnr, row))
  BY DEF ApproveCommit, NewRow
<1>2. Room(r.section, 1)
  BY <1>1 DEF ApproveCommit, Writing, RoomInv, RoomStill
<1>3. TypeOK /\ TypeOK'
  BY DEF IInv
<1>4. /\ DOMAIN out = DOMAIN enr
      /\ \A f \in DOMAIN enr : /\ out[f].section = enr[f].section
                               /\ out[f].status = "ACTIVE" => enr[f].status = "ACTIVE"
  BY <1>1, <1>3 DEF TransferOut, TypeOK, EnrollmentRow
<1>5. DOMAIN enr' = DOMAIN enr \cup {nextEnr} /\ nextEnr \notin DOMAIN enr /\ enr'[nextEnr] = row
      /\ \A f \in DOMAIN enr : enr'[f] = out[f]
  <2>1. TypeOK /\ DOMAIN out = DOMAIN enr /\ enr' = Upsert(out, OneRow(nextEnr, row))
    BY <1>1, <1>3, <1>4
  <2>2. DOMAIN enr' = DOMAIN enr \cup {nextEnr} /\ nextEnr \notin DOMAIN enr
    BY <2>1, NewSeat
  <2>3. enr'[nextEnr] = row
    BY <2>1, NewSeat
  <2>4. \A f \in DOMAIN enr : enr'[f] = out[f]
    BY <2>1, NewSeat
  <2> QED BY <2>2, <2>3, <2>4
<1>6. CASE sec = r.section
  <2>1. ActiveIn(sec)' \subseteq ActiveIn(sec) \cup {nextEnr}
    BY <1>4, <1>5 DEF ActiveIn
  <2>2. PICK k : k = nextEnr
    OBVIOUS
  <2> QED BY <1>2, <1>3, <1>6, <2>1, <2>2, OneFilled
<1>7. CASE sec # r.section
  <2>1. ActiveIn(sec)' \subseteq ActiveIn(sec)
    <3>1. \A f \in DOMAIN enr' : enr'[f].section = sec => f \in DOMAIN enr /\ enr'[f] = out[f]
      BY <1>1, <1>5, <1>7
    <3> QED BY <1>4, <3>1 DEF ActiveIn
  <2> QED BY <1>3, <2>1, NotFilled
<1> QED BY <1>6, <1>7

LEMMA BulkFilled ==
  ASSUME IInv, IInv', RoomInv, NEW w, BulkCommit(w), NEW sec \in Sections
  PROVE  FilledWithin(sec)
<1> DEFINE target == pending[w].target
           E == DOMAIN target
           out == TransferOut(enr, E)
<1>1. PICK key, number : key \in NewKeys(E) /\ enr' = Upsert(out, BatchRows(key, target, number))
  BY DEF BulkCommit
<1>2. E \subseteq DOMAIN enr
  BY DEF BulkCommit, TransferInsertFits
<1>3. RoomForBatch(target)
  BY DEF BulkCommit, Writing, RoomInv, RoomStill
<1>4. TypeOK /\ TypeOK'
  BY DEF IInv
<1>5. /\ DOMAIN out = DOMAIN enr
      /\ \A f \in DOMAIN enr : /\ out[f].section = enr[f].section
                               /\ out[f].status = "ACTIVE" => enr[f].status = "ACTIVE"
  BY <1>4 DEF TransferOut, TypeOK, EnrollmentRow
<1>6. DOMAIN target = E
  OBVIOUS
<1> HIDE DEF target, E, out
<1>7. Seated(E, key, target, number, out)
  BY <1>1, <1>2, <1>4, <1>5, NewSeats
<1> QED BY <1>2, <1>3, <1>4, <1>5, <1>6, <1>7, BatchFilled

LEMMA Form1Filled ==
  ASSUME IInv, IInv', RoomInv, NEW w, Form1Commit(w), NEW sec \in Sections
  PROVE  FilledWithin(sec)
<1> DEFINE target == pending[w].target
           E == DOMAIN target
<1>1. PICK key, number : key \in NewKeys(E) /\ enr' = Upsert(enr, BatchRows(key, target, number))
  BY DEF Form1Commit
<1>2. E \subseteq DOMAIN enr
  BY DEF Form1Commit
<1>3. RoomForBatch(target)
  BY DEF Form1Commit, Writing, RoomInv, RoomStill
<1>4. TypeOK /\ TypeOK'
  BY DEF IInv
<1>5. DOMAIN target = E
  OBVIOUS
<1> HIDE DEF target, E
<1>6. Seated(E, key, target, number, enr)
  BY <1>1, <1>2, <1>4, NewSeats
<1>7. \A f \in DOMAIN enr : /\ enr[f].section = enr[f].section
                            /\ enr[f].status = "ACTIVE" => enr[f].status = "ACTIVE"
  OBVIOUS
<1> QED BY <1>2, <1>3, <1>4, <1>5, <1>6, <1>7, BatchFilled

LEMMA PromoteFilled ==
  ASSUME IInv, IInv', RoomInv, NEW w, PromoteCommit(w), NEW sec \in Sections
  PROVE  FilledWithin(sec)
<1> DEFINE outcome == pending[w].outcome
           target == pending[w].target
           E == DOMAIN outcome
           C == DOMAIN target
           closed == [e \in DOMAIN enr |->
                        IF e \in E THEN [enr[e] EXCEPT !.status = outcome[e]] ELSE enr[e]]
<1>1. PICK key, number : key \in NewKeys(C) /\ enr' = Upsert(closed, BatchRows(key, target, number))
  BY DEF PromoteCommit
<1>2. E \subseteq DOMAIN enr /\ Writing(w, "promote")
  BY DEF PromoteCommit
<1>3. RoomForBatch(target)
  BY <1>2 DEF Writing, RoomInv, RoomStill
<1>4. TypeOK /\ TypeOK'
  BY DEF IInv
<1>5. outcome \in [E -> Progressed] /\ C \subseteq E
  <2>1. pending[w] \in Request /\ pending[w].op = "promote" /\ RequestOK(pending[w])
    BY <1>2, WritingType DEF Writing, IInv, RequestsOK
  <2> QED BY <2>1, RequestFields, AssignmentsType DEF RequestOK, Continues
<1>6. /\ DOMAIN closed = DOMAIN enr
      /\ \A f \in DOMAIN enr : /\ closed[f].section = enr[f].section
                               /\ f \in E => closed[f].status = outcome[f]
                               /\ f \notin E => closed[f] = enr[f]
  BY <1>4 DEF TypeOK, EnrollmentRow
<1>7. DOMAIN target = C
  OBVIOUS
<1> HIDE DEF outcome, target, E, C, closed
<1>8. C \subseteq DOMAIN enr
  BY <1>2, <1>5
<1>9. Seated(C, key, target, number, closed)
  BY <1>1, <1>4, <1>6, <1>8, NewSeats
<1>10. \A f \in DOMAIN enr : /\ closed[f].section = enr[f].section
                             /\ closed[f].status = "ACTIVE" => enr[f].status = "ACTIVE"
  BY <1>5, <1>6 DEF Progressed
<1> QED BY <1>3, <1>4, <1>7, <1>8, <1>9, <1>10, BatchFilled

\* The seat a reversal takes is taken without a check, and counted.
LEMMA ReverseCounts ==
  ASSUME IInv, RoomInv, NEW w, ReverseCommit(w)
  PROVE  \E e \in DOMAIN enr : enr'[e].undone > enr[e].undone
<1>1. PICK r, e : r = pending[w] /\ e = r.enrollment
  OBVIOUS
<1>2. /\ e \in DOMAIN enr
      /\ r.hasItem => enr[e].undone = r.undone
      /\ enr' = [enr EXCEPT ![e].status = "ACTIVE", ![e].roll = r.roll, ![e].undone = r.undone + 1]
  BY <1>1 DEF ReverseCommit
<1>3. r.hasItem
  BY <1>1 DEF ReverseCommit, Writing, RoomInv, RoomStill
<1>4. enr \in [DOMAIN enr -> EnrollmentRow]
  BY DEF IInv, TypeOK
<1>5. enr'[e].undone = enr[e].undone + 1
  BY <1>2, <1>3, <1>4 DEF EnrollmentRow
<1>6. enr[e].undone \in Nat
  BY <1>2, <1>4, BoundsAssumption DEF EnrollmentRow
<1>7. PICK before : before = enr[e].undone
  OBVIOUS
<1>8. before + 1 > before
  BY <1>6, <1>7
<1> QED BY <1>2, <1>5, <1>7, <1>8

LEMMA RemoveFilled ==
  ASSUME IInv, IInv', NEW s, Remove(s), NEW sec
  PROVE  ActiveIn(sec)' \subseteq ActiveIn(sec) /\ FilledWithin(sec)
<1>1. TypeOK /\ TypeOK'
  BY DEF IInv
<1>2. DOMAIN enr' \subseteq DOMAIN enr /\ \A e \in DOMAIN enr' : enr'[e] = enr[e]
  BY DEF Remove, Without
<1>3. ActiveIn(sec)' \subseteq ActiveIn(sec)
  BY <1>2 DEF ActiveIn
<1> QED BY <1>1, <1>3, NotFilled

LEMMA BeginWithRoom ==
  ASSUME OneHandler, IInv, RoomInv, NEW w \in Workers, NEW r, RoomStill(r), Begin(w, r)
  PROVE  RoomInv'
<1>1. UNCHANGED <<student, enr, nextEnr, transfers, items>>
  BY DEF Begin
<1>2. \A v \in DOMAIN pending' : pending'[v] = r
  BY DEF Begin, Upsert, OneRow, OneHandler, IInv, TypeOK
<1>3. \A sec : ActiveIn(sec)' = ActiveIn(sec)
  BY <1>1 DEF ActiveIn
<1>4. \A sec, n : Room(sec, n) => Room(sec, n)'
  BY <1>3 DEF Room
<1>5. RoomForBatch(r.target) => RoomForBatch(r.target)'
  BY <1>4 DEF RoomForBatch
<1>6. RoomStill(r)'
  BY <1>1, <1>4, <1>5 DEF RoomStill
<1>7. \A v \in DOMAIN pending' : RoomStill(pending[v])'
  BY <1>2, <1>6 DEF RoomStill
<1> QED BY <1>7 DEF RoomInv

LEMMA ReadWithRoom ==
  ASSUME OneHandler, IInv, RoomInv, NEW w \in Workers, Read(w)
  PROVE  RoomInv'
<1>1. ASSUME NEW r, r.op \in {"archive", "request", "decide"}, Begin(w, r)
      PROVE  RoomInv'
  <2>1. RoomStill(r)
    BY <1>1 DEF RoomStill
  <2> QED BY <1>1, <2>1, BeginWithRoom
<1>2. ASSUME NEW r, r.op \in {"create", "approve", "edit"}, Begin(w, r),
             \/ Room(r.section, 1)
             \/ r.op = "edit" /\ r.section = enr[r.enrollment].section
      PROVE  RoomInv'
  <2>1. RoomStill(r)
    BY <1>2 DEF RoomStill
  <2> QED BY <1>2, <2>1, BeginWithRoom
<1>3. ASSUME NEW r, r.op \in {"bulk", "form1", "promote"}, Begin(w, r), RoomForBatch(r.target)
      PROVE  RoomInv'
  <2>1. RoomStill(r)
    BY <1>3 DEF RoomStill
  <2> QED BY <1>3, <2>1, BeginWithRoom
<1>4. \A sec \in Sections : CreateRead(w, sec) => RoomInv'
  BY <1>2 DEF CreateRead
<1>5. \A e \in DOMAIN enr, sec \in Sections : EditRead(w, e, sec) => RoomInv'
  BY <1>2 DEF EditRead
<1>6. \A s \in Students : ArchiveRead(w, s) => RoomInv'
  BY <1>1 DEF ArchiveRead
<1>7. \A e \in DOMAIN enr, school \in Schools : RequestRead(w, e, school) => RoomInv'
  BY <1>1 DEF RequestRead
<1>8. \A e \in DOMAIN transfers, sec \in Sections : ApproveRead(w, e, sec) => RoomInv'
  BY <1>2 DEF ApproveRead
<1>9. \A e \in DOMAIN transfers : \A verdict : DecideRead(w, e, verdict) => RoomInv'
  BY <1>1 DEF DecideRead
<1>10. \A target : BulkRead(w, target) => RoomInv'
  BY <1>3 DEF BulkRead
<1>11. \A sec \in Sections : \A outcome, target : PromoteRead(w, sec, outcome, target) => RoomInv'
  BY <1>3 DEF PromoteRead
<1>12. \A target : Form1Read(w, target) => RoomInv'
  BY <1>3 DEF Form1Read
<1>13. ASSUME NEW e \in DOMAIN enr, ReverseRead(w, e) PROVE RoomInv'
  <2>1. e \in DOMAIN items
    BY <1>13 DEF ReverseRead, IInv, ProgressIsRecorded, Progressed
  <2>2. PICK r : r.op = "reverse" /\ r.hasItem /\ Begin(w, r)
    BY <1>13, <2>1 DEF ReverseRead
  <2>3. RoomStill(r)
    BY <2>2 DEF RoomStill
  <2> QED BY <2>2, <2>3, BeginWithRoom
<1> QED BY <1>4, <1>5, <1>6, <1>7, <1>8, <1>9, <1>10, <1>11, <1>12, <1>13 DEF Read

\* A section that loses students keeps the room it had.
LEMMA RoomKept ==
  ASSUME TypeOK, TypeOK', NEW sec \in Sections, NEW n \in Nat, Room(sec, n),
         ActiveIn(sec)' \subseteq ActiveIn(sec)
  PROVE  Room(sec, n)'
<1>1. PICK A : A = ActiveIn(sec)
  OBVIOUS
<1>2. PICK B : B = ActiveIn(sec)'
  OBVIOUS
<1>3. IsFiniteSet(A) /\ Cardinality(A) \in Nat
  BY <1>1, SeatsFinite
<1>4. Cardinality(B) \in Nat
  BY <1>2, SeatsFiniteNext
<1>5. Cardinality(B) <= Cardinality(A)
  BY <1>1, <1>2, <1>3, FS_Subset
<1>6. Capacity[sec] # Unlimited => Capacity[sec] \in Nat /\ Cardinality(A) + n <= Capacity[sec]
  BY <1>1, CapacityAssumption DEF Room
<1>7. Capacity[sec] # Unlimited => Cardinality(B) + n <= Capacity[sec]
  BY <1>3, <1>4, <1>5, <1>6
<1> QED BY <1>2, <1>7 DEF Room

LEMMA RemoveWithRoom ==
  ASSUME IInv, IInv', RoomInv, NEW s, Remove(s)
  PROVE  RoomInv'
<1>1. TypeOK /\ TypeOK'
  BY DEF IInv
<1>2. \A sec : ActiveIn(sec)' \subseteq ActiveIn(sec)
  BY RemoveFilled
<1>3. \A sec \in Sections, n \in Nat : Room(sec, n) => Room(sec, n)'
  BY <1>1, <1>2, RoomKept
<1>4. DOMAIN enr' \subseteq DOMAIN enr /\ (\A e \in DOMAIN enr' : enr'[e] = enr[e]) /\ pending' = pending
  BY DEF Remove, Without
<1>5. ASSUME NEW w \in DOMAIN pending PROVE RoomStill(pending[w])'
  <2>1. PICK r : r = pending[w]
    OBVIOUS
  <2>2. r \in Request /\ RoomStill(r)
    BY <1>1, <2>1 DEF TypeOK, RoomInv
  <2>3. r.op \in {"create", "approve", "edit"} => r.section \in Sections
    BY <2>2, RequestFields
  <2>4. ASSUME r.op \in {"bulk", "form1", "promote"} PROVE RoomForBatch(r.target)'
    <3>1. r.target \in [DOMAIN r.target -> Sections] /\ DOMAIN r.target \subseteq Ids
      BY <2>2, <2>4, RequestFields, AssignmentsType
    <3>2. ASSUME NEW sec PROVE Cardinality({e \in DOMAIN r.target : r.target[e] = sec}) \in Nat
      <4>1. IsFiniteSet(1 .. MaxEnrollments)
        BY BoundsAssumption, FS_Interval
      <4>2. IsFiniteSet({e \in DOMAIN r.target : r.target[e] = sec})
        BY <3>1, <4>1, FS_Subset DEF Ids
      <4> QED BY <4>2, FS_CardinalityType
    <3>3. \A sec \in {r.target[e] : e \in DOMAIN r.target} :
            sec \in Sections /\ Room(sec, Cardinality({e \in DOMAIN r.target : r.target[e] = sec}))
      BY <2>2, <2>4, <3>1 DEF RoomStill, RoomForBatch
    <3>4. \A sec \in {r.target[e] : e \in DOMAIN r.target} :
            Room(sec, Cardinality({e \in DOMAIN r.target : r.target[e] = sec}))'
      BY <1>3, <3>2, <3>3
    <3> QED BY <3>4 DEF RoomForBatch
  <2>5. RoomStill(r)'
    BY <1>3, <1>4, <2>2, <2>3, <2>4 DEF RoomStill
  <2>6. pending'[w] = r
    BY <1>4, <2>1
  <2> QED BY <2>5, <2>6 DEF RoomStill
<1> QED BY <1>4, <1>5 DEF RoomInv

LEMMA RoomHolds ==
  ASSUME OneHandler
  PROVE  Spec => []RoomInv
<1>1. Init => RoomInv
  BY DEF Init, RoomInv
<1>2. IInv /\ RoomInv /\ [Next]_vars => RoomInv'
  <2> SUFFICES ASSUME IInv, RoomInv, [Next]_vars PROVE RoomInv'
    OBVIOUS
  <2>1. IInv'
    BY NextKeeps
  <2>2. ASSUME NEW w, Commit(w) \/ Rollback(w) PROVE RoomInv'
    <3>1. w \in DOMAIN pending /\ End(w)
      BY <2>2 DEF Commit, CreateCommit, EditCommit, ArchiveCommit, RequestCommit, ApproveCommit, DecideCommit,
         BulkCommit, PromoteCommit, Form1Commit, ReverseCommit, Writing, Rollback
    <3> QED BY <3>1, EndsAlone DEF RoomInv
  <2>3. CASE UNCHANGED vars
    BY <2>3 DEF RoomInv, RoomStill, RoomForBatch, Room, ActiveIn, vars
  <2> QED BY <2>1, <2>2, <2>3, ReadWithRoom, RemoveWithRoom DEF Next
<1> QED BY <1>1, <1>2, Invariance, PTL DEF Spec

(* As long as handlers run one after another no admission, correction,      *)
(* transfer, promotion or Form 1 transition fills a section beyond its      *)
(* capacity, whatever the size of the batch.                                *)
THEOREM NoSectionOverflows ==
  ASSUME OneHandler
  PROVE  Spec => CapacityRespected
<1> DEFINE Respected == \A sec \in Sections :
             (Capacity[sec] # Unlimited /\ Cardinality(ActiveIn(sec))' > Cardinality(ActiveIn(sec)))
               => \/ Cardinality(ActiveIn(sec))' <= Capacity[sec]
                  \/ \E e \in DOMAIN enr : enr'[e].undone > enr[e].undone
<1>1. ASSUME IInv, RoomInv, [Next]_vars PROVE Respected
  <2>1. IInv' /\ TypeOK /\ TypeOK'
    BY <1>1, NextKeeps DEF IInv
  <2>2. CASE UNCHANGED enr
    <3>1. \A sec : ActiveIn(sec)' \subseteq ActiveIn(sec)
      BY <2>2 DEF ActiveIn
    <3>2. \A sec \in Sections : FilledWithin(sec)
      BY <2>1, <3>1, NotFilled
    <3> QED BY <3>2 DEF FilledWithin
  <2>3. ASSUME NEW w, Commit(w), ~ UNCHANGED enr, ~ ReverseCommit(w) PROVE Respected
    <3>1. ~ RequestCommit(w) /\ ~ DecideCommit(w)
      BY <2>3 DEF RequestCommit, DecideCommit
    <3>2. \A sec \in Sections : FilledWithin(sec)
      BY <1>1, <2>1, <2>3, <3>1, CreateFilled, EditFilled, ArchiveFilled, ApproveFilled, BulkFilled,
         Form1Filled, PromoteFilled DEF Commit
    <3> QED BY <3>2 DEF FilledWithin
  <2>4. ASSUME NEW w, ReverseCommit(w) PROVE Respected
    <3>1. \E e \in DOMAIN enr : enr'[e].undone > enr[e].undone
      BY <1>1, <2>4, ReverseCounts
    <3> QED BY <3>1
  <2>5. ASSUME NEW s, Remove(s) PROVE Respected
    <3>1. \A sec \in Sections : FilledWithin(sec)
      BY <1>1, <2>1, <2>5, RemoveFilled
    <3> QED BY <3>1 DEF FilledWithin
  <2>6. ASSUME NEW w, Read(w) \/ Rollback(w) PROVE UNCHANGED enr
    BY <2>6 DEF Read, Rollback, CreateRead, EditRead, ArchiveRead, RequestRead, ApproveRead, DecideRead,
       BulkRead, PromoteRead, Form1Read, ReverseRead, Begin
  <2>7. CASE UNCHANGED vars
    BY <2>2, <2>7 DEF vars
  <2> QED BY <1>1, <2>2, <2>3, <2>4, <2>5, <2>6, <2>7 DEF Next
<1>2. IInv /\ RoomInv /\ [Next]_vars => [Respected]_vars
  BY <1>1
<1> QED BY <1>2, Invariance, RoomHolds, PTL DEF Spec, CapacityRespected

=============================================================================
