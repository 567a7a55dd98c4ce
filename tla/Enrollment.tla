----------------------------- MODULE Enrollment -----------------------------
(***************************************************************************)
(* The lifecycle of a student: admission, transfer between schools, year-  *)
(* end progression, the move from Primary to Form 1, archiving, deletion.  *)
(*                                                                         *)
(* Source: students.service.ts, transfers.service.ts,                      *)
(* promotions.service.ts and student-lifecycle.service.ts of apps/api.     *)
(*                                                                         *)
(* The state is the four tables these services write.  Every handler has   *)
(* the shape "validate with awaited queries, then write in one database    *)
(* transaction".  Postgres runs the transactions READ COMMITTED and no row *)
(* is locked, so what a handler validated may no longer hold when it       *)
(* writes.  A handler is therefore two actions: XRead (everything up to    *)
(* the first write; what it keeps in local variables goes to pending) and  *)
(* XCommit (all of its writes, at once).  Between the two any other        *)
(* handler may act.  With one worker the handlers run one after another.   *)
(*                                                                         *)
(* XCommit is enabled when every statement succeeds: the rows it updates   *)
(* exist, the rows it refers to exist, the unique indexes hold.  Rollback  *)
(* stands for a statement that failed, a timed-out transaction, a crash.   *)
(*                                                                         *)
(* An operator whose comment starts with "Mutant" is not used: it is a     *)
(* plausible bug of the definition that follows it, and shows that the     *)
(* properties notice the bug.                                              *)
(***************************************************************************)
EXTENDS Integers, FiniteSets, Tables

CONSTANTS
  Workers,         \* handlers that can be in progress at once
  Operations,      \* the operations clients call
  Students,        \* identities a new student row can get
  Classes,         \* classes: [school, year, division, level]
  Sections,
  ClassOf,         \* the class of a section
  Capacity,        \* seats of a section, or Unlimited (null)
  Unlimited,
  ChosenNumbers,   \* student numbers an admin may type in
  ChosenRolls,     \* roll numbers an admin may type in
  MaxEnrollments,  \* bound: enrollment rows ever created
  MaxUndo          \* bound: reversals of one enrollment's final outcome

Divisions == {"PRIMARY", "SECONDARY"}

EnrollmentStatus ==
  {"ACTIVE", "PROMOTED", "RETAINED", "TRANSFERRED_OUT", "COMPLETED", "GRADUATED", "WITHDRAWN"}
TransferStatus == {"REQUESTED", "REJECTED", "EXECUTED", "CANCELLED"}

\* currentStatus of an existing student; UNKNOWN: not created; REMOVED: deleted.
StudentStatus == {"UNKNOWN", "ACTIVE", "COMPLETED", "GRADUATED", "ARCHIVED", "REMOVED"}

Progressed == {"PROMOTED", "RETAINED", "COMPLETED", "GRADUATED"}

Schools == {c.school : c \in Classes}

ASSUME ClassesAssumption ==
  /\ \A c \in Classes : /\ c.year \in Nat
                        /\ c.level \in Nat
                        /\ c.division \in Divisions
                        /\ c = [school |-> c.school, year |-> c.year,
                                division |-> c.division, level |-> c.level]
  /\ ClassOf \in [Sections -> Classes]
ASSUME CapacityAssumption == \A s \in Sections : Capacity[s] \in Nat \cup {Unlimited}
ASSUME ChosenAssumption ==
  /\ ChosenRolls \subseteq Nat
  /\ ChosenNumbers \subseteq Nat \X Nat
ASSUME BoundsAssumption == MaxEnrollments \in Nat /\ MaxUndo \in Nat

VARIABLES
  student,    \* students.currentStatus
  enr,        \* table student_enrollments; keys grow with startDate
  nextEnr,    \* the next key of enr
  transfers,  \* table transfers, by fromEnrollmentId (unique)
  items,      \* table promotion_items, by fromEnrollmentId (unique)
  pending     \* the handlers between their reads and their writes, by worker

vars == <<student, enr, nextEnr, transfers, items, pending>>

NoEnrollment == 0       \* a null enrollment id

Ids == 1 .. MaxEnrollments

\* A student number is "STU-{year name}-{sequence}"; two schools may both have a
\* year of the same name, so the number does not name the school.
Numbers == Nat \X Nat

EnrollmentRow ==
  [student : Students, section : Sections, number : Numbers, roll : Nat,
   status : EnrollmentStatus,
   undone : 0 .. MaxUndo]   \* reversals so far: with the key, the id of the row's item

TransferRow ==
  [status : TransferStatus, toSchool : Schools, toEnrollment : Ids \cup {NoEnrollment}]

ItemRow == [outcome : Progressed, toEnrollment : Ids \cup {NoEnrollment}]

\* Enrollments of a batch, each with a value.
Assignments(V) == UNION {[E -> V] : E \in SUBSET Ids}

\* What a handler keeps from its reads.
Request ==
  [op : {"create"}, section : Sections, number : Numbers, roll : Nat]
    \cup [op : {"edit"}, enrollment : Ids, section : Sections, roll : Nat]
    \cup [op : {"archive"}, student : Students, enrollment : Ids \cup {NoEnrollment}]
    \cup [op : {"request"}, enrollment : Ids, toSchool : Schools]
    \cup [op : {"approve"}, enrollment : Ids, section : Sections, number : Numbers, roll : Nat]
    \cup [op : {"decide"}, enrollment : Ids, verdict : {"REJECTED", "CANCELLED"}]
    \cup [op : {"bulk", "form1"}, target : Assignments(Sections)]
    \cup [op : {"promote"}, outcome : Assignments(Progressed), target : Assignments(Sections)]
    \cup [op : {"reverse"}, enrollment : Ids, hasItem : BOOLEAN, undone : 0 .. MaxUndo - 1, roll : Nat]

-----------------------------------------------------------------------------
(* Queries *)

SchoolOf(sec) == ClassOf[sec].school
YearOf(sec)   == ClassOf[sec].year
SameYear(sec1, sec2) == SchoolOf(sec1) = SchoolOf(sec2) /\ YearOf(sec1) = YearOf(sec2)

EnrollmentsOf(s) == {e \in DOMAIN enr : enr[e].student = s}
ActiveIn(sec)    == {e \in DOMAIN enr : enr[e].section = sec /\ enr[e].status = "ACTIVE"}

\* orderBy startDate desc, take 1
IsLatest(e) == \A f \in EnrollmentsOf(enr[e].student) : f <= e

\* A student can be transferred from these only; the rest is resolved history.
Transferable == {"ACTIVE", "COMPLETED", "GRADUATED"}

\* Mutant: the check is forgotten.
NeverPending(s) == FALSE

HasPendingTransfer(s) ==
  \E e \in DOMAIN transfers : enr[e].student = s /\ transfers[e].status = "REQUESTED"

\* Mutant: > instead of >=.
RoomForOneMore(sec, n) ==
  Capacity[sec] # Unlimited => Cardinality(ActiveIn(sec)) + n <= Capacity[sec] + 1

\* n more students fit in the section.
Room(sec, n) ==
  Capacity[sec] # Unlimited => Cardinality(ActiveIn(sec)) + n <= Capacity[sec]

\* _max.rollNumber ?? 0 over the active roster
LastRoll(sec) ==
  LET rolls == {enr[e].roll : e \in ActiveIn(sec)}
      IsMax(r) == \A q \in rolls : q <= r
  IN  IF \E r \in rolls : IsMax(r) THEN CHOOSE r \in rolls : IsMax(r) ELSE 0

NextRoll(sec) == LastRoll(sec) + 1

\* generateStudentNumber, n rows into the same transaction: a row count plus one
NumberAfter(sec, n) ==
  <<YearOf(sec), Cardinality({e \in DOMAIN enr : SameYear(enr[e].section, sec)}) + n>>
NextNumber(sec) == NumberAfter(sec, 1)

\* The two unique indexes of student_enrollments.
Fits(t) ==
  \A e, f \in DOMAIN t :
    (e # f /\ t[e].status = t[f].status) =>
      /\ ~ (t[e].section = t[f].section /\ t[e].roll = t[f].roll)
      /\ ~ (SameYear(t[e].section, t[f].section) /\ t[e].number = t[f].number)

NewRow(s, sec, number, roll) ==
  [student |-> s, section |-> sec, number |-> number, roll |-> roll,
   status |-> "ACTIVE", undone |-> 0]

\* Mutant: whatever the status of the row.
TransferOutAny(t, E) ==
  [e \in DOMAIN t |-> IF e \in E THEN [t[e] EXCEPT !.status = "TRANSFERRED_OUT"] ELSE t[e]]

\* updateMany(where id in E and status ACTIVE): the row is left alone otherwise
TransferOut(t, E) ==
  [e \in DOMAIN t |->
     IF e \in E /\ t[e].status = "ACTIVE" THEN [t[e] EXCEPT !.status = "TRANSFERRED_OUT"] ELSE t[e]]

-----------------------------------------------------------------------------
(* Handlers *)

Begin(w, request) ==
  /\ request.op \in Operations
  /\ w \notin DOMAIN pending
  /\ pending' = Upsert(pending, OneRow(w, request))
  /\ UNCHANGED <<student, enr, nextEnr, transfers, items>>

\* The request worker w is about to write for.
Writing(w, op) == w \in DOMAIN pending /\ pending[w].op = op

End(w) == pending' = Without(pending, {w})

\* A statement failed, the transaction timed out or the process died: no effect.
Rollback(w) ==
  /\ w \in DOMAIN pending
  /\ End(w)
  /\ UNCHANGED <<student, enr, nextEnr, transfers, items>>

\* The keys a batch gives its new rows, one per source enrollment in E, in the
\* order of the batch.
NewKeys(E) ==
  {key \in [E -> nextEnr .. nextEnr + Cardinality(E) - 1] :
     \A e, f \in E : key[e] = key[f] => e = f}

\* The enrollment the new row k comes from.
Source(key, k) == CHOOSE e \in DOMAIN key : key[e] = k

\* How many rows of the batch go to the section of e, up to and including e.
RankInSection(key, target, e) ==
  Cardinality({f \in DOMAIN key : target[f] = target[e] /\ key[f] <= key[e]})
RankInBatch(key, e) == Cardinality({f \in DOMAIN key : key[f] <= key[e]})

\* The rows a batch creates: continue e in target[e] with the next free rolls.
BatchRows(key, target, number) ==
  [k \in {key[e] : e \in DOMAIN key} |->
     LET e == Source(key, k)
     IN  NewRow(enr[e].student, target[e], number[e],
                LastRoll(target[e]) + RankInSection(key, target, e))]

\* Every target section has room for the batch's students sent there.
RoomForBatch(target) ==
  \A sec \in {target[e] : e \in DOMAIN target} :
    Room(sec, Cardinality({e \in DOMAIN target : target[e] = sec}))

\* All target sections belong to class c.
OneClass(target, c) == \A e \in DOMAIN target : ClassOf[target[e]] = c

NumberChoices(sec) == {NextNumber(sec)} \cup ChosenNumbers
RollChoices(sec)   == {NextRoll(sec)} \cup ChosenRolls

(* StudentsService.create *)

CreateRead(w, sec) ==
  /\ Room(sec, 1)
  /\ \E number \in NumberChoices(sec), roll \in RollChoices(sec) :
       Begin(w, [op |-> "create", section |-> sec, number |-> number, roll |-> roll])

CreateCommit(w) ==
  /\ Writing(w, "create")
  /\ nextEnr \in Ids
  /\ \E s \in Students :
       /\ student[s] = "UNKNOWN"
       /\ student' = [student EXCEPT ![s] = "ACTIVE"]
       /\ enr' = Upsert(enr, OneRow(nextEnr,
                   NewRow(s, pending[w].section, pending[w].number, pending[w].roll)))
  /\ Fits(enr')
  /\ nextEnr' = nextEnr + 1
  /\ End(w)
  /\ UNCHANGED <<transfers, items>>

(* StudentsService.update: correct the active enrollment in place.  The     *)
(* active row is looked up first and updated by its id.                     *)

\* Mutant: the section is looked up by its id alone, in any school.
EditReadAnySchool(w, e, sec) ==
  /\ enr[e].status = "ACTIVE"
  /\ sec # enr[e].section => Room(sec, 1)
  /\ \E roll \in {enr[e].roll} \cup ChosenRolls :
       /\ <<sec, roll>> # <<enr[e].section, enr[e].roll>>
       /\ Begin(w, [op |-> "edit", enrollment |-> e, section |-> sec, roll |-> roll])

EditRead(w, e, sec) ==
  /\ enr[e].status = "ACTIVE"
  /\ SchoolOf(sec) = SchoolOf(enr[e].section)
  /\ sec # enr[e].section => Room(sec, 1)
  /\ \E roll \in {enr[e].roll} \cup ChosenRolls :
       /\ <<sec, roll>> # <<enr[e].section, enr[e].roll>>
       /\ Begin(w, [op |-> "edit", enrollment |-> e, section |-> sec, roll |-> roll])

EditCommit(w) ==
  /\ Writing(w, "edit")
  /\ LET r == pending[w] IN
       /\ r.enrollment \in DOMAIN enr
       /\ enr' = [enr EXCEPT ![r.enrollment].section = r.section,
                             ![r.enrollment].roll    = r.roll]
  /\ Fits(enr')
  /\ End(w)
  /\ UNCHANGED <<student, nextEnr, transfers, items>>

(* StudentsService.archive: withdraw the active enrollment found, if any *)

ArchiveRead(w, s) ==
  /\ student[s] \notin {"UNKNOWN", "REMOVED", "ARCHIVED"}
  /\ LET active == {e \in EnrollmentsOf(s) : enr[e].status = "ACTIVE"} IN
     \E e \in IF active = {} THEN {NoEnrollment} ELSE active :
       Begin(w, [op |-> "archive", student |-> s, enrollment |-> e])

\* Mutant: the enrollment is withdrawn and the student's status left alone.
ArchiveCommitEnrollment(w) ==
  /\ Writing(w, "archive")
  /\ pending[w].enrollment \in DOMAIN enr
  /\ enr' = [enr EXCEPT ![pending[w].enrollment].status = "WITHDRAWN"]
  /\ Fits(enr')
  /\ End(w)
  /\ UNCHANGED <<student, nextEnr, transfers, items>>

ArchiveCommit(w) ==
  /\ Writing(w, "archive")
  /\ LET r == pending[w] IN
       /\ student[r.student] # "REMOVED"
       /\ student' = [student EXCEPT ![r.student] = "ARCHIVED"]
       /\ \/ r.enrollment = NoEnrollment /\ UNCHANGED enr
          \/ /\ r.enrollment \in DOMAIN enr
             /\ enr' = [enr EXCEPT ![r.enrollment].status = "WITHDRAWN"]
  /\ Fits(enr')
  /\ End(w)
  /\ UNCHANGED <<nextEnr, transfers, items>>

(* StudentsService.remove: one transaction that deletes by studentId.  Rows *)
(* another transaction adds meanwhile make it fail on a foreign key, so it  *)
(* is a single step.                                                        *)

\* Mutant: the promotion items of the student are forgotten.
RemoveLeavesItems(s) ==
  /\ "remove" \in Operations
  /\ student[s] \notin {"UNKNOWN", "REMOVED"}
  /\ student'   = [student EXCEPT ![s] = "REMOVED"]
  /\ enr'       = Without(enr, EnrollmentsOf(s))
  /\ transfers' = Without(transfers, EnrollmentsOf(s))
  /\ UNCHANGED <<items, nextEnr, pending>>

Remove(s) ==
  /\ "remove" \in Operations
  /\ student[s] \notin {"UNKNOWN", "REMOVED"}
  /\ student'   = [student EXCEPT ![s] = "REMOVED"]
  /\ enr'       = Without(enr, EnrollmentsOf(s))
  /\ transfers' = Without(transfers, EnrollmentsOf(s))
  /\ items'     = Without(items, EnrollmentsOf(s))
  /\ UNCHANGED <<nextEnr, pending>>

(* TransfersService.request *)

Movable(e) ==
  /\ IsLatest(e)
  /\ enr[e].status \in Transferable
  /\ ~ HasPendingTransfer(enr[e].student)

RequestRead(w, e, toSchool) ==
  /\ Movable(e)
  /\ SchoolOf(enr[e].section) # toSchool
  /\ Begin(w, [op |-> "request", enrollment |-> e, toSchool |-> toSchool])

\* fromEnrollmentId is unique, whatever became of the earlier transfer.
TransferInsertFits(e) == e \in DOMAIN enr /\ e \notin DOMAIN transfers

RequestCommit(w) ==
  /\ Writing(w, "request")
  /\ LET r == pending[w] IN
       /\ TransferInsertFits(r.enrollment)
       /\ transfers' = Upsert(transfers, OneRow(r.enrollment,
                         [status |-> "REQUESTED", toSchool |-> r.toSchool,
                          toEnrollment |-> NoEnrollment]))
  /\ End(w)
  /\ UNCHANGED <<student, enr, nextEnr, items>>

(* TransfersService.approve *)

ApproveRead(w, e, sec) ==
  /\ transfers[e].status = "REQUESTED"
  /\ SchoolOf(sec) = transfers[e].toSchool
  /\ Room(sec, 1)
  /\ \E number \in NumberChoices(sec), roll \in RollChoices(sec) :
       Begin(w, [op |-> "approve", enrollment |-> e, section |-> sec,
                 number |-> number, roll |-> roll])

ApproveCommit(w) ==
  /\ Writing(w, "approve")
  /\ nextEnr \in Ids
  /\ LET r == pending[w]
         e == r.enrollment
     IN  /\ e \in DOMAIN transfers
         /\ enr' = Upsert(TransferOut(enr, {e}), OneRow(nextEnr,
                     NewRow(enr[e].student, r.section, r.number, r.roll)))
         /\ student' = [student EXCEPT ![enr[e].student] = "ACTIVE"]
         /\ transfers' = [transfers EXCEPT ![e].status = "EXECUTED",
                                           ![e].toEnrollment = nextEnr]
  /\ Fits(enr')
  /\ nextEnr' = nextEnr + 1
  /\ End(w)
  /\ UNCHANGED items

(* TransfersService.reject (by the destination school) and cancel (by the   *)
(* origin school): the same check and the same unconditional update.        *)

DecideRead(w, e, verdict) ==
  /\ transfers[e].status = "REQUESTED"
  /\ Begin(w, [op |-> "decide", enrollment |-> e, verdict |-> verdict])

DecideCommit(w) ==
  /\ Writing(w, "decide")
  /\ pending[w].enrollment \in DOMAIN transfers
  /\ transfers' = [transfers EXCEPT ![pending[w].enrollment].status = pending[w].verdict]
  /\ End(w)
  /\ UNCHANGED <<student, enr, nextEnr, items>>

(* TransfersService.confirmBulkTransfer: target maps the source enrollments *)
(* of the chosen students to sections of one class of another school.       *)

BulkRead(w, target) ==
  /\ DOMAIN target # {}
  /\ \A e \in DOMAIN target : Movable(e)
  /\ \E from \in Schools, c \in Classes :
       /\ from # c.school
       /\ OneClass(target, c)
       /\ \A e \in DOMAIN target : SchoolOf(enr[e].section) = from
  /\ RoomForBatch(target)
  /\ Begin(w, [op |-> "bulk", target |-> target])

\* Mutant: the transfer is linked to the student's first enrollment.
BulkTransfersToFirst(target, key) ==
  [e \in DOMAIN target |->
     [status |-> "EXECUTED", toSchool |-> SchoolOf(target[e]),
      toEnrollment |-> CHOOSE f \in EnrollmentsOf(enr[e].student) :
                         \A g \in EnrollmentsOf(enr[e].student) : f <= g]]

\* Mutant: the origin is recorded as the destination.
BulkTransfersToOrigin(target, key) ==
  [e \in DOMAIN target |->
     [status |-> "EXECUTED", toSchool |-> SchoolOf(enr[e].section), toEnrollment |-> key[e]]]

\* The transfer rows of a batch, created as already executed.
BulkTransfers(target, key) ==
  [e \in DOMAIN target |->
     [status |-> "EXECUTED", toSchool |-> SchoolOf(target[e]), toEnrollment |-> key[e]]]

BulkCommit(w) ==
  /\ Writing(w, "bulk")
  /\ LET target == pending[w].target
         E == DOMAIN target
     IN  /\ \A e \in E : TransferInsertFits(e)
         /\ nextEnr + Cardinality(E) - 1 \in Ids
         /\ \E key \in NewKeys(E) :
              /\ enr' = Upsert(TransferOut(enr, E),
                          BatchRows(key, target,
                            [e \in E |-> NumberAfter(target[e], RankInBatch(key, e))]))
              /\ transfers' = Upsert(transfers, BulkTransfers(target, key))
         /\ student' = [s \in Students |->
                          IF s \in {enr[e].student : e \in E} THEN "ACTIVE" ELSE student[s]]
         /\ nextEnr' = nextEnr + Cardinality(E)
  /\ Fits(enr')
  /\ End(w)
  /\ UNCHANGED items

(* PromotionsService.confirm: outcome maps the chosen enrollments of one     *)
(* section to their outcome, target those that continue to their section.   *)
(* Whether the annual result permits the outcome is the admin's input here. *)

FinalLevel == [PRIMARY |-> 8, SECONDARY |-> 4]

IsFinalClass(c) == c.level >= FinalLevel[c.division]

NaturalOutcome(c) ==
  IF ~ IsFinalClass(c) THEN "PROMOTED"
  ELSE IF c.division = "PRIMARY" THEN "COMPLETED" ELSE "GRADUATED"

PossibleOutcomes(c) == {NaturalOutcome(c), "RETAINED"}

\* The class an outcome leads to in the destination year.
TargetClass(c, outcome, toYear) ==
  [c EXCEPT !.year = toYear, !.level = IF outcome = "PROMOTED" THEN @ + 1 ELSE @]

Continues(outcome) == {e \in DOMAIN outcome : outcome[e] \in {"PROMOTED", "RETAINED"}}

PromoteRead(w, sec, outcome, target) ==
  /\ DOMAIN outcome # {}
  /\ DOMAIN target = Continues(outcome)
  /\ \A e \in DOMAIN outcome :
       e \in ActiveIn(sec) /\ outcome[e] \in PossibleOutcomes(ClassOf[sec])
  /\ \/ Continues(outcome) = {}
     \/ \E toYear \in {d.year : d \in Classes} :
          /\ toYear > YearOf(sec)
          /\ IsFinalClass(ClassOf[sec]) \/ TargetClass(ClassOf[sec], "PROMOTED", toYear) \in Classes
          /\ \A e \in DOMAIN target :
               ClassOf[target[e]] = TargetClass(ClassOf[sec], outcome[e], toYear)
  /\ RoomForBatch(target)
  /\ Begin(w, [op |-> "promote", outcome |-> outcome, target |-> target])

\* Mutant: only those who continue get an item.
ItemsOfContinuing(outcome, target, key) ==
  [e \in DOMAIN target |-> [outcome |-> outcome[e], toEnrollment |-> key[e]]]

\* Mutant: the item records the outcome suggested for the class.
ItemsWithNaturalOutcome(outcome, target, key) ==
  [e \in DOMAIN outcome |->
     [outcome |-> NaturalOutcome(ClassOf[enr[e].section]),
      toEnrollment |-> IF e \in DOMAIN target THEN key[e] ELSE NoEnrollment]]

\* The items of a batch.
PromotionItems(outcome, target, key) ==
  [e \in DOMAIN outcome |->
     [outcome |-> outcome[e],
      toEnrollment |-> IF e \in DOMAIN target THEN key[e] ELSE NoEnrollment]]

PromoteCommit(w) ==
  /\ Writing(w, "promote")
  /\ LET outcome == pending[w].outcome
         target  == pending[w].target
         E == DOMAIN outcome
         C == DOMAIN target
         ended == {enr[e].student : e \in E \ C}
     IN  /\ E \subseteq DOMAIN enr
         /\ E \cap DOMAIN items = {}
         /\ nextEnr + Cardinality(C) - 1 \in 0 .. MaxEnrollments
         /\ \E key \in NewKeys(C) :
              /\ enr' = Upsert(
                   [e \in DOMAIN enr |->
                      IF e \in E THEN [enr[e] EXCEPT !.status = outcome[e]] ELSE enr[e]],
                   BatchRows(key, target, [e \in C |-> enr[e].number]))
              /\ items' = Upsert(items, PromotionItems(outcome, target, key))
         /\ student' = [s \in Students |->
              IF s \in ended THEN outcome[CHOOSE e \in E \ C : enr[e].student = s] ELSE student[s]]
         /\ nextEnr' = nextEnr + Cardinality(C)
  /\ Fits(enr')
  /\ End(w)
  /\ UNCHANGED transfers

(* StudentLifecycleService.confirmForm1Transition *)

\* Student numbers already active at another destination school that year.
NumbersTakenAt(target) ==
  \E e \in DOMAIN target, f \in DOMAIN enr :
    /\ SchoolOf(target[e]) # SchoolOf(enr[e].section)
    /\ SameYear(enr[f].section, target[e])
    /\ enr[f].status = "ACTIVE"
    /\ enr[f].number = enr[e].number

\* Mutant: the student's own status is not looked at.
CompletedPrimary(e) ==
  /\ ClassOf[enr[e].section].division = "PRIMARY"
  /\ enr[e].status = "COMPLETED"

AwaitsForm1(e) ==
  /\ ClassOf[enr[e].section].division = "PRIMARY"
  /\ enr[e].status = "COMPLETED"
  /\ student[enr[e].student] = "COMPLETED"

Form1Read(w, target) ==
  /\ DOMAIN target # {}
  /\ \E c \in Classes : c.division = "SECONDARY" /\ c.level = 1 /\ OneClass(target, c)
  /\ \A e \in DOMAIN target : AwaitsForm1(e)
  /\ \A e, f \in DOMAIN target : SameYear(enr[e].section, enr[f].section)
  /\ ~ NumbersTakenAt(target)
  /\ RoomForBatch(target)
  /\ Begin(w, [op |-> "form1", target |-> target])

Form1Commit(w) ==
  /\ Writing(w, "form1")
  /\ LET target == pending[w].target
         E == DOMAIN target
     IN  /\ E \subseteq DOMAIN enr
         /\ E \subseteq DOMAIN items
         /\ nextEnr + Cardinality(E) - 1 \in Ids
         /\ \E key \in NewKeys(E) :
              /\ enr' = Upsert(enr, BatchRows(key, target, [e \in E |-> enr[e].number]))
              /\ items' = [e \in DOMAIN items |->
                   IF e \in E THEN [items[e] EXCEPT !.toEnrollment = key[e]] ELSE items[e]]
         /\ student' = [s \in Students |->
                          IF s \in {enr[e].student : e \in E} THEN "ACTIVE" ELSE student[s]]
         /\ nextEnr' = nextEnr + Cardinality(E)
  /\ Fits(enr')
  /\ End(w)
  /\ UNCHANGED transfers

(* StudentLifecycleService.reverseFinalOutcome *)

ReverseRead(w, e) ==
  LET row  == enr[e]
      active == {f \in DOMAIN enr : enr[f].status = "ACTIVE"}
      rollTaken == \E f \in active : enr[f].section = row.section /\ enr[f].roll = row.roll
  IN  /\ row.status \in {"COMPLETED", "GRADUATED"}
      /\ student[row.student] = row.status
      /\ e \in DOMAIN items => items[e].toEnrollment = NoEnrollment
      /\ EnrollmentsOf(row.student) \cap active = {}
      /\ ~ \E f \in active : SameYear(enr[f].section, row.section) /\ enr[f].number = row.number
      /\ row.undone < MaxUndo
      /\ Begin(w, [op |-> "reverse", enrollment |-> e, hasItem |-> e \in DOMAIN items,
                   undone |-> row.undone,
                   roll |-> IF rollTaken THEN NextRoll(row.section) ELSE row.roll])

\* The item is deleted by its own id: after another reversal it is gone, and an
\* item recorded since then is a different one.
ReverseCommit(w) ==
  /\ Writing(w, "reverse")
  /\ LET r == pending[w]
         e == r.enrollment
     IN  /\ e \in DOMAIN enr
         /\ r.hasItem => e \in DOMAIN items /\ enr[e].undone = r.undone
         /\ enr' = [enr EXCEPT ![e].status = "ACTIVE", ![e].roll = r.roll,
                               ![e].undone = r.undone + 1]
         /\ student' = [student EXCEPT ![enr[e].student] = "ACTIVE"]
         /\ items' = IF r.hasItem THEN Without(items, {e}) ELSE items
  /\ Fits(enr')
  /\ End(w)
  /\ UNCHANGED <<nextEnr, transfers>>

-----------------------------------------------------------------------------
(* The specification *)

Init ==
  /\ student = [s \in Students |-> "UNKNOWN"]
  /\ enr = [e \in {} |-> {}]
  /\ nextEnr = 1
  /\ transfers = [e \in {} |-> {}]
  /\ items = [e \in {} |-> {}]
  /\ pending = [w \in {} |-> {}]

\* What a client may send as a batch; a batch with other enrollments is refused.
Batches(E) == UNION {[F -> Sections] : F \in SUBSET E}

Read(w) ==
  \/ \E sec \in Sections : CreateRead(w, sec)
  \/ \E e \in DOMAIN enr, sec \in Sections : EditRead(w, e, sec)
  \/ \E s \in Students : ArchiveRead(w, s)
  \/ \E e \in DOMAIN enr, school \in Schools : RequestRead(w, e, school)
  \/ \E e \in DOMAIN transfers, sec \in Sections : ApproveRead(w, e, sec)
  \/ \E e \in DOMAIN transfers, verdict \in {"REJECTED", "CANCELLED"} : DecideRead(w, e, verdict)
  \/ \E target \in Batches({e \in DOMAIN enr : Movable(e)}) : BulkRead(w, target)
  \/ \E sec \in Sections : \E E \in SUBSET ActiveIn(sec) :
       \E outcome \in [E -> PossibleOutcomes(ClassOf[sec])] :
         \E target \in [Continues(outcome) -> Sections] : PromoteRead(w, sec, outcome, target)
  \/ \E target \in Batches({e \in DOMAIN enr : AwaitsForm1(e)}) : Form1Read(w, target)
  \/ \E e \in DOMAIN enr : ReverseRead(w, e)

Commit(w) ==
  \/ CreateCommit(w)
  \/ EditCommit(w)
  \/ ArchiveCommit(w)
  \/ RequestCommit(w)
  \/ ApproveCommit(w)
  \/ DecideCommit(w)
  \/ BulkCommit(w)
  \/ PromoteCommit(w)
  \/ Form1Commit(w)
  \/ ReverseCommit(w)

Next ==
  \/ \E w \in Workers : Read(w) \/ Commit(w) \/ Rollback(w)
  \/ \E s \in Students : Remove(s)

Spec == Init /\ [][Next]_vars

=============================================================================
