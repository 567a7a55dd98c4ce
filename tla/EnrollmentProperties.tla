------------------------ MODULE EnrollmentProperties ------------------------
(***************************************************************************)
(* What the enrollment lifecycle guarantees.  The first part holds for     *)
(* every interleaving of the handlers, the second when they run one after  *)
(* another, and the last states what a comment in the repository says and  *)
(* the code does not keep.                                                 *)
(***************************************************************************)
EXTENDS Enrollment

(* Type correctness.  The foreign keys are part of it: a transfer and a     *)
(* promotion item refer to an enrollment that exists.                       *)
TypeOK ==
  /\ student \in [Students -> StudentStatus]
  /\ enr \in [DOMAIN enr -> EnrollmentRow]
  /\ nextEnr \in 1 .. MaxEnrollments + 1
  /\ DOMAIN enr \subseteq 1 .. nextEnr - 1
  /\ transfers \in [DOMAIN transfers -> TransferRow]
  /\ items \in [DOMAIN items -> ItemRow]
  /\ DOMAIN transfers \subseteq DOMAIN enr
  /\ DOMAIN items \subseteq DOMAIN enr
  /\ pending \in [DOMAIN pending -> Request]
  /\ DOMAIN pending \subseteq Workers

-----------------------------------------------------------------------------
(* Under every interleaving *)

(* students.currentStatus is a denormalized copy that says ACTIVE only of a *)
(* student who really has an ACTIVE enrollment.                             *)
ActiveStudentIsEnrolled ==
  \A s \in Students :
    student[s] = "ACTIVE" => \E e \in DOMAIN enr : enr[e].student = s /\ enr[e].status = "ACTIVE"

(* An enrollment closed by year-end progression always has its promotion    *)
(* item, and the item says how it was closed.                               *)
ProgressIsRecorded ==
  \A e \in DOMAIN enr :
    enr[e].status \in Progressed => e \in DOMAIN items /\ items[e].outcome = enr[e].status

\* The enrollments that transfer t and item i lead to.
TransferTargets == {e \in DOMAIN transfers : transfers[e].toEnrollment # NoEnrollment}
ItemTargets     == {e \in DOMAIN items : items[e].toEnrollment # NoEnrollment}

(* History leads forward: a transfer's and an item's successor is a later   *)
(* enrollment of the same student, at the school the transfer names, and    *)
(* whoever progresses keeps the student number.                             *)
HistoryLeadsForward ==
  /\ \A e \in TransferTargets :
       LET to == transfers[e].toEnrollment IN
       /\ to \in DOMAIN enr /\ to > e
       /\ enr[to].student = enr[e].student
       /\ SchoolOf(enr[to].section) = transfers[e].toSchool
  /\ \A e \in ItemTargets :
       LET to == items[e].toEnrollment IN
       /\ to \in DOMAIN enr /\ to > e
       /\ enr[to].student = enr[e].student /\ enr[to].number = enr[e].number
  /\ \A e \in DOMAIN items : items[e].outcome \in {"PROMOTED", "RETAINED"} => e \in ItemTargets
  /\ \A e \in DOMAIN transfers : transfers[e].status = "EXECUTED" => e \in TransferTargets

(* No enrollment has two origins: it is not reached by two transfers, two   *)
(* promotion items, or one of each.                                         *)
OneOriginAtMost ==
  /\ \A e, f \in TransferTargets : transfers[e].toEnrollment = transfers[f].toEnrollment => e = f
  /\ \A e, f \in ItemTargets : items[e].toEnrollment = items[f].toEnrollment => e = f
  /\ \A e \in TransferTargets, f \in ItemTargets : transfers[e].toEnrollment # items[f].toEnrollment

(* What a handler read and no other handler can change is still true when   *)
(* it writes: an enrollment keeps its student and its school, a transfer    *)
(* its destination, and a deleted row's id is never given out again.  The   *)
(* properties above rest on it.                                             *)
RequestOK(r) ==
  /\ r.op = "promote" => DOMAIN r.target = Continues(r.outcome)
  /\ r.op \in {"archive", "approve", "edit"} => r.enrollment < nextEnr
  /\ (r.op = "archive" /\ r.enrollment \in DOMAIN enr) => enr[r.enrollment].student = r.student
  /\ (r.op = "approve" /\ r.enrollment \in DOMAIN enr)
       => /\ r.enrollment \in DOMAIN transfers
          /\ transfers[r.enrollment].toSchool = SchoolOf(r.section)
  /\ (r.op = "edit" /\ r.enrollment \in DOMAIN enr)
       => SchoolOf(enr[r.enrollment].section) = SchoolOf(r.section)

RequestsOK == \A w \in DOMAIN pending : RequestOK(pending[w])

-----------------------------------------------------------------------------
(* When handlers run one after another *)

(* Every closed enrollment has its reason on record: the item of a          *)
(* progressed enrollment tells its status, a TRANSFERRED_OUT one has its    *)
(* executed transfer; a promoted or retained student stays at the school.   *)
ClosedForAReason ==
  /\ \A e \in DOMAIN items :
       /\ enr[e].status = items[e].outcome
       /\ items[e].outcome \in {"PROMOTED", "RETAINED"} =>
            SchoolOf(enr[items[e].toEnrollment].section) = SchoolOf(enr[e].section)
  /\ \A e \in DOMAIN enr : enr[e].status = "TRANSFERRED_OUT" =>
       e \in DOMAIN transfers /\ transfers[e].status = "EXECUTED"

(* A student of whom nobody requested a transfer holds one ACTIVE           *)
(* enrollment at most: no progression, Form 1 transition, admission or      *)
(* reversal gives a second seat to a student who has one.                   *)
OneActiveEnrollment ==
  \A e, f \in DOMAIN enr :
    (e # f /\ enr[e].status = "ACTIVE" /\ enr[f].status = "ACTIVE")
      => enr[e].student # enr[f].student

(* A student has at most one transfer request waiting for a decision.       *)
OneRequestPerStudent ==
  \A e, f \in DOMAIN transfers :
    (e # f /\ transfers[e].status = "REQUESTED" /\ transfers[f].status = "REQUESTED")
      => enr[e].student # enr[f].student

(* A section is never filled beyond its capacity by an admission, transfer, *)
(* promotion, Form 1 transition or correction.  Undoing a final outcome     *)
(* gives the student the old seat back without a capacity check.            *)
CapacityRespected ==
  [][\A sec \in Sections :
       (Capacity[sec] # Unlimited /\ Cardinality(ActiveIn(sec))' > Cardinality(ActiveIn(sec)))
         => \/ Cardinality(ActiveIn(sec))' <= Capacity[sec]
            \/ \E e \in DOMAIN enr : enr'[e].undone > enr[e].undone]_vars

-----------------------------------------------------------------------------
(* Said by a comment, not kept by the code *)

(* transfers.service.ts:15 says a student is transferred from an ACTIVE,    *)
(* COMPLETED or GRADUATED enrollment only.                                  *)
TransfersAreFromCurrent ==
  [][\A e \in DOMAIN transfers :
       (transfers[e].status = "REQUESTED" /\ e \in DOMAIN transfers' /\ transfers'[e].status = "EXECUTED")
         => enr[e].status \in Transferable]_vars

=============================================================================
