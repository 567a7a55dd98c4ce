------------------------------ MODULE Results -------------------------------
(***************************************************************************)
(* The results of one exam subject: marks are entered section by section,  *)
(* submitted, reviewed and published, while the roster of the class        *)
(* changes.                                                                *)
(*                                                                         *)
(* Source: apps/api/src/exams/exams.service.ts.  The roster is changed by  *)
(* students.service.ts and promotions.service.ts; the module Enrollment    *)
(* has those in full, here they are what an exam sees of them.             *)
(*                                                                         *)
(* Exam subjects share no row but the roster, so one is enough.  As in     *)
(* Enrollment a handler reads and checks, then writes by id in a later     *)
(* statement: XRead and XWrite.  overlapped is a history variable: it says *)
(* whether anything ever ran between the two halves of a handler.          *)
(*                                                                         *)
(* An operator whose comment starts with "Mutant" is not used: it is a     *)
(* plausible bug of the definition that follows it.                        *)
(***************************************************************************)
EXTENDS Naturals, FiniteSets, Tables

CONSTANTS
  Workers,      \* handlers that can be in progress at once
  Sections,     \* the sections of the class
  Enrollments,  \* the enrollments of the exam's year in these sections
  Maxima,       \* maximum marks an admin may set
  Marks,        \* marks a teacher or an admin may type in
  Absent,       \* no mark: the student was absent
  PassMarks,    \* pass marks an admin may set
  NoPass,       \* no pass mark (null)
  Keep          \* the request leaves this column alone (undefined)

ASSUME MarksAssumption ==
  /\ Maxima \subseteq Nat \ {0} /\ Maxima # {}
  /\ Marks \subseteq Nat /\ Absent \notin Nat
  /\ PassMarks \subseteq Nat /\ NoPass \notin Nat
  /\ Keep \notin Nat \cup {NoPass}
ASSUME RosterAssumption == IsFiniteSet(Enrollments)

VARIABLES
  maxMarks,    \* exam_subjects.maxMarks
  passMark,    \* exam_subjects.passingMark
  submission,  \* table result_submissions, by section
  result,      \* table results, by enrollment
  section,     \* student_enrollments.sectionId
  status,      \* student_enrollments.status, NONE before the row exists
  pending,     \* handlers between their reads and their writes, by worker
  overlapped   \* has any handler been overlapped?

roster == <<section, status>>
vars == <<maxMarks, passMark, submission, result, section, status, pending, overlapped>>

Editable   == {"DRAFT", "NEEDS_CORRECTION"}
Finalized  == {"APPROVED", "PUBLISHED"}
SubmissionStatus == Editable \cup Finalized \cup {"SUBMITTED"}

\* submitted, approved: are submittedAt and approvedAt set?
Submission == [status : SubmissionStatus, submitted : BOOLEAN, approved : BOOLEAN]
NewSubmission == [status |-> "DRAFT", submitted |-> FALSE, approved |-> FALSE]

Mark == Marks \cup {Absent}

\* set: the section whose submission the result belongs to
Result == [mark : Mark, set : Sections]

\* What the five decisions about a set are.
Decisions == {"submit", "return", "approve", "publish", "unpublish"}

\* The marks of one sheet: some students, each with a mark or absent.
Sheets == UNION {[E -> Mark] : E \in SUBSET Enrollments}

Request ==
  [op : {"enter"}, section : Sections, sheet : Sheets]
    \cup [op : {"edit"}, enrollment : Enrollments, mark : Mark]
    \cup [op : Decisions, section : Sections]
    \cup [op : {"configure"}, max : Maxima \cup {Keep}, pass : PassMarks \cup {NoPass, Keep}]

-----------------------------------------------------------------------------
(* Queries *)

ActiveIn(sec) == {e \in Enrollments : section[e] = sec /\ status[e] = "ACTIVE"}

\* The results a set is made of: where resultSubmissionId is its id.
ResultsOf(sec) == {e \in DOMAIN result : result[e].set = sec}

StatusOf(sec) == IF sec \in DOMAIN submission THEN submission[sec].status ELSE "NONE"

\* Mutant: the maximum itself is refused, one above it accepted.
FitsOneAbove(mark) == mark # Absent => mark <= maxMarks + 1

Fits(mark) == mark # Absent => mark <= maxMarks

PassWithin(max, pass) == pass # NoPass => pass <= max

\* Mutant: only published results protect the maximum.
MaxMayBeUnlessPublished(max) ==
  /\ \A sec \in Sections : StatusOf(sec) # "PUBLISHED"
  /\ \A e \in DOMAIN result : result[e].mark # Absent => result[e].mark <= max

\* assertMaxMarksChangeAllowed
MaxMayBe(max) ==
  /\ \A sec \in Sections : StatusOf(sec) \notin Finalized
  /\ \A e \in DOMAIN result : result[e].mark # Absent => result[e].mark <= max

\* publishedMarkedResultWhere: the results that count, for students and promotion
Counts(e) ==
  /\ e \in DOMAIN result
  /\ StatusOf(result[e].set) = "PUBLISHED"
  /\ result[e].mark # Absent

\* percentageFromMarks of the one result, in hundredths of a percent; Math.round
\* rounds half up
Percentage(e) == (20000 * result[e].mark + maxMarks) \div (2 * maxMarks)

-----------------------------------------------------------------------------
(* Handlers *)

\* Something runs now: whoever is between two statements is overlapped.
Disturb == overlapped' = (overlapped \/ DOMAIN pending # {})

Begin(w, request) ==
  /\ w \notin DOMAIN pending
  /\ pending' = Upsert(pending, OneRow(w, request))
  /\ Disturb

Writing(w, op) == w \in DOMAIN pending /\ pending[w].op = op

End(w) == pending' = Without(pending, {w}) /\ UNCHANGED overlapped

\* The write fails or the process dies.
Rollback(w) ==
  /\ w \in DOMAIN pending
  /\ End(w)
  /\ UNCHANGED <<maxMarks, passMark, submission, result, roster>>

\* getOrCreateSubmission
EnsureSubmission(sec) ==
  submission' = Upsert(OneRow(sec, NewSubmission), submission)

(* updateExamSubject *)

\* A maximum equal to the one read is not checked, but written all the same.
ConfigureRead(w, max, pass) ==
  /\ PassWithin(IF max = Keep THEN maxMarks ELSE max, IF pass = Keep THEN passMark ELSE pass)
  /\ max \notin {Keep, maxMarks} => MaxMayBe(max)
  /\ Begin(w, [op |-> "configure", max |-> max, pass |-> pass])
  /\ UNCHANGED <<maxMarks, passMark, submission, result, roster>>

ConfigureWrite(w) ==
  /\ Writing(w, "configure")
  /\ maxMarks' = IF pending[w].max = Keep THEN maxMarks ELSE pending[w].max
  /\ passMark' = IF pending[w].pass = Keep THEN passMark ELSE pending[w].pass
  /\ End(w)
  /\ UNCHANGED <<submission, result, roster>>

(* enterMarks: the last statement before the marks creates the submission *)

\* An active student of the section, or one who has a result already.
MayBeMarked(e, sec) ==
  section[e] = sec /\ (status[e] = "ACTIVE" \/ (status[e] = "CLOSED" /\ e \in DOMAIN result))

\* Mutant: the status of the set is not looked at.
EnterReadAnyStatus(w, sec, sheet) ==
  /\ \A e \in DOMAIN sheet : MayBeMarked(e, sec) /\ Fits(sheet[e])
  /\ EnsureSubmission(sec)
  /\ Begin(w, [op |-> "enter", section |-> sec, sheet |-> sheet])
  /\ UNCHANGED <<maxMarks, passMark, result, roster>>

EnterRead(w, sec, sheet) ==
  /\ \A e \in DOMAIN sheet : MayBeMarked(e, sec) /\ Fits(sheet[e])
  /\ StatusOf(sec) \in Editable \cup {"NONE"}
  /\ EnsureSubmission(sec)
  /\ Begin(w, [op |-> "enter", section |-> sec, sheet |-> sheet])
  /\ UNCHANGED <<maxMarks, passMark, result, roster>>

\* A result that exists keeps the set it belongs to.
EnterWrite(w) ==
  /\ Writing(w, "enter")
  /\ LET r == pending[w]
         Entered(e) ==
           [mark |-> r.sheet[e],
            set  |-> IF e \in DOMAIN result THEN result[e].set ELSE r.section]
     IN  result' = Upsert(result, [e \in DOMAIN r.sheet |-> Entered(e)])
  /\ End(w)
  /\ UNCHANGED <<maxMarks, passMark, submission, roster>>

(* adminEditResult: whatever the status of the set *)

EditRead(w, e, mark) ==
  /\ e \in DOMAIN result
  /\ Fits(mark)
  /\ mark # result[e].mark
  /\ Begin(w, [op |-> "edit", enrollment |-> e, mark |-> mark])
  /\ UNCHANGED <<maxMarks, passMark, submission, result, roster>>

EditWrite(w) ==
  /\ Writing(w, "edit")
  /\ result' = [result EXCEPT ![pending[w].enrollment].mark = pending[w].mark]
  /\ End(w)
  /\ UNCHANGED <<maxMarks, passMark, submission, roster>>

(* submitForReview, returnForCorrection, approveSubmission,                 *)
(* publishSubmission, unpublishSubmission                                   *)

From(op) ==
  CASE op = "submit"    -> Editable
    [] op = "return"    -> {"SUBMITTED", "APPROVED"}
    [] op = "approve"   -> {"SUBMITTED"}
    [] op = "publish"   -> {"APPROVED"}
    [] op = "unpublish" -> {"PUBLISHED"}

To(op) ==
  CASE op = "submit"    -> "SUBMITTED"
    [] op = "return"    -> "NEEDS_CORRECTION"
    [] op = "approve"   -> "APPROVED"
    [] op = "publish"   -> "PUBLISHED"
    [] op = "unpublish" -> "APPROVED"

\* Mutant: one student may be missing.
EnoughButOne(sec) == Cardinality(ResultsOf(sec)) + 1 >= Cardinality(ActiveIn(sec))

\* submitForReview counts: as many results as active students.
Enough(sec) == Cardinality(ResultsOf(sec)) >= Cardinality(ActiveIn(sec))

\* Mutant: a set can be published without having been looked at.
DecideReadUnreviewed(w, op, sec) ==
  /\ StatusOf(sec) \in From(op) \cup (IF op = "publish" THEN {"SUBMITTED"} ELSE {})
  /\ op = "submit" => Enough(sec)
  /\ Begin(w, [op |-> op, section |-> sec])
  /\ UNCHANGED <<maxMarks, passMark, submission, result, roster>>

DecideRead(w, op, sec) ==
  /\ StatusOf(sec) \in From(op)
  /\ op = "submit" => Enough(sec)
  /\ Begin(w, [op |-> op, section |-> sec])
  /\ UNCHANGED <<maxMarks, passMark, submission, result, roster>>

DecideWrite(w) ==
  /\ \E op \in Decisions :
       /\ Writing(w, op)
       /\ LET sec == pending[w].section
              old == submission[sec]
          IN  submission' = [submission EXCEPT ![sec] =
                [status    |-> To(op),
                 submitted |-> old.submitted \/ op = "submit",
                 approved  |-> old.approved \/ op = "approve"]]
  /\ End(w)
  /\ UNCHANGED <<maxMarks, passMark, result, roster>>

(* uploadExamPaper: the submission is there from then on; the paper has a   *)
(* status of its own, which nothing here depends on.                        *)

UploadPaper(sec) ==
  /\ EnsureSubmission(sec)
  /\ Disturb
  /\ UNCHANGED <<maxMarks, passMark, result, roster, pending>>

-----------------------------------------------------------------------------
(* The roster: admission and transfer in; transfer out, promotion and       *)
(* archiving; the reversal of a promotion; StudentsService.update, which    *)
(* corrects the section of the active enrollment in place.                  *)

Join(e, sec) ==
  /\ status[e] = "NONE"
  /\ status'  = [status EXCEPT ![e] = "ACTIVE"]
  /\ section' = [section EXCEPT ![e] = sec]
  /\ Disturb
  /\ UNCHANGED <<maxMarks, passMark, submission, result, pending>>

Close(e) ==
  /\ status[e] = "ACTIVE"
  /\ status' = [status EXCEPT ![e] = "CLOSED"]
  /\ Disturb
  /\ UNCHANGED <<maxMarks, passMark, submission, result, section, pending>>

Reopen(e) ==
  /\ status[e] = "CLOSED"
  /\ status' = [status EXCEPT ![e] = "ACTIVE"]
  /\ Disturb
  /\ UNCHANGED <<maxMarks, passMark, submission, result, section, pending>>

\* The results of the enrollment stay in the set they were entered for.
Move(e, sec) ==
  /\ status[e] = "ACTIVE"
  /\ sec # section[e]
  /\ section' = [section EXCEPT ![e] = sec]
  /\ Disturb
  /\ UNCHANGED <<maxMarks, passMark, submission, result, status, pending>>

-----------------------------------------------------------------------------
\* createExam, createExamSubject: no marks yet, a pass mark within the maximum.
Init ==
  /\ maxMarks \in Maxima
  /\ passMark \in PassMarks \cup {NoPass} /\ PassWithin(maxMarks, passMark)
  /\ submission = Without([sec \in Sections |-> NewSubmission], Sections)
  /\ result = Without([e \in Enrollments |-> NoPass], Enrollments)
  /\ section \in [Enrollments -> Sections]
  /\ status \in [Enrollments -> {"NONE", "ACTIVE"}]
  /\ pending = Without([w \in Workers |-> NoPass], Workers)
  /\ overlapped = FALSE

Reads(w) ==
  \/ \E max \in Maxima \cup {Keep}, pass \in PassMarks \cup {NoPass, Keep} : ConfigureRead(w, max, pass)
  \/ \E sec \in Sections, sheet \in Sheets : EnterRead(w, sec, sheet)
  \/ \E e \in Enrollments, mark \in Mark : EditRead(w, e, mark)
  \/ \E op \in Decisions, sec \in Sections : DecideRead(w, op, sec)

Writes(w) ==
  \/ ConfigureWrite(w)
  \/ EnterWrite(w)
  \/ EditWrite(w)
  \/ DecideWrite(w)
  \/ Rollback(w)

RosterChanges ==
  \E e \in Enrollments :
    \/ Close(e)
    \/ Reopen(e)
    \/ \E sec \in Sections : Join(e, sec) \/ Move(e, sec)

Next ==
  \/ \E w \in Workers : Reads(w) \/ Writes(w)
  \/ \E sec \in Sections : UploadPaper(sec)
  \/ RosterChanges

Spec == Init /\ [][Next]_vars

=============================================================================
