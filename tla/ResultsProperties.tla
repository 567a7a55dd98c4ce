------------------------- MODULE ResultsProperties --------------------------
(***************************************************************************)
(* What the results of an exam subject guarantee: for any overlap of the   *)
(* handlers, then as long as no handler was overlapped, then what the      *)
(* repository says and the code does not keep.                             *)
(***************************************************************************)
EXTENDS Results

(* Type correctness, and every result belongs to a submission that exists. *)
TypeOK ==
  /\ maxMarks \in Maxima
  /\ passMark \in PassMarks \cup {NoPass}
  /\ DOMAIN submission \subseteq Sections /\ submission \in [DOMAIN submission -> Submission]
  /\ DOMAIN result \subseteq Enrollments /\ result \in [DOMAIN result -> Result]
  /\ \A e \in DOMAIN result : result[e].set \in DOMAIN submission
  /\ section \in [Enrollments -> Sections]
  /\ status \in [Enrollments -> {"NONE", "ACTIVE", "CLOSED"}]
  /\ DOMAIN pending \subseteq Workers /\ pending \in [DOMAIN pending -> Request]
  /\ overlapped \in BOOLEAN

-----------------------------------------------------------------------------
(* Under every interleaving *)

(* "Publishing is the one action that actually changes what a Student/      *)
(* Parent can see": whatever overlaps, students never see a result of a set *)
(* that nobody submitted or nobody approved.                                *)
ReviewedBeforeSeen ==
  \A e \in Enrollments :
    Counts(e) => submission[result[e].set].submitted /\ submission[result[e].set].approved

-----------------------------------------------------------------------------
(* As long as no handler was overlapped *)

(* Marks are entered, edited and their maximum is changed by three          *)
(* handlers; no percentage is ever above 100, and the pass mark can be      *)
(* reached.                                                                 *)
MarksWithinMax ==
  ~ overlapped =>
    /\ PassWithin(maxMarks, passMark)
    /\ \A e \in DOMAIN result : Fits(result[e].mark) /\ (Counts(e) => Percentage(e) <= 10000)

\* The result of e is in the set of the section e is in.
AtHome(e) == e \in DOMAIN result /\ result[e].set = section[e]

\* In this step an admin edits the result of e.
EditedByAdmin(e) ==
  \E w \in DOMAIN pending \ DOMAIN pending' :
    Writing(w, "edit") /\ pending[w].enrollment = e

(* "A submitted/approved/published set is corrected by having an Admin      *)
(* return it for correction first, never by editing it in place": the mark  *)
(* of a student who stays in the section, and what it is a percentage of    *)
(* once the set is finalized, change by an admin's edit only.               *)
ReviewedMarksStand ==
  [][\A e \in Enrollments :
       (~ overlapped /\ AtHome(e) /\ ~ EditedByAdmin(e)) =>
         /\ StatusOf(result[e].set) \notin Editable => result'[e] = result[e]
         /\ StatusOf(result[e].set) \in Finalized => maxMarks' = maxMarks]_vars

(* submitForReview compares two counts.  That makes a submitted set         *)
(* complete when each of its results is one of a student who is still in    *)
(* the section.                                                             *)
SubmittedIsComplete ==
  [][\A sec \in Sections :
       (~ overlapped /\ StatusOf(sec) # "SUBMITTED" /\ StatusOf(sec)' = "SUBMITTED") =>
         \/ \E e \in ResultsOf(sec) : e \notin ActiveIn(sec)
         \/ \A e \in ActiveIn(sec) : AtHome(e)]_vars

-----------------------------------------------------------------------------
(* Said by the repository, not kept by the code *)

(* "Never trusts the frontend's own completed/missing count: every active   *)
(* enrollment in the section is re-checked here" (submitForReview).         *)
EveryActiveIsChecked ==
  [][\A sec \in Sections :
       (~ overlapped /\ StatusOf(sec) # "SUBMITTED" /\ StatusOf(sec)' = "SUBMITTED") =>
         ActiveIn(sec) \subseteq DOMAIN result]_vars

(* "A submitted/approved/published set is corrected by having an Admin      *)
(* return it for correction first ... never by editing it in place"         *)
(* (enterMarks), for students who were moved to another section too.        *)
NeverEditedInPlace ==
  [][\A e \in DOMAIN result :
       (~ overlapped /\ StatusOf(result[e].set) \notin Editable /\ ~ EditedByAdmin(e)) =>
         result'[e] = result[e]]_vars

=============================================================================
