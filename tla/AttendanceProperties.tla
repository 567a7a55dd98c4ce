------------------------ MODULE AttendanceProperties ------------------------
(***************************************************************************)
(* What marking attendance guarantees to a teacher, and what it does not.  *)
(***************************************************************************)
EXTENDS Attendance

(* Type correctness; an answer to a load has a mark for every student, so   *)
(* that the page never shows one without.                                   *)
TypeOK ==
  /\ sheet \in [Slots -> Marks] /\ draft \in [Slots -> Marks]
  /\ page \in Page
  /\ DOMAIN calls \subseteq CallIds /\ \A i \in DOMAIN calls : calls[i] \in Call
  /\ \A i \in DOMAIN calls : calls[i].answered => DOMAIN calls[i].marks = Enrollments
  /\ past \in Past

(* Marks are stored for the session they were loaded and changed for, as    *)
(* long as the teacher waits for a page that loads, and it loads once and   *)
(* without an error - whatever other teachers and lost saves do.            *)
SavedWhereMarked == past.story \in {"quiet", "disturbed"} => ~ past.misplaced

(* When the page of a patient teacher whom nobody disturbs says that        *)
(* nothing is unsaved, and waits for nothing, it shows what it would show   *)
(* if it was opened again - unless a draft was stored behind other marks    *)
(* that had been submitted, which stay what the page shows (SaveDraft).     *)
CleanMeansStored ==
  (past.story = "quiet" /\ ~ Dirty /\ ~ Waiting /\ "hidden" \notin past.lost) =>
    \A e \in DOMAIN page.marks : page.marks[e] = View(page.slot)[e]

(* The same teacher loses marks he was not asked about in the two ways the  *)
(* code leaves open and in no other: he goes Back or his session ends, or   *)
(* he saves a draft of a session that is submitted. The dialog, changes of  *)
(* session, links and drafts of a session that is not never lose one.       *)
UndisturbedLosesNothing == past.story = "quiet" => past.lost \subseteq {"left", "hidden"}

(* A draft leaves its table only into the register: submitting one session  *)
(* takes nothing from the other ("must survive this").                      *)
DraftBecomesFinal ==
  [][\A s \in Slots : DOMAIN draft[s] \ DOMAIN draft'[s] \subseteq DOMAIN sheet'[s]]_vars

-----------------------------------------------------------------------------
(* Said by the repository, not kept by the code *)

(* UnsavedAttendanceDialog.tsx: the dialog "replaces that silent loss" of   *)
(* every mark with no warning.                                              *)
NothingLostSilently == past.story # "impatient" => "replaced" \notin past.lost

=============================================================================
