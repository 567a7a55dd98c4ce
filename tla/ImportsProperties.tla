------------------------- MODULE ImportsProperties --------------------------
(***************************************************************************)
(* What a student import guarantees: for any overlap of requests, jobs and *)
(* crashes, then for one request at a time, then what the repository says  *)
(* and the code does not keep.                                             *)
(***************************************************************************)
EXTENDS Imports

(* Type correctness. *)
TypeOK ==
  /\ batch \in [status : BatchStatus, pendingCount : Nat]
  /\ row \in [Rows -> RowStatus]
  /\ students \in [Rows -> Nat]
  /\ jobs \in [DOMAIN jobs -> Job] /\ DOMAIN jobs \subseteq Jobs
  /\ pending \in [DOMAIN pending -> Request] /\ DOMAIN pending \subseteq Workers
  /\ up \in BOOLEAN
  /\ crashes \in 0 .. MaxCrashes

-----------------------------------------------------------------------------
(* Under every interleaving *)

(* "nothing is ever written to the Student table until an admin has seen    *)
(* the full row-level report and explicitly commits": no student exists     *)
(* while the batch is staged or reviewed, whatever was interrupted before.  *)
NothingBeforeCommit ==
  (\E r \in Rows : students[r] > 0) => batch.status \in {"COMMITTING", "COMPLETED", "FAILED"}

(* "so nothing gets silently skipped": once students are created, no row is *)
(* unchecked or waits for a decision about a duplicate.                     *)
NothingSkippedSilently ==
  batch.status \in {"COMMITTING", "COMPLETED"}
    => RowsWith("PENDING") = {} /\ RowsWith("DUPLICATE_PENDING") = {}

-----------------------------------------------------------------------------
(* One request at a time *)

(* When a batch is COMPLETED each of its rows has an outcome, and the       *)
(* outcome is true: there is a student for a CREATED row, none for a        *)
(* SKIPPED one.                                                             *)
EveryRowIsSettled ==
  batch.status = "COMPLETED" =>
    \A r \in Rows :
      /\ row[r] \in {"NONE", "CREATED", "ERROR", "SKIPPED"}
      /\ row[r] = "CREATED" => students[r] > 0
      /\ row[r] = "SKIPPED" => students[r] = 0

(* A row becomes two students only if the process died in between, and the  *)
(* student number of a row that has one prevents even that.                 *)
OncePerLife ==
  \A r \in Rows : students[r] <= IF r \in Numbered THEN 1 ELSE 1 + crashes

(* The client polls until the batch leaves STAGING or COMMITTING.  It       *)
(* always does, through failures of the job and deaths of the process, once *)
(* its rows have been stored.                                               *)
BatchLeavesBackground ==
  /\ (batch.status = "STAGING" /\ RowsWith("NONE") = {}) ~> batch.status # "STAGING"
  /\ batch.status = "COMMITTING" ~> batch.status # "COMMITTING"

-----------------------------------------------------------------------------
(* Said by the repository, not kept by the code *)

(* imports.service.ts:19 - phase 2 is to "create a real Student for every     *)
(* READY row", and resuming a batch at boot is "safe" (:30-31).             *)
OneStudentPerRow == \A r \in Rows : students[r] <= 1

(* ImportBatchReview.tsx:113 - "{batch.pendingCount} row(s) need a          *)
(* duplicate decision below": when nothing is in progress, so many do.      *)
PendingCountIsRight ==
  (batch.status = "READY_FOR_REVIEW" /\ DOMAIN jobs = {} /\ DOMAIN pending = {})
    => batch.pendingCount = DuplicatesPending

=============================================================================
