------------------------------ MODULE Imports -------------------------------
(***************************************************************************)
(* One batch of a student import: upload, staging, review, commit.         *)
(*                                                                         *)
(* Source: apps/api/src/imports/imports.service.ts.                        *)
(*                                                                         *)
(* Staging and committing are jobs in the background of the one API        *)
(* process; requests run beside them.  The process may die at any moment,  *)
(* with every job and request in progress, and onModuleInit starts a job   *)
(* again for a batch it finds STAGING or COMMITTING.  Batches share        *)
(* nothing here, so one is enough.                                         *)
(*                                                                         *)
(* An operator whose comment starts with "Mutant" is not used: it is a     *)
(* plausible bug of the definition that follows it.                        *)
(***************************************************************************)
EXTENDS Naturals, FiniteSets, Tables

CONSTANTS
  Workers,     \* requests that can be in progress at once
  Jobs,        \* bound: background jobs that can run at once
  Rows,        \* the data rows of the CSV file
  NoRow,
  Numbered,    \* the rows that give a student number
  Faults,      \* what may go wrong, see AllFaults
  MaxCrashes   \* bound: deaths of the process

\* crash: the process dies; request, job: a statement of a request or of a job
\* fails; record: the statement that records the failure of a job fails too.
AllFaults == {"crash", "request", "job", "record"}

ASSUME RowsAssumption   == IsFiniteSet(Rows) /\ NoRow \notin Rows /\ Numbered \subseteq Rows
ASSUME FaultsAssumption == Faults \subseteq AllFaults /\ MaxCrashes \in Nat

VARIABLES
  batch,     \* import_batches: status and pendingCount
  row,       \* import_rows: status
  students,  \* number of students created from a row
  jobs,      \* the background jobs of the process
  pending,   \* the requests between two statements, by worker
  up,        \* is the process running?
  crashes    \* how often it died

vars == <<batch, row, students, jobs, pending, up, crashes>>

BatchStatus == {"NONE", "STAGING", "READY_FOR_REVIEW", "COMMITTING", "COMPLETED", "FAILED"}
RowStatus   == {"NONE", "PENDING", "READY", "CREATED", "DUPLICATE_PENDING", "ERROR", "SKIPPED"}

\* A job loads its rows, takes them one after another and ends with a count.  A
\* commit job that has created a student still has to mark the row it came from,
\* and one that has completed the batch to record that in the audit log.
Job == [kind : {"stage", "commit"}, phase : {"load", "rows", "mark", "end", "audit"},
        todo : SUBSET Rows, row : Rows \cup {NoRow}, count : Nat]

Request ==
  [op : {"upload", "commit", "refresh"}]
    \cup [op : {"resolve"}, row : Rows, to : {"READY", "SKIPPED"}]
    \cup [op : {"count"}, count : Nat]

RowsWith(status)  == {r \in Rows : row[r] = status}
DuplicatesPending == Cardinality(RowsWith("DUPLICATE_PENDING"))

-----------------------------------------------------------------------------
(* Requests *)

Begin(w, request) ==
  /\ up
  /\ w \notin DOMAIN pending
  /\ pending' = Upsert(pending, OneRow(w, request))

Waiting(w, op) == w \in DOMAIN pending /\ pending[w].op = op

Continue(w, request) == pending' = [pending EXCEPT ![w] = request]

End(w) == pending' = Without(pending, {w})

NewJob(kind) == [kind |-> kind, phase |-> "load", todo |-> {}, row |-> NoRow, count |-> 0]

Launch(kind) ==
  \E j \in Jobs \ DOMAIN jobs : jobs' = Upsert(jobs, OneRow(j, NewJob(kind)))

\* uploadStudentsCsv: the batch, then its rows, then staging in the background
UploadBatch(w) ==
  /\ batch.status = "NONE"
  /\ Begin(w, [op |-> "upload"])
  /\ batch' = [status |-> "STAGING", pendingCount |-> 0]
  /\ UNCHANGED <<row, students, jobs, up, crashes>>

UploadRows(w) ==
  /\ Waiting(w, "upload")
  /\ row' = [r \in Rows |-> "PENDING"]
  /\ Launch("stage")
  /\ End(w)
  /\ UNCHANGED <<batch, students, up, crashes>>

\* resolveRow: check, update by id, then refreshCounts
ResolveRead(w, r, to) ==
  /\ row[r] = "DUPLICATE_PENDING"
  /\ Begin(w, [op |-> "resolve", row |-> r, to |-> to])
  /\ UNCHANGED <<batch, row, students, jobs, up, crashes>>

ResolveWrite(w) ==
  /\ Waiting(w, "resolve")
  /\ row' = [row EXCEPT ![pending[w].row] = pending[w].to]
  /\ Continue(w, [op |-> "refresh"])
  /\ UNCHANGED <<batch, students, jobs, up, crashes>>

RefreshRead(w) ==
  /\ Waiting(w, "refresh")
  /\ Continue(w, [op |-> "count", count |-> DuplicatesPending])
  /\ UNCHANGED <<batch, row, students, jobs, up, crashes>>

\* Mutant: resolving a row puts the batch up for review.
RefreshWriteStatus(w) ==
  /\ Waiting(w, "count")
  /\ batch' = [status |-> "READY_FOR_REVIEW", pendingCount |-> pending[w].count]
  /\ End(w)
  /\ UNCHANGED <<row, students, jobs, up, crashes>>

\* Mutant: one less instead of counting.
RefreshWriteOneLess(w) ==
  /\ Waiting(w, "count")
  /\ batch' = [batch EXCEPT !.pendingCount = @ - 1]
  /\ End(w)
  /\ UNCHANGED <<row, students, jobs, up, crashes>>

RefreshWrite(w) ==
  /\ Waiting(w, "count")
  /\ batch' = [batch EXCEPT !.pendingCount = pending[w].count]
  /\ End(w)
  /\ UNCHANGED <<row, students, jobs, up, crashes>>

\* Mutant: duplicates nobody decided about do not stop the commit.
CommitReadAny(w) ==
  /\ batch.status = "READY_FOR_REVIEW"
  /\ Begin(w, [op |-> "commit"])
  /\ UNCHANGED <<batch, row, students, jobs, up, crashes>>

\* commitStudents: two checks, then the status by id, then a job
CommitRead(w) ==
  /\ batch.status = "READY_FOR_REVIEW"
  /\ DuplicatesPending = 0
  /\ Begin(w, [op |-> "commit"])
  /\ UNCHANGED <<batch, row, students, jobs, up, crashes>>

CommitWrite(w) ==
  /\ Waiting(w, "commit")
  /\ batch' = [batch EXCEPT !.status = "COMMITTING"]
  /\ Launch("commit")
  /\ End(w)
  /\ UNCHANGED <<row, students, up, crashes>>

\* A statement of the request fails; those before it stay.
RequestFails(w) ==
  /\ "request" \in Faults
  /\ w \in DOMAIN pending
  /\ End(w)
  /\ UNCHANGED <<batch, row, students, jobs, up, crashes>>

-----------------------------------------------------------------------------
(* Background jobs *)

InPhase(j, kind, phase) == j \in DOMAIN jobs /\ jobs[j].kind = kind /\ jobs[j].phase = phase

Input(kind) == IF kind = "stage" THEN RowsWith("PENDING") ELSE RowsWith("READY")

Load(j) ==
  /\ \E kind \in {"stage", "commit"} :
       /\ InPhase(j, kind, "load")
       /\ jobs' = [jobs EXCEPT ![j].phase = "rows", ![j].todo = Input(kind)]
  /\ UNCHANGED <<batch, row, students, pending, up, crashes>>

\* The loop goes on to the next row.
Done(j, r) == jobs' = [jobs EXCEPT ![j].phase = "rows", ![j].todo = @ \ {r}, ![j].row = NoRow]

\* stageBatch: a row is invalid, looks like a known student, or is ready
StageRow(j, r) ==
  /\ InPhase(j, "stage", "rows")
  /\ r \in jobs[j].todo
  /\ \E status \in {"ERROR", "DUPLICATE_PENDING", "READY"} : row' = [row EXCEPT ![r] = status]
  /\ Done(j, r)
  /\ UNCHANGED <<batch, students, pending, up, crashes>>

\* commitBatch: StudentsService.create refuses, or the row has become invalid
RefuseRow(j, r) ==
  /\ InPhase(j, "commit", "rows")
  /\ r \in jobs[j].todo
  /\ row' = [row EXCEPT ![r] = "ERROR"]
  /\ Done(j, r)
  /\ UNCHANGED <<batch, students, pending, up, crashes>>

\* StudentsService.create in its own transaction; a student number is unique
CreateStudent(j, r) ==
  /\ InPhase(j, "commit", "rows")
  /\ r \in jobs[j].todo
  /\ r \in Numbered => students[r] = 0
  /\ students' = [students EXCEPT ![r] = @ + 1]
  /\ jobs' = [jobs EXCEPT ![j].phase = "mark", ![j].row = r]
  /\ UNCHANGED <<batch, row, pending, up, crashes>>

\* Mutant: the row keeps its status.
MarkNothing(j, status) ==
  /\ InPhase(j, "commit", "mark")
  /\ status = "ERROR" => "job" \in Faults
  /\ Done(j, jobs[j].row)
  /\ UNCHANGED <<batch, row, students, pending, up, crashes>>

\* Mutant: a row that could not be marked is tried again.
MarkOrRetry(j, status) ==
  /\ InPhase(j, "commit", "mark")
  /\ status = "ERROR" => "job" \in Faults
  /\ IF status = "ERROR"
       THEN jobs' = [jobs EXCEPT ![j].phase = "rows", ![j].row = NoRow] /\ UNCHANGED row
       ELSE row' = [row EXCEPT ![jobs[j].row] = status] /\ Done(j, jobs[j].row)
  /\ UNCHANGED <<batch, students, pending, up, crashes>>

\* The update to CREATED is inside the try: if it fails the row becomes an ERROR.
Mark(j, status) ==
  /\ InPhase(j, "commit", "mark")
  /\ status = "ERROR" => "job" \in Faults
  /\ row' = [row EXCEPT ![jobs[j].row] = status]
  /\ Done(j, jobs[j].row)
  /\ UNCHANGED <<batch, students, pending, up, crashes>>

\* The rows are read again for the counts...
Tally(j) ==
  /\ \E kind \in {"stage", "commit"} : InPhase(j, kind, "rows")
  /\ jobs[j].todo = {}
  /\ jobs' = [jobs EXCEPT ![j].phase = "end", ![j].count = DuplicatesPending]
  /\ UNCHANGED <<batch, row, students, pending, up, crashes>>

\* ... and stored with the status the batch then has.
EndStaging(j) ==
  /\ InPhase(j, "stage", "end")
  /\ batch' = [status |-> "READY_FOR_REVIEW", pendingCount |-> jobs[j].count]
  /\ jobs' = Without(jobs, {j})
  /\ UNCHANGED <<row, students, pending, up, crashes>>

EndCommit(j) ==
  /\ InPhase(j, "commit", "end")
  /\ batch' = [batch EXCEPT !.status = "COMPLETED"]
  /\ jobs' = [jobs EXCEPT ![j].phase = "audit"]
  /\ UNCHANGED <<row, students, pending, up, crashes>>

\* The summary in the audit log; if it fails, the completed batch turns FAILED.
Audit(j) ==
  /\ InPhase(j, "commit", "audit")
  /\ jobs' = Without(jobs, {j})
  /\ UNCHANGED <<batch, row, students, pending, up, crashes>>

\* A statement outside a try fails: markFailed, which ignores its own failure.
JobFails(j) ==
  /\ "job" \in Faults
  /\ j \in DOMAIN jobs
  /\ \/ batch' = [batch EXCEPT !.status = "FAILED"]
     \/ "record" \in Faults /\ UNCHANGED batch
  /\ jobs' = Without(jobs, {j})
  /\ UNCHANGED <<row, students, pending, up, crashes>>

-----------------------------------------------------------------------------
(* The process *)

Crash ==
  /\ "crash" \in Faults
  /\ up /\ crashes < MaxCrashes
  /\ up' = FALSE
  /\ crashes' = crashes + 1
  /\ jobs' = [j \in {} |-> {}]
  /\ pending' = [w \in {} |-> {}]
  /\ UNCHANGED <<batch, row, students>>

KindOf(status) == IF status = "STAGING" THEN "stage" ELSE "commit"

\* Mutant: only staging is resumed.
ResumeStaging ==
  IF batch.status = "STAGING" THEN Launch("stage") /\ UNCHANGED batch ELSE UNCHANGED <<batch, jobs>>

\* A commit is resumed as the uploading user, who may have been deleted since.
Resume ==
  IF batch.status \in {"STAGING", "COMMITTING"}
    THEN \/ Launch(KindOf(batch.status)) /\ UNCHANGED batch
         \/ /\ batch.status = "COMMITTING"
            /\ batch' = [batch EXCEPT !.status = "FAILED"]
            /\ UNCHANGED jobs
    ELSE UNCHANGED <<batch, jobs>>

\* onModuleInit, before the first request is served
Restart ==
  /\ ~ up
  /\ up' = TRUE
  /\ Resume
  /\ UNCHANGED <<row, students, pending, crashes>>

-----------------------------------------------------------------------------
(* The specification *)

Init ==
  /\ batch    = [status |-> "NONE", pendingCount |-> 0]
  /\ row      = [r \in Rows |-> "NONE"]
  /\ students = [r \in Rows |-> 0]
  /\ jobs     = [j \in {} |-> {}]
  /\ pending  = [w \in {} |-> {}]
  /\ up       = TRUE
  /\ crashes  = 0

\* What a client asks for, and what the server then does without being asked.
Call(w) ==
  \/ UploadBatch(w)
  \/ \E r \in Rows, to \in {"READY", "SKIPPED"} : ResolveRead(w, r, to)
  \/ CommitRead(w)

Serve(w) ==
  \/ UploadRows(w)
  \/ ResolveWrite(w)
  \/ RefreshRead(w)
  \/ RefreshWrite(w)
  \/ CommitWrite(w)

Work(j) ==
  \/ Load(j)
  \/ \E r \in Rows : StageRow(j, r) \/ RefuseRow(j, r) \/ CreateStudent(j, r)
  \/ \E status \in {"CREATED", "ERROR"} : Mark(j, status)
  \/ Tally(j)
  \/ EndStaging(j)
  \/ EndCommit(j)
  \/ Audit(j)

Next ==
  \/ \E w \in Workers : Call(w) \/ Serve(w) \/ RequestFails(w)
  \/ \E j \in Jobs : Work(j) \/ JobFails(j)
  \/ Crash
  \/ Restart

Spec == Init /\ [][Next]_vars

\* A request in progress and a job go on by themselves, in a process that is
\* restarted when it dies.  Clients owe nothing.
Fairness ==
  /\ \A w \in Workers : WF_vars(Serve(w))
  /\ \A j \in Jobs : WF_vars(Work(j))
  /\ WF_vars(Restart)

FairSpec == Spec /\ Fairness

=============================================================================
