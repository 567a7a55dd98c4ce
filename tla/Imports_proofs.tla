--------------------------- MODULE Imports_proofs ---------------------------
(***************************************************************************)
(* An import writes no student before it is committed and commits no row   *)
(* that nobody has decided about: for any number of rows, overlapping      *)
(* requests, background jobs, failures and deaths of the process. When     *)
(* requests do not overlap, every row is created once in each life of the  *)
(* process, and what its row says of it is true.                           *)
(***************************************************************************)
EXTENDS ImportsProperties, FiniteSetTheorems, TLAPS

\* The states a batch has once it was committed, or has failed.
Begun == {"COMMITTING", "COMPLETED", "FAILED"}

\* Every row was checked and every duplicate decided about.
Decided == \A r \in Rows : row[r] \notin {"PENDING", "DUPLICATE_PENDING"}

Checked == \A r \in Rows : row[r] # "PENDING"

\* While an upload stores the rows nothing else happens to the batch, and a
\* commit that has passed its checks finds nothing undecided later.
PendingOK(w) ==
  /\ pending[w].op = "upload" =>
       /\ batch.status = "STAGING" /\ DOMAIN jobs = {}
       /\ \A v \in DOMAIN pending : pending[v].op = "upload" => v = w
  /\ pending[w].op = "commit" => batch.status \in Begun \cup {"READY_FOR_REVIEW"} /\ Decided

\* A staging job is alone and knows every row that is still unchecked.
JobOK(j) ==
  /\ jobs[j].kind = "stage" =>
       /\ batch.status = "STAGING" /\ DOMAIN jobs = {j}
       /\ jobs[j].phase = "rows" => \A r \in Rows : row[r] = "PENDING" => r \in jobs[j].todo
       /\ jobs[j].phase = "end" => Checked
  /\ jobs[j].kind = "commit" => batch.status \in Begun /\ Decided

BatchOK ==
  /\ batch.status \notin Begun => \A r \in Rows : students[r] = 0
  /\ batch.status \in {"COMMITTING", "COMPLETED"} => Decided
  /\ batch.status = "READY_FOR_REVIEW" => Checked
  /\ ~ up => DOMAIN jobs = {} /\ DOMAIN pending = {}

IInv ==
  /\ TypeOK
  /\ \A w \in DOMAIN pending : PendingOK(w)
  /\ \A j \in DOMAIN jobs : JobOK(j)
  /\ BatchOK

-----------------------------------------------------------------------------
(* Requests and jobs as tables *)

LEMMA NoDuplicates ==
  DuplicatesPending \in Nat
    /\ (DuplicatesPending = 0 => \A r \in Rows : row[r] # "DUPLICATE_PENDING")
<1>1. RowsWith("DUPLICATE_PENDING") \subseteq Rows
  BY DEF RowsWith
<1>2. IsFiniteSet(RowsWith("DUPLICATE_PENDING"))
  BY <1>1, FS_Subset, RowsAssumption
<1>3. DuplicatesPending \in Nat
  BY <1>2, FS_CardinalityType DEF DuplicatesPending
<1>4. DuplicatesPending = 0 => RowsWith("DUPLICATE_PENDING") = {}
  BY <1>2, FS_EmptySet DEF DuplicatesPending
<1> QED BY <1>3, <1>4 DEF RowsWith

LEMMA BeginAdds ==
  ASSUME TypeOK, NEW w \in Workers, NEW q \in Request, Begin(w, q)
  PROVE  /\ up /\ w \notin DOMAIN pending
         /\ DOMAIN pending' = DOMAIN pending \cup {w} /\ pending'[w] = q
         /\ \A v \in DOMAIN pending : pending'[v] = pending[v]
         /\ pending' \in [DOMAIN pending' -> Request] /\ DOMAIN pending' \subseteq Workers
BY DEF TypeOK, Begin, Upsert, OneRow

LEMMA EndRemoves ==
  ASSUME TypeOK, NEW w, End(w)
  PROVE  /\ DOMAIN pending' = DOMAIN pending \ {w}
         /\ \A v \in DOMAIN pending' : pending'[v] = pending[v]
         /\ pending' \in [DOMAIN pending' -> Request] /\ DOMAIN pending' \subseteq Workers
BY DEF TypeOK, End, Without

LEMMA ContinueReplaces ==
  ASSUME TypeOK, NEW w \in DOMAIN pending, NEW q \in Request, Continue(w, q)
  PROVE  /\ DOMAIN pending' = DOMAIN pending /\ pending'[w] = q
         /\ \A v \in DOMAIN pending : v # w => pending'[v] = pending[v]
         /\ pending' \in [DOMAIN pending' -> Request] /\ DOMAIN pending' \subseteq Workers
BY DEF TypeOK, Continue

LEMMA LaunchAdds ==
  ASSUME TypeOK, NEW kind \in {"stage", "commit"}, Launch(kind)
  PROVE  \E j \in Jobs \ DOMAIN jobs :
           /\ DOMAIN jobs' = DOMAIN jobs \cup {j}
           /\ jobs'[j].kind = kind /\ jobs'[j].phase = "load"
           /\ \A i \in DOMAIN jobs : jobs'[i] = jobs[i]
           /\ jobs' \in [DOMAIN jobs' -> Job] /\ DOMAIN jobs' \subseteq Jobs
<1>1. PICK j \in Jobs \ DOMAIN jobs : jobs' = Upsert(jobs, OneRow(j, NewJob(kind)))
  BY DEF Launch
<1>2. NewJob(kind) \in Job /\ NewJob(kind).kind = kind /\ NewJob(kind).phase = "load"
  BY DEF NewJob, Job
<1> QED BY <1>1, <1>2 DEF TypeOK, Upsert, OneRow

-----------------------------------------------------------------------------
(* One lemma per operation *)

LEMMA InitHolds == Init => IInv
<1> SUFFICES ASSUME Init PROVE IInv
  OBVIOUS
<1>1. TypeOK
  BY FaultsAssumption DEF Init, TypeOK, BatchStatus, RowStatus
<1> QED BY <1>1 DEF Init, IInv, PendingOK, JobOK, BatchOK, Begun

LEMMA UploadBatchKeeps ==
  ASSUME IInv, NEW w \in Workers, UploadBatch(w)
  PROVE  IInv'
<1>1. TypeOK /\ batch.status = "NONE" /\ batch'.status = "STAGING"
  BY DEF IInv, UploadBatch
<1>2. [op |-> "upload"] \in Request
  BY DEF Request
<1>3. /\ up /\ DOMAIN pending' = DOMAIN pending \cup {w} /\ pending'[w] = [op |-> "upload"]
      /\ \A v \in DOMAIN pending : pending'[v] = pending[v]
      /\ pending' \in [DOMAIN pending' -> Request] /\ DOMAIN pending' \subseteq Workers
  BY <1>1, <1>2, BeginAdds DEF UploadBatch
<1>4. TypeOK'
  BY <1>1, <1>3 DEF TypeOK, UploadBatch, BatchStatus
<1>5. DOMAIN jobs = {}
  BY <1>1 DEF IInv, JobOK, Begun, TypeOK, Job
<1>6. \A v \in DOMAIN pending : pending[v].op \notin {"upload", "commit"}
  BY <1>1 DEF IInv, PendingOK, Begun
<1>7. \A v \in DOMAIN pending' : PendingOK(v)'
  BY <1>1, <1>3, <1>5, <1>6 DEF PendingOK, UploadBatch
<1>8. BatchOK'
  BY <1>1, <1>3 DEF IInv, BatchOK, UploadBatch, Begun
<1> QED BY <1>4, <1>5, <1>7, <1>8 DEF IInv, UploadBatch

LEMMA UploadRowsKeeps ==
  ASSUME IInv, NEW w, UploadRows(w)
  PROVE  IInv'
<1>1. /\ TypeOK /\ w \in DOMAIN pending /\ pending[w].op = "upload" /\ up
      /\ batch.status = "STAGING" /\ DOMAIN jobs = {}
      /\ \A v \in DOMAIN pending : v # w => pending[v].op \notin {"upload", "commit"}
  BY DEF IInv, UploadRows, Waiting, PendingOK, BatchOK, Begun, TypeOK
<1>2. /\ DOMAIN pending' = DOMAIN pending \ {w}
      /\ \A v \in DOMAIN pending' : pending'[v] = pending[v]
      /\ pending' \in [DOMAIN pending' -> Request] /\ DOMAIN pending' \subseteq Workers
  BY <1>1, EndRemoves DEF UploadRows
<1>3. PICK j \in Jobs \ DOMAIN jobs :
        /\ DOMAIN jobs' = DOMAIN jobs \cup {j}
        /\ jobs'[j].kind = "stage" /\ jobs'[j].phase = "load"
        /\ \A i \in DOMAIN jobs : jobs'[i] = jobs[i]
        /\ jobs' \in [DOMAIN jobs' -> Job] /\ DOMAIN jobs' \subseteq Jobs
  BY <1>1, LaunchAdds DEF UploadRows
<1>4. TypeOK'
  BY <1>1, <1>2, <1>3 DEF TypeOK, UploadRows, RowStatus
<1>5. \A v \in DOMAIN pending' : PendingOK(v)'
  BY <1>1, <1>2 DEF PendingOK
<1>6. \A i \in DOMAIN jobs' : JobOK(i)'
  BY <1>1, <1>3 DEF JobOK, UploadRows
<1>7. BatchOK'
  BY <1>1 DEF IInv, BatchOK, UploadRows, Begun
<1> QED BY <1>4, <1>5, <1>6, <1>7 DEF IInv

LEMMA ResolveReadKeeps ==
  ASSUME IInv, NEW w \in Workers, NEW r \in Rows, NEW to \in {"READY", "SKIPPED"},
         ResolveRead(w, r, to)
  PROVE  IInv'
<1> DEFINE q == [op |-> "resolve", row |-> r, to |-> to]
<1>1. TypeOK /\ q \in Request /\ q.op = "resolve"
  BY DEF IInv, Request
<1>2. /\ up /\ DOMAIN pending' = DOMAIN pending \cup {w} /\ pending'[w].op = "resolve"
      /\ \A v \in DOMAIN pending : pending'[v] = pending[v]
      /\ pending' \in [DOMAIN pending' -> Request] /\ DOMAIN pending' \subseteq Workers
  BY <1>1, BeginAdds DEF ResolveRead
<1>3. TypeOK'
  BY <1>1, <1>2 DEF TypeOK, ResolveRead
<1>4. \A v \in DOMAIN pending' : PendingOK(v)'
  BY <1>2 DEF IInv, PendingOK, ResolveRead, Decided
<1> QED BY <1>2, <1>3, <1>4 DEF IInv, JobOK, BatchOK, ResolveRead, Decided, Checked

LEMMA ResolveWriteKeeps ==
  ASSUME IInv, NEW w, ResolveWrite(w)
  PROVE  IInv'
<1> DEFINE q == [op |-> "refresh"]
<1>1. /\ TypeOK /\ q \in Request /\ q.op = "refresh"
      /\ w \in DOMAIN pending /\ pending[w].op = "resolve"
      /\ pending[w].row \in Rows /\ pending[w].to \in {"READY", "SKIPPED"}
  BY DEF IInv, TypeOK, Request, ResolveWrite, Waiting
<1>2. /\ DOMAIN pending' = DOMAIN pending /\ pending'[w].op = "refresh"
      /\ \A v \in DOMAIN pending : v # w => pending'[v] = pending[v]
      /\ pending' \in [DOMAIN pending' -> Request] /\ DOMAIN pending' \subseteq Workers
  BY <1>1, ContinueReplaces DEF ResolveWrite
<1>3. \A x \in Rows : row'[x] = row[x] \/ row'[x] \in {"READY", "SKIPPED"}
  BY <1>1 DEF ResolveWrite, TypeOK
<1>4. TypeOK'
  BY <1>1, <1>2 DEF TypeOK, ResolveWrite, RowStatus
<1>5. \A v \in DOMAIN pending' : PendingOK(v)'
  BY <1>2, <1>3 DEF IInv, PendingOK, ResolveWrite, Decided
<1>6. \A j \in DOMAIN jobs' : JobOK(j)'
  BY <1>3 DEF IInv, JobOK, ResolveWrite, Decided, Checked
<1>7. BatchOK'
  BY <1>2, <1>3 DEF IInv, BatchOK, ResolveWrite, Decided, Checked
<1> QED BY <1>4, <1>5, <1>6, <1>7 DEF IInv

LEMMA RefreshReadKeeps ==
  ASSUME IInv, NEW w, RefreshRead(w)
  PROVE  IInv'
<1> DEFINE q == [op |-> "count", count |-> DuplicatesPending]
<1>1. TypeOK /\ q \in Request /\ q.op = "count" /\ w \in DOMAIN pending
  BY NoDuplicates DEF IInv, Request, RefreshRead, Waiting
<1>2. /\ DOMAIN pending' = DOMAIN pending /\ pending'[w].op = "count"
      /\ \A v \in DOMAIN pending : v # w => pending'[v] = pending[v]
      /\ pending' \in [DOMAIN pending' -> Request] /\ DOMAIN pending' \subseteq Workers
  BY <1>1, ContinueReplaces DEF RefreshRead
<1>3. TypeOK'
  BY <1>1, <1>2 DEF TypeOK, RefreshRead
<1>4. \A v \in DOMAIN pending' : PendingOK(v)'
  BY <1>2 DEF IInv, PendingOK, RefreshRead, Decided
<1> QED BY <1>2, <1>3, <1>4 DEF IInv, JobOK, BatchOK, RefreshRead, Decided, Checked

LEMMA RefreshWriteKeeps ==
  ASSUME IInv, NEW w, RefreshWrite(w)
  PROVE  IInv'
<1>1. /\ TypeOK /\ w \in DOMAIN pending /\ pending[w].count \in Nat
      /\ batch'.status = batch.status
  BY DEF IInv, TypeOK, Request, RefreshWrite, Waiting
<1>2. /\ DOMAIN pending' = DOMAIN pending \ {w}
      /\ \A v \in DOMAIN pending' : pending'[v] = pending[v]
      /\ pending' \in [DOMAIN pending' -> Request] /\ DOMAIN pending' \subseteq Workers
  BY <1>1, EndRemoves DEF RefreshWrite
<1>3. TypeOK'
  BY <1>1, <1>2 DEF TypeOK, RefreshWrite
<1>4. \A v \in DOMAIN pending' : PendingOK(v)'
  BY <1>1, <1>2 DEF IInv, PendingOK, RefreshWrite, Decided
<1> QED BY <1>1, <1>2, <1>3, <1>4 DEF IInv, JobOK, BatchOK, RefreshWrite, Decided, Checked

LEMMA CommitReadKeeps ==
  ASSUME IInv, NEW w \in Workers, CommitRead(w)
  PROVE  IInv'
<1>1. TypeOK /\ [op |-> "commit"] \in Request /\ batch.status = "READY_FOR_REVIEW"
  BY DEF IInv, Request, CommitRead
<1>2. Decided
  BY <1>1, NoDuplicates DEF IInv, BatchOK, CommitRead, Checked, Decided
<1>3. /\ up /\ DOMAIN pending' = DOMAIN pending \cup {w} /\ pending'[w] = [op |-> "commit"]
      /\ \A v \in DOMAIN pending : pending'[v] = pending[v]
      /\ pending' \in [DOMAIN pending' -> Request] /\ DOMAIN pending' \subseteq Workers
  BY <1>1, BeginAdds DEF CommitRead
<1>4. TypeOK'
  BY <1>1, <1>3 DEF TypeOK, CommitRead
<1>5. \A v \in DOMAIN pending' : PendingOK(v)'
  BY <1>1, <1>2, <1>3 DEF IInv, PendingOK, CommitRead, Decided
<1> QED BY <1>3, <1>4, <1>5 DEF IInv, JobOK, BatchOK, CommitRead, Decided, Checked

LEMMA CommitWriteKeeps ==
  ASSUME IInv, NEW w, CommitWrite(w)
  PROVE  IInv'
<1>1. /\ TypeOK /\ w \in DOMAIN pending /\ up /\ Decided
      /\ batch.status \in Begun \cup {"READY_FOR_REVIEW"} /\ batch'.status = "COMMITTING"
  BY DEF IInv, CommitWrite, Waiting, PendingOK, BatchOK, TypeOK
<1>2. /\ DOMAIN pending' = DOMAIN pending \ {w}
      /\ \A v \in DOMAIN pending' : pending'[v] = pending[v]
      /\ pending' \in [DOMAIN pending' -> Request] /\ DOMAIN pending' \subseteq Workers
  BY <1>1, EndRemoves DEF CommitWrite
<1>3. PICK j \in Jobs \ DOMAIN jobs :
        /\ DOMAIN jobs' = DOMAIN jobs \cup {j}
        /\ jobs'[j].kind = "commit"
        /\ \A i \in DOMAIN jobs : jobs'[i] = jobs[i]
        /\ jobs' \in [DOMAIN jobs' -> Job] /\ DOMAIN jobs' \subseteq Jobs
  BY <1>1, LaunchAdds DEF CommitWrite
<1>4. TypeOK'
  BY <1>1, <1>2, <1>3 DEF TypeOK, CommitWrite, BatchStatus
<1>5. /\ \A v \in DOMAIN pending : pending[v].op # "upload"
      /\ \A i \in DOMAIN jobs : jobs[i].kind # "stage"
  BY <1>1 DEF IInv, PendingOK, JobOK, Begun
<1>6. \A v \in DOMAIN pending' : PendingOK(v)'
  BY <1>1, <1>2, <1>5 DEF PendingOK, CommitWrite, Begun, Decided
<1>7. \A i \in DOMAIN jobs' : JobOK(i)'
  BY <1>1, <1>3, <1>5 DEF JobOK, CommitWrite, Begun, Decided
<1>8. BatchOK'
  BY <1>1 DEF BatchOK, CommitWrite, Begun, Decided
<1> QED BY <1>4, <1>6, <1>7, <1>8 DEF IInv

LEMMA RequestFailsKeeps ==
  ASSUME IInv, NEW w, RequestFails(w)
  PROVE  IInv'
<1>1. /\ DOMAIN pending' = DOMAIN pending \ {w}
      /\ \A v \in DOMAIN pending' : pending'[v] = pending[v]
      /\ pending' \in [DOMAIN pending' -> Request] /\ DOMAIN pending' \subseteq Workers
  BY EndRemoves DEF RequestFails, IInv
<1>2. TypeOK'
  BY <1>1 DEF IInv, TypeOK, RequestFails
<1>3. \A v \in DOMAIN pending' : PendingOK(v)'
  BY <1>1 DEF IInv, PendingOK, RequestFails, Decided
<1> QED BY <1>1, <1>2, <1>3 DEF IInv, JobOK, BatchOK, RequestFails, Decided, Checked

-----------------------------------------------------------------------------
(* The steps of a job *)

\* A job in progress, and what is then true.
LEMMA JobFacts ==
  ASSUME IInv, NEW j \in DOMAIN jobs
  PROVE  /\ TypeOK /\ jobs[j] \in Job /\ j \in Jobs /\ up
         /\ jobs[j].kind = "stage" => /\ batch.status = "STAGING" /\ DOMAIN jobs = {j}
                                      /\ \A v \in DOMAIN pending : pending[v].op \notin {"upload", "commit"}
         /\ jobs[j].kind = "commit" => /\ batch.status \in Begun /\ Decided
                                       /\ \A v \in DOMAIN pending : pending[v].op # "upload"
                                       /\ \A i \in DOMAIN jobs : jobs[i].kind = "commit"
<1>1. TypeOK /\ jobs[j] \in Job /\ j \in Jobs /\ up
  BY DEF IInv, TypeOK, BatchOK
<1>2. \A v \in DOMAIN pending : pending[v].op # "upload"
  BY DEF IInv, PendingOK
<1>3. JobOK(j) /\ \A i \in DOMAIN jobs : JobOK(i) /\ jobs[i].kind \in {"stage", "commit"}
  BY <1>1 DEF IInv, TypeOK, Job
<1> QED BY <1>1, <1>2, <1>3 DEF IInv, JobOK, PendingOK, Begun

\* A step that moves job j on and leaves the status of the batch and the
\* requests alone keeps the invariant, if job j and the rows stay in order.
LEMMA WorkKeeps ==
  ASSUME IInv, NEW j \in DOMAIN jobs, NEW job \in Job,
         jobs' = [jobs EXCEPT ![j] = job], job.kind = jobs[j].kind,
         row' \in [Rows -> RowStatus], students' \in [Rows -> Nat],
         job.kind = "commit" => Decided',
         job.kind = "stage" => JobOK(j)',
         job.kind = "stage" => students' = students,
         UNCHANGED <<batch, pending, up, crashes>>
  PROVE  IInv'
<1>1. /\ TypeOK /\ jobs[j].kind \in {"stage", "commit"}
      /\ jobs[j].kind = "stage" => /\ batch.status = "STAGING" /\ DOMAIN jobs = {j}
                                   /\ \A v \in DOMAIN pending : pending[v].op \notin {"upload", "commit"}
      /\ jobs[j].kind = "commit" => /\ batch.status \in Begun
                                    /\ \A v \in DOMAIN pending : pending[v].op # "upload"
                                    /\ \A i \in DOMAIN jobs : jobs[i].kind = "commit"
  BY JobFacts DEF Job
<1>2. /\ DOMAIN jobs' = DOMAIN jobs /\ jobs'[j] = job /\ jobs' \in [DOMAIN jobs' -> Job]
      /\ \A i \in DOMAIN jobs : i # j => jobs'[i] = jobs[i]
  BY <1>1 DEF TypeOK
<1>3. TypeOK'
  BY <1>1, <1>2 DEF TypeOK
<1>4. CASE jobs[j].kind = "stage"
  <2>1. \A v \in DOMAIN pending' : PendingOK(v)'
    BY <1>1, <1>4 DEF PendingOK
  <2>2. \A i \in DOMAIN jobs' : JobOK(i)'
    BY <1>1, <1>2, <1>4
  <2>3. BatchOK'
    BY <1>1, <1>2, <1>4 DEF IInv, BatchOK, Begun
  <2> QED BY <1>3, <2>1, <2>2, <2>3 DEF IInv
<1>5. CASE jobs[j].kind = "commit"
  <2>1. \A v \in DOMAIN pending' : PendingOK(v)'
    BY <1>1, <1>5 DEF IInv, PendingOK
  <2>2. \A i \in DOMAIN jobs' : JobOK(i)'
    BY <1>1, <1>2, <1>5 DEF JobOK
  <2>3. BatchOK'
    BY <1>1, <1>2, <1>5 DEF IInv, BatchOK, Begun
  <2> QED BY <1>3, <2>1, <2>2, <2>3 DEF IInv
<1> QED BY <1>1, <1>4, <1>5

LEMMA LoadKeeps ==
  ASSUME IInv, NEW j, Load(j)
  PROVE  IInv'
<1>1. PICK kind \in {"stage", "commit"} :
        /\ j \in DOMAIN jobs /\ jobs[j].kind = kind
        /\ jobs' = [jobs EXCEPT ![j].phase = "rows", ![j].todo = Input(kind)]
  BY DEF Load, InPhase
<1> DEFINE job == [jobs[j] EXCEPT !.phase = "rows", !.todo = Input(kind)]
<1>2. /\ jobs[j] \in Job /\ Input(kind) \in SUBSET Rows /\ jobs \in [DOMAIN jobs -> Job]
      /\ kind = "stage" => batch.status = "STAGING" /\ DOMAIN jobs = {j}
      /\ kind = "commit" => Decided
  BY <1>1, JobFacts DEF Input, RowsWith, TypeOK
<1>3. job \in Job /\ job.kind = kind /\ job.phase = "rows" /\ job.todo = Input(kind)
  BY <1>1, <1>2 DEF Job
<1>4. jobs' = [jobs EXCEPT ![j] = job]
  BY <1>1
<1>5. UNCHANGED <<batch, row, students, pending, up, crashes>>
  BY DEF Load
<1> HIDE DEF job
<1>6. kind = "stage" => JobOK(j)'
  <2>1. jobs'[j] = job /\ DOMAIN jobs' = DOMAIN jobs
    BY <1>1, <1>2, <1>4
  <2> QED BY <1>2, <1>3, <1>5, <2>1 DEF JobOK, Input, RowsWith
<1>7. row' \in [Rows -> RowStatus] /\ students' \in [Rows -> Nat] /\ (kind = "commit" => Decided')
  BY <1>2, <1>5 DEF IInv, TypeOK, Decided
<1>8. j \in DOMAIN jobs /\ job.kind = jobs[j].kind /\ students' = students
  BY <1>1, <1>3, <1>5
<1> QED BY <1>3, <1>4, <1>5, <1>6, <1>7, <1>8, WorkKeeps

\* The record a job is after row r.
LEMMA DoneJob ==
  ASSUME TypeOK, NEW j \in DOMAIN jobs, NEW r, Done(j, r)
  PROVE  \E job \in Job : /\ jobs' = [jobs EXCEPT ![j] = job]
                          /\ job.kind = jobs[j].kind /\ job.phase = "rows"
                          /\ job.todo = jobs[j].todo \ {r}
<1> DEFINE job == [jobs[j] EXCEPT !.phase = "rows", !.todo = @ \ {r}, !.row = NoRow]
<1>1. jobs[j] \in Job
  BY DEF TypeOK
<1>2. job \in Job /\ job.kind = jobs[j].kind /\ job.phase = "rows" /\ job.todo = jobs[j].todo \ {r}
  BY <1>1 DEF Job
<1>3. jobs' = [jobs EXCEPT ![j] = job]
  BY DEF Done
<1> QED BY <1>2, <1>3

LEMMA StageRowKeeps ==
  ASSUME IInv, NEW j, NEW r \in Rows, StageRow(j, r)
  PROVE  IInv'
<1>1. /\ j \in DOMAIN jobs /\ jobs[j].kind = "stage" /\ jobs[j].phase = "rows"
      /\ Done(j, r) /\ UNCHANGED <<batch, students, pending, up, crashes>>
  BY DEF StageRow, InPhase
<1>2. PICK status \in {"ERROR", "DUPLICATE_PENDING", "READY"} : row' = [row EXCEPT ![r] = status]
  BY DEF StageRow
<1>3. /\ TypeOK /\ batch.status = "STAGING" /\ DOMAIN jobs = {j}
      /\ \A x \in Rows : row[x] = "PENDING" => x \in jobs[j].todo
  BY <1>1, JobFacts DEF IInv, JobOK
<1>4. PICK job \in Job : /\ jobs' = [jobs EXCEPT ![j] = job]
                         /\ job.kind = "stage" /\ job.phase = "rows"
                         /\ job.todo = jobs[j].todo \ {r}
  BY <1>1, <1>3, DoneJob
<1>5. /\ row' \in [Rows -> RowStatus] /\ students' \in [Rows -> Nat]
      /\ row'[r] # "PENDING" /\ \A x \in Rows : x # r => row'[x] = row[x]
  BY <1>1, <1>2, <1>3 DEF TypeOK, RowStatus
<1>6. JobOK(j)'
  <2>1. jobs'[j] = job /\ DOMAIN jobs' = {j}
    BY <1>1, <1>3, <1>4 DEF TypeOK
  <2> QED BY <1>1, <1>3, <1>4, <1>5, <2>1 DEF JobOK
<1> QED BY <1>1, <1>4, <1>5, <1>6, WorkKeeps

\* A commit job that gives a row an outcome.
LEMMA OutcomeKeeps ==
  ASSUME IInv, NEW j \in DOMAIN jobs, jobs[j].kind = "commit",
         NEW r, NEW status \in {"CREATED", "ERROR"},
         row' = [row EXCEPT ![r] = status], Done(j, r),
         UNCHANGED <<batch, students, pending, up, crashes>>
  PROVE  IInv'
<1>1. TypeOK /\ Decided
  BY JobFacts
<1>2. PICK job \in Job : jobs' = [jobs EXCEPT ![j] = job] /\ job.kind = "commit"
  BY <1>1, DoneJob
<1>3. row' \in [Rows -> RowStatus] /\ students' \in [Rows -> Nat] /\ Decided'
  BY <1>1 DEF TypeOK, RowStatus, Decided
<1> QED BY <1>2, <1>3, WorkKeeps

LEMMA RefuseRowKeeps ==
  ASSUME IInv, NEW j, NEW r \in Rows, RefuseRow(j, r)
  PROVE  IInv'
BY OutcomeKeeps DEF RefuseRow, InPhase

LEMMA MarkKeeps ==
  ASSUME IInv, NEW j, NEW status \in {"CREATED", "ERROR"}, Mark(j, status)
  PROVE  IInv'
BY OutcomeKeeps DEF Mark, InPhase

LEMMA CreateStudentKeeps ==
  ASSUME IInv, NEW j, NEW r \in Rows, CreateStudent(j, r)
  PROVE  IInv'
<1> DEFINE job == [jobs[j] EXCEPT !.phase = "mark", !.row = r]
<1>1. /\ j \in DOMAIN jobs /\ jobs[j].kind = "commit"
      /\ UNCHANGED <<batch, row, pending, up, crashes>>
  BY DEF CreateStudent, InPhase
<1>2. TypeOK /\ Decided /\ jobs[j] \in Job
  BY <1>1, JobFacts
<1>3. job \in Job /\ job.kind = "commit"
  BY <1>1, <1>2 DEF Job
<1>4. jobs' = [jobs EXCEPT ![j] = job]
  BY DEF CreateStudent
<1> HIDE DEF job
<1>5. row' \in [Rows -> RowStatus] /\ students' \in [Rows -> Nat] /\ Decided'
  BY <1>1, <1>2 DEF TypeOK, CreateStudent, Decided
<1> QED BY <1>1, <1>3, <1>4, <1>5, WorkKeeps

LEMMA TallyKeeps ==
  ASSUME IInv, NEW j, Tally(j)
  PROVE  IInv'
<1> DEFINE job == [jobs[j] EXCEPT !.phase = "end", !.count = DuplicatesPending]
<1>1. /\ j \in DOMAIN jobs /\ jobs[j].phase = "rows" /\ jobs[j].todo = {}
      /\ UNCHANGED <<batch, row, students, pending, up, crashes>>
  BY DEF Tally, InPhase
<1>2. TypeOK /\ jobs[j] \in Job /\ (jobs[j].kind = "commit" => Decided)
  BY <1>1, JobFacts
<1>3. job \in Job /\ job.kind = jobs[j].kind /\ job.phase = "end"
  BY <1>2, NoDuplicates DEF Job
<1>4. jobs' = [jobs EXCEPT ![j] = job]
  BY DEF Tally
<1> HIDE DEF job
<1>5. row' \in [Rows -> RowStatus] /\ students' \in [Rows -> Nat]
  BY <1>1, <1>2 DEF TypeOK
<1>6. job.kind = "stage" => JobOK(j)'
  <2>1. jobs'[j] = job /\ DOMAIN jobs' = DOMAIN jobs
    BY <1>1, <1>2, <1>4 DEF TypeOK
  <2>2. JobOK(j)
    BY <1>1 DEF IInv
  <2> QED BY <1>1, <1>3, <2>1, <2>2 DEF JobOK, Checked
<1> QED BY <1>1, <1>2, <1>3, <1>4, <1>5, <1>6, WorkKeeps DEF Decided

LEMMA Removed ==
  ASSUME TypeOK, NEW j, jobs' = Without(jobs, {j})
  PROVE  /\ DOMAIN jobs' = DOMAIN jobs \ {j}
         /\ \A i \in DOMAIN jobs' : jobs'[i] = jobs[i]
         /\ jobs' \in [DOMAIN jobs' -> Job] /\ DOMAIN jobs' \subseteq Jobs
BY DEF TypeOK, Without

LEMMA EndStagingKeeps ==
  ASSUME IInv, NEW j, EndStaging(j)
  PROVE  IInv'
<1>1. /\ j \in DOMAIN jobs /\ jobs[j].kind = "stage" /\ jobs[j].phase = "end"
      /\ batch' = [status |-> "READY_FOR_REVIEW", pendingCount |-> jobs[j].count]
      /\ jobs' = Without(jobs, {j}) /\ UNCHANGED <<row, students, pending, up, crashes>>
  BY DEF EndStaging, InPhase
<1>2. /\ TypeOK /\ jobs[j] \in Job /\ batch.status = "STAGING" /\ DOMAIN jobs = {j} /\ up
      /\ \A v \in DOMAIN pending : pending[v].op \notin {"upload", "commit"}
  BY <1>1, JobFacts
<1>3. Checked
  BY <1>1 DEF IInv, JobOK
<1>4. DOMAIN jobs' = {} /\ jobs' \in [DOMAIN jobs' -> Job]
  BY <1>1, <1>2, Removed
<1>5. TypeOK'
  BY <1>1, <1>2, <1>4 DEF TypeOK, BatchStatus, Job
<1>6. \A v \in DOMAIN pending' : PendingOK(v)'
  BY <1>1, <1>2 DEF PendingOK
<1>7. BatchOK'
  BY <1>1, <1>2, <1>3 DEF IInv, BatchOK, Begun, Checked
<1> QED BY <1>4, <1>5, <1>6, <1>7 DEF IInv

LEMMA EndCommitKeeps ==
  ASSUME IInv, NEW j, EndCommit(j)
  PROVE  IInv'
<1> DEFINE job == [jobs[j] EXCEPT !.phase = "audit"]
<1>1. /\ j \in DOMAIN jobs /\ jobs[j].kind = "commit"
      /\ batch' = [batch EXCEPT !.status = "COMPLETED"]
      /\ jobs' = [jobs EXCEPT ![j] = job] /\ UNCHANGED <<row, students, pending, up, crashes>>
  BY DEF EndCommit, InPhase
<1>2. /\ TypeOK /\ jobs[j] \in Job /\ Decided /\ up
      /\ \A v \in DOMAIN pending : pending[v].op # "upload"
      /\ \A i \in DOMAIN jobs : jobs[i].kind = "commit"
  BY <1>1, JobFacts
<1>3. job \in Job /\ job.kind = "commit"
  BY <1>1, <1>2 DEF Job
<1> HIDE DEF job
<1>4. /\ DOMAIN jobs' = DOMAIN jobs /\ jobs' \in [DOMAIN jobs' -> Job]
      /\ \A i \in DOMAIN jobs' : jobs'[i].kind = "commit"
  BY <1>1, <1>2, <1>3 DEF TypeOK
<1>5. TypeOK' /\ batch'.status = "COMPLETED"
  BY <1>1, <1>2, <1>4 DEF TypeOK, BatchStatus
<1>6. \A v \in DOMAIN pending' : PendingOK(v)'
  BY <1>1, <1>2, <1>5 DEF PendingOK, Begun, Decided
<1>7. \A i \in DOMAIN jobs' : JobOK(i)'
  BY <1>1, <1>2, <1>4, <1>5 DEF JobOK, Begun, Decided
<1>8. BatchOK'
  BY <1>1, <1>2, <1>5 DEF BatchOK, Begun, Decided
<1> QED BY <1>5, <1>6, <1>7, <1>8 DEF IInv

\* The record is written, or it fails and nobody learns of it: the job is gone.
LEMMA AuditKeeps ==
  ASSUME IInv, NEW j, Audit(j)
  PROVE  IInv'
<1>1. /\ j \in DOMAIN jobs /\ jobs[j].kind = "commit"
      /\ jobs' = Without(jobs, {j}) /\ UNCHANGED <<batch, row, students, pending, up, crashes>>
  BY DEF Audit, InPhase
<1>2. /\ TypeOK /\ Decided /\ up /\ batch.status \in Begun
      /\ \A v \in DOMAIN pending : pending[v].op # "upload"
      /\ \A i \in DOMAIN jobs : jobs[i].kind = "commit"
  BY <1>1, JobFacts
<1>3. /\ \A i \in DOMAIN jobs' : i \in DOMAIN jobs /\ jobs'[i] = jobs[i]
      /\ jobs' \in [DOMAIN jobs' -> Job] /\ DOMAIN jobs' \subseteq Jobs
  BY <1>1, <1>2, Removed
<1>4. TypeOK'
  BY <1>1, <1>2, <1>3 DEF TypeOK
<1>5. \A v \in DOMAIN pending' : PendingOK(v)'
  BY <1>1, <1>2 DEF PendingOK, Begun, Decided
<1>6. \A i \in DOMAIN jobs' : JobOK(i)'
  BY <1>1, <1>2, <1>3 DEF JobOK, Decided
<1>7. BatchOK'
  BY <1>1, <1>2 DEF BatchOK, Begun, Decided
<1> QED BY <1>4, <1>5, <1>6, <1>7 DEF IInv

LEMMA JobFailsKeeps ==
  ASSUME IInv, NEW j, JobFails(j)
  PROVE  IInv'
<1>1. /\ j \in DOMAIN jobs /\ jobs' = Without(jobs, {j})
      /\ batch' = [batch EXCEPT !.status = "FAILED"] \/ batch' = batch
      /\ UNCHANGED <<row, students, pending, up, crashes>>
  BY DEF JobFails
<1>2. /\ TypeOK /\ up /\ \A v \in DOMAIN pending : pending[v].op # "upload"
      /\ jobs[j].kind \in {"stage", "commit"}
      /\ jobs[j].kind = "stage" => DOMAIN jobs = {j}
      /\ jobs[j].kind = "commit" => \A i \in DOMAIN jobs : jobs[i].kind = "commit"
  BY <1>1, JobFacts DEF Job
<1>3. /\ DOMAIN jobs' = DOMAIN jobs \ {j} /\ \A i \in DOMAIN jobs' : jobs'[i] = jobs[i]
      /\ jobs' \in [DOMAIN jobs' -> Job] /\ DOMAIN jobs' \subseteq Jobs
  BY <1>1, <1>2, Removed
<1>4. /\ \A i \in DOMAIN jobs' : i \in DOMAIN jobs /\ jobs'[i] = jobs[i] /\ jobs[i].kind = "commit"
      /\ batch'.status = "FAILED" \/ batch' = batch
  BY <1>1, <1>2, <1>3 DEF TypeOK
<1>5. TypeOK'
  BY <1>1, <1>2, <1>3 DEF TypeOK, BatchStatus
<1>6. \A v \in DOMAIN pending' : PendingOK(v)'
  BY <1>1, <1>2, <1>4 DEF IInv, PendingOK, Begun, Decided
<1>7. \A i \in DOMAIN jobs' : JobOK(i)'
  BY <1>1, <1>4 DEF IInv, JobOK, Begun, Decided
<1>8. BatchOK'
  BY <1>1, <1>2, <1>4 DEF IInv, BatchOK, Begun, Decided, Checked
<1> QED BY <1>5, <1>6, <1>7, <1>8 DEF IInv

-----------------------------------------------------------------------------
(* The process *)

LEMMA CrashKeeps ==
  ASSUME IInv, Crash
  PROVE  IInv'
<1>1. /\ DOMAIN jobs' = {} /\ jobs' \in [DOMAIN jobs' -> Job]
      /\ DOMAIN pending' = {} /\ pending' \in [DOMAIN pending' -> Request]
      /\ ~ up' /\ crashes < MaxCrashes /\ crashes' = crashes + 1 /\ UNCHANGED <<batch, row, students>>
  BY DEF Crash
<1>2. crashes' \in 0 .. MaxCrashes
  BY <1>1, FaultsAssumption DEF IInv, TypeOK
<1>3. TypeOK'
  BY <1>1, <1>2 DEF IInv, TypeOK, Crash
<1> QED BY <1>1, <1>3 DEF IInv, BatchOK, Begun, Decided, Checked

LEMMA RestartKeeps ==
  ASSUME IInv, Restart
  PROVE  IInv'
<1>1. /\ TypeOK /\ BatchOK /\ up' /\ DOMAIN jobs = {} /\ DOMAIN pending = {}
      /\ Resume /\ UNCHANGED <<row, students, pending, crashes>>
  BY DEF Restart, IInv, BatchOK
<1>2. CASE batch.status \in {"STAGING", "COMMITTING"} /\ Launch(KindOf(batch.status)) /\ UNCHANGED batch
  <2> DEFINE kind == KindOf(batch.status)
  <2>1. /\ kind \in {"stage", "commit"} /\ (kind = "stage" <=> batch.status = "STAGING")
    BY <1>2 DEF KindOf
  <2>2. Launch(kind)
    BY <1>2
  <2> HIDE DEF kind
  <2>3. PICK j \in Jobs \ DOMAIN jobs :
          /\ DOMAIN jobs' = DOMAIN jobs \cup {j}
          /\ jobs'[j].kind = kind /\ jobs'[j].phase = "load"
          /\ jobs' \in [DOMAIN jobs' -> Job] /\ DOMAIN jobs' \subseteq Jobs
    BY <1>1, <2>1, <2>2, LaunchAdds
  <2>4. TypeOK'
    BY <1>1, <1>2, <2>3 DEF TypeOK
  <2>5. \A i \in DOMAIN jobs' : JobOK(i)'
    BY <1>1, <1>2, <2>1, <2>3 DEF JobOK, BatchOK, Begun, Decided
  <2>6. BatchOK'
    BY <1>1, <1>2 DEF BatchOK, Begun, Decided, Checked
  <2> QED BY <1>1, <2>4, <2>5, <2>6 DEF IInv
<1>3. CASE UNCHANGED jobs /\ (batch' = batch \/ batch' = [batch EXCEPT !.status = "FAILED"])
  <2>1. batch'.status = "FAILED" \/ batch' = batch
    BY <1>1, <1>3 DEF TypeOK
  <2>2. TypeOK'
    BY <1>1, <1>3 DEF TypeOK, BatchStatus
  <2>3. BatchOK'
    BY <1>1, <1>3, <2>1 DEF BatchOK, Begun, Decided, Checked
  <2> QED BY <1>1, <1>3, <2>2, <2>3 DEF IInv
<1> QED BY <1>1, <1>2, <1>3 DEF Resume

-----------------------------------------------------------------------------
(* The theorems *)

LEMMA NextKeeps ==
  ASSUME IInv, [Next]_vars
  PROVE  IInv'
<1>1. ASSUME NEW w \in Workers, Call(w) PROVE IInv'
  BY <1>1, UploadBatchKeeps, ResolveReadKeeps, CommitReadKeeps DEF Call
<1>2. ASSUME NEW w \in Workers, Serve(w) PROVE IInv'
  BY <1>2, UploadRowsKeeps, ResolveWriteKeeps, RefreshReadKeeps, RefreshWriteKeeps,
     CommitWriteKeeps DEF Serve
<1>3. ASSUME NEW j \in Jobs, Work(j) PROVE IInv'
  BY <1>3, LoadKeeps, StageRowKeeps, RefuseRowKeeps, CreateStudentKeeps, MarkKeeps, TallyKeeps,
     EndStagingKeeps, EndCommitKeeps, AuditKeeps DEF Work
<1>4. CASE UNCHANGED vars
  BY <1>4 DEF IInv, TypeOK, PendingOK, JobOK, BatchOK, Decided, Checked, vars
<1> QED BY <1>1, <1>2, <1>3, <1>4, RequestFailsKeeps, JobFailsKeeps, CrashKeeps, RestartKeeps DEF Next

(* The inductive invariant holds in every reachable state.                  *)
THEOREM Invariance == Spec => []IInv
<1>1. Init => IInv
  BY InitHolds
<1>2. IInv /\ [Next]_vars => IInv'
  BY NextKeeps
<1> QED BY <1>1, <1>2, PTL DEF Spec

(* The tables and the jobs in memory are always well typed.                 *)
THEOREM TypeCorrect == Spec => []TypeOK
<1>1. IInv => TypeOK
  BY DEF IInv
<1> QED BY Invariance, <1>1, PTL

(* No student is created before an admin commits the batch, whatever        *)
(* requests overlap and wherever the process dies.                          *)
THEOREM StudentsWaitForCommit == Spec => []NothingBeforeCommit
<1>1. IInv => NothingBeforeCommit
  <2> SUFFICES ASSUME IInv PROVE NothingBeforeCommit
    OBVIOUS
  <2> QED BY DEF IInv, BatchOK, Begun, NothingBeforeCommit
<1> QED BY Invariance, <1>1, PTL

(* No row is passed over: when students are created, every row has been     *)
(* checked and every duplicate decided about.                               *)
THEOREM CommitIsDecided == Spec => []NothingSkippedSilently
<1>1. IInv => NothingSkippedSilently
  BY DEF IInv, BatchOK, Decided, NothingSkippedSilently, RowsWith
<1> QED BY Invariance, <1>1, PTL

-----------------------------------------------------------------------------
(* One request at a time *)

\* Whoever makes one request at a time has no two jobs run, commits nothing twice and
\* resolves no row that is no longer waiting.
OneRequest == \A v, w \in Workers : v = w

Untouched == {"NONE", "PENDING", "DUPLICATE_PENDING", "SKIPPED"}

RequestAlone(w) ==
  /\ pending[w].op = "commit" => batch.status = "READY_FOR_REVIEW" /\ DOMAIN jobs = {}
  /\ pending[w].op = "resolve" => row[pending[w].row] = "DUPLICATE_PENDING"

\* A job has to do exactly the rows it started from and has not handled.
JobAlone(j) ==
  /\ \A i \in DOMAIN jobs : i = j
  /\ jobs[j].kind = "stage" =>
       /\ jobs[j].phase \in {"load", "rows", "end"}
       /\ jobs[j].phase = "rows" => jobs[j].todo \subseteq RowsWith("PENDING")
  /\ jobs[j].kind = "commit" =>
       /\ batch.status = IF jobs[j].phase = "audit" THEN "COMPLETED" ELSE "COMMITTING"
       /\ jobs[j].phase \in {"rows", "mark"} => jobs[j].todo = RowsWith("READY")
       /\ jobs[j].phase = "mark" => jobs[j].row \in jobs[j].todo /\ students[jobs[j].row] > 0
       /\ jobs[j].phase = "end" => RowsWith("READY") = {}

\* The student of row r is created, and the row not marked yet.
BeingMarked(r) == \E j \in DOMAIN jobs : jobs[j].phase = "mark" /\ jobs[j].row = r

\* Nothing continues this commit unless the process dies.
GivenUp ==
  \/ batch.status = "FAILED"
  \/ batch.status = "COMMITTING" /\ DOMAIN jobs = {} /\ up

RowOK(r) ==
  /\ row[r] \in Untouched => students[r] = 0
  /\ row[r] = "CREATED" => students[r] > 0
  /\ students[r] <= 1 + crashes
  /\ row[r] = "READY" => students[r] <= crashes \/ BeingMarked(r) \/ GivenUp

Serial ==
  /\ \A w \in DOMAIN pending : RequestAlone(w)
  /\ \A j \in DOMAIN jobs : JobAlone(j)
  /\ batch.status = "READY_FOR_REVIEW" => DOMAIN jobs = {}
  /\ batch.status = "COMPLETED" =>
       RowsWith("READY") = {} /\ \A j \in DOMAIN jobs : jobs[j].phase = "audit"
  /\ \A r \in Rows : RowOK(r)
  /\ \A r \in Numbered : students[r] <= 1

(* What one request at a time adds to the invariant. *)

LEMMA Alone ==
  ASSUME OneRequest, IInv, Serial
  PROVE  /\ TypeOK
         /\ \A v, w \in DOMAIN pending : v = w
         /\ \A i, j \in DOMAIN jobs : i = j
         /\ batch.status \notin Begun => \A r \in Rows : students[r] = 0
         /\ \A r \in Rows : RowOK(r) /\ students[r] \in Nat /\ crashes \in Nat
         /\ \A j \in DOMAIN jobs : jobs[j] \in Job /\ JobAlone(j)
BY FaultsAssumption DEF OneRequest, IInv, Serial, TypeOK, JobAlone, BatchOK

\* A request begins, goes on or ends, and neither the rows, the jobs nor the
\* status of the batch change.
LEMMA RequestStep ==
  ASSUME OneRequest, IInv, Serial, IInv',
         UNCHANGED <<batch.status, row, students, jobs, up, crashes>>,
         \A w \in DOMAIN pending' : RequestAlone(w)'
  PROVE  Serial'
<1>1. /\ \A j \in DOMAIN jobs' : JobAlone(j)'
      /\ \A r \in Rows : RowOK(r)'
  BY DEF Serial, JobAlone, RowOK, BeingMarked, GivenUp, RowsWith
<1> QED BY <1>1 DEF Serial, RowsWith

\* A job goes on, alone.
LEMMA WorkStep ==
  ASSUME OneRequest, IInv, Serial, IInv',
         NEW j \in DOMAIN jobs, NEW job \in Job, jobs' = [jobs EXCEPT ![j] = job],
         JobAlone(j)',
         \A w \in DOMAIN pending : RequestAlone(w)',
         \A r \in Rows : RowOK(r)',
         \A r \in Numbered : students'[r] <= 1,
         jobs[j].phase # "audit",
         UNCHANGED <<batch, pending, up, crashes>>
  PROVE  Serial'
<1>1. DOMAIN jobs' = DOMAIN jobs /\ \A i \in DOMAIN jobs : i = j
  BY Alone DEF TypeOK
<1>2. batch'.status \notin {"READY_FOR_REVIEW", "COMPLETED"}
  BY <1>1 DEF Serial
<1> QED BY <1>1, <1>2 DEF Serial

\* No row has a student, and no job or commit is under way.
LEMMA BeforeCommit ==
  ASSUME IInv, Serial, batch.status \notin Begun
  PROVE  /\ \A r \in Rows : students[r] = 0 /\ row[r] # "CREATED"
         /\ \A j \in DOMAIN jobs : jobs[j].kind = "stage"
<1>1. \A r \in Rows : students[r] = 0 /\ RowOK(r)
  BY DEF IInv, BatchOK, Serial
<1>2. \A j \in DOMAIN jobs : jobs[j].kind \in {"stage", "commit"} /\ jobs[j].kind # "commit"
  BY DEF IInv, JobOK, TypeOK, Job
<1> QED BY <1>1, <1>2 DEF RowOK

LEMMA UploadBatchSerial ==
  ASSUME OneRequest, IInv, Serial, IInv', NEW w \in Workers, UploadBatch(w)
  PROVE  Serial'
<1>1. /\ TypeOK /\ batch.status = "NONE" /\ batch'.status = "STAGING"
      /\ UNCHANGED <<row, students, jobs, up, crashes>>
  BY DEF IInv, UploadBatch
<1>2. [op |-> "upload"] \in Request
  BY DEF Request
<1>3. \A v \in DOMAIN pending' : pending'[v].op = "upload"
  <2>1. Begin(w, [op |-> "upload"])
    BY DEF UploadBatch
  <2>2. DOMAIN pending' = DOMAIN pending \cup {w}
    BY <1>1, <1>2, <2>1, BeginAdds
  <2>3. pending'[w] = [op |-> "upload"]
    BY <1>1, <1>2, <2>1, BeginAdds
  <2>4. \A v \in DOMAIN pending : v = w
    BY <1>1 DEF OneRequest, TypeOK
  <2> QED BY <2>2, <2>3, <2>4
<1>4. /\ \A r \in Rows : students[r] = 0 /\ row[r] # "CREATED"
      /\ \A j \in DOMAIN jobs : jobs[j].kind = "stage"
  BY <1>1, BeforeCommit DEF Begun
<1>5. DOMAIN jobs = {}
  BY <1>1, <1>4 DEF IInv, JobOK
<1>6. TypeOK' /\ \A r \in Rows : students'[r] = 0 /\ row'[r] # "CREATED"
  BY <1>1, <1>4 DEF IInv
<1>7. (\A r \in Rows : RowOK(r)') /\ (\A r \in Numbered : students'[r] <= 1)
  BY <1>1, <1>4, RowsAssumption, FaultsAssumption DEF TypeOK, RowOK
<1> QED BY <1>1, <1>3, <1>5, <1>7 DEF Serial, RequestAlone

LEMMA UploadRowsSerial ==
  ASSUME OneRequest, IInv, Serial, IInv', NEW w, UploadRows(w)
  PROVE  Serial'
<1>1. /\ TypeOK /\ w \in DOMAIN pending /\ batch.status = "STAGING" /\ DOMAIN jobs = {}
      /\ row' = [r \in Rows |-> "PENDING"] /\ UNCHANGED <<batch, students, up, crashes>>
  BY DEF IInv, UploadRows, Waiting, PendingOK
<1>2. DOMAIN pending' = {}
  BY <1>1, Alone, EndRemoves DEF UploadRows
<1>3. PICK j \in Jobs \ DOMAIN jobs :
        DOMAIN jobs' = DOMAIN jobs \cup {j} /\ jobs'[j].kind = "stage" /\ jobs'[j].phase = "load"
  BY <1>1, LaunchAdds DEF UploadRows
<1>4. \A r \in Rows : students'[r] = 0 /\ row'[r] = "PENDING"
  BY <1>1, BeforeCommit DEF Begun
<1>5. (\A r \in Rows : RowOK(r)') /\ (\A r \in Numbered : students'[r] <= 1)
  BY <1>1, <1>4, RowsAssumption, FaultsAssumption DEF TypeOK, RowOK
<1>6. \A i \in DOMAIN jobs' : JobAlone(i)'
  BY <1>1, <1>3 DEF JobAlone
<1> QED BY <1>1, <1>2, <1>5, <1>6 DEF Serial

LEMMA ResolveReadSerial ==
  ASSUME OneRequest, IInv, Serial, IInv', NEW w \in Workers, NEW r \in Rows,
         NEW to \in {"READY", "SKIPPED"}, ResolveRead(w, r, to)
  PROVE  Serial'
<1> DEFINE q == [op |-> "resolve", row |-> r, to |-> to]
<1>1. /\ TypeOK /\ q \in Request /\ q.op = "resolve" /\ q.row = r
      /\ row[r] = "DUPLICATE_PENDING" /\ UNCHANGED <<batch, row, students, jobs, up, crashes>>
  BY DEF IInv, Request, ResolveRead
<1>2. \A v \in DOMAIN pending' : pending'[v] = q
  <2>1. Begin(w, q)
    BY DEF ResolveRead
  <2> HIDE DEF q
  <2>2. DOMAIN pending' = DOMAIN pending \cup {w}
    BY <1>1, <2>1, BeginAdds
  <2>3. pending'[w] = q
    BY <1>1, <2>1, BeginAdds
  <2>4. \A v \in DOMAIN pending : v = w
    BY <1>1 DEF OneRequest, TypeOK
  <2> QED BY <2>2, <2>3, <2>4
<1>3. \A v \in DOMAIN pending' : RequestAlone(v)'
  BY <1>1, <1>2 DEF RequestAlone
<1> QED BY <1>1, <1>3, RequestStep

LEMMA ResolveWriteSerial ==
  ASSUME OneRequest, IInv, Serial, IInv', NEW w, ResolveWrite(w)
  PROVE  Serial'
<1> DEFINE q == [op |-> "refresh"]
           r == pending[w].row
<1>1. /\ TypeOK /\ q \in Request /\ q.op = "refresh"
      /\ w \in DOMAIN pending /\ r \in Rows /\ row[r] = "DUPLICATE_PENDING"
      /\ pending[w].to \in {"READY", "SKIPPED"}
      /\ UNCHANGED <<batch, students, jobs, up, crashes>>
  BY DEF IInv, TypeOK, Request, ResolveWrite, Waiting, Serial, RequestAlone
<1>2. \A v \in DOMAIN pending' : pending'[v].op = "refresh"
  BY <1>1, Alone, ContinueReplaces DEF ResolveWrite
<1>3. /\ row'[r] \in {"READY", "SKIPPED"} /\ \A x \in Rows : x # r => row'[x] = row[x]
      /\ students[r] = 0 /\ \A x \in Rows : RowOK(x) /\ crashes \in Nat
  BY <1>1, Alone DEF ResolveWrite, TypeOK, RowOK, Untouched
<1> HIDE DEF r
<1>4. ~ Decided
  BY <1>1 DEF Decided
<1>5. /\ batch.status \notin {"COMMITTING", "COMPLETED"}
      /\ \A j \in DOMAIN jobs : jobs[j].kind = "stage"
  BY <1>1, <1>4 DEF IInv, BatchOK, JobOK, TypeOK, Job
<1>6. \A x \in Rows : RowOK(x)'
  BY <1>1, <1>3 DEF RowOK, Untouched, BeingMarked, GivenUp
<1>7. \A j \in DOMAIN jobs' : JobAlone(j)'
  BY <1>1, <1>3, <1>5 DEF Serial, JobAlone, RowsWith
<1> QED BY <1>1, <1>2, <1>5, <1>6, <1>7 DEF Serial, RequestAlone

LEMMA RefreshReadSerial ==
  ASSUME OneRequest, IInv, Serial, IInv', NEW w, RefreshRead(w)
  PROVE  Serial'
<1> DEFINE q == [op |-> "count", count |-> DuplicatesPending]
<1>1. /\ TypeOK /\ q \in Request /\ q.op = "count" /\ w \in DOMAIN pending
      /\ UNCHANGED <<batch, row, students, jobs, up, crashes>>
  BY NoDuplicates DEF IInv, Request, RefreshRead, Waiting
<1>2. \A v \in DOMAIN pending' : pending'[v].op = "count"
  BY <1>1, Alone, ContinueReplaces DEF RefreshRead
<1> QED BY <1>1, <1>2, RequestStep DEF RequestAlone

LEMMA RefreshWriteSerial ==
  ASSUME OneRequest, IInv, Serial, IInv', NEW w, RefreshWrite(w)
  PROVE  Serial'
<1>1. /\ TypeOK /\ w \in DOMAIN pending /\ batch'.status = batch.status
      /\ UNCHANGED <<row, students, jobs, up, crashes>>
  BY DEF IInv, TypeOK, RefreshWrite, Waiting
<1>2. DOMAIN pending' = {}
  BY <1>1, Alone, EndRemoves DEF RefreshWrite
<1> QED BY <1>1, <1>2, RequestStep

LEMMA CommitReadSerial ==
  ASSUME OneRequest, IInv, Serial, IInv', NEW w \in Workers, CommitRead(w)
  PROVE  Serial'
<1>1. /\ TypeOK /\ [op |-> "commit"] \in Request /\ batch.status = "READY_FOR_REVIEW"
      /\ UNCHANGED <<batch, row, students, jobs, up, crashes>>
  BY DEF IInv, Request, CommitRead
<1>2. \A v \in DOMAIN pending' : pending'[v].op = "commit"
  BY <1>1, BeginAdds DEF CommitRead, OneRequest, TypeOK
<1>3. \A v \in DOMAIN pending' : RequestAlone(v)'
  BY <1>1, <1>2 DEF RequestAlone, Serial
<1> QED BY <1>1, <1>3, RequestStep

LEMMA CommitWriteSerial ==
  ASSUME OneRequest, IInv, Serial, IInv', NEW w, CommitWrite(w)
  PROVE  Serial'
<1>1. /\ TypeOK /\ w \in DOMAIN pending /\ batch.status = "READY_FOR_REVIEW" /\ DOMAIN jobs = {}
      /\ batch'.status = "COMMITTING" /\ UNCHANGED <<row, students, up, crashes>>
  BY DEF IInv, CommitWrite, Waiting, Serial, RequestAlone, TypeOK
<1>2. DOMAIN pending' = {}
  BY <1>1, Alone, EndRemoves DEF CommitWrite
<1>3. PICK j \in Jobs \ DOMAIN jobs :
        DOMAIN jobs' = DOMAIN jobs \cup {j} /\ jobs'[j].kind = "commit" /\ jobs'[j].phase = "load"
  BY <1>1, LaunchAdds DEF CommitWrite
<1>4. \A r \in Rows : students'[r] = 0 /\ row'[r] # "CREATED"
  BY <1>1, BeforeCommit DEF Begun
<1>5. (\A r \in Rows : RowOK(r)') /\ (\A r \in Numbered : students'[r] <= 1)
  BY <1>1, <1>4, RowsAssumption, FaultsAssumption DEF TypeOK, RowOK
<1>6. \A i \in DOMAIN jobs' : JobAlone(i)'
  BY <1>1, <1>3 DEF JobAlone
<1> QED BY <1>1, <1>2, <1>5, <1>6 DEF Serial

LEMMA RequestFailsSerial ==
  ASSUME OneRequest, IInv, Serial, IInv', NEW w, RequestFails(w)
  PROVE  Serial'
<1>1. DOMAIN pending' = {} /\ UNCHANGED <<batch, row, students, jobs, up, crashes>>
  BY Alone, EndRemoves DEF RequestFails
<1> QED BY <1>1, RequestStep

LEMMA LoadSerial ==
  ASSUME OneRequest, IInv, Serial, IInv', NEW j, Load(j)
  PROVE  Serial'
<1>1. PICK kind \in {"stage", "commit"} :
        /\ j \in DOMAIN jobs /\ jobs[j].kind = kind /\ jobs[j].phase = "load"
        /\ jobs' = [jobs EXCEPT ![j].phase = "rows", ![j].todo = Input(kind)]
  BY DEF Load, InPhase
<1> DEFINE job == [jobs[j] EXCEPT !.phase = "rows", !.todo = Input(kind)]
<1>2. jobs[j] \in Job /\ JobAlone(j) /\ Input(kind) \in SUBSET Rows /\ TypeOK
  BY <1>1, Alone DEF Input, RowsWith
<1>3. job \in Job /\ job.kind = kind /\ job.phase = "rows" /\ job.todo = Input(kind)
  BY <1>1, <1>2 DEF Job
<1>4. jobs' = [jobs EXCEPT ![j] = job]
  BY <1>1
<1>5. UNCHANGED <<batch, row, students, pending, up, crashes>>
  BY DEF Load
<1> HIDE DEF job
<1>6. jobs'[j] = job /\ DOMAIN jobs' = DOMAIN jobs /\ DOMAIN jobs = {j}
  <2>1. jobs'[j] = job /\ DOMAIN jobs' = DOMAIN jobs
    BY <1>1, <1>2, <1>4 DEF TypeOK
  <2>2. DOMAIN jobs = {j}
    BY <1>1, Alone
  <2> QED BY <2>1, <2>2
<1>7. JobAlone(j)'
  BY <1>1, <1>2, <1>3, <1>5, <1>6 DEF JobAlone, Input, RowsWith
<1>8. \A r \in Rows : RowOK(r)'
  BY <1>1, <1>5, <1>6, Alone DEF RowOK, BeingMarked, GivenUp
<1>9. /\ \A w \in DOMAIN pending : RequestAlone(w)'
      /\ \A r \in Numbered : students'[r] <= 1
  BY <1>5, <1>6 DEF Serial, RequestAlone
<1> QED BY <1>1, <1>3, <1>4, <1>5, <1>7, <1>8, <1>9, WorkStep

LEMMA StageRowSerial ==
  ASSUME OneRequest, IInv, Serial, IInv', NEW j, NEW r \in Rows, StageRow(j, r)
  PROVE  Serial'
<1>1. /\ j \in DOMAIN jobs /\ jobs[j].kind = "stage" /\ jobs[j].phase = "rows"
      /\ r \in jobs[j].todo /\ Done(j, r) /\ UNCHANGED <<batch, students, pending, up, crashes>>
  BY DEF StageRow, InPhase
<1>2. PICK status \in {"ERROR", "DUPLICATE_PENDING", "READY"} : row' = [row EXCEPT ![r] = status]
  BY DEF StageRow
<1>3. /\ TypeOK /\ JobAlone(j) /\ batch.status = "STAGING" /\ DOMAIN jobs = {j}
  BY <1>1, Alone, JobFacts
<1>4. PICK job \in Job : /\ jobs' = [jobs EXCEPT ![j] = job]
                         /\ job.kind = "stage" /\ job.phase = "rows"
                         /\ job.todo = jobs[j].todo \ {r}
  BY <1>1, <1>3, DoneJob
<1>5. jobs'[j] = job /\ DOMAIN jobs' = {j}
  BY <1>3, <1>4 DEF TypeOK
<1>6. /\ row[r] = "PENDING" /\ row'[r] \in {"ERROR", "DUPLICATE_PENDING", "READY"}
      /\ \A x \in Rows : x # r => row'[x] = row[x]
  BY <1>1, <1>2, <1>3 DEF JobAlone, RowsWith, TypeOK
<1>7. JobAlone(j)'
  BY <1>1, <1>3, <1>4, <1>5, <1>6 DEF JobAlone, RowsWith
<1>8. \A x \in Rows : students'[x] = 0 /\ row'[x] # "CREATED"
  BY <1>1, <1>3, <1>6, BeforeCommit DEF Begun
<1>9. (\A x \in Rows : RowOK(x)') /\ (\A x \in Numbered : students'[x] <= 1)
  BY <1>1, <1>3, <1>8, RowsAssumption, FaultsAssumption DEF TypeOK, RowOK
<1>10. \A w \in DOMAIN pending : RequestAlone(w)'
  BY <1>1, <1>3, <1>6 DEF Serial, RequestAlone, TypeOK, Request
<1> QED BY <1>1, <1>4, <1>7, <1>9, <1>10, WorkStep

\* A commit job is the only thing that happens to its batch.
LEMMA Committing ==
  ASSUME OneRequest, IInv, Serial, NEW j \in DOMAIN jobs, jobs[j].kind = "commit",
         jobs[j].phase # "audit"
  PROVE  /\ TypeOK /\ jobs[j] \in Job /\ JobAlone(j) /\ Decided
         /\ batch.status = "COMMITTING" /\ DOMAIN jobs = {j}
         /\ \A w \in DOMAIN pending : pending[w].op \notin {"commit", "resolve"}
         /\ \A r \in Rows : students[r] <= crashes \/ row[r] # "READY" \/ BeingMarked(r)
<1>1. /\ TypeOK /\ jobs[j] \in Job /\ JobAlone(j) /\ Decided /\ DOMAIN jobs = {j}
  BY Alone, JobFacts
<1>2. batch.status = "COMMITTING"
  BY <1>1 DEF JobAlone
<1>3. \A w \in DOMAIN pending :
        pending[w] \in Request /\ (pending[w].op = "resolve" => pending[w].row \in Rows)
  BY <1>1 DEF TypeOK, Request
<1>4. \A w \in DOMAIN pending : pending[w].op \notin {"commit", "resolve"}
  BY <1>1, <1>2, <1>3 DEF Serial, RequestAlone, Decided
<1>5. \A r \in Rows : students[r] <= crashes \/ row[r] # "READY" \/ BeingMarked(r)
  BY <1>1, <1>2, Alone DEF RowOK, GivenUp
<1> QED BY <1>1, <1>2, <1>4, <1>5

\* A row gets an outcome: a student was created, or the row is refused or could
\* not be marked.
LEMMA OutcomeSerial ==
  ASSUME OneRequest, IInv, Serial, IInv',
         NEW j \in DOMAIN jobs, jobs[j].kind = "commit", jobs[j].phase \in {"rows", "mark"},
         NEW r \in jobs[j].todo, jobs[j].phase = "mark" => jobs[j].row = r,
         NEW status \in {"CREATED", "ERROR"}, status = "CREATED" => students[r] > 0,
         row' = [row EXCEPT ![r] = status], Done(j, r),
         UNCHANGED <<batch, students, pending, up, crashes>>
  PROVE  Serial'
<1>1. /\ TypeOK /\ JobAlone(j) /\ batch.status = "COMMITTING" /\ DOMAIN jobs = {j}
      /\ \A w \in DOMAIN pending : pending[w].op \notin {"commit", "resolve"}
      /\ \A x \in Rows : students[x] <= crashes \/ row[x] # "READY" \/ BeingMarked(x)
  BY Committing
<1>2. PICK job \in Job : /\ jobs' = [jobs EXCEPT ![j] = job]
                         /\ job.kind = "commit" /\ job.phase = "rows"
                         /\ job.todo = jobs[j].todo \ {r}
  <2>1. TypeOK
    BY DEF IInv
  <2>2. \E job \in Job : /\ jobs' = [jobs EXCEPT ![j] = job]
                         /\ job.kind = jobs[j].kind /\ job.phase = "rows"
                         /\ job.todo = jobs[j].todo \ {r}
    BY <2>1, DoneJob
  <2> QED BY <2>2
<1>3. jobs'[j] = job /\ DOMAIN jobs' = {j}
  BY <1>1, <1>2 DEF TypeOK
<1>4. /\ jobs[j].todo = RowsWith("READY") /\ r \in Rows
      /\ row'[r] = status /\ \A x \in Rows : x # r => row'[x] = row[x]
  BY <1>1 DEF JobAlone, RowsWith, TypeOK
<1>5. JobAlone(j)'
  BY <1>1, <1>2, <1>3, <1>4 DEF JobAlone, RowsWith
<1>6. \A x \in Rows : x # r => ~ BeingMarked(x)
  BY <1>1 DEF BeingMarked
<1>7. \A x \in Rows : RowOK(x)'
  <2>1. ASSUME NEW x \in Rows PROVE RowOK(x)'
    <3>1. RowOK(x)
      BY DEF Serial
    <3>2. CASE x = r
      BY <1>4, <3>1, <3>2 DEF RowOK, Untouched
    <3>3. CASE x # r
      BY <1>1, <1>4, <1>6, <3>1, <3>3 DEF RowOK
    <3> QED BY <3>2, <3>3
  <2> QED BY <2>1
<1>8. /\ \A w \in DOMAIN pending : RequestAlone(w)'
      /\ \A x \in Numbered : students'[x] <= 1
  BY <1>1 DEF Serial, RequestAlone
<1> QED BY <1>2, <1>5, <1>7, <1>8, WorkStep

LEMMA RefuseRowSerial ==
  ASSUME OneRequest, IInv, Serial, IInv', NEW j, NEW r \in Rows, RefuseRow(j, r)
  PROVE  Serial'
BY OutcomeSerial DEF RefuseRow, InPhase

LEMMA MarkSerial ==
  ASSUME OneRequest, IInv, Serial, IInv', NEW j, NEW status \in {"CREATED", "ERROR"},
         Mark(j, status)
  PROVE  Serial'
<1>1. j \in DOMAIN jobs /\ jobs[j].kind = "commit" /\ jobs[j].phase = "mark"
  BY DEF Mark, InPhase
<1>2. jobs[j].row \in jobs[j].todo /\ students[jobs[j].row] > 0
  BY <1>1, Alone DEF JobAlone
<1> QED BY <1>1, <1>2, OutcomeSerial DEF Mark

LEMMA CreateStudentSerial ==
  ASSUME OneRequest, IInv, Serial, IInv', NEW j, NEW r \in Rows, CreateStudent(j, r)
  PROVE  Serial'
<1> DEFINE job == [jobs[j] EXCEPT !.phase = "mark", !.row = r]
<1>1. /\ j \in DOMAIN jobs /\ jobs[j].kind = "commit" /\ jobs[j].phase = "rows"
      /\ r \in jobs[j].todo /\ (r \in Numbered => students[r] = 0)
      /\ students' = [students EXCEPT ![r] = @ + 1]
      /\ UNCHANGED <<batch, row, pending, up, crashes>>
  BY DEF CreateStudent, InPhase
<1>2. /\ TypeOK /\ jobs[j] \in Job /\ JobAlone(j) /\ batch.status = "COMMITTING" /\ DOMAIN jobs = {j}
      /\ \A w \in DOMAIN pending : pending[w].op \notin {"commit", "resolve"}
      /\ \A x \in Rows : students[x] <= crashes \/ row[x] # "READY" \/ BeingMarked(x)
  BY <1>1, Committing
<1>3. job \in Job /\ job.kind = "commit" /\ job.phase = "mark" /\ job.row = r /\ job.todo = jobs[j].todo
  BY <1>1, <1>2 DEF Job
<1>4. jobs' = [jobs EXCEPT ![j] = job]
  BY DEF CreateStudent
<1> HIDE DEF job
<1>5. jobs'[j] = job /\ DOMAIN jobs' = {j}
  BY <1>2, <1>4 DEF TypeOK
<1>6. /\ row[r] = "READY" /\ jobs[j].todo = RowsWith("READY") /\ crashes \in Nat
      /\ students[r] \in Nat /\ students'[r] = students[r] + 1
      /\ \A x \in Rows : x # r => students'[x] = students[x]
  BY <1>1, <1>2, FaultsAssumption DEF JobAlone, RowsWith, TypeOK
<1>7. JobAlone(j)'
  BY <1>1, <1>2, <1>3, <1>5, <1>6 DEF JobAlone, RowsWith
<1>8. \A x \in Rows : ~ BeingMarked(x)
  BY <1>1, <1>2 DEF BeingMarked
<1>9. BeingMarked(r)'
  BY <1>3, <1>5 DEF BeingMarked
<1>10. \A x \in Rows : RowOK(x)'
  <2>1. ASSUME NEW x \in Rows PROVE RowOK(x)'
    <3>1. RowOK(x) /\ (students[x] <= crashes \/ row[x] # "READY")
      BY <1>2, <1>8 DEF Serial
    <3>2. CASE x = r
      BY <1>1, <1>6, <1>9, <3>1, <3>2 DEF RowOK, Untouched
    <3>3. CASE x # r
      BY <1>1, <1>6, <3>1, <3>3 DEF RowOK
    <3> QED BY <3>2, <3>3
  <2> QED BY <2>1
<1>11. \A x \in Numbered : students'[x] <= 1
  BY <1>1, <1>6, RowsAssumption DEF Serial
<1>12. \A w \in DOMAIN pending : RequestAlone(w)'
  BY <1>1, <1>2 DEF RequestAlone
<1> QED BY <1>1, <1>3, <1>4, <1>7, <1>10, <1>11, <1>12, WorkStep

LEMMA TallySerial ==
  ASSUME OneRequest, IInv, Serial, IInv', NEW j, Tally(j)
  PROVE  Serial'
<1> DEFINE job == [jobs[j] EXCEPT !.phase = "end", !.count = DuplicatesPending]
<1>1. /\ j \in DOMAIN jobs /\ jobs[j].phase = "rows" /\ jobs[j].todo = {}
      /\ UNCHANGED <<batch, row, students, pending, up, crashes>>
  BY DEF Tally, InPhase
<1>2. /\ TypeOK /\ jobs[j] \in Job /\ JobAlone(j) /\ DOMAIN jobs = {j}
  BY <1>1, Alone
<1>3. job \in Job /\ job.kind = jobs[j].kind /\ job.phase = "end"
  BY <1>2, NoDuplicates DEF Job
<1>4. jobs' = [jobs EXCEPT ![j] = job]
  BY DEF Tally
<1> HIDE DEF job
<1>5. jobs'[j] = job /\ DOMAIN jobs' = {j}
  BY <1>2, <1>4 DEF TypeOK
<1>6. JobAlone(j)'
  BY <1>1, <1>2, <1>3, <1>5 DEF JobAlone, RowsWith
<1>7. \A r \in Rows : RowOK(r)'
  BY <1>1, <1>2, <1>5, Alone DEF RowOK, BeingMarked, GivenUp
<1>8. /\ \A w \in DOMAIN pending : RequestAlone(w)'
      /\ \A r \in Numbered : students'[r] <= 1
  BY <1>1, <1>2, <1>5 DEF Serial, RequestAlone
<1> QED BY <1>1, <1>3, <1>4, <1>6, <1>7, <1>8, WorkStep

LEMMA EndStagingSerial ==
  ASSUME OneRequest, IInv, Serial, IInv', NEW j, EndStaging(j)
  PROVE  Serial'
<1>1. /\ j \in DOMAIN jobs /\ jobs[j].kind = "stage"
      /\ batch'.status = "READY_FOR_REVIEW" /\ jobs' = Without(jobs, {j})
      /\ UNCHANGED <<row, students, pending, up, crashes>>
  BY DEF EndStaging, InPhase
<1>2. /\ TypeOK /\ batch.status = "STAGING" /\ DOMAIN jobs = {j}
      /\ \A v \in DOMAIN pending : pending[v].op # "commit"
  BY <1>1, JobFacts
<1>3. DOMAIN jobs' = {}
  BY <1>1, <1>2, Removed
<1>4. \A r \in Rows : students'[r] = 0 /\ row'[r] # "CREATED"
  BY <1>1, <1>2, BeforeCommit DEF Begun
<1>5. (\A r \in Rows : RowOK(r)') /\ (\A r \in Numbered : students'[r] <= 1)
  BY <1>1, <1>2, <1>4, RowsAssumption, FaultsAssumption DEF TypeOK, RowOK
<1> QED BY <1>1, <1>2, <1>3, <1>5 DEF Serial, RequestAlone

LEMMA EndCommitSerial ==
  ASSUME OneRequest, IInv, Serial, IInv', NEW j, EndCommit(j)
  PROVE  Serial'
<1> DEFINE job == [jobs[j] EXCEPT !.phase = "audit"]
<1>1. /\ j \in DOMAIN jobs /\ jobs[j].kind = "commit" /\ jobs[j].phase = "end"
      /\ batch' = [batch EXCEPT !.status = "COMPLETED"] /\ jobs' = [jobs EXCEPT ![j] = job]
      /\ UNCHANGED <<row, students, pending, up, crashes>>
  BY DEF EndCommit, InPhase
<1>2. /\ TypeOK /\ jobs[j] \in Job /\ JobAlone(j) /\ DOMAIN jobs = {j}
      /\ \A w \in DOMAIN pending : pending[w].op \notin {"commit", "resolve"}
  BY <1>1, Committing
<1>3. job.kind = "commit" /\ job.phase = "audit"
  BY <1>1, <1>2 DEF Job
<1> HIDE DEF job
<1>4. DOMAIN jobs' = {j} /\ jobs'[j] = job /\ batch'.status = "COMPLETED" /\ RowsWith("READY") = {}
  BY <1>1, <1>2 DEF JobAlone, TypeOK
<1>5. JobAlone(j)'
  BY <1>3, <1>4 DEF JobAlone
<1>6. \A r \in Rows : RowOK(r)'
  BY <1>1, <1>4 DEF Serial, RowOK, RowsWith
<1> QED BY <1>1, <1>2, <1>3, <1>4, <1>5, <1>6 DEF Serial, RequestAlone, RowsWith

LEMMA AuditSerial ==
  ASSUME OneRequest, IInv, Serial, IInv', NEW j, Audit(j)
  PROVE  Serial'
<1>1. /\ j \in DOMAIN jobs /\ jobs[j].kind = "commit" /\ jobs[j].phase = "audit"
      /\ jobs' = Without(jobs, {j}) /\ UNCHANGED <<batch, row, students, pending, up, crashes>>
  BY DEF Audit, InPhase
<1>2. TypeOK /\ JobAlone(j) /\ batch.status = "COMPLETED" /\ DOMAIN jobs = {j}
  BY <1>1, Alone DEF JobAlone
<1>3. DOMAIN jobs' = {} /\ RowsWith("READY") = {}
  BY <1>1, <1>2, Removed DEF Serial
<1>4. \A r \in Rows : RowOK(r)'
  BY <1>1, <1>3 DEF Serial, RowOK, RowsWith
<1>5. \A w \in DOMAIN pending' : RequestAlone(w)'
  BY <1>1, <1>3 DEF Serial, RequestAlone
<1> QED BY <1>1, <1>2, <1>3, <1>4, <1>5 DEF Serial, RowsWith

LEMMA JobFailsSerial ==
  ASSUME OneRequest, IInv, Serial, IInv', NEW j, JobFails(j)
  PROVE  Serial'
<1>1. /\ j \in DOMAIN jobs /\ jobs' = Without(jobs, {j})
      /\ batch' = [batch EXCEPT !.status = "FAILED"] \/ batch' = batch
      /\ UNCHANGED <<row, students, pending, up, crashes>>
  BY DEF JobFails
<1>2. /\ TypeOK /\ jobs[j] \in Job /\ JobAlone(j) /\ DOMAIN jobs = {j} /\ up
      /\ \A r \in Rows : RowOK(r) /\ students[r] \in Nat /\ crashes \in Nat
  BY <1>1, Alone, JobFacts
<1>3. DOMAIN jobs' = {} /\ (batch'.status = "FAILED" \/ batch' = batch)
  BY <1>1, <1>2, Removed DEF TypeOK
<1>4. CASE jobs[j].kind = "stage"
  <2>1. /\ batch.status = "STAGING"
        /\ \A v \in DOMAIN pending : pending[v].op # "commit"
    BY <1>1, <1>4, JobFacts
  <2>2. \A r \in Rows : students'[r] = 0 /\ row'[r] # "CREATED"
    BY <1>1, <2>1, BeforeCommit DEF Begun
  <2>3. (\A r \in Rows : RowOK(r)') /\ (\A r \in Numbered : students'[r] <= 1)
    BY <1>1, <1>2, <2>2, RowsAssumption, FaultsAssumption DEF TypeOK, RowOK
  <2> QED BY <1>1, <1>3, <2>1, <2>3 DEF Serial, RequestAlone
<1>5. CASE jobs[j].phase = "audit"
  <2>1. batch.status \notin {"STAGING", "READY_FOR_REVIEW"} /\ RowsWith("READY") = {}
    BY <1>1, <1>2, <1>5, JobFacts DEF JobAlone, Serial, Begun, Job
  <2>2. \A r \in Rows : RowOK(r)'
    BY <1>1, <1>2, <2>1 DEF RowOK, RowsWith
  <2>3. \A w \in DOMAIN pending' : RequestAlone(w)'
    BY <1>1, <1>3, <2>1 DEF Serial, RequestAlone
  <2> QED BY <1>1, <1>3, <2>1, <2>2, <2>3 DEF Serial, RowsWith
<1>6. CASE jobs[j].kind = "commit" /\ jobs[j].phase # "audit"
  <2>1. /\ batch.status = "COMMITTING"
        /\ \A w \in DOMAIN pending : pending[w].op \notin {"commit", "resolve"}
    BY <1>1, <1>6, Committing
  <2>2. GivenUp'
    BY <1>1, <1>2, <1>3, <2>1 DEF GivenUp
  <2>3. \A r \in Rows : RowOK(r)'
    BY <1>1, <1>2, <2>2 DEF RowOK
  <2> QED BY <1>1, <1>3, <2>1, <2>3 DEF Serial, RequestAlone
<1> QED BY <1>2, <1>4, <1>5, <1>6 DEF Job

LEMMA CrashSerial ==
  ASSUME OneRequest, IInv, Serial, IInv', Crash
  PROVE  Serial'
<1>1. /\ DOMAIN jobs' = {} /\ DOMAIN pending' = {} /\ crashes' = crashes + 1
      /\ UNCHANGED <<batch, row, students>>
  BY DEF Crash
<1>2. \A r \in Rows : RowOK(r) /\ students[r] \in Nat /\ crashes \in Nat
  BY Alone
<1>3. \A r \in Rows : RowOK(r)'
  BY <1>1, <1>2 DEF RowOK
<1> QED BY <1>1, <1>3 DEF Serial, RowsWith

LEMMA RestartSerial ==
  ASSUME OneRequest, IInv, Serial, IInv', Restart
  PROVE  Serial'
<1>1. /\ TypeOK /\ ~ up /\ DOMAIN jobs = {} /\ DOMAIN pending = {}
      /\ Resume /\ UNCHANGED <<row, students, pending, crashes>>
  BY DEF Restart, IInv, BatchOK
<1>2. \A r \in Rows : RowOK(r) /\ (row[r] = "READY" => students[r] <= crashes \/ batch.status = "FAILED")
  BY <1>1 DEF Serial, RowOK, BeingMarked, GivenUp
<1>3. CASE batch.status \in {"STAGING", "COMMITTING"} /\ Launch(KindOf(batch.status)) /\ UNCHANGED batch
  <2> DEFINE kind == KindOf(batch.status)
  <2>1. kind \in {"stage", "commit"} /\ (kind = "stage" <=> batch.status = "STAGING")
    BY <1>3 DEF KindOf
  <2>2. Launch(kind)
    BY <1>3
  <2> HIDE DEF kind
  <2>3. PICK j \in Jobs \ DOMAIN jobs :
          DOMAIN jobs' = DOMAIN jobs \cup {j} /\ jobs'[j].kind = kind /\ jobs'[j].phase = "load"
    BY <1>1, <2>1, <2>2, LaunchAdds
  <2>4. \A i \in DOMAIN jobs' : JobAlone(i)'
    BY <1>1, <1>3, <2>1, <2>3 DEF JobAlone
  <2>5. \A r \in Rows : RowOK(r)'
    BY <1>1, <1>2, <1>3 DEF RowOK
  <2> QED BY <1>1, <1>3, <2>4, <2>5 DEF Serial
<1>4. CASE UNCHANGED jobs /\ (batch' = batch \/ batch' = [batch EXCEPT !.status = "FAILED"])
  <2>1. batch'.status = "FAILED" \/ batch' = batch
    BY <1>1, <1>4 DEF TypeOK
  <2>2. \A r \in Rows : RowOK(r)'
    BY <1>1, <1>2, <2>1 DEF RowOK, GivenUp
  <2> QED BY <1>1, <1>4, <2>1, <2>2 DEF Serial, RowsWith
<1> QED BY <1>1, <1>3, <1>4 DEF Resume

LEMMA SerialHolds ==
  ASSUME OneRequest
  PROVE  Spec => []Serial
<1>1. Init => Serial
  <2> SUFFICES ASSUME Init PROVE Serial
    OBVIOUS
  <2> QED BY RowsAssumption DEF Init, Serial, RowOK, Untouched
<1>2. IInv /\ Serial /\ [Next]_vars => Serial'
  <2> SUFFICES ASSUME IInv, Serial, [Next]_vars PROVE Serial'
    OBVIOUS
  <2>1. IInv'
    BY NextKeeps
  <2>2. ASSUME NEW w \in Workers, Call(w) PROVE Serial'
    BY <2>1, <2>2, UploadBatchSerial, ResolveReadSerial, CommitReadSerial DEF Call
  <2>3. ASSUME NEW w \in Workers, Serve(w) PROVE Serial'
    BY <2>1, <2>3, UploadRowsSerial, ResolveWriteSerial, RefreshReadSerial, RefreshWriteSerial,
       CommitWriteSerial DEF Serve
  <2>4. ASSUME NEW j \in Jobs, Work(j) PROVE Serial'
    BY <2>1, <2>4, LoadSerial, StageRowSerial, RefuseRowSerial, CreateStudentSerial, MarkSerial,
       TallySerial, EndStagingSerial, EndCommitSerial, AuditSerial DEF Work
  <2>5. CASE UNCHANGED vars
    BY <2>5 DEF Serial, RequestAlone, JobAlone, RowOK, BeingMarked, GivenUp, RowsWith, vars
  <2> QED BY <2>1, <2>2, <2>3, <2>4, <2>5, RequestFailsSerial, JobFailsSerial, CrashSerial,
             RestartSerial DEF Next
<1> QED BY <1>1, <1>2, Invariance, PTL DEF Spec

(* For one request at a time, any number of rows and of deaths of the       *)
(* process: a completed batch has an outcome for each row, and a true one.  *)
THEOREM OutcomesAreTrue ==
  ASSUME OneRequest
  PROVE  Spec => []EveryRowIsSettled
<1>1. IInv /\ Serial => EveryRowIsSettled
  <2> SUFFICES ASSUME IInv, Serial, batch.status = "COMPLETED", NEW r \in Rows
               PROVE  /\ row[r] \in {"NONE", "CREATED", "ERROR", "SKIPPED"}
                      /\ row[r] = "CREATED" => students[r] > 0
                      /\ row[r] = "SKIPPED" => students[r] = 0
    BY DEF EveryRowIsSettled
  <2>1. row[r] \in RowStatus \ {"PENDING", "DUPLICATE_PENDING", "READY"}
    BY DEF IInv, TypeOK, BatchOK, Decided, Serial, RowsWith
  <2>2. RowOK(r)
    BY DEF Serial
  <2> QED BY <2>1, <2>2 DEF RowOK, RowStatus, Untouched
<1> QED BY <1>1, Invariance, SerialHolds, PTL

(* For one request at a time a row becomes a second student only by a death *)
(* of the process, and only if it gives no student number.                  *)
THEOREM OneStudentPerLife ==
  ASSUME OneRequest
  PROVE  Spec => []OncePerLife
<1>1. Serial => OncePerLife
  BY DEF Serial, RowOK, OncePerLife
<1> QED BY <1>1, SerialHolds, PTL

=============================================================================
