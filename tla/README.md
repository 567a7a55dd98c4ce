# Verification of Ilays Schools

TLA+ models of the stateful parts of Ilays Schools (the NestJS API in `apps/api`
over Prisma and Postgres, and the two parts of the web client in `apps/web` that
keep state of their own), checked with TLC and proved about with TLAPS. Paths
below are relative to the repository.

## 1. How the system works, and how it is modelled

Clients (the Next.js web client, portals for teachers, students and guardians)
call HTTP endpoints. A controller calls one service method, the *handler*. Any
number of handlers run at once: Node interleaves them at every `await`, and
several API processes may share the database. All state of the API is in
Postgres; the only work that lives in memory is the pair of background jobs of an
import. Services interact through the tables they share and by calling each other
inside a handler. The browser keeps the login session of each tab and the marks
of an attendance page that were not saved yet.

Nearly every handler that writes has the same two parts:

1. *read*: a sequence of awaited queries that check permissions, existence,
   statuses, capacities; a failed check throws before anything is written;
2. *write*: one statement or one `prisma.$transaction`, whose writes are keyed
   by the ids found before. Transactions run READ COMMITTED, no row is locked
   for what was read (`FOR UPDATE` appears nowhere), most updates are by id and
   not conditional on the state that was checked. Only unique indexes and
   foreign keys stop a write that has become wrong.

So the question every module asks is what survives when handlers interleave
between these parts, and what holds when they happen not to.

A handler `X` is modelled by two actions. `XRead` is enabled when all checks
pass, and keeps in `pending[w]` what the handler holds in local variables.
`XCommit` (in later modules `XWrite`) is the statement or the transaction: all
its writes at once (a transaction is atomic), enabled when every statement
succeeds, that is when the rows it updates exist and the unique indexes and
foreign keys hold afterwards. What a transaction reads back itself (the next roll
number, a row count) it reads in that action: it is guarded by a unique index, so
the value seen is the value at the commit or the transaction fails. Where nothing
guards such a read (verifying a claim, calculating a payslip) it is a step of its
own. `Rollback` ends a handler without effect and stands for a failed statement,
a timed-out transaction or a crash of the process; it is always possible. A
handler that depends on nothing it has read is one action. Several reads of one
handler count as one moment: what can happen between two of them can also happen
between the last of them and the write.

`Workers` is the number of handlers in progress. With one worker handlers run one
after another, in any order; with two every pair of handlers interleaves. The
history variable `overlapped` of Finance, Results and Payroll turns TRUE when
anything runs while a handler is between its halves. A property of the form
`~ overlapped => P` is what holds until the first overlap; a property without it
holds under every interleaving. So one run asks both questions. `Operations` of
Enrollment and Finance selects the endpoints clients call, so that a run can look
at a part of a component without changing its definition.

## 2. Inventory

| Component | State | Operations | What is hard | What makes it right |
|---|---|---|---|---|
| Student registry (`students`) | students, enrollments | create, correct, archive, remove | numbers generated from reads, deletion across tables | `currentStatus` agrees with the enrollments; unique numbers and rolls never dead-end |
| Transfers (`transfers`) | transfers | request, approve, reject, cancel, bulk | two schools decide about one row; origin changes between request and approval | decided once; executed only from a live enrollment; history linked |
| Promotions (`promotions`) | promotion batches and items | preview, confirm | a batch over four tables; stale roster | every closed enrollment has its item, capacity respected |
| Student lifecycle (`student-lifecycle`) | the same tables | Form 1 transition, undo of a final outcome | eligibility inferred from two statuses | one Form 1 enrollment per completion; undo only when nothing happened since |
| Student finance (`finance`) | invoices, charges, payments, claims, adjustments | bill, pay, reverse, claim, verify, reject, adjust | balances computed from stale reads; claim decided twice | posted money never exceeds the bill; a claim pays once; a rejected one never |
| Exams and results (`exams`) | exam subjects, results, result submissions | enter marks, submit, return, approve, publish, unpublish, edit, change maximum | marks written while the set is submitted; maximum changed while marks are entered; students who move | what is seen was reviewed and is within the maximum |
| Payroll (`payroll`) | payslips, lines, salaries, advances, repayments, periods | raise, create, add line, calculate, review, approve, pay | calculate twice; lines added while calculating | net is what the lines add up to; an advance is repaid once |
| Sessions and passwords (`auth`, `lib/auth-context.tsx`) | users, refresh tokens, invitations; cookies, tabs | login, refresh, logout, accept invite, change and reset password | rotation by check then update; a reset overlapping a login; lost answers | no tab is taken for a thief; a reset ends every older session that no handler in progress has checked |
| Attendance (`attendance`, the attendance page) | records, drafts; unsaved marks | load, mark, draft, submit, change session, leave | answers out of order; loads over unsaved marks | marks go where they were made; nothing is lost unasked but by Back and by a draft of what is submitted |
| Imports (`imports`) | batches and rows | upload, resolve, commit, resume at boot | background jobs that are not awaited, processes that die | every READY row is created once or marked ERROR; a batch leaves COMMITTING |
| Two-factor (`totp`) | secret, recovery codes | setup, enable, disable, verify | a code consumed by check then update | a recovery code works once |
| Expenses (`finance`) | expenses | create, approve, reject, pay | check then update by id | PENDING, APPROVED, PAID or PENDING, REJECTED only |
| Academic structure (`academic`) | years, terms, classes, sections, subjects | create, rebuild, delete | one current year; deletion across every table | at most one current year; weights sum to 100 |
| HR (`hr`), guardians, teachers, schools | registers, leave requests, assignments | single-row writes | check then update | leave decided once; codes unique |
| Announcements, notifications, audit, documents, storage | append-only rows, files | insert | none of their own | - |
| Dashboard, reports, exports, portals, the rest of the web client | none | read | formatting | - |

Interaction: a promotion, a transfer or an admission creates the enrollments that
billing, exams and attendance hang off, and moves students under an exam that is
being marked; imports call `StudentsService.create`; the annual result of exams
gates promotion; a renewal of the access token makes the attendance page load
again; archiving a parent ends the account whose tabs are refreshing; every write
is recorded in the audit log, which nothing reads back.

Composition follows these interactions. Registry, transfers, promotions and
lifecycle write the same four tables and are one module. `Results` has the roster
as actions of its environment (`Join`, `Close`, `Reopen`, `Move`: what the
handlers of Enrollment do to one section of a class), `Attendance` has the renewal
of the token as the action `Renew`, `Sessions` has the handlers of guardians,
teachers and schools that change an account.

## 3. Modules

| Module | Contents |
|---|---|
| `Tables` | database tables as functions from primary keys to rows |
| `Enrollment` | registry, transfers, promotions, lifecycle |
| `Finance`, `FeeAccount` | invoices, charges, payments, claims, adjustments; the abstract account they implement |
| `Results` | the results of one exam subject |
| `Payroll` | the payslips of one employee |
| `Sessions` | the login sessions of one account, server and browser |
| `Attendance` | the attendance of one section, server and page |
| `Imports` | one batch of a student import, its jobs and the death of the process |
| `Sums` | no part of the system: facts about sums over finite sets of rows, for the proofs of Finance and Payroll |

Each module `M` has `MProperties` (its type invariant and properties, in up to
three groups: under every interleaving, without overlap, and what the repository
says but the code does not keep), `MCM` (the instances for TLC) and `M_proofs`.
An operator whose comment starts with "Mutant" is not used by the specification:
it is a plausible bug of the definition below it, and some run must notice it.

### 3.1 Enrollment

`student` is `students.currentStatus`, `enr` the enrollments, `transfers` and
`items` the two history tables, keyed by their unique `fromEnrollmentId`; every
handler of the four services is an action pair named after it. Keys of `enr` grow
with time and stand for both the id and `startDate`, by which the code orders.
`undone` counts the reversals of an enrollment's final outcome, so that the key
together with it identifies a promotion item (an item recorded after a reversal
is a different row).

Left to the environment (any value the client may send): the sections and
outcomes chosen for a batch, a typed student number or roll number, whether the
annual result permits promotion. Left out: files, guardians, portal accounts,
audit rows, permission checks, the preview endpoints (they only read), classes
that have no academic year (every write refuses them).

### 3.2 Finance

`bills` has the status of each invoice and charge, under its unique key (fee,
enrollment and, for a charge, period); the amount is the fee's and never
changes. `payments` and `claims` (payment submissions) are keyed in the order of
creation, `credit` is the total of approved adjustments. `Counted` says which
payments `recordPayment` counts: for an invoice all of them, for a charge the
POSTED ones - the code of the two services differs there, and so does the model.
`verify` takes three steps because it reads the payments inside its transaction
but the claim before it.

`FeeAccount` is what the schema's comments promise: money owed per student, and
claims that are decided once and move money only when accepted. `ImplementsAccount`
checks that every step of the tables is a step of it, until a handler is overlapped.

### 3.3 Results

`maxMarks` and `passMark` are columns of the exam subject, `submission` the
`result_submissions` by section, `result` the `results` by enrollment, with the
section whose submission they belong to. `section` and `status` are the two
columns of the enrollments that the roster of a section is read from. Configure,
enter, edit and the five decisions (`submit`, `return`, `approve`, `publish`,
`unpublish`) are action pairs; `EnsureSubmission` is `getOrCreateSubmission`;
`Enough` is the count that `submitForReview` takes for completeness; `Counts` and
`Percentage` are what the annual result and the portals show. `Move` changes the
section of an enrollment in place and leaves its result where it was, as
`StudentsService.update` does.

### 3.4 Payroll

`salary` is the salary history with its open end, `payslip` the payslips with the
sums of their lines by kind, `advance` the advances with the sum of their
repayments. `calculate` is cut twice: `CalculateCheck` looks at the status before
the transaction, `CalculateRead` reads lines and advances inside it, `CalculateWrite`
stores repayments, their lines and the net. The employee is one: nothing but the
periods is shared between employees. What `create`, `addLine`, `review`, `approve`
and `pay` check and write are action pairs; `IssueAdvance` and `Close` depend on
nothing that can change.

### 3.5 Sessions

`account` is the row of `users` (role, status, the kind of password, whether it
must be changed), `invitation` and `token` the tables, rows numbered as they are
stored. A token carries the first token of its login session, for the properties;
the code's `sid` is the row of the token. `cookies` are the rows the browser has a
cookie for (a cookie is named after its `sid`); `tab[t]` has `sessionIdRef` and
what the tab waits for
(`refreshPromiseRef`): its answer (`sent`), the profile (`profile`), or itself
(`itself`, when the refused profile asks for the refresh that waits for it);
`lastActive` is the session a new tab takes up.

Refresh is `RefreshRead`, then `Rotate` (the old token is revoked) or `Kill` (a
revoked token was presented: every session of the account is revoked), then
`Issue` (the new pair is stored, the answer arrives) or `IssueLost` (it does not).
`Fail` is a failing statement or a dead process at any point, `Load` a tab that is
reloaded or opened, `Expire` the passing of time. The profile arrives or is refused
(`LoadProfile`), or `api.me` fails in any other way (`LoadProfileFails`: the network,
a 500, a 403); then the catch of `performRefresh` ends the session of the tab, though
its token and cookie are valid.

Two history variables: `reset` is how many tokens there were at the last password
reset and whether a handler in progress had then already checked what the reset ends
(a token to rotate, a password to sign in with, a link to accept); `disturbed` turns TRUE when something happens that rotation has no
answer to: an answer lost, a statement failed, a tab loaded on another tab's
session, a refresh that crosses a logout of its own tab, a reset.

### 3.6 Attendance

A slot is a date and a session. `sheet` and `draft` are the tables, `page` is what
the page of one teacher shows: the slot, the marks (`pending` in the code), the
marks that count as saved (`baseline`), the action held by the dialog. `calls` are
its calls in flight: `ServeLoad` and `ServeSave` are the handler, which checks and
writes in one transaction, `LoadArrives`, `SaveArrives` and `DraftArrives` the
answer, in any order, `Fail` a loss on either way. Buttons are actions of the
teacher, and so is leaving: by a link or another session (`Choose`, which asks when
marks are unsaved), or by Back and Forward (`Back`, which does not ask: the listener
of `page.tsx:126-146` sees clicks on links only). `Back` also stands for the
redirect of `AppShell.tsx` when the session of the tab has ended. Closing the tab,
reloading it or typing an address asks through `beforeunload`, a dialog without a
draft, and is `Choose` with `Discard` or `KeepEditing`. Other teachers save straight
into the tables (`OtherSave`).

`past` is history: whether marks were stored for a slot they were not loaded for
(`misplaced`), whether the teacher was asked (`given`), the ways he lost marks without
being asked (`lost`: a load or a save `replaced` them; he `left` by Back; a draft was
stored behind a submitted row that says otherwise, where it stays `hidden`, since
`attendance.service.ts:193` prefers the submitted row), and in which company that happened (`story`: quiet;
disturbed by a save nobody was told of; reloaded; impatient, that is clicking on
while a call is under way).

### 3.7 Imports

One batch of a CSV import. `batch` is the row of `import_batches` (status and
`pendingCount`), `row` the status of each row of the file, `students` how many
students were created from it. `jobs` are the calls of `stageBatch` and
`commitBatch` that the process has started and does not await, each with its loop
variables: the rows it loaded and has not handled, the row whose student it has
just created, the count it is about to store. `pending` are the requests between
two statements. Here a handler is cut at *every* statement that writes, because
the code uses no transaction: `UploadBatch` and `UploadRows` are two statements
of one handler, `ResolveRead`, `ResolveWrite`, `RefreshRead` and `RefreshWrite`
four of another, `CreateStudent` and `Mark` two of the commit loop. After `EndCommit`
the job still has to write its summary (`Audit`); when that fails, `JobFails` turns
the COMPLETED batch FAILED, as `markFailed` does.

`Crash` ends every request and job and leaves the tables as they are; `Restart`
is `onModuleInit`. `RequestFails`, `JobFails` and the ERROR case of `Mark` are
failing statements. `Faults` says which of these can happen in a run: `crash`,
`request`, `job`, and `record`, the failure of the statement that records a
failure (`markFailed` swallows it).

What a row contains is abstracted to what its checks can answer: staging marks it
ERROR, DUPLICATE_PENDING or READY, creation may refuse it. Only whether the row
gives a student number is kept (`Numbered`), because that number is unique and
decides whether a repeated creation succeeds. Batches share nothing that this
module has, so one is enough.

## 4. Runs

| Run | Asks | Bounds |
|---|---|---|
| `serial_transfers` | one open request per student, one origin per enrollment, every closed enrollment explained, capacity kept | 2 students, 3 sections with 1 seat in those the batches go to, 4 enrollments, 1 worker |
| `serial_progress` | every closed enrollment has its reason on record, no second ACTIVE seat | 2 students, 5 sections of Class 7, Class 8 and Form 1 over three years and two schools, 4 enrollments, 1 worker, one undo |
| `race` | types and foreign keys, history links, `currentStatus`, items, and what handlers carry to their writes | 2 workers, 1 student, 2 sections, 3 enrollments |
| `finance` | a claim is paid once under every overlap; overpayment, stored statuses and the refinement of `FeeAccount` until the first | 2 workers, 1 student with an invoice and a charge of 2 units each, 3 payments, 1 claim, 1 unit of adjustment |
| `results` | what is seen was reviewed; marks within the maximum, reviewed marks stand, submitted sets complete | 2 workers, 2 students, 2 sections, maxima 1 and 2, a mark of 2 or absent, pass mark 2 or none; what follows an overlap only in a class of one student |
| `payroll` | repayments are what payslips were charged under every overlap; net, advances, salaries and calculated figures until the first | 2 workers, 1 period, a raise, 2 payslips, 1 line, 1 advance of 3 repaid in installments of 2 |
| `sessions` | resets, temporary passwords, theft detection, rotation, staying signed in | 2 tabs, 2 requests at once, an account of each role, 3 tokens for a student and 2 for the others, 2 invitations |
| `attendance` | marks go where they were made, a clean page shows what it would show again, nothing is lost unasked but by Back and by drafts of what is submitted, drafts end in the register | 1 student, 2 sessions, 2 statuses, 2 calls in flight |
| `imports_one_by_one` | nothing created before the commit, nothing skipped, true outcomes, at most one student per row and life of the process, the batch never stays in the background | 2 rows (one with a student number), 2 jobs, 2 deaths of the process, failing statements, 1 request at a time |

Three more runs expect a violation and reproduce findings (section 7):
`sessions_refresh_settles`, `sessions_reset_outlived`, `imports_resumed`.

Eight more instances are kept beside the runs. Each has one property, which TLC
finds violated, and is started by hand (`tlc -config X.cfg M`):

| Instance | Module | Property |
|---|---|---|
| `EnrollmentApproveAfterPromote.cfg` | `MCEnrollment` | `TransfersAreFromCurrent` |
| `FinanceRejectRace.cfg` | `MCFinance` | `RejectedClaimPaysNothing` |
| `FinancePaidAfterReversal.cfg` | `MCFinance` | `PaidIsPaid` |
| `ImportsStaleCount.cfg` | `MCImports` | `PendingCountIsRight` |
| `ResultsEveryActiveIsChecked.cfg` | `MCResults` | `EveryActiveIsChecked` |
| `ResultsNeverEditedInPlace.cfg` | `MCResults` | `NeverEditedInPlace` |
| `PayrollOnePayslip.cfg` | `MCPayroll` | `OnePayslipPerPeriod` |
| `AttendanceMarksLost.cfg` | `MCAttendance` | `NothingLostSilently` |

Why these bounds are enough for the hazards. Two handlers are enough for every
stale read, because a stale read concerns one reader and one writer. Two students
are enough for anything about sharing (a seat, a roll number, a capacity of one).
Three or four enrollments let a student pass through Class 8, Form 1 and a
transfer. A bill of two units can be unpaid, part paid or paid, and three payments
allow a reversal and two more. Two students and two sections let a student leave a
set while another stays in it. An advance of 3 in installments of 2 has a first, a
shorter last and no third one. Two tokens are one rotation, three are a rotation
and a second login; two tabs are one that shares and one that is shared with. Two
calls in flight can be answered in both orders. A row of an import meets at most
one other, a job at most one other, and after two deaths a resumed commit has
itself been resumed. What the instances leave out: Form 1 and reversals are not
raced in `race` (the invariants are proved for them), and two students are not
raced either (`OneOriginAtMost` and `HistoryLeadsForward` are proved).

`MaxEnrollments`, `MaxUndo`, `MaxPayments`, `MaxClaims`, `MaxAmount`, `MaxCredit`,
`MaxSalaries`, `MaxPayslips`, `MaxAdvances`, `MaxLines`, `LastDay`, `MaxTokens`,
`MaxInvitations`, `MaxCalls`, `MaxCrashes` and the size of `Jobs` bound what has no
limit in the code. In `attendance` the constraint `Patient` does not follow a
teacher once he was impatient: the properties about marks ask nothing of him, and
`DraftBecomesFinal` is proved without it. In `results` the constraint
`OneStudentIfOverlapped` follows what comes after an overlap only in a class of one
student: only `ReviewedBeforeSeen` asks about such states, and it is proved for
every class. Symmetry is over students, workers,
tabs, sections (where sections are alike) and slots, and only in runs that check
safety.

`CHECK_DEADLOCK FALSE` is right where it stands: the system waits for clients, and
an instance has no next step once its bounds are used up and every handler has
ended. Results and Sessions never stop: `results` and the three runs of Sessions
are checked for deadlock, and so are the two further
instances of Results.

The properties of Enrollment that are only about handlers one after another
(`ClosedForAReason`, `CapacityRespected`, `OneRequestPerStudent`,
`OneActiveEnrollment`), those conditioned on `~ overlapped`, and for imports
`EveryRowIsSettled` and `OncePerLife`, do not hold when handlers overlap. That is
the honest scope of the code: it checks and then writes without locks.

## 5. Liveness

`BatchLeavesBackground`: a batch whose rows are stored leaves STAGING, and a batch
that is COMMITTING leaves that status, whatever statements fail and however often
the process dies (within `MaxCrashes`). `FairSpec` of Imports assumes weak fairness of

- `Work(j)` for each job: Node continues a job when its query has answered; nothing
  but the death of the process takes it away;
- `Serve(w)`: likewise for a request that has begun;
- `Restart`: the process manager starts the API again, and Nest calls
  `onModuleInit` before it serves.

Nothing is assumed of `Call(w)` (clients owe nothing) nor of the faults. A job
cannot be starved: each step of `Work(j)` stays enabled until `j` takes a step or
ends. Two cases are excluded, in the open: the fault `record`, after which the
batch really stays in the background until the next boot, and an upload that
fails between storing the batch and its rows, which leaves a batch STAGING without
rows.

`RefreshSettles`: a tab that waits for a refresh stops waiting. `FairSpec` of
Sessions assumes weak fairness of `Statements(w)`, the next statement of a handler
that has begun, and of `LoadProfile(t)`, the answer to `api.me`. Nobody has to
reload a tab. It is violated (section 7), by a promise that waits for itself: no
fairness could help.

The other modules have no liveness property: every step is caused by a client and
a handler may always fail (`Rollback`), so nothing has to happen.

## 6. Proofs

All theorems hold for any value of the constants that the named assumptions admit:
any number of concurrent handlers, rows, tabs, calls. Each module has one lemma
per action and, under it, one step per conjunct the action can disturb.

| Module | Theorems | Scope |
|---|---|---|
| `Enrollment_proofs` | `TypeOK`, `RequestsOK`, `ActiveStudentIsEnrolled`, `ProgressIsRecorded`, `HistoryLeadsForward`, `OneOriginAtMost` | every interleaving |
| | `OneRequestPerStudent`, `ClosedForAReason`, `CapacityRespected` | one handler at a time |
| | `OneActiveEnrollment` | one handler at a time, nobody transferred |
| `Finance_proofs` | `TypeOK`, `ClaimIsPaidOnce` | every interleaving |
| | `NoOverpayment`, `StatusesAreDerived`, `ImplementsAccount` | until the first overlap |
| `Results_proofs` | `TypeOK`, `ReviewedBeforeSeen` | every interleaving |
| | `MarksWithinMax`, `ReviewedMarksStand`, `SubmittedIsComplete` | until the first overlap |
| `Payroll_proofs` | `TypeOK`, `RepaymentsAreCharged` | every interleaving |
| | `NetIsRight`, `AdvanceIsSettledOnce`, `OneSalaryAtATime`, `CalculatedStands` | until the first overlap |
| `Sessions_proofs` | `TypeOK`, `TemporaryIsReplaced` | every interleaving, loss and failure |
| | `ResetEndsSessions` | every interleaving, loss and failure, unless a handler had checked before the reset |
| | `NoFalseAlarm`, `OneTokenPerSession`, `SignedInUntilLogout` | until disturbed |
| `Attendance_proofs` | `TypeOK`, `SavedWhereMarked`, `DraftBecomesFinal` | every order, loss and refusal |
| | `CleanMeansStored`, `UndisturbedLosesNothing` | a patient teacher, until disturbed; Back and hidden drafts named |
| `Imports_proofs` | `TypeOK`, `NothingBeforeCommit`, `NothingSkippedSilently` | every interleaving, crash and fault |
| | `OncePerLife`, `EveryRowIsSettled` | one request at a time, every crash and fault |

**Enrollment.** The inductive invariant is

    IInv == TypeOK /\ RequestsOK /\ ActiveStudentIsEnrolled /\ ProgressIsRecorded
              /\ HistoryLeadsForward /\ OneOriginAtMost

`RequestsOK` is needed because commits act on what was read earlier: it says
which of the facts a handler has validated cannot change any more. An enrollment
never changes its student, number or school; a batch holds one enrollment per
student; the target class of a batch is at the school it was read for. What can
change (a status, a capacity, a decision) is not in it, and the proof goes
through without: the theorems hold although those checks are stale.

`Orderly` is what one handler at a time adds (`OneHandler`: there is one worker):
the two properties, and `StillTrue`, what can change but did not while this handler
was between its halves: the enrollment is still ACTIVE, the request still waits,
nothing else waits for the student, the target is still of the school. Only
deletion (one statement, which can run between the halves) gets in between, and it
removes rows without changing others; so `StillTrue` speaks of the rows that are
still there.

`CapacityRespected` rests on `RoomInv`: the room a handler found for one student, or
for all those it sends to a section, is still there when it writes, because only
deletion gets in between and that empties seats. A step then adds to the ACTIVE rows
of a section at most as many as the room was found for (the new rows of a batch are
the images of its students there, so they are no more than those). A reversal takes
its seat unchecked; `RoomInv` says that it has found an item, which is what makes its
write count in `undone`, the exception that the property names.

`OneActiveEnrollment` rests on `SeatInv`: an ACTIVE seat belongs to a student whose
`currentStatus` says ACTIVE, all rows of a student carry one number, and what the
handler in progress found of seats is still so. Admission takes a new student,
promotion closes the row it continues from, a Form 1 transition takes students who
are COMPLETED and so have no seat, and a reversal looks for a seat first. One Form 1
batch could name two completed rows of one student: the two new rows would have the
same number in the same year, and the unique index refuses them. `NoTransfers` is
needed, not convenient: with transfers the property is false. Approving the request
of a student who progressed since gives a second seat (section 7, no. 4), and so does
a student transferred in bulk after completing, who completes again at the other
school, whose first outcome is undone and who is then transferred in bulk once more.

**Sums.** Finance and Payroll sum over rows with `SumFunctionOnSet` and `SumFunction`
of the community modules, which fold over a set in an order they choose. `Sums`
proves from their definitions what makes them sums: the fold exists, any element can
be taken out first (`SumWithout`), a sum is a natural number, of two parts is the sum
of the parts, and changes with one element as that element does. Induction over rows,
which the installed provers cannot instantiate, is replaced by a smallest
counterexample: subsets of a finite set are well founded under inclusion, so a fact
that failed for some would fail for a smallest one, and the step from there to one
element less is first-order.

**Finance.** Beside `TypeOK` the invariant says that payments and claims are
numbered without gaps (so the next row is new) and that what a request carries is
never deleted. A payment names the claim it came from, and that column is unique:
the index, and not the stale check of the claim's status, stops a second payment.

`SInv` adds `Calm` until the first overlap. Of a bill (`BillOK`): what is POSTED is no
more than its amount, and its status is the one those payments give, except for an
invoice once something was reversed. Of a handler in progress (`Found`): the balance
it computed is the balance still, its payment is still POSTED, its claim still
PENDING. Invoices and charges differ in which payments they count, and `Found`
says so: an invoice counts reversed ones, which makes its balance smaller, so it is
the status and not the overpayment that goes wrong there.

The refinement of `FeeAccount` is proved operation by operation under
`~ overlapped'`: billing is a charge, an adjustment a waiver, submitting a claim a
claim, a cash payment, a verification, a rejection and a reversal the operation of
their name at the step that writes the money, and every other step a stutter. What
the account holds as one number is a sum over a student's bills or payments in the
tables; each lemma says by how much the step changes that sum, and the guards of the
account (nobody pays more than is owed, nothing is given back that was not paid)
follow from `Calm`.

**Results.** `Reviewed` is the argument under every interleaving: a status that
was once reached tells what was stored on the way (`SetOK`: submitted, approved),
and neither mark is ever taken back, so what a decision saw (`Vouched`) is still
true when it writes. `Serial` is the argument without overlap: what a handler
found when it read still holds, so its writes keep the marks within the maximum.
`SubmittedIsComplete` counts: two finite sets of the same size, one inside the
other, are equal.

**Payroll.** Under every interleaving what is recorded as repaid of the advances is what
the payslips were charged: the transaction of `calculate` writes the repayment and
its line together, whatever it read. `IInv` adds `Alone` until the first overlap: the
net of a payslip that was calculated is what its lines and repayments add up to
(`NetsOK`), an advance is repaid to at most its amount and is COMPLETED exactly when
it is repaid, only the last salary is open, and what the one handler in progress
found is still so (`PendingOK`); for `calculate` that is the sum of the lines it has
read and the installments it is about to store. Installments never exceed what remains because `Due` takes the
smaller of the two from the row it then writes.

**Sessions.** `Sound` holds always: types, accounts, `TemporaryIsReplaced`.
`ResetOK` is what a reset leaves behind when no handler was late: every token of a
session from before is revoked, no request that goes on holds one (rotate and issue
carry a token of a newer session, or a password compared after the reset), and while
the temporary password stands no link is PENDING and no accept in progress. It is an
invariant on top of `IInv`: the cookies, the tabs and the requests from before the
reset all go on, and each of their steps is shown to check something the reset has
ended. `Calm` holds until `disturbed`: every request
of a tab is still waited for and found no revoked token; a renewal owns its
session; one token of a session is valid; the token of a tab is valid (or expired)
unless the tab is getting another one or logging out; tabs hold distinct sessions,
for which the browser has the cookies.

**Attendance.** A save sends, and a load answers, a mark for every student; only a
page that has loaded can have a dialog open; and a patient teacher waits for one
call at a time, so that the marks on the page are those of the slot it shows or
their load is still under way (`Placed`). `Calm` adds what holds while nothing
disturbs him: at most one call is in flight, and it is about the slot shown; the
marks of an answered call are what the server would answer, unless a draft was
hidden behind others; a load goes out over unsaved marks only
when they were given up; a draft saved in order to leave carries the marks shown.

**Imports.** Three parts beside `TypeOK`:

- `PendingOK`: while an upload is storing its rows there is no job and no other
  upload; a commit that has passed its checks still finds every row decided about;
- `JobOK`: a staging job is alone, the batch is STAGING, and every row still
  unchecked is among those it has to do; a commit job has only decided rows before it;
- `BatchOK`: no student before the batch has begun to be committed; once it has,
  no undecided row; none is unchecked when it is up for review; a dead process has
  no job and no request.

The crux is that a decision is never taken back: only staging writes
DUPLICATE_PENDING, and staging cannot run again once the batch has been reviewed.
So the checks of `commitStudents`, stale as they are when the status is written,
are still true.

`Serial` adds what one request at a time gives: a commit job has to do exactly the
READY rows; a READY row has at most one student for each death of the process,
unless the job is just marking it or the commit was given up (its failure is
recorded, or could not be); a row that was never READY has none; a request in
progress still finds what it checked.

Only model-checked: liveness (`BatchLeavesBackground`, and that `RefreshSettles`
fails), which the prover cannot reach, nor ENABLED. Every other property of a passing
run is proved.

## 7. Findings

Three have a run of their own; the lines, and the words of the repository they
contradict, are in PROJECT.json.

1. `imports_resumed`: the process dies between creating a student and marking its
   row; the resumed commit creates the student again.
2. `sessions_reset_outlived`: a refresh has read its token when an admin resets the
   password; it stores the next token of the old session after the reset has revoked
   what there was (`auth.service.ts:217`), and the old login goes on, although
   `portal-password-reset.ts:64` says that it cannot outlive the reset. A login whose
   password was compared before does the same; an invitation that is being accepted
   overwrites the temporary password.
3. `sessions_refresh_settles`: when the account is suspended, the refresh of a tab
   waits for the profile and the refused profile waits for the refresh.

The further instances of section 4 show these:

4. A transfer requested before the year-end promotion can be approved after it
   (`transfers.service.ts:173`); the student then has two ACTIVE enrollments
   (`TransfersAreFromCurrent`).
5. A payment claim can be rejected while it is being verified
   (`payment-submissions.service.ts:168`): it ends REJECTED with a POSTED payment
   (`RejectedClaimPaysNothing`).
6. After a reversal the next payment of an invoice counts the reversed one
   (`invoices.service.ts:99`): the invoice turns PAID without being paid (`PaidIsPaid`).
7. Resolving a duplicate beside staging can store an older count last
   (`imports.service.ts:257`): the batch waits for a decision that no row needs
   (`PendingCountIsRight`).
8. `submitForReview` compares two counts (`exams.service.ts:773`): the result of a
   student who left stands in for that of one who has none (`EveryActiveIsChecked`).
9. `StudentsService.update` moves an enrollment in place (`students.service.ts:131`):
   its reviewed mark stays in the old section's set, and entering marks in the new
   section overwrites it (`NeverEditedInPlace`).
10. A renewal of the access token makes the attendance page load again over unsaved
    marks (`page.tsx:97`, from `auth-context.tsx:152`), although
    `UnsavedAttendanceDialog.tsx:6` says the silent loss is gone (`NothingLostSilently`).
11. The unique index that is to keep payslips single spans a nullable column
    (`payslips.service.ts:97`, `schema.prisma:1570`): an employee gets two payslips for
    a period, one after the other, and both repay the advances, although
    `payslips.service.ts:98` answers "This employee already has a payslip for this
    payroll period" (`OnePayslipPerPeriod`).

Met while modelling, and in the models, without an instance of their own:

- registry: the generated student number is a row count plus one and collides after
  a deletion (`students.service.ts:584`); a closed row does reserve its roll number
  against another closed row of the same status, since the unique index spans the
  status;
- transfers: after a cancelled or rejected request the same enrollment can never be
  transferred again, because its `fromEnrollmentId` is taken (`transfers.service.ts:85`);
  a transfer can be cancelled or rejected while it is being approved;
- lifecycle: undo of a final outcome takes `currentStatus` for the whole story, so a
  student who completed twice can have the first completion undone after a transfer;
  an old completion can be used for a second Form 1 transition, which overwrites the
  link to the first;
- finance: the list of invoices counts reversed payments in the balance it shows;
- exams: marks entered while the set is being submitted or published are stored in
  the finished set;
- payroll: a line of type OTHER enters no sum; the net can be negative; a calculation
  that overlaps another step can send a payslip back to CALCULATED and repay an
  advance twice;
- sessions: a revoked token is taken for a stolen one, which it also is in a tab that
  slept through a password reset or whose answer was lost (`auth.service.ts:204`);
  a logout that crosses a refresh of its own tab leaves the session alive; `refresh`
  does not look at the account's status; a request for the profile that fails for any
  reason signs the tab out although its token is valid (`auth-context.tsx:111`, whose
  comment has only the dead session in mind); archiving a parent leaves a PENDING
  invitation valid (`guardians.service.ts:367`); an admin invited twice has two
  valid links;
- attendance: a load that fails after a change of session leaves the marks of the
  session before on the page, and they are then saved under the new one; a draft
  saved after submitting is never shown again (`attendance.service.ts:193`); Back and
  Forward leave the page over unsaved marks without a question, a gap that
  `page.tsx:128` names while `UnsavedAttendanceDialog.tsx:6` counts "browser back"
  among the losses the dialog replaces; "Save as draft & leave" runs the
  action held when the answer arrives, which may be a newer one;
- imports: when the audit record of a finished commit fails, the COMPLETED batch is
  reported FAILED with all its students created (`imports.service.ts:239`, `:266`); two
  commits of one batch at once both start a job, and a row is created
  twice; an upload that fails between the batch and its rows leaves a batch STAGING
  until the next boot, which puts it up for review without rows.

## 8. Not modelled, and what is left

Not modelled, because no handler has more than one check and one write on rows
nobody else writes, or because nothing is written: the registers of guardians,
teachers, staff and schools; announcements, notifications and the audit log;
documents and storage (files); dashboard, reports, exports, portals; the code
generators, which retry around a unique index; the pages of the web client that
show what the API answers and send one call per button. Expenses and leave requests
have the shape of the payslip stages in Payroll without their figures. The second
factor is switched off at login (`MFA_LOGIN_ENFORCED` in `auth/mfa-policy.ts` is
false), so that sessions do not depend on it. The annual ranking of exams only reads.

The project covers a small share of the repository's lines: most of them are
pages, forms, DTOs, seeds and queries that keep no state of their own.

Worth doing next:

1. deletion of an academic year, on the tables of Enrollment: it needs classes and
   sections as variables there, and takes `TypeOK` and its proof with it;
2. recovery codes and two-factor setup, once the second factor is enforced;
3. a proof of `OneActiveEnrollment` with transfers, for students whose requests are
   approved before they progress: it needs the history of a student (which
   completion is the latest) in the invariant.
