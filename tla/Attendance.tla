----------------------------- MODULE Attendance -----------------------------
(***************************************************************************)
(* The attendance of one section: the register and the drafts on the       *)
(* server, and the page a teacher marks them on.                           *)
(*                                                                         *)
(* Source: apps/api/src/attendance/attendance.service.ts and               *)
(* apps/web/src/app/(app)/schools/[id]/sections/[sectionId]/attendance/    *)
(* page.tsx.                                                               *)
(*                                                                         *)
(* A slot is a date and a session.  The page sends a call, the server      *)
(* serves it and the answer comes back, in any order; an answer or a call  *)
(* can be lost, and a save can be refused.  Serving checks and writes in   *)
(* one step: a save writes the rows it was sent, whatever is there.  Other *)
(* teachers save straight into the tables.  The roster does not change     *)
(* while the page is open: a save with a student who has just left is      *)
(* refused as a whole, which the page cannot tell from a lost one. Closing *)
(* the tab, reloading it or typing an address asks like the dialog without *)
(* its draft (beforeunload): Choose(Away) and Discard or KeepEditing.      *)
(*                                                                         *)
(* An operator whose comment starts with "Mutant" is not used: it is a     *)
(* plausible bug of the definition that follows it.                        *)
(***************************************************************************)
EXTENDS Naturals, FiniteSets, Tables

CONSTANTS
  Enrollments,  \* the enrollments ACTIVE in the section
  Slots,
  Away,         \* the rest of the site, where a link leads
  Nowhere,      \* no dialog is open
  Statuses,
  Present,      \* what a student without a record starts with
  MaxCalls      \* bound: calls in flight at once

ASSUME AttendanceAssumption ==
  /\ Present \in Statuses
  /\ Away \notin Slots /\ Nowhere \notin Slots \cup {Away}
  /\ MaxCalls \in Nat \ {0}

VARIABLES
  sheet,   \* table attendance_records, by slot
  draft,   \* table attendance_drafts, by slot
  page,    \* the teacher's page
  calls,   \* the calls of the page in flight, by number
  past     \* history, for the properties

tables == <<sheet, draft>>
vars == <<tables, page, calls, past>>

Marks == UNION {[E -> Statuses] : E \in SUBSET Enrollments}

NoMarks == [e \in {} |-> Present]

\* What a page shows: nothing until it has loaded, then every student.
Shown == {NoMarks} \cup [Enrollments -> Statuses]

\* marks and base: `pending` and `baseline`; held: where the dialog about unsaved
\* marks leads to; from: history - the slot the marks were loaded for
Page == [slot : Slots, marks : Shown, base : Shown, held : Slots \cup {Away, Nowhere}, from : Slots]

\* marks: those sent with a save, those answered to a load; leave: run the held
\* action after the draft is saved; mounted: is the page that sent it still there?
\* astray: history - the marks sent were loaded for another slot
Call == [op : {"load", "mark", "draft"}, slot : Slots, marks : Shown, leave : BOOLEAN,
         mounted : BOOLEAN, answered : BOOLEAN, astray : BOOLEAN]

CallIds == 1..MaxCalls

InFlight(ops) == {i \in DOMAIN calls : calls[i].mounted /\ calls[i].op \in ops}

Waiting == InFlight({"load", "mark", "draft"}) # {}

Loaded == page.marks # NoMarks

\* Mutant: the marks are compared with all Present.
DirtyPresent == Loaded /\ page.marks # [e \in Enrollments |-> Present]

\* isDirty
Dirty == page.marks # page.base

-----------------------------------------------------------------------------
(* The history.  story - "quiet": nothing of what follows; "disturbed": a   *)
(* save the page was not told of, or told of in vain; "reloaded": a load    *)
(* failed or was repeated by the renewal of the token; "impatient": the     *)
(* teacher clicked on while the page loaded, or left or saved again while   *)
(* it saved (no history is kept then).                                      *)
(* misplaced - marks loaded for one slot were stored for another; given -   *)
(* the teacher discarded what he marked; lost - the ways he lost marks      *)
(* without being asked: a page that loads replaced them, he left the page,  *)
(* or the draft they are in stays behind what was submitted.                *)

Ways == {"replaced", "left", "hidden"}

Past == [story : {"quiet", "disturbed", "reloaded", "impatient"}, misplaced : BOOLEAN, given : BOOLEAN,
         lost : SUBSET Ways]

Story(story) == [story |-> story, misplaced |-> FALSE, given |-> FALSE, lost |-> {}]

Losing(way, marks) == IF marks THEN {way} ELSE {}

Saw(patient, given, lost) ==
  past' = IF patient /\ past.story # "impatient" THEN [past EXCEPT !.given = given, !.lost = @ \cup lost]
          ELSE Story("impatient")

Worse(story) ==
  past' = IF past.story \in {"quiet", "disturbed"} THEN [past EXCEPT !.story = story] ELSE past

-----------------------------------------------------------------------------
(* The server *)

Done(i) == Without(calls, {i})

\* getForSectionAndDate and the page: a submitted status wins over a draft.
View(slot) ==
  [e \in Enrollments |-> IF e \in DOMAIN sheet[slot] THEN sheet[slot][e]
                         ELSE IF e \in DOMAIN draft[slot] THEN draft[slot][e] ELSE Present]

SaveDraft(slot, marks) ==
  /\ draft' = [draft EXCEPT ![slot] = Upsert(@, marks)]
  /\ UNCHANGED sheet

\* Mutant: the drafts of every session are deleted.
MarkAllSessions(slot, marks) ==
  /\ sheet' = [sheet EXCEPT ![slot] = Upsert(@, marks)]
  /\ draft' = [s \in Slots |-> Without(draft[s], DOMAIN marks)]

Mark(slot, marks) ==
  /\ sheet' = [sheet EXCEPT ![slot] = Upsert(@, marks)]
  /\ draft' = [draft EXCEPT ![slot] = Without(@, DOMAIN marks)]

Save(op, slot, marks) ==
  \/ op = "mark" /\ Mark(slot, marks)
  \/ op = "draft" /\ SaveDraft(slot, marks)

ServeLoad(i) ==
  /\ calls[i].op = "load" /\ ~ calls[i].answered
  /\ calls' = [calls EXCEPT ![i].answered = TRUE, ![i].marks = View(calls[i].slot)]
  /\ UNCHANGED <<tables, page, past>>

ServeSave(i) ==
  LET c == calls[i]
      hidden == c.op = "draft" /\ \E e \in DOMAIN sheet[c.slot] : sheet[c.slot][e] # c.marks[e]
  IN
  /\ c.op # "load" /\ ~ c.answered
  /\ Save(c.op, c.slot, c.marks)
  /\ calls' = IF c.mounted THEN [calls EXCEPT ![i].answered = TRUE] ELSE Done(i)
  /\ past' = IF past.story = "impatient" THEN past
             ELSE [past EXCEPT !.misplaced = @ \/ c.astray, !.lost = @ \cup Losing("hidden", hidden)]
  /\ UNCHANGED page

\* Another teacher of the section, or the same one on another device.
OtherSave(op, slot, marks) ==
  /\ Save(op, slot, marks)
  /\ Worse("disturbed")
  /\ UNCHANGED <<page, calls>>

-----------------------------------------------------------------------------
(* The page *)

Request(op, slot, leave) ==
  [op |-> op, slot |-> slot, marks |-> IF op = "load" THEN NoMarks ELSE page.marks, leave |-> leave,
   mounted |-> TRUE, answered |-> FALSE, astray |-> op # "load" /\ page.from # slot]

\* Send over the calls that remain in `others`.
Send(others, request) ==
  \E i \in CallIds \ DOMAIN others :
    /\ \A j \in CallIds \ DOMAIN others : i <= j
    /\ calls' = Upsert(others, OneRow(i, request))

\* The page is left: of its calls only a save that is not served yet still matters.
Gone(others) ==
  [i \in {j \in DOMAIN others : others[j].op # "load" /\ ~ others[j].answered} |->
     [others[i] EXCEPT !.mounted = FALSE]]

Blank(slot) == [slot |-> slot, marks |-> NoMarks, base |-> NoMarks, held |-> Nowhere, from |-> slot]

\* Mutant: the effect does not depend on the session.
GoWithoutLoading(others, target) ==
  IF target = Away
  THEN /\ page' = Blank(page.slot)
       /\ Send(Gone(others), Request("load", page.slot, FALSE))
  ELSE /\ page' = [page EXCEPT !.slot = target, !.held = Nowhere]
       /\ calls' = others

\* setDate and setSession make the effect that loads run; a link leaves the page,
\* which is opened again one day.
Go(others, target) ==
  IF target = Away
  THEN /\ page' = Blank(page.slot)
       /\ Send(Gone(others), Request("load", page.slot, FALSE))
  ELSE /\ page' = [page EXCEPT !.slot = target, !.held = Nowhere]
       /\ Send(others, Request("load", target, FALSE))

\* Mutant: the dialog is not opened.
ChooseAnyway(target) ==
  /\ page.held = Nowhere /\ target # page.slot
  /\ Go(calls, target)
  /\ Saw(~ Waiting, past.given, Losing("replaced", Dirty))
  /\ UNCHANGED tables

\* attemptAction
Choose(target) ==
  /\ page.held = Nowhere /\ target # page.slot
  /\ IF Dirty THEN page' = [page EXCEPT !.held = target] /\ UNCHANGED calls
     ELSE Go(calls, target)
  /\ Saw(~ Waiting, past.given, {})
  /\ UNCHANGED tables

\* Back and Forward of the browser, and AppShell's redirect when the
\* session of the tab has ended: nobody is asked.
Back ==
  /\ Go(calls, Away)
  /\ Saw(~ Waiting, past.given, Losing("left", Dirty /\ ~ past.given))
  /\ UNCHANGED tables

Click(e, status) ==
  /\ page.held = Nowhere /\ Loaded
  /\ page' = [page EXCEPT !.marks[e] = status]
  /\ Saw(InFlight({"load"}) = {}, FALSE, {})
  /\ UNCHANGED <<tables, calls>>

AllPresent ==
  /\ page.held = Nowhere /\ Loaded
  /\ page' = [page EXCEPT !.marks = [e \in Enrollments |-> Present]]
  /\ Saw(InFlight({"load"}) = {}, FALSE, {})
  /\ UNCHANGED <<tables, calls>>

PressSave ==
  /\ page.held = Nowhere /\ Loaded /\ InFlight({"mark"}) = {}
  /\ Send(calls, Request("mark", page.slot, FALSE))
  /\ Saw(~ Waiting, past.given, {})
  /\ UNCHANGED <<tables, page>>

PressDraft ==
  /\ page.held = Nowhere /\ Loaded /\ InFlight({"mark", "draft"}) = {}
  /\ Send(calls, Request("draft", page.slot, FALSE))
  /\ Saw(~ Waiting, past.given, {})
  /\ UNCHANGED <<tables, page>>

(* The dialog; a click beside it keeps editing even while a draft is saved. *)

KeepEditing ==
  /\ page.held # Nowhere
  /\ page' = [page EXCEPT !.held = Nowhere]
  /\ Saw(~ Waiting, past.given, {})
  /\ UNCHANGED <<tables, calls>>

Discard ==
  /\ page.held # Nowhere /\ InFlight({"draft"}) = {}
  /\ Go(calls, page.held)
  /\ Saw(~ Waiting, TRUE, {})
  /\ UNCHANGED tables

DraftAndLeave ==
  /\ page.held # Nowhere /\ InFlight({"draft"}) = {}
  /\ Send(calls, Request("draft", page.slot, TRUE))
  /\ Saw(~ Waiting, past.given, {})
  /\ UNCHANGED <<tables, page>>

(* Answers *)

\* The answer is for whichever slot was asked then.
LoadArrives(i) ==
  LET c == calls[i] IN
  /\ c.op = "load" /\ c.answered /\ c.mounted
  /\ page' = [page EXCEPT !.marks = c.marks, !.base = c.marks, !.from = c.slot]
  /\ calls' = Done(i)
  /\ Saw(TRUE, FALSE, Losing("replaced", Dirty /\ ~ past.given))
  /\ UNCHANGED tables

\* Mutant: what the page shows now counts as saved.
SaveArrivesNow(i) ==
  LET c == calls[i] IN
  /\ c.op = "mark" /\ c.answered /\ c.mounted
  /\ page' = [page EXCEPT !.base = page.marks]
  /\ calls' = Done(i)
  /\ UNCHANGED <<tables, past>>

SaveArrives(i) ==
  LET c == calls[i] IN
  /\ c.op = "mark" /\ c.answered /\ c.mounted
  /\ page' = [page EXCEPT !.base = c.marks]
  /\ calls' = Done(i)
  /\ UNCHANGED <<tables, past>>

DraftArrives(i) ==
  LET c == calls[i]
      leaves == c.leave /\ page.held # Nowhere
  IN
  /\ c.op = "draft" /\ c.answered /\ c.mounted
  /\ IF ~ leaves THEN page' = [page EXCEPT !.base = c.marks] /\ calls' = Done(i)
     ELSE IF page.held = Away THEN Go(Done(i), Away)
     ELSE /\ page' = [page EXCEPT !.base = c.marks, !.slot = page.held, !.held = Nowhere]
          /\ Send(Done(i), Request("load", page.held, FALSE))
  /\ Saw(TRUE, past.given, Losing("replaced", leaves /\ page.marks # c.marks))
  /\ UNCHANGED tables

\* The call is refused, or it or its answer is lost: the page shows an error and
\* stays as it is.
Fail(i) ==
  /\ calls' = Done(i)
  /\ Worse(IF calls[i].op = "load" THEN "reloaded" ELSE "disturbed")
  /\ UNCHANGED <<tables, page>>

\* auth-context: the access token was renewed, and the effect that loads runs again.
Renew ==
  /\ Send(calls, Request("load", page.slot, FALSE))
  /\ Worse("reloaded")
  /\ UNCHANGED <<tables, page>>

-----------------------------------------------------------------------------
Init ==
  /\ sheet = [s \in Slots |-> NoMarks]
  /\ draft = [s \in Slots |-> NoMarks]
  /\ \E s \in Slots :
       /\ page = Blank(s)
       /\ calls = OneRow(1, [op |-> "load", slot |-> s, marks |-> NoMarks, leave |-> FALSE,
                             mounted |-> TRUE, answered |-> FALSE, astray |-> FALSE])
  /\ past = Story("quiet")

Teacher ==
  \/ \E target \in Slots \cup {Away} : Choose(target)
  \/ Back
  \/ \E e \in Enrollments, status \in Statuses : Click(e, status)
  \/ AllPresent
  \/ PressSave
  \/ PressDraft
  \/ KeepEditing
  \/ Discard
  \/ DraftAndLeave

Network(i) ==
  \/ ServeLoad(i)
  \/ ServeSave(i)
  \/ LoadArrives(i)
  \/ SaveArrives(i)
  \/ DraftArrives(i)
  \/ Fail(i)

Others ==
  \/ Renew
  \/ \E op \in {"mark", "draft"}, slot \in Slots, marks \in [Enrollments -> Statuses] : OtherSave(op, slot, marks)

Next ==
  \/ Teacher
  \/ \E i \in DOMAIN calls : Network(i)
  \/ Others

Spec == Init /\ [][Next]_vars

=============================================================================
