-------------------------- MODULE Attendance_proofs --------------------------
(***************************************************************************)
(* Marks are stored for the session they were made for, and a draft        *)
(* disappears only into the register: for any number of students, sessions *)
(* and calls in flight. As long as nobody disturbs the page, what it shows *)
(* as saved is saved, and no mark is lost without a question but by Back   *)
(* and by a draft of a session that is submitted.                          *)
(***************************************************************************)
EXTENDS AttendanceProperties, TLAPS

\* A mark for every student.
Full == [Enrollments -> Statuses]

\* What a save sends and what a load answers is a mark for every student.
CallOK(c) == c \in Call /\ (c.answered \/ c.op # "load" => c.marks \in Full)

\* Only a page that has loaded has something to save or to ask about.
PageOK ==
  /\ page \in Page
  /\ page.held # Nowhere \/ page.base # NoMarks => Loaded
  /\ \A i \in DOMAIN calls : calls[i].mounted /\ calls[i].op # "load" => Loaded

Typed ==
  /\ sheet \in [Slots -> Marks] /\ draft \in [Slots -> Marks]
  /\ DOMAIN calls \subseteq CallIds /\ \A i \in DOMAIN calls : CallOK(calls[i])
  /\ past \in Past
  /\ PageOK

\* A patient teacher waits for one call at a time: the marks he sees are those
\* of the session he chose, or their load is under way.
Placed ==
  past.story \in {"quiet", "disturbed"} =>
    /\ ~ past.misplaced
    /\ \A i \in DOMAIN calls : ~ calls[i].astray
    /\ \A i, j \in DOMAIN calls : calls[i].mounted /\ calls[j].mounted => i = j
    /\ \A i \in DOMAIN calls : calls[i].mounted /\ calls[i].op = "load" => calls[i].slot = page.slot
    /\ page.from = page.slot \/ \E i \in DOMAIN calls : calls[i].mounted /\ calls[i].op = "load"

IInv == Typed /\ Placed

\* The marks are what the server would answer, unless a draft was stored behind others.
OnServer(marks, slot) ==
  "hidden" \in past.lost \/ \A e \in Enrollments : marks[e] = View(slot)[e]

\* While nothing disturbs a patient teacher the page waits for one call at most, which
\* is about the slot it shows; what he is about to lose he has saved or given up.
Calm ==
  past.story = "quiet" =>
    /\ past.lost \subseteq {"left", "hidden"}
    /\ \A i \in DOMAIN calls :
         /\ calls[i].mounted /\ calls[i].slot = page.slot
         /\ calls[i].op = "load" /\ ~ past.given => ~ Dirty
         /\ calls[i].op = "draft" /\ calls[i].leave => page.held # Nowhere /\ calls[i].marks = page.marks
         /\ calls[i].answered => OnServer(calls[i].marks, page.slot)
    /\ (Loaded /\ \A i \in DOMAIN calls : calls[i].op # "load" /\ ~ calls[i].answered)
         => OnServer(page.base, page.slot)

-----------------------------------------------------------------------------
(* The tables *)

LEMMA UpsertMarks ==
  ASSUME NEW old \in Marks, NEW new \in Marks
  PROVE  Upsert(old, new) \in Marks
<1>1. PICK D \in SUBSET Enrollments : old \in [D -> Statuses]
  BY DEF Marks
<1>2. PICK E \in SUBSET Enrollments : new \in [E -> Statuses]
  BY DEF Marks
<1>3. Upsert(old, new) \in [D \cup E -> Statuses]
  BY <1>1, <1>2 DEF Upsert
<1> QED BY <1>3 DEF Marks

LEMMA WithoutMarks ==
  ASSUME NEW old \in Marks, NEW K
  PROVE  Without(old, K) \in Marks
<1>1. PICK D \in SUBSET Enrollments : old \in [D -> Statuses]
  BY DEF Marks
<1>2. Without(old, K) \in [D \ K -> Statuses]
  BY <1>1 DEF Without
<1> QED BY <1>2 DEF Marks

LEMMA FullIsMarks == Full \subseteq Marks /\ Full \subseteq Shown
BY DEF Full, Marks, Shown

\* A page that has loaded shows a mark for every student, and any answer to a load
\* leaves it loaded.
LEMMA ShownIsFull ==
  ASSUME NEW m \in Shown, m # NoMarks
  PROVE  m \in Full /\ NoMarks \notin Full
<1>1. m \in Full
  BY DEF Shown, Full
<1>2. ASSUME NoMarks \in Full PROVE FALSE
  <2>1. Enrollments = {}
    BY <1>2 DEF Full, NoMarks
  <2>2. m = NoMarks
    BY <1>1, <2>1 DEF Full, NoMarks
  <2> QED BY <2>2
<1> QED BY <1>1, <1>2

LEMMA SaveKeepsTables ==
  ASSUME sheet \in [Slots -> Marks], draft \in [Slots -> Marks],
         NEW op, NEW slot \in Slots, NEW marks \in Full, Save(op, slot, marks)
  PROVE  /\ sheet' \in [Slots -> Marks] /\ draft' \in [Slots -> Marks]
         /\ \A s \in Slots : DOMAIN draft[s] \ DOMAIN draft'[s] \subseteq DOMAIN sheet'[s]
<1>1. marks \in Marks /\ DOMAIN marks = Enrollments
  BY FullIsMarks DEF Full
<1>2. CASE Mark(slot, marks)
  <2>1. sheet' = [sheet EXCEPT ![slot] = Upsert(sheet[slot], marks)] /\ Upsert(sheet[slot], marks) \in Marks
    BY <1>1, <1>2, UpsertMarks DEF Mark
  <2>2. draft' = [draft EXCEPT ![slot] = Without(draft[slot], DOMAIN marks)] /\ Without(draft[slot], DOMAIN marks) \in Marks
    BY <1>1, <1>2, WithoutMarks DEF Mark
  <2>3. DOMAIN marks \subseteq DOMAIN sheet'[slot]
    BY <2>1 DEF Upsert
  <2>4. DOMAIN draft[slot] \ DOMAIN draft'[slot] \subseteq DOMAIN marks
    BY <2>2 DEF Without
  <2>5. \A s \in Slots : s # slot => draft'[s] = draft[s]
    BY <2>2
  <2> QED BY <2>1, <2>2, <2>3, <2>4, <2>5
<1>3. CASE SaveDraft(slot, marks)
  <2>1. draft' = [draft EXCEPT ![slot] = Upsert(draft[slot], marks)] /\ Upsert(draft[slot], marks) \in Marks
    BY <1>1, <1>3, UpsertMarks DEF SaveDraft
  <2>2. DOMAIN draft[slot] \subseteq DOMAIN draft'[slot]
    BY <2>1 DEF Upsert
  <2>3. \A s \in Slots : s # slot => draft'[s] = draft[s]
    BY <2>1
  <2> QED BY <1>3, <2>1, <2>2, <2>3 DEF SaveDraft
<1> QED BY <1>2, <1>3 DEF Save

-----------------------------------------------------------------------------
(* The calls in flight *)

CallsOK(others) == DOMAIN others \subseteq CallIds /\ \A i \in DOMAIN others : CallOK(others[i])

LEMMA SendAdds ==
  ASSUME NEW others, NEW r, Send(others, r)
  PROVE  \E i \in CallIds \ DOMAIN others :
           /\ DOMAIN calls' = DOMAIN others \cup {i} /\ calls'[i] = r
           /\ \A j \in DOMAIN others : calls'[j] = others[j]
BY DEF Send, Upsert, OneRow

LEMMA DoneRemoves ==
  ASSUME NEW i
  PROVE  /\ DOMAIN Done(i) = DOMAIN calls \ {i}
         /\ \A j \in DOMAIN Done(i) : Done(i)[j] = calls[j]
BY DEF Done, Without

\* The calls that outlive their page are saves that nobody waits for.
LEMMA GoneKeeps ==
  ASSUME NEW others, CallsOK(others)
  PROVE  /\ CallsOK(Gone(others)) /\ DOMAIN Gone(others) \subseteq DOMAIN others
         /\ \A i \in DOMAIN Gone(others) :
              ~ Gone(others)[i].mounted /\ Gone(others)[i].astray = others[i].astray
<1> SUFFICES ASSUME NEW i \in DOMAIN Gone(others)
             PROVE  /\ i \in DOMAIN others
                    /\ CallOK(Gone(others)[i])
                    /\ ~ Gone(others)[i].mounted /\ Gone(others)[i].astray = others[i].astray
  BY DEF CallsOK, Gone
<1>1. i \in DOMAIN others /\ CallOK(others[i]) /\ others[i].op # "load"
  BY DEF CallsOK, Gone
<1>2. Gone(others)[i] = [others[i] EXCEPT !.mounted = FALSE]
  BY DEF Gone
<1> QED BY <1>1, <1>2 DEF CallOK, Call

\* A request for the marks of a slot, and one that stores what the page shows.
LEMMA Requests ==
  ASSUME page \in Page, NEW slot \in Slots, NEW leave \in BOOLEAN
  PROVE  /\ LET r == Request("load", slot, leave)
            IN  CallOK(r) /\ r.op = "load" /\ r.slot = slot /\ r.mounted /\ ~ r.astray
         /\ \A op \in {"mark", "draft"} :
              LET r == Request(op, slot, leave)
              IN  Loaded => CallOK(r) /\ r.op = op /\ r.slot = slot /\ (r.astray <=> page.from # slot)
<1>1. NoMarks \in Shown /\ page.marks \in Shown /\ page.from \in Slots
  BY DEF Shown, Page
<1>2. Loaded => page.marks \in Full
  BY <1>1, ShownIsFull DEF Loaded
<1> QED BY <1>1, <1>2 DEF Request, CallOK, Call, Loaded

-----------------------------------------------------------------------------
(* The history *)

Quiet == past.story \in {"quiet", "disturbed"}

LEMMA SawKeeps ==
  ASSUME past \in Past, NEW patient \in BOOLEAN, NEW given \in BOOLEAN, NEW lost \in SUBSET Ways,
         Saw(patient, given, lost)
  PROVE  past' \in Past /\ (Quiet' => patient /\ Quiet /\ past'.misplaced = past.misplaced)
BY DEF Saw, Past, Story, Quiet

LEMMA WorseKeeps ==
  ASSUME past \in Past, NEW story \in {"disturbed", "reloaded"}, Worse(story)
  PROVE  past' \in Past /\ (Quiet' => story = "disturbed" /\ Quiet /\ past'.misplaced = past.misplaced)
BY DEF Worse, Past, Quiet

-----------------------------------------------------------------------------
(* One lemma per step *)

LEMMA InitHolds == Init => IInv
<1> SUFFICES ASSUME Init PROVE IInv
  OBVIOUS
<1>0. NoMarks \in [{} -> Statuses] /\ {} \in SUBSET Enrollments
  BY DEF NoMarks
<1>1. NoMarks \in Marks /\ NoMarks \in Shown
  BY <1>0 DEF Marks, Shown
<1> DEFINE first(s) == [op |-> "load", slot |-> s, marks |-> NoMarks, leave |-> FALSE,
                        mounted |-> TRUE, answered |-> FALSE, astray |-> FALSE]
<1>2. PICK s \in Slots : page = Blank(s) /\ calls = OneRow(1, first(s))
  BY ZenonT(20) DEF Init
<1>3. page = [slot |-> s, marks |-> NoMarks, base |-> NoMarks, held |-> Nowhere, from |-> s]
  BY <1>2 DEF Blank
<1>4. DOMAIN calls = {1} /\ calls[1] = first(s)
  BY <1>2 DEF OneRow
<1>5. CallOK(first(s))
  BY <1>1 DEF CallOK, Call
<1>6. past = [story |-> "quiet", misplaced |-> FALSE, given |-> FALSE, lost |-> {}]
  BY DEF Init, Story
<1>7. sheet \in [Slots -> Marks] /\ draft \in [Slots -> Marks]
  BY <1>1 DEF Init
<1>8. 1 \in CallIds
  BY AttendanceAssumption DEF CallIds
<1>9. page \in Page /\ page.held = Nowhere /\ page.base = NoMarks
  BY <1>1, <1>3 DEF Page
<1>10. past \in Past
  BY <1>6 DEF Past
<1>11. calls[1].op = "load" /\ calls[1].astray = FALSE
  BY <1>4
<1>12. CallOK(calls[1])
  BY <1>4, <1>5
<1>13. page.from = page.slot
  BY <1>3
<1>14. \A i \in DOMAIN calls : calls[i].slot = page.slot
  BY <1>3, <1>4
<1>15. PageOK
  BY <1>4, <1>9, <1>11 DEF PageOK
<1> HIDE DEF first
<1>16. Typed
  BY <1>4, <1>7, <1>8, <1>10, <1>12, <1>15 DEF Typed
<1>17. Placed
  BY <1>4, <1>6, <1>11, <1>13, <1>14 DEF Placed
<1> QED BY <1>16, <1>17 DEF IInv

LEMMA ServeLoadKeeps ==
  ASSUME IInv, NEW i \in DOMAIN calls, ServeLoad(i)
  PROVE  IInv'
<1>1. /\ CallOK(calls[i]) /\ calls[i].op = "load"
      /\ calls' = [calls EXCEPT ![i] = [calls[i] EXCEPT !.answered = TRUE, !.marks = View(calls[i].slot)]]
  BY DEF IInv, Typed, ServeLoad, CallOK, Call
<1>2. calls[i].slot \in Slots
  BY <1>1 DEF CallOK, Call
<1>. sheet[calls[i].slot] \in Marks /\ draft[calls[i].slot] \in Marks
  BY <1>2 DEF IInv, Typed
<1>3. PICK D \in SUBSET Enrollments : sheet[calls[i].slot] \in [D -> Statuses]
  BY DEF Marks
<1>4. PICK E \in SUBSET Enrollments : draft[calls[i].slot] \in [E -> Statuses]
  BY DEF Marks
<1>5. View(calls[i].slot) \in Full
  BY <1>3, <1>4, AttendanceAssumption DEF View, Full
<1>6. /\ CallOK(calls'[i]) /\ calls'[i].op = "load" /\ calls'[i].slot = calls[i].slot
      /\ calls'[i].mounted = calls[i].mounted /\ calls'[i].astray = calls[i].astray
  BY <1>1, <1>5, FullIsMarks DEF CallOK, Call
<1>7. DOMAIN calls' = DOMAIN calls /\ \A j \in DOMAIN calls : j # i => calls'[j] = calls[j]
  BY <1>1
<1>8. Typed'
  BY <1>1, <1>6, <1>7 DEF IInv, Typed, ServeLoad, tables, PageOK, Loaded
<1>9. Placed'
  BY <1>1, <1>6, <1>7 DEF IInv, Placed, ServeLoad
<1> QED BY <1>8, <1>9 DEF IInv

LEMMA RemovalKeeps ==
  ASSUME IInv, NEW i \in DOMAIN calls, calls' = Done(i), UNCHANGED page, past' \in Past,
         sheet' \in [Slots -> Marks], draft' \in [Slots -> Marks],
         Quiet' => Quiet /\ ~ past'.misplaced /\ (calls[i].mounted => calls[i].op # "load")
  PROVE  IInv'
<1>1. DOMAIN calls' = DOMAIN calls \ {i} /\ \A j \in DOMAIN calls' : calls'[j] = calls[j]
  BY DoneRemoves
<1>2. Typed'
  BY <1>1 DEF IInv, Typed, PageOK, Loaded
<1>3. Placed'
  BY <1>1 DEF IInv, Placed, Quiet
<1> QED BY <1>2, <1>3 DEF IInv

LEMMA ServeSaveKeeps ==
  ASSUME IInv, NEW i \in DOMAIN calls, ServeSave(i)
  PROVE  IInv'
<1>1. /\ CallOK(calls[i]) /\ calls[i].op # "load" /\ calls[i].marks \in Full /\ calls[i].slot \in Slots
      /\ calls[i].astray \in BOOLEAN /\ past \in Past
  BY DEF IInv, Typed, ServeSave, CallOK, Call
<1>2. sheet' \in [Slots -> Marks] /\ draft' \in [Slots -> Marks]
  BY <1>1, SaveKeepsTables DEF IInv, Typed, ServeSave
<1>3. past' \in Past /\ (Quiet' => Quiet /\ (past'.misplaced = (past.misplaced \/ calls[i].astray)))
  <2>1. PICK hidden \in SUBSET Ways :
          past' = IF past.story = "impatient" THEN past
                  ELSE [past EXCEPT !.misplaced = past.misplaced \/ calls[i].astray, !.lost = past.lost \cup hidden]
    BY <1>1 DEF ServeSave, Losing, Ways, Past
  <2> QED BY <1>1, <2>1 DEF Past, Quiet
<1>4. Quiet' => ~ past'.misplaced
  BY <1>3 DEF IInv, Placed, Quiet
<1>5. CASE ~ calls[i].mounted
  <2>1. calls' = Done(i) /\ UNCHANGED page
    BY <1>5 DEF ServeSave
  <2> QED BY <1>2, <1>3, <1>4, <1>5, <2>1, RemovalKeeps
<1>6. CASE calls[i].mounted
  <2>1. calls' = [calls EXCEPT ![i] = [calls[i] EXCEPT !.answered = TRUE]] /\ UNCHANGED page
    BY <1>6 DEF ServeSave
  <2>2. /\ CallOK(calls'[i]) /\ calls'[i].op = calls[i].op /\ calls'[i].slot = calls[i].slot
        /\ calls'[i].mounted = calls[i].mounted /\ calls'[i].astray = calls[i].astray
    BY <1>1, <2>1 DEF CallOK, Call
  <2>3. DOMAIN calls' = DOMAIN calls /\ \A j \in DOMAIN calls : j # i => calls'[j] = calls[j]
    BY <2>1
  <2>4. Typed'
    BY <1>2, <1>3, <2>1, <2>2, <2>3 DEF IInv, Typed, PageOK, Loaded
  <2>5. Placed'
    BY <1>3, <1>4, <2>1, <2>2, <2>3 DEF IInv, Placed, Quiet
  <2> QED BY <2>4, <2>5 DEF IInv
<1> QED BY <1>5, <1>6

LEMMA OtherSaveKeeps ==
  ASSUME IInv, NEW op, NEW slot \in Slots, NEW marks \in Full, OtherSave(op, slot, marks)
  PROVE  IInv'
<1>1. sheet' \in [Slots -> Marks] /\ draft' \in [Slots -> Marks]
  BY SaveKeepsTables DEF IInv, Typed, OtherSave
<1>2. past' \in Past /\ (Quiet' => Quiet /\ past'.misplaced = past.misplaced)
  BY WorseKeeps DEF IInv, Typed, OtherSave
<1>3. UNCHANGED <<page, calls>>
  BY DEF OtherSave
<1>4. Typed'
  BY <1>1, <1>2, <1>3 DEF IInv, Typed, PageOK, Loaded
<1>5. Placed'
  BY <1>2, <1>3 DEF IInv, Placed, Quiet
<1> QED BY <1>4, <1>5 DEF IInv

LEMMA FailKeeps ==
  ASSUME IInv, NEW i \in DOMAIN calls, Fail(i)
  PROVE  IInv'
<1> DEFINE story == IF calls[i].op = "load" THEN "reloaded" ELSE "disturbed"
<1>1. past' \in Past /\ (Quiet' => story = "disturbed" /\ Quiet /\ past'.misplaced = past.misplaced)
  BY WorseKeeps DEF IInv, Typed, Fail
<1>2. Quiet' => Quiet /\ ~ past'.misplaced /\ calls[i].op # "load"
  BY <1>1 DEF IInv, Placed, Quiet
<1>3. calls' = Done(i) /\ UNCHANGED <<page, sheet, draft>>
  BY DEF Fail, tables
<1>4. sheet' \in [Slots -> Marks] /\ draft' \in [Slots -> Marks]
  BY <1>3 DEF IInv, Typed
<1> QED BY <1>1, <1>2, <1>3, <1>4, RemovalKeeps

\* What a step that sends one call has to show, beside what it does to the page.
LEMMA SendingKeeps ==
  ASSUME IInv, NEW others, CallsOK(others), NEW r, CallOK(r), Send(others, r),
         UNCHANGED tables, past' \in Past, PageOK',
         Quiet' => /\ Quiet /\ past'.misplaced = past.misplaced
                   /\ \A i \in DOMAIN others : ~ others[i].astray /\ ~ others[i].mounted
                   /\ ~ r.astray
                   /\ r.op = "load" => r.mounted /\ r.slot = page'.slot
                   /\ r.op # "load" => page'.from = page'.slot
  PROVE  IInv'
<1>1. PICK i \in CallIds \ DOMAIN others :
        /\ DOMAIN calls' = DOMAIN others \cup {i} /\ calls'[i] = r
        /\ \A j \in DOMAIN others : calls'[j] = others[j]
  BY SendAdds
<1>2. DOMAIN calls' \subseteq CallIds /\ \A j \in DOMAIN calls' : CallOK(calls'[j])
  BY <1>1 DEF CallsOK
<1>3. Typed'
  BY <1>2 DEF IInv, Typed, tables
<1>4. Placed'
  BY <1>1 DEF IInv, Placed, Quiet
<1> QED BY <1>3, <1>4 DEF IInv

LEMMA QuietCalls ==
  ASSUME IInv
  PROVE  /\ CallsOK(calls) /\ past \in Past /\ page \in Page /\ (Loaded => page.marks \in Full)
         /\ Quiet => \A i \in DOMAIN calls : ~ calls[i].astray
         /\ Quiet /\ ~ Waiting => page.from = page.slot /\ \A i \in DOMAIN calls : ~ calls[i].mounted
<1>1. CallsOK(calls) /\ past \in Past /\ page \in Page
  BY DEF IInv, Typed, CallsOK, PageOK
<1>2. Loaded => page.marks \in Full
  BY <1>1, ShownIsFull DEF Page, Loaded
<1>3. ASSUME ~ Waiting PROVE \A i \in DOMAIN calls : ~ calls[i].mounted
  BY <1>1, <1>3 DEF Waiting, InFlight, CallsOK, CallOK, Call
<1> QED BY <1>1, <1>2, <1>3 DEF IInv, Placed, Quiet

\* Leaving for good.
LEMMA LeavingKeeps ==
  ASSUME IInv, NEW others, CallsOK(others), page' = Blank(page.slot),
         Send(Gone(others), Request("load", page.slot, FALSE)),
         UNCHANGED tables, past' \in Past,
         Quiet' => /\ Quiet /\ past'.misplaced = past.misplaced
                   /\ \A i \in DOMAIN others : ~ others[i].astray /\ ~ others[i].mounted
  PROVE  IInv'
<1> DEFINE r == Request("load", page.slot, FALSE)
<1>1. page \in Page /\ NoMarks \in Shown
  BY QuietCalls DEF Shown
<1>2. page' = [slot |-> page.slot, marks |-> NoMarks, base |-> NoMarks, held |-> Nowhere, from |-> page.slot]
  BY DEF Blank
<1>3. CallOK(r) /\ r.op = "load" /\ r.slot = page.slot /\ r.mounted /\ ~ r.astray
  BY <1>1, Requests DEF Page
<1>4. /\ CallsOK(Gone(others)) /\ DOMAIN Gone(others) \subseteq DOMAIN others
      /\ \A i \in DOMAIN Gone(others) :
           ~ Gone(others)[i].mounted /\ Gone(others)[i].astray = others[i].astray
  BY GoneKeeps
<1>5. Send(Gone(others), r)
  OBVIOUS
<1> HIDE DEF r
<1>6. PICK i \in CallIds \ DOMAIN Gone(others) :
        /\ DOMAIN calls' = DOMAIN Gone(others) \cup {i} /\ calls'[i] = r
        /\ \A j \in DOMAIN Gone(others) : calls'[j] = Gone(others)[j]
  BY <1>5, SendAdds
<1>7. page' \in Page /\ page'.held = Nowhere /\ page'.base = NoMarks /\ page'.slot = page.slot
  BY <1>1, <1>2 DEF Page
<1>8. PageOK'
  BY <1>3, <1>4, <1>6, <1>7 DEF PageOK
<1> QED BY <1>3, <1>4, <1>5, <1>7, <1>8, SendingKeeps

\* Leaving for another slot, or for good.
LEMMA GoKeeps ==
  ASSUME IInv, NEW others, CallsOK(others), NEW target \in Slots \cup {Away}, Go(others, target),
         UNCHANGED tables, past' \in Past,
         Loaded \/ page.held = Nowhere,
         \A i \in DOMAIN others : others[i].mounted /\ others[i].op # "load" => Loaded,
         Quiet' => /\ Quiet /\ past'.misplaced = past.misplaced
                   /\ \A i \in DOMAIN others : ~ others[i].astray /\ ~ others[i].mounted
  PROVE  IInv'
<1>1. page \in Page /\ NoMarks \in Shown
  BY QuietCalls DEF Shown
<1>2. CASE target = Away
  BY <1>2, LeavingKeeps DEF Go
<1>3. CASE target # Away
  <2> DEFINE r == Request("load", target, FALSE)
  <2>1. page' = [page EXCEPT !.slot = target, !.held = Nowhere] /\ Send(others, r)
    BY <1>3 DEF Go
  <2>2. CallOK(r) /\ r.op = "load" /\ r.slot = target /\ r.mounted /\ ~ r.astray
    BY <1>1, <1>3, Requests
  <2> HIDE DEF r
  <2>3. PICK i \in CallIds \ DOMAIN others :
          /\ DOMAIN calls' = DOMAIN others \cup {i} /\ calls'[i] = r
          /\ \A j \in DOMAIN others : calls'[j] = others[j]
    BY <2>1, SendAdds
  <2>4. /\ page' \in Page /\ page'.held = Nowhere /\ page'.slot = target
        /\ page'.base = page.base /\ page'.marks = page.marks
    BY <1>1, <1>3, <2>1 DEF Page
  <2>5. PageOK'
    BY <2>2, <2>3, <2>4 DEF IInv, Typed, PageOK, Loaded
  <2> QED BY <2>1, <2>2, <2>4, <2>5, SendingKeeps
<1> QED BY <1>2, <1>3

\* Steps of the page that neither send nor receive, and move no marks between slots.
LEMMA PageStepKeeps ==
  ASSUME IInv, UNCHANGED <<tables, calls>>, past' \in Past, PageOK',
         page'.slot = page.slot, page'.from = page.from,
         Quiet' => Quiet /\ past'.misplaced = past.misplaced
  PROVE  IInv'
<1>1. Typed'
  BY DEF IInv, Typed, tables
<1>2. Placed'
  BY DEF IInv, Placed, Quiet
<1> QED BY <1>1, <1>2 DEF IInv

LEMMA ChooseKeeps ==
  ASSUME IInv, NEW target \in Slots \cup {Away}, Choose(target)
  PROVE  IInv'
<1>1. UNCHANGED tables /\ page.held = Nowhere
  BY DEF Choose
<1>2. Dirty \in BOOLEAN /\ Waiting \in BOOLEAN /\ past.given \in BOOLEAN
  BY QuietCalls DEF Dirty, Waiting, Past
<1>3. past' \in Past /\ (Quiet' => ~ Waiting /\ Quiet /\ past'.misplaced = past.misplaced)
  BY <1>2, QuietCalls, SawKeeps DEF Choose
<1>4. CASE Dirty
  <2>1. page' = [page EXCEPT !.held = target] /\ UNCHANGED calls
    BY <1>4 DEF Choose
  <2>2. page' \in Page /\ page'.slot = page.slot /\ page'.from = page.from /\ page'.marks = page.marks
    BY <2>1, QuietCalls DEF Page
  <2>3. Loaded
    BY <1>4 DEF IInv, Typed, PageOK, Dirty, Loaded
  <2>4. PageOK'
    BY <2>1, <2>2, <2>3 DEF PageOK, Loaded
  <2> QED BY <1>1, <1>3, <2>1, <2>2, <2>4, PageStepKeeps
<1>5. CASE ~ Dirty
  <2>1. Go(calls, target)
    BY <1>5 DEF Choose
  <2>2. \A i \in DOMAIN calls : calls[i].mounted /\ calls[i].op # "load" => Loaded
    BY DEF IInv, Typed, PageOK
  <2> QED BY <1>1, <1>3, <2>1, <2>2, QuietCalls, GoKeeps
<1> QED BY <1>4, <1>5

LEMMA BackKeeps == ASSUME IInv, Back PROVE IInv'
<1>1. Losing("left", Dirty /\ ~ past.given) \in SUBSET Ways /\ Waiting \in BOOLEAN /\ past.given \in BOOLEAN
  BY QuietCalls DEF Losing, Ways, Waiting, Past
<1>2. past' \in Past /\ (Quiet' => ~ Waiting /\ Quiet /\ past'.misplaced = past.misplaced)
  BY <1>1, QuietCalls, SawKeeps DEF Back
<1>3. page' = Blank(page.slot) /\ Send(Gone(calls), Request("load", page.slot, FALSE)) /\ UNCHANGED tables
  BY DEF Back, Go
<1>4. \A i \in DOMAIN calls : calls[i].mounted /\ calls[i].op # "load" => Loaded
  BY DEF IInv, Typed, PageOK
<1> QED BY <1>2, <1>3, <1>4, QuietCalls, LeavingKeeps

LEMMA MarkingKeeps ==
  ASSUME IInv, Loaded, NEW marks \in Full, page' = [page EXCEPT !.marks = marks],
         Saw(InFlight({"load"}) = {}, FALSE, {}), UNCHANGED <<tables, calls>>
  PROVE  IInv'
<1>1. past' \in Past /\ (Quiet' => Quiet /\ past'.misplaced = past.misplaced)
  BY QuietCalls, SawKeeps
<1>2. page.marks \in Shown /\ page.marks # NoMarks
  BY QuietCalls DEF Loaded, Page
<1>3. Loaded'
  BY <1>2, ShownIsFull, QuietCalls DEF Loaded, Page
<1>4. page' \in Page /\ page'.slot = page.slot /\ page'.from = page.from
  BY QuietCalls, FullIsMarks DEF Page
<1>5. PageOK'
  BY <1>3, <1>4 DEF PageOK
<1> QED BY <1>1, <1>4, <1>5, PageStepKeeps

LEMMA ClickKeeps ==
  ASSUME IInv, NEW e \in Enrollments, NEW status \in Statuses, Click(e, status)
  PROVE  IInv'
<1>1. [page.marks EXCEPT ![e] = status] \in Full /\ Loaded
  BY QuietCalls DEF Click, Full
<1>2. page' = [page EXCEPT !.marks = [page.marks EXCEPT ![e] = status]]
  BY QuietCalls DEF Click, Page
<1> QED BY <1>1, <1>2, MarkingKeeps DEF Click

LEMMA AllPresentKeeps ==
  ASSUME IInv, AllPresent
  PROVE  IInv'
<1>1. [e \in Enrollments |-> Present] \in Full /\ Loaded
  BY AttendanceAssumption DEF AllPresent, Full
<1> QED BY <1>1, MarkingKeeps DEF AllPresent

\* The two buttons, and the dialog's.
LEMMA StoringKeeps ==
  ASSUME IInv, Loaded, NEW op \in {"mark", "draft"}, NEW leave \in BOOLEAN,
         Send(calls, Request(op, page.slot, leave)),
         Saw(~ Waiting, past.given, {}), UNCHANGED <<tables, page>>
  PROVE  IInv'
<1> DEFINE r == Request(op, page.slot, leave)
<1>1. Waiting \in BOOLEAN /\ past.given \in BOOLEAN
  BY QuietCalls DEF Waiting, Past
<1>2. past' \in Past /\ (Quiet' => ~ Waiting /\ Quiet /\ past'.misplaced = past.misplaced)
  BY <1>1, QuietCalls, SawKeeps
<1>3. CallOK(r) /\ r.op = op /\ r.slot = page.slot /\ (r.astray <=> page.from # page.slot)
  BY QuietCalls, Requests DEF Page
<1> HIDE DEF r
<1>4. PICK i \in CallIds \ DOMAIN calls :
        /\ DOMAIN calls' = DOMAIN calls \cup {i} /\ calls'[i] = r
        /\ \A j \in DOMAIN calls : calls'[j] = calls[j]
  BY SendAdds DEF r
<1>5. PageOK'
  BY <1>4 DEF IInv, Typed, PageOK, Loaded
<1>6. Send(calls, r)
  BY DEF r
<1> QED BY <1>2, <1>3, <1>5, <1>6, QuietCalls, SendingKeeps

LEMMA PressSaveKeeps == ASSUME IInv, PressSave PROVE IInv'
BY StoringKeeps DEF PressSave

LEMMA PressDraftKeeps == ASSUME IInv, PressDraft PROVE IInv'
BY StoringKeeps DEF PressDraft

LEMMA DraftAndLeaveKeeps == ASSUME IInv, DraftAndLeave PROVE IInv'
<1>1. Loaded
  BY DEF IInv, Typed, PageOK, DraftAndLeave
<1> QED BY <1>1, StoringKeeps DEF DraftAndLeave

LEMMA KeepEditingKeeps == ASSUME IInv, KeepEditing PROVE IInv'
<1>1. Waiting \in BOOLEAN /\ past.given \in BOOLEAN
  BY QuietCalls DEF Waiting, Past
<1>2. past' \in Past /\ (Quiet' => ~ Waiting /\ Quiet /\ past'.misplaced = past.misplaced)
  BY <1>1, QuietCalls, SawKeeps DEF KeepEditing
<1>3. page' \in Page /\ page'.slot = page.slot /\ page'.from = page.from /\ page'.marks = page.marks
  BY QuietCalls DEF Page, KeepEditing
<1>4. Loaded'
  BY <1>3 DEF IInv, Typed, PageOK, Loaded, KeepEditing
<1>5. PageOK'
  BY <1>3, <1>4 DEF PageOK
<1> QED BY <1>2, <1>3, <1>5, PageStepKeeps DEF KeepEditing

LEMMA DiscardKeeps == ASSUME IInv, Discard PROVE IInv'
<1>1. Waiting \in BOOLEAN
  BY DEF Waiting
<1>2. past' \in Past /\ (Quiet' => ~ Waiting /\ Quiet /\ past'.misplaced = past.misplaced)
  BY <1>1, QuietCalls, SawKeeps DEF Discard
<1>3. page.held \in Slots \cup {Away} /\ Loaded
  BY QuietCalls DEF IInv, Typed, PageOK, Page, Discard
<1>4. \A i \in DOMAIN calls : calls[i].mounted /\ calls[i].op # "load" => Loaded
  BY <1>3
<1> QED BY <1>2, <1>3, <1>4, QuietCalls, GoKeeps DEF Discard

\* What is left when an answer has arrived: for a patient teacher, nothing he waits for.
LEMMA DoneCalls ==
  ASSUME IInv, NEW i \in DOMAIN calls
  PROVE  /\ CallsOK(Done(i))
         /\ \A j \in DOMAIN Done(i) : Done(i)[j].mounted /\ Done(i)[j].op # "load" => Loaded
         /\ Quiet => \A j \in DOMAIN Done(i) : ~ Done(i)[j].astray
         /\ Quiet /\ calls[i].mounted => \A j \in DOMAIN Done(i) : ~ Done(i)[j].mounted
<1>1. DOMAIN Done(i) = DOMAIN calls \ {i} /\ \A j \in DOMAIN Done(i) : Done(i)[j] = calls[j]
  BY DoneRemoves
<1>2. CallsOK(Done(i))
  BY <1>1, QuietCalls DEF CallsOK
<1>3. \A j \in DOMAIN Done(i) : Done(i)[j].mounted /\ Done(i)[j].op # "load" => Loaded
  BY <1>1 DEF IInv, Typed, PageOK
<1>4. Quiet => \A j \in DOMAIN Done(i) : ~ Done(i)[j].astray
  BY <1>1, QuietCalls
<1>5. Quiet /\ calls[i].mounted => \A j \in DOMAIN Done(i) : ~ Done(i)[j].mounted
  <2> SUFFICES ASSUME Quiet, calls[i].mounted, NEW j \in DOMAIN Done(i), Done(i)[j].mounted PROVE FALSE
    OBVIOUS
  <2>1. j \in DOMAIN calls /\ j # i /\ calls[j].mounted
    BY <1>1
  <2> QED BY <2>1 DEF IInv, Placed, Quiet
<1> QED BY <1>2, <1>3, <1>4, <1>5

LEMMA LoadArrivesKeeps ==
  ASSUME IInv, NEW i \in DOMAIN calls, LoadArrives(i)
  PROVE  IInv'
<1>1. CallOK(calls[i]) /\ calls[i].op = "load" /\ calls[i].answered /\ calls[i].mounted
  BY DEF IInv, Typed, LoadArrives
<1>2. calls[i].marks \in Full /\ calls[i].slot \in Slots
  BY <1>1 DEF CallOK, Call
<1>3. page' = [page EXCEPT !.marks = calls[i].marks, !.base = calls[i].marks, !.from = calls[i].slot]
  BY DEF LoadArrives
<1>4. /\ page' \in Page /\ page'.slot = page.slot /\ page'.from = calls[i].slot /\ page'.held = page.held
      /\ page'.marks = calls[i].marks /\ page'.base = calls[i].marks
  BY <1>2, <1>3, FullIsMarks, QuietCalls DEF Page
<1>5. Loaded => Loaded'
  BY <1>2, <1>4, QuietCalls, ShownIsFull DEF Loaded, Page
<1>6. DOMAIN calls' = DOMAIN calls \ {i} /\ \A j \in DOMAIN calls' : calls'[j] = calls[j]
  BY DoneRemoves DEF LoadArrives
<1>7. PageOK'
  BY <1>4, <1>5, <1>6 DEF IInv, Typed, PageOK, Loaded
<1>8. Losing("replaced", Dirty /\ ~ past.given) \in SUBSET Ways
  BY DEF Losing, Ways
<1>9. past' \in Past /\ (Quiet' => Quiet /\ past'.misplaced = past.misplaced)
  BY <1>8, QuietCalls, SawKeeps DEF LoadArrives
<1>10. Typed'
  BY <1>6, <1>7, <1>9 DEF IInv, Typed, LoadArrives, tables
<1>11. Quiet => calls[i].slot = page.slot
  BY <1>1 DEF IInv, Placed, Quiet
<1>12. Placed'
  BY <1>4, <1>6, <1>9, <1>11 DEF IInv, Placed, Quiet
<1> QED BY <1>10, <1>12 DEF IInv

\* An answer to a save that takes the teacher nowhere.
LEMMA StoredKeeps ==
  ASSUME IInv, NEW i \in DOMAIN calls, calls[i].mounted, calls[i].op # "load",
         page' = [page EXCEPT !.base = calls[i].marks], calls' = Done(i), UNCHANGED tables,
         past' \in Past, Quiet' => Quiet /\ past'.misplaced = past.misplaced
  PROVE  IInv'
<1>1. calls[i].marks \in Shown /\ Loaded
  BY QuietCalls DEF CallsOK, CallOK, Call, IInv, Typed, PageOK
<1>2. page' \in Page /\ page'.slot = page.slot /\ page'.from = page.from /\ page'.marks = page.marks
  BY <1>1, QuietCalls DEF Page
<1>3. DOMAIN calls' = DOMAIN calls \ {i} /\ \A j \in DOMAIN calls' : calls'[j] = calls[j]
  BY DoneRemoves
<1>4. PageOK'
  BY <1>1, <1>2 DEF PageOK, Loaded
<1>5. Typed'
  BY <1>3, <1>4 DEF IInv, Typed, tables
<1>6. Placed'
  BY <1>2, <1>3 DEF IInv, Placed, Quiet
<1> QED BY <1>5, <1>6 DEF IInv

LEMMA SaveArrivesKeeps ==
  ASSUME IInv, NEW i \in DOMAIN calls, SaveArrives(i)
  PROVE  IInv'
BY StoredKeeps, QuietCalls DEF SaveArrives, Quiet

LEMMA DraftArrivesKeeps ==
  ASSUME IInv, NEW i \in DOMAIN calls, DraftArrives(i)
  PROVE  IInv'
<1> DEFINE leaves == calls[i].leave /\ page.held # Nowhere
           lost == Losing("replaced", leaves /\ page.marks # calls[i].marks)
<1>1. /\ CallOK(calls[i]) /\ calls[i].op = "draft" /\ calls[i].mounted /\ UNCHANGED tables
      /\ calls[i].marks \in Shown /\ calls[i].leave \in BOOLEAN
  BY DEF IInv, Typed, DraftArrives, CallOK, Call
<1>2. lost \in SUBSET Ways /\ past.given \in BOOLEAN
  BY <1>1, QuietCalls DEF Past, Losing, Ways
<1>3. Saw(TRUE, past.given, lost)
  BY DEF DraftArrives
<1>4. past' \in Past /\ (Quiet' => Quiet /\ past'.misplaced = past.misplaced)
  BY <1>2, <1>3, QuietCalls, SawKeeps
<1>5. CASE ~ leaves
  <2>1. page' = [page EXCEPT !.base = calls[i].marks] /\ calls' = Done(i)
    BY <1>5 DEF DraftArrives
  <2> QED BY <1>1, <1>4, <2>1, StoredKeeps
<1>6. CASE leaves /\ page.held = Away
  <2>1. Go(Done(i), Away)
    BY <1>6 DEF DraftArrives
  <2>2. Loaded
    BY <1>6 DEF IInv, Typed, PageOK
  <2> QED BY <1>1, <1>4, <2>1, <2>2, DoneCalls, GoKeeps
<1>7. CASE leaves /\ page.held # Away
  <2> DEFINE r == Request("load", page.held, FALSE)
  <2>1. /\ page' = [page EXCEPT !.base = calls[i].marks, !.slot = page.held, !.held = Nowhere]
        /\ Send(Done(i), r)
    BY <1>7 DEF DraftArrives
  <2>2. page.held \in Slots /\ Loaded
    BY <1>7, QuietCalls DEF Page, IInv, Typed, PageOK
  <2>3. CallOK(r) /\ r.op = "load" /\ r.slot = page.held /\ r.mounted /\ ~ r.astray
    BY <2>2, QuietCalls, Requests
  <2> HIDE DEF r
  <2>4. page' \in Page /\ page'.slot = page.held /\ page'.marks = page.marks
    BY <1>1, <2>1, <2>2, QuietCalls DEF Page
  <2>5. PageOK'
    BY <2>2, <2>4 DEF PageOK, Loaded
  <2> QED BY <1>1, <1>4, <2>1, <2>3, <2>4, <2>5, DoneCalls, SendingKeeps
<1> QED BY <1>5, <1>6, <1>7

LEMMA RenewKeeps == ASSUME IInv, Renew PROVE IInv'
<1> DEFINE r == Request("load", page.slot, FALSE)
<1>1. CallOK(r) /\ r.op = "load" /\ r.slot = page.slot /\ r.mounted /\ ~ r.astray
  BY QuietCalls, Requests DEF Page
<1>2. Send(calls, r) /\ UNCHANGED <<tables, page>>
  BY DEF Renew
<1>3. past' \in Past /\ ~ Quiet'
  BY QuietCalls, WorseKeeps DEF Renew
<1> HIDE DEF r
<1>4. PICK i \in CallIds \ DOMAIN calls :
        /\ DOMAIN calls' = DOMAIN calls \cup {i} /\ calls'[i] = r
        /\ \A j \in DOMAIN calls : calls'[j] = calls[j]
  BY <1>2, SendAdds
<1>5. PageOK'
  BY <1>1, <1>2, <1>4 DEF IInv, Typed, PageOK, Loaded
<1> QED BY <1>1, <1>2, <1>3, <1>5, QuietCalls, SendingKeeps

LEMMA StutterKeeps == ASSUME IInv, UNCHANGED vars PROVE IInv'
<1>1. UNCHANGED <<sheet, draft, page, calls, past>>
  BY DEF vars, tables
<1> QED BY <1>1 DEF IInv, Typed, PageOK, Placed, Loaded

LEMMA StepKeeps == ASSUME IInv, [Next]_vars PROVE IInv'
<1>1. CASE Teacher
  BY <1>1, ChooseKeeps, BackKeeps, ClickKeeps, AllPresentKeeps, PressSaveKeeps, PressDraftKeeps,
     KeepEditingKeeps, DiscardKeeps, DraftAndLeaveKeeps DEF Teacher
<1>2. ASSUME NEW i \in DOMAIN calls, Network(i) PROVE IInv'
  BY <1>2, ServeLoadKeeps, ServeSaveKeeps, LoadArrivesKeeps, SaveArrivesKeeps, DraftArrivesKeeps,
     FailKeeps DEF Network
<1>3. CASE Others
  <2>1. CASE Renew
    BY <2>1, RenewKeeps
  <2>2. ASSUME NEW op \in {"mark", "draft"}, NEW slot \in Slots, NEW marks \in [Enrollments -> Statuses],
               OtherSave(op, slot, marks)
        PROVE  IInv'
    BY <2>2, OtherSaveKeeps DEF Full
  <2> QED BY <1>3, <2>1, <2>2 DEF Others
<1>4. CASE UNCHANGED vars
  BY <1>4, StutterKeeps
<1> QED BY <1>1, <1>2, <1>3, <1>4 DEF Next

-----------------------------------------------------------------------------
(* A teacher whom nobody disturbs *)

LEMMA CalmSaw ==
  ASSUME past \in Past, NEW patient \in BOOLEAN, NEW given \in BOOLEAN, NEW lost \in SUBSET Ways,
         Saw(patient, given, lost), past'.story = "quiet"
  PROVE  patient /\ past.story = "quiet" /\ past'.given = given /\ past'.lost = past.lost \cup lost
BY DEF Saw, Past, Story

LEMMA CalmSawNothing ==
  ASSUME past \in Past, NEW patient \in BOOLEAN, NEW given \in BOOLEAN,
         Saw(patient, given, {}), past'.story = "quiet"
  PROVE  patient /\ past.story = "quiet" /\ past'.given = given /\ past'.lost = past.lost
<1>1. /\ patient /\ past.story = "quiet" /\ past'.given = given /\ past'.lost = past.lost \cup {}
  BY CalmSaw
<1> QED BY <1>1

LEMMA CalmWorse ==
  ASSUME past \in Past, NEW story \in {"disturbed", "reloaded"}, Worse(story)
  PROVE  past'.story # "quiet"
BY DEF Worse, Past

\* Who waits for nothing has no call in flight.
LEMMA CalmIdle ==
  ASSUME IInv, Calm, past.story = "quiet", ~ Waiting
  PROVE  DOMAIN calls = {}
BY QuietCalls DEF Calm, Quiet

\* Who waits, waits for one call.
LEMMA CalmOne ==
  ASSUME IInv, Calm, past.story = "quiet", NEW i \in DOMAIN calls
  PROVE  DOMAIN calls = {i} /\ DOMAIN Done(i) = {}
<1>1. \A j \in DOMAIN calls : j = i
  BY DEF IInv, Placed, Calm
<1> QED BY <1>1, DoneRemoves

LEMMA ViewIsOnServer ==
  ASSUME NEW slot
  PROVE  OnServer(View(slot), slot)
BY DEF OnServer

\* What was stored is what a load would answer, unless it is a draft behind other marks.
LEMMA SaveReachesServer ==
  ASSUME IInv, NEW op, NEW slot \in Slots, NEW marks \in Full, Save(op, slot, marks),
         op = "draft" => \A e \in DOMAIN sheet[slot] : sheet[slot][e] = marks[e]
  PROVE  \A e \in Enrollments : marks[e] = View(slot)'[e]
<1>1. DOMAIN marks = Enrollments
  BY DEF Full
<1>2. CASE op = "mark" /\ Mark(slot, marks)
  <2>1. sheet'[slot] = Upsert(sheet[slot], marks)
    BY <1>2 DEF Mark, IInv, Typed
  <2>2. \A e \in Enrollments : e \in DOMAIN sheet'[slot] /\ sheet'[slot][e] = marks[e]
    BY <1>1, <2>1 DEF Upsert
  <2> QED BY <2>2 DEF View
<1>3. CASE op = "draft" /\ SaveDraft(slot, marks)
  <2>1. draft'[slot] = Upsert(draft[slot], marks) /\ sheet' = sheet
    BY <1>3 DEF SaveDraft, IInv, Typed
  <2>2. \A e \in Enrollments : e \in DOMAIN draft'[slot] /\ draft'[slot][e] = marks[e]
    BY <1>1, <2>1 DEF Upsert
  <2> QED BY <1>3, <2>1, <2>2 DEF View
<1> QED BY <1>2, <1>3 DEF Save

LEMMA CalmInit == Init => Calm
<1> SUFFICES ASSUME Init PROVE Calm
  OBVIOUS
<1> DEFINE first(s) == [op |-> "load", slot |-> s, marks |-> NoMarks, leave |-> FALSE,
                        mounted |-> TRUE, answered |-> FALSE, astray |-> FALSE]
<1>1. PICK s \in Slots : page = Blank(s) /\ calls = OneRow(1, first(s))
  BY ZenonT(20) DEF Init
<1>2. DOMAIN calls = {1} /\ calls[1] = first(s)
  BY <1>1 DEF OneRow
<1>3. page.slot = s /\ ~ Dirty
  BY <1>1 DEF Blank, Dirty
<1>4. past.lost = {}
  BY DEF Init, Story
<1> QED BY <1>2, <1>3, <1>4 DEF Calm

LEMMA CalmServeLoad ==
  ASSUME IInv, Calm, NEW i \in DOMAIN calls, ServeLoad(i)
  PROVE  Calm'
<1> SUFFICES ASSUME past'.story = "quiet" PROVE Calm'
  BY DEF Calm
<1>1. past' = past /\ page' = page /\ sheet' = sheet /\ draft' = draft
  BY DEF ServeLoad, tables
<1>2. CallOK(calls[i]) /\ DOMAIN calls = {i}
  BY <1>1, CalmOne DEF IInv, Typed
<1>3. /\ DOMAIN calls' = {i} /\ calls'[i].op = "load" /\ calls'[i].mounted = calls[i].mounted
      /\ calls'[i].slot = calls[i].slot /\ calls'[i].marks = View(calls[i].slot)
  BY <1>2 DEF ServeLoad, CallOK, Call
<1>4. calls[i].mounted /\ calls[i].slot = page.slot /\ (~ past.given => ~ Dirty)
  BY <1>1 DEF Calm, ServeLoad
<1>5. OnServer(calls[i].marks, page.slot)'
  BY <1>1, <1>3, <1>4, ViewIsOnServer DEF OnServer, View
<1>6. past'.lost \subseteq {"left", "hidden"} /\ (~ past'.given => ~ Dirty')
  BY <1>1, <1>4 DEF Calm, Dirty
<1> QED BY <1>1, <1>3, <1>4, <1>5, <1>6 DEF Calm

LEMMA CalmServeSave ==
  ASSUME IInv, Calm, NEW i \in DOMAIN calls, ServeSave(i)
  PROVE  Calm'
<1> SUFFICES ASSUME past'.story = "quiet" PROVE Calm'
  BY DEF Calm
<1> DEFINE hidden == calls[i].op = "draft"
                     /\ \E e \in DOMAIN sheet[calls[i].slot] : sheet[calls[i].slot][e] # calls[i].marks[e]
<1>1. /\ past.story = "quiet" /\ page' = page /\ past'.lost = past.lost \cup Losing("hidden", hidden)
      /\ past'.lost \subseteq {"left", "hidden"}
  <2>1. past' = IF past.story = "impatient" THEN past
                ELSE [past EXCEPT !.misplaced = past.misplaced \/ calls[i].astray,
                                  !.lost = past.lost \cup Losing("hidden", hidden)]
    BY DEF ServeSave, IInv, Typed, Past
  <2>2. past \in Past /\ page' = page
    BY DEF ServeSave, IInv, Typed
  <2> HIDE DEF hidden
  <2>3. past.story = "quiet" /\ past'.lost = past.lost \cup Losing("hidden", hidden)
    BY <2>1, <2>2 DEF Past
  <2> QED BY <2>2, <2>3 DEF Calm, Losing
<1>2. CallOK(calls[i]) /\ DOMAIN calls = {i} /\ calls[i].mounted /\ calls[i].slot = page.slot
  BY <1>1, CalmOne DEF IInv, Typed, Calm
<1>3. /\ DOMAIN calls' = {i} /\ calls'[i].op = calls[i].op /\ calls'[i].op # "load"
      /\ calls'[i].mounted /\ calls'[i].slot = calls[i].slot /\ calls'[i].marks = calls[i].marks
      /\ calls'[i].leave = calls[i].leave /\ calls'[i].answered
  BY <1>2 DEF ServeSave, CallOK, Call
<1>4. calls[i].marks \in Full /\ calls[i].slot \in Slots
  BY <1>2 DEF ServeSave, CallOK, Call
<1>5. OnServer(calls[i].marks, calls[i].slot)'
  <2>1. CASE hidden
    BY <1>1, <2>1 DEF OnServer, Losing
  <2>2. CASE ~ hidden
    <3>1. Save(calls[i].op, calls[i].slot, calls[i].marks)
      BY DEF ServeSave
    <3>2. PICK slot \in Slots, marks \in Full : slot = calls[i].slot /\ marks = calls[i].marks
      BY <1>4
    <3>3. \A e \in Enrollments : marks[e] = View(slot)'[e]
      BY <2>2, <3>1, <3>2, SaveReachesServer
    <3>4. OnServer(marks, slot)'
      BY <3>3 DEF OnServer
    <3> QED BY <1>3, <3>2, <3>4 DEF OnServer, View
  <2> QED BY <2>1, <2>2
<1>6. OnServer(calls[i].marks, page.slot)'
  BY <1>1, <1>2, <1>3, <1>5 DEF OnServer, View
<1>7. calls[i].op = "draft" /\ calls[i].leave => page.held # Nowhere /\ calls[i].marks = page.marks
  BY <1>1 DEF Calm
<1> QED BY <1>1, <1>2, <1>3, <1>6, <1>7 DEF Calm

\* Nothing is on its way any more.
LEMMA CalmSettled ==
  ASSUME Calm, past.story = "quiet", DOMAIN calls' = {}, UNCHANGED tables,
         past.lost \subseteq past'.lost, past'.lost \subseteq {"left", "hidden"},
         NEW marks, page'.base = marks, page'.slot = page.slot, OnServer(marks, page.slot)
  PROVE  Calm'
<1>1. OnServer(page.base, page.slot)'
  BY DEF OnServer, View, tables
<1> QED BY <1>1 DEF Calm

LEMMA CalmLoadArrives ==
  ASSUME IInv, Calm, NEW i \in DOMAIN calls, LoadArrives(i)
  PROVE  Calm'
<1> SUFFICES ASSUME past'.story = "quiet" PROVE Calm'
  BY DEF Calm
<1>1. past \in Past /\ page \in Page /\ Losing("replaced", Dirty /\ ~ past.given) \in SUBSET Ways
  BY QuietCalls DEF Losing, Ways
<1>2. past.story = "quiet" /\ past'.lost = past.lost \cup Losing("replaced", Dirty /\ ~ past.given)
  BY <1>1, CalmSaw DEF LoadArrives
<1>3. past'.lost = past.lost /\ past'.lost \subseteq {"left", "hidden"} /\ OnServer(calls[i].marks, page.slot)
  BY <1>2 DEF Calm, LoadArrives, Losing
<1>4. DOMAIN calls' = {}
  BY <1>2, CalmOne DEF LoadArrives
<1>5. page'.base = calls[i].marks /\ page'.slot = page.slot
  BY <1>1 DEF LoadArrives, Page
<1> QED BY <1>2, <1>3, <1>4, <1>5, CalmSettled DEF LoadArrives

LEMMA CalmSaveArrives ==
  ASSUME IInv, Calm, NEW i \in DOMAIN calls, SaveArrives(i)
  PROVE  Calm'
<1> SUFFICES ASSUME past'.story = "quiet" PROVE Calm'
  BY DEF Calm
<1>1. past' = past /\ page \in Page
  BY QuietCalls DEF SaveArrives
<1>2. past'.lost \subseteq {"left", "hidden"} /\ OnServer(calls[i].marks, page.slot)
  BY <1>1 DEF Calm, SaveArrives
<1>3. DOMAIN calls' = {}
  BY <1>1, CalmOne DEF SaveArrives
<1>4. page'.base = calls[i].marks /\ page'.slot = page.slot
  BY <1>1 DEF SaveArrives, Page
<1> QED BY <1>1, <1>2, <1>3, <1>4, CalmSettled DEF SaveArrives

\* The page asks for one load, with nothing to lose that was not given up.
LEMMA CalmLoading ==
  ASSUME NEW others, DOMAIN others = {}, NEW slot, Send(others, Request("load", slot, FALSE)),
         page'.slot = slot, past'.lost \subseteq {"left", "hidden"}, ~ past'.given => ~ Dirty'
  PROVE  Calm'
<1> DEFINE r == Request("load", slot, FALSE)
<1>1. r.op = "load" /\ r.slot = slot /\ r.mounted /\ ~ r.answered
  BY DEF Request
<1> HIDE DEF r
<1>2. PICK i \in CallIds : DOMAIN calls' = {i} /\ calls'[i] = r
  <2>1. Send(others, r)
    BY DEF r
  <2>2. \E i \in CallIds \ DOMAIN others : DOMAIN calls' = DOMAIN others \cup {i} /\ calls'[i] = r
    BY <2>1, SendAdds
  <2> QED BY <2>2
<1> QED BY <1>1, <1>2 DEF Calm

LEMMA CalmGo ==
  ASSUME IInv, NEW others, DOMAIN others = {}, NEW target \in Slots \cup {Away}, Go(others, target),
         past'.lost \subseteq {"left", "hidden"}, past'.given \/ ~ Dirty
  PROVE  Calm'
<1>1. page \in Page
  BY QuietCalls
<1>2. CASE target = Away
  <2>1. page' = Blank(page.slot) /\ Send(Gone(others), Request("load", page.slot, FALSE))
    BY <1>2 DEF Go
  <2>2. DOMAIN Gone(others) = {} /\ page'.slot = page.slot /\ ~ Dirty'
    BY <2>1 DEF Gone, Blank, Dirty
  <2> QED BY <2>1, <2>2, CalmLoading
<1>3. CASE target # Away
  <2>1. /\ page' = [page EXCEPT !.slot = target, !.held = Nowhere]
        /\ Send(others, Request("load", target, FALSE))
    BY <1>3 DEF Go
  <2>2. page'.slot = target /\ (Dirty' <=> Dirty)
    BY <1>1, <2>1 DEF Page, Dirty
  <2> QED BY <2>1, <2>2, CalmLoading
<1> QED BY <1>2, <1>3

LEMMA CalmDraftArrives ==
  ASSUME IInv, Calm, NEW i \in DOMAIN calls, DraftArrives(i)
  PROVE  Calm'
<1> SUFFICES ASSUME past'.story = "quiet" PROVE Calm'
  BY DEF Calm
<1> DEFINE leaves == calls[i].leave /\ page.held # Nowhere
           lost == Losing("replaced", leaves /\ page.marks # calls[i].marks)
<1>1. past \in Past /\ page \in Page /\ past.given \in BOOLEAN /\ lost \in SUBSET Ways
  BY QuietCalls DEF Past, Losing, Ways
<1>2. Saw(TRUE, past.given, lost) /\ UNCHANGED tables
  BY DEF DraftArrives
<1>3. past.story = "quiet" /\ past'.lost = past.lost \cup lost /\ past'.given = past.given
  BY <1>1, <1>2, CalmSaw
<1>4. leaves => calls[i].marks = page.marks
  BY <1>3 DEF Calm, DraftArrives
<1>5. past'.lost = past.lost /\ past'.lost \subseteq {"left", "hidden"} /\ OnServer(calls[i].marks, page.slot)
  BY <1>3, <1>4 DEF Calm, DraftArrives, Losing
<1>6. DOMAIN Done(i) = {}
  BY <1>3, CalmOne
<1>7. CASE ~ leaves
  <2>1. page' = [page EXCEPT !.base = calls[i].marks] /\ calls' = Done(i)
    BY <1>7 DEF DraftArrives
  <2>2. page'.base = calls[i].marks /\ page'.slot = page.slot
    BY <1>1, <2>1 DEF Page
  <2> QED BY <1>2, <1>3, <1>5, <1>6, <2>1, <2>2, CalmSettled
<1>8. CASE leaves /\ page.held = Away
  <2>1. Go(Done(i), Away)
    BY <1>8 DEF DraftArrives
  <2>2. page' = Blank(page.slot) /\ Send(Gone(Done(i)), Request("load", page.slot, FALSE))
    BY <2>1 DEF Go
  <2>3. DOMAIN Gone(Done(i)) = {} /\ page'.slot = page.slot /\ ~ Dirty'
    BY <1>6, <2>2 DEF Gone, Blank, Dirty
  <2> QED BY <1>5, <2>2, <2>3, CalmLoading
<1>9. CASE leaves /\ page.held # Away
  <2>1. /\ page' = [page EXCEPT !.base = calls[i].marks, !.slot = page.held, !.held = Nowhere]
        /\ Send(Done(i), Request("load", page.held, FALSE))
    BY <1>9 DEF DraftArrives
  <2>2. page'.slot = page.held /\ page'.base = calls[i].marks /\ page'.marks = page.marks
    BY <1>1, <2>1 DEF Page
  <2>3. ~ Dirty'
    BY <1>4, <1>9, <2>2 DEF Dirty
  <2> QED BY <1>5, <1>6, <2>1, <2>2, <2>3, CalmLoading
<1> QED BY <1>7, <1>8, <1>9

LEMMA CalmChoose ==
  ASSUME IInv, Calm, NEW target \in Slots \cup {Away}, Choose(target)
  PROVE  Calm'
<1> SUFFICES ASSUME past'.story = "quiet" PROVE Calm'
  BY DEF Calm
<1>1. past \in Past /\ page \in Page /\ past.given \in BOOLEAN /\ (~ Waiting) \in BOOLEAN
  BY QuietCalls DEF Past, Waiting
<1>2. ~ Waiting /\ past.story = "quiet" /\ past'.lost = past.lost /\ past'.lost \subseteq {"left", "hidden"}
  BY <1>1, CalmSawNothing DEF Choose, Calm
<1>3. DOMAIN calls = {}
  BY <1>2, CalmIdle
<1>4. CASE Dirty
  <2>1. page' = [page EXCEPT !.held = target] /\ UNCHANGED <<calls, tables>>
    BY <1>4 DEF Choose
  <2>2. page'.slot = page.slot /\ page'.base = page.base
    BY <1>1, <2>1 DEF Page
  <2>3. Loaded
    BY <1>4 DEF IInv, Typed, PageOK, Dirty, Loaded
  <2>4. OnServer(page.base, page.slot)
    BY <1>2, <1>3, <2>3 DEF Calm
  <2> QED BY <1>2, <1>3, <2>1, <2>2, <2>4, CalmSettled
<1>5. CASE ~ Dirty
  BY <1>2, <1>3, <1>5, CalmGo DEF Choose
<1> QED BY <1>4, <1>5

\* The marks on the page change, and nothing that is under way is about them.
LEMMA CalmMarking ==
  ASSUME IInv, Calm, Loaded, page.held = Nowhere, NEW marks, page' = [page EXCEPT !.marks = marks],
         Saw(InFlight({"load"}) = {}, FALSE, {}), UNCHANGED <<tables, calls>>
  PROVE  Calm'
<1> SUFFICES ASSUME past'.story = "quiet" PROVE Calm'
  BY DEF Calm
<1>1. past \in Past /\ page \in Page
  BY QuietCalls
<1>2. InFlight({"load"}) = {} /\ past.story = "quiet" /\ past'.lost = past.lost /\ past'.lost \subseteq {"left", "hidden"}
  BY <1>1, CalmSawNothing DEF Calm
<1>3. page'.slot = page.slot /\ page'.base = page.base
  BY <1>1 DEF Page
<1>4. \A i \in DOMAIN calls : calls[i].mounted /\ calls[i].op # "load"
  BY <1>2 DEF Calm, InFlight
<1>5. \A i \in DOMAIN calls : ~ (calls[i].op = "draft" /\ calls[i].leave)
  BY <1>2 DEF Calm
<1>6. \A i \in DOMAIN calls : calls[i].answered => OnServer(calls[i].marks, page.slot)'
  BY <1>2, <1>3 DEF Calm, OnServer, View, tables
<1>7. (\A i \in DOMAIN calls : ~ calls[i].answered) => OnServer(page.base, page.slot)'
  BY <1>2, <1>3, <1>4 DEF Calm, OnServer, View, tables
<1> QED BY <1>2, <1>3, <1>4, <1>5, <1>6, <1>7 DEF Calm

LEMMA CalmClick ==
  ASSUME IInv, Calm, NEW e \in Enrollments, NEW status \in Statuses, Click(e, status)
  PROVE  Calm'
<1>1. page' = [page EXCEPT !.marks = [page.marks EXCEPT ![e] = status]]
  BY QuietCalls DEF Click, Page
<1> QED BY <1>1, CalmMarking DEF Click

LEMMA CalmAllPresent == ASSUME IInv, Calm, AllPresent PROVE Calm'
BY CalmMarking DEF AllPresent

LEMMA CalmStoring ==
  ASSUME IInv, Calm, Loaded, NEW op \in {"mark", "draft"}, NEW leave \in BOOLEAN,
         Send(calls, Request(op, page.slot, leave)), leave => page.held # Nowhere,
         Saw(~ Waiting, past.given, {}), UNCHANGED <<tables, page>>
  PROVE  Calm'
<1> SUFFICES ASSUME past'.story = "quiet" PROVE Calm'
  BY DEF Calm
<1> DEFINE r == Request(op, page.slot, leave)
<1>1. past \in Past /\ past.given \in BOOLEAN /\ (~ Waiting) \in BOOLEAN
  BY QuietCalls DEF Past, Waiting
<1>2. ~ Waiting /\ past.story = "quiet" /\ past'.lost = past.lost /\ past'.lost \subseteq {"left", "hidden"}
  BY <1>1, CalmSawNothing DEF Calm
<1>3. DOMAIN calls = {}
  BY <1>2, CalmIdle
<1>4. /\ r.op = op /\ r.slot = page.slot /\ r.mounted /\ ~ r.answered /\ r.leave = leave
      /\ r.marks = page.marks
  BY DEF Request
<1> HIDE DEF r
<1>5. Send(calls, r)
  BY DEF r
<1>6. PICK i \in CallIds \ DOMAIN calls : DOMAIN calls' = DOMAIN calls \cup {i} /\ calls'[i] = r
  BY <1>5, SendAdds
<1>7. DOMAIN calls' = {i}
  BY <1>3, <1>6
<1>8. OnServer(page.base, page.slot)'
  BY <1>2, <1>3 DEF Calm, OnServer, View, tables
<1> QED BY <1>2, <1>4, <1>6, <1>7, <1>8 DEF Calm

LEMMA CalmKeepEditing == ASSUME IInv, Calm, KeepEditing PROVE Calm'
<1> SUFFICES ASSUME past'.story = "quiet" PROVE Calm'
  BY DEF Calm
<1>1. past \in Past /\ page \in Page /\ past.given \in BOOLEAN /\ (~ Waiting) \in BOOLEAN
  BY QuietCalls DEF Past, Waiting
<1>2. ~ Waiting /\ past.story = "quiet" /\ past'.lost = past.lost /\ past'.lost \subseteq {"left", "hidden"}
  BY <1>1, CalmSawNothing DEF Calm, KeepEditing
<1>3. DOMAIN calls = {} /\ UNCHANGED <<tables, calls>>
  BY <1>2, CalmIdle DEF KeepEditing
<1>4. page'.slot = page.slot /\ page'.base = page.base
  BY <1>1 DEF Page, KeepEditing
<1>5. Loaded
  BY DEF IInv, Typed, PageOK, KeepEditing
<1>6. OnServer(page.base, page.slot)
  BY <1>2, <1>3, <1>5 DEF Calm
<1> QED BY <1>2, <1>3, <1>4, <1>6, CalmSettled

LEMMA CalmDiscard == ASSUME IInv, Calm, Discard PROVE Calm'
<1> SUFFICES ASSUME past'.story = "quiet" PROVE Calm'
  BY DEF Calm
<1>1. past \in Past /\ page \in Page /\ (~ Waiting) \in BOOLEAN
  BY QuietCalls DEF Waiting
<1>2. ~ Waiting /\ past.story = "quiet" /\ past'.lost = past.lost /\ past'.lost \subseteq {"left", "hidden"} /\ past'.given
  BY <1>1, CalmSawNothing DEF Calm, Discard
<1>3. DOMAIN calls = {}
  BY <1>2, CalmIdle
<1>4. page.held \in Slots \cup {Away}
  BY <1>1 DEF Page, Discard
<1> QED BY <1>2, <1>3, <1>4, CalmGo DEF Discard

LEMMA CalmBack == ASSUME IInv, Calm, Back PROVE Calm'
<1> SUFFICES ASSUME past'.story = "quiet" PROVE Calm'
  BY DEF Calm
<1> DEFINE left == Losing("left", Dirty /\ ~ past.given)
<1>1. past \in Past /\ past.given \in BOOLEAN /\ (~ Waiting) \in BOOLEAN /\ left \in SUBSET Ways
  BY QuietCalls DEF Past, Waiting, Losing, Ways
<1>2. ~ Waiting /\ past.story = "quiet" /\ past'.lost = past.lost \cup left
  BY <1>1, CalmSaw DEF Back
<1>3. past'.lost \subseteq {"left", "hidden"}
  BY <1>2 DEF Calm, Losing
<1>4. page' = Blank(page.slot) /\ Send(Gone(calls), Request("load", page.slot, FALSE))
  BY DEF Back, Go
<1>5. DOMAIN Gone(calls) = {}
  BY <1>2, CalmIdle DEF Gone
<1>6. page'.slot = page.slot /\ ~ Dirty'
  BY <1>4 DEF Blank, Dirty
<1> QED BY <1>3, <1>4, <1>5, <1>6, CalmLoading

LEMMA CalmKeeps == ASSUME IInv, Calm, [Next]_vars PROVE Calm'
<1>1. CASE Teacher
  <2>1. PressSave => Calm'
    BY CalmStoring DEF PressSave
  <2>2. PressDraft => Calm'
    BY CalmStoring DEF PressDraft
  <2>3. DraftAndLeave => Calm'
    <3>1. DraftAndLeave => Loaded
      BY DEF IInv, Typed, PageOK, DraftAndLeave
    <3> QED BY <3>1, CalmStoring DEF DraftAndLeave
  <2> QED BY <1>1, <2>1, <2>2, <2>3, CalmChoose, CalmBack, CalmClick, CalmAllPresent, CalmKeepEditing, CalmDiscard
          DEF Teacher
<1>2. ASSUME NEW i \in DOMAIN calls, Network(i) PROVE Calm'
  <2>1. Fail(i) => Calm'
    BY QuietCalls, CalmWorse DEF Fail, Calm
  <2> QED BY <1>2, <2>1, CalmServeLoad, CalmServeSave, CalmLoadArrives, CalmSaveArrives, CalmDraftArrives
          DEF Network
<1>3. CASE Others
  <2>1. past'.story # "quiet"
    BY <1>3, QuietCalls, CalmWorse DEF Others, Renew, OtherSave
  <2> QED BY <2>1 DEF Calm
<1>4. CASE UNCHANGED vars
  BY <1>4 DEF vars, tables, Calm, Loaded, Dirty, OnServer, View
<1> QED BY <1>1, <1>2, <1>3, <1>4 DEF Next

-----------------------------------------------------------------------------
(* The theorems *)

(* The page, the calls in flight and the tables are well typed, and an      *)
(* answer to a load has a mark for every student, in every reachable state. *)
THEOREM TypeCorrect == Spec => []TypeOK
<1>1. IInv => TypeOK
  <2> SUFFICES ASSUME IInv PROVE TypeOK
    OBVIOUS
  <2>1. \A i \in DOMAIN calls : calls[i].answered => DOMAIN calls[i].marks = Enrollments
    BY DEF IInv, Typed, CallOK, Full
  <2> QED BY <2>1 DEF IInv, Typed, PageOK, CallOK, TypeOK
<1> QED BY <1>1, InitHolds, StepKeeps, PTL DEF Spec

(* Marks are stored for the session they were loaded and changed for, as    *)
(* long as the teacher waits for the page and nothing makes it load again:  *)
(* whatever other teachers do and whatever calls and answers are lost,      *)
(* delayed or overtaken by others.                                          *)
THEOREM MarksGoHome == Spec => []SavedWhereMarked
<1>1. IInv => SavedWhereMarked
  BY DEF IInv, Placed, SavedWhereMarked
<1> QED BY <1>1, InitHolds, StepKeeps, PTL DEF Spec

(* A draft leaves its table only into the register, in every step of every  *)
(* behaviour.                                                               *)
THEOREM DraftsEndInTheRegister == Spec => DraftBecomesFinal
<1> DEFINE Kept == \A s \in Slots : DOMAIN draft[s] \ DOMAIN draft'[s] \subseteq DOMAIN sheet'[s]
<1>1. ASSUME IInv, [Next]_vars PROVE [Kept]_vars
  <2>1. ASSUME NEW i \in DOMAIN calls, ServeSave(i) PROVE Kept
    <3>1. calls[i].marks \in Full /\ calls[i].slot \in Slots
      BY <1>1, <2>1 DEF IInv, Typed, ServeSave, CallOK, Call
    <3> QED BY <1>1, <2>1, <3>1, SaveKeepsTables DEF IInv, Typed, ServeSave
  <2>2. ASSUME NEW op, NEW slot \in Slots, NEW marks \in Full, OtherSave(op, slot, marks) PROVE Kept
    BY <1>1, <2>2, SaveKeepsTables DEF IInv, Typed, OtherSave
  <2>3. CASE UNCHANGED tables
    BY <2>3 DEF tables
  <2>4. CASE Teacher
    <3>1. UNCHANGED tables
      BY <2>4 DEF Teacher, Choose, Back, Click, AllPresent, PressSave, PressDraft, KeepEditing, Discard, DraftAndLeave
    <3> QED BY <3>1, <2>3
  <2>5. ASSUME NEW i \in DOMAIN calls, Network(i) PROVE Kept
    <3>1. ServeSave(i) \/ UNCHANGED tables
      BY <2>5 DEF Network, ServeLoad, LoadArrives, SaveArrives, DraftArrives, Fail
    <3>2. CASE ServeSave(i)
      BY <3>2, <2>1
    <3>3. CASE UNCHANGED tables
      BY <3>3 DEF tables
    <3> QED BY <3>1, <3>2, <3>3
  <2>6. CASE Others
    BY <2>2, <2>3, <2>6 DEF Others, Renew, Full
  <2> QED BY <1>1, <2>4, <2>5, <2>6 DEF Next
<1> QED BY <1>1, InitHolds, StepKeeps, PTL DEF Spec, DraftBecomesFinal

(* The page of a patient teacher whom nobody disturbs says "saved" only of  *)
(* marks that it will show again, unless he saved a draft of a session that *)
(* was submitted with other marks.                                          *)
THEOREM SavedIsStored == Spec => []CleanMeansStored
<1>1. IInv /\ Calm => CleanMeansStored
  <2> SUFFICES ASSUME IInv, Calm, past.story = "quiet", ~ Dirty, ~ Waiting, "hidden" \notin past.lost,
                      NEW e \in DOMAIN page.marks
               PROVE  page.marks[e] = View(page.slot)[e]
    BY DEF CleanMeansStored
  <2>1. DOMAIN calls = {}
    BY CalmIdle
  <2>2. Loaded
    BY DEF Loaded, NoMarks
  <2>3. OnServer(page.marks, page.slot)
    BY <2>1, <2>2 DEF Calm, Dirty
  <2>4. e \in Enrollments
    BY <2>2, QuietCalls DEF Full
  <2> QED BY <2>3, <2>4 DEF OnServer
<1> QED BY <1>1, InitHolds, StepKeeps, CalmInit, CalmKeeps, PTL DEF Spec

(* The same teacher loses no mark he was not asked about, whatever he       *)
(* clicks once an answer has come, but by going Back or by a draft of a     *)
(* session that is submitted.                                               *)
THEOREM NothingIsLost == Spec => []UndisturbedLosesNothing
<1>1. Calm => UndisturbedLosesNothing
  BY DEF Calm, UndisturbedLosesNothing
<1> QED BY <1>1, InitHolds, StepKeeps, CalmInit, CalmKeeps, PTL DEF Spec

=============================================================================
