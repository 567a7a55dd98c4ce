--------------------------- MODULE Results_proofs ---------------------------
(***************************************************************************)
(* What the results of an exam guarantee, for any number of sections,      *)
(* students, marks and overlapping handlers.  Reviewed is the argument     *)
(* under every interleaving; Serial says what a handler has read stays     *)
(* true until it writes, as long as no handler is overlapped.              *)
(***************************************************************************)
EXTENDS ResultsProperties, FiniteSetTheorems, TLAPS

\* What the status of a set tells about its history.
SetOK(sec) ==
  /\ submission[sec].status \in Finalized \cup {"SUBMITTED"} => submission[sec].submitted
  /\ submission[sec].status \in Finalized => submission[sec].approved

\* What a request in progress has seen and nothing can undo.
Vouched(w) ==
  /\ pending[w].op \in Decisions \cup {"enter"} => pending[w].section \in DOMAIN submission
  /\ pending[w].op = "edit" => pending[w].enrollment \in DOMAIN result
  /\ pending[w].op \in {"approve", "publish", "unpublish"} =>
       submission[pending[w].section].submitted
  /\ pending[w].op \in {"publish", "unpublish"} => submission[pending[w].section].approved

Reviewed ==
  /\ TypeOK
  /\ \A sec \in DOMAIN submission : SetOK(sec)
  /\ \A w \in DOMAIN pending : Vouched(w)

MarksOK == PassWithin(maxMarks, passMark) /\ \A e \in DOMAIN result : Fits(result[e].mark)

NewMax(w)  == IF pending[w].max = Keep THEN maxMarks ELSE pending[w].max
NewPass(w) == IF pending[w].pass = Keep THEN passMark ELSE pending[w].pass

\* What a request in progress has seen and is still so when nothing interferes.
Fresh(w) ==
  /\ pending[w].op = "enter" =>
       /\ StatusOf(pending[w].section) \in Editable
       /\ \A e \in DOMAIN pending[w].sheet :
            Fits(pending[w].sheet[e]) /\ section[e] = pending[w].section
  /\ pending[w].op = "edit" => Fits(pending[w].mark)
  /\ pending[w].op = "configure" =>
       /\ PassWithin(NewMax(w), NewPass(w))
       /\ pending[w].max \notin {Keep, maxMarks} => MaxMayBe(pending[w].max)
  /\ pending[w].op = "submit" => Enough(pending[w].section)

Serial ==
  ~ overlapped =>
    /\ MarksOK
    /\ \A v, w \in DOMAIN pending : v = w
    /\ \A w \in DOMAIN pending : Fresh(w)

IInv == Reviewed /\ Serial

-----------------------------------------------------------------------------
(* The table of requests *)

LEMMA BeginAdds ==
  ASSUME TypeOK, NEW w \in Workers, NEW q \in Request, Begin(w, q)
  PROVE  /\ w \notin DOMAIN pending
         /\ DOMAIN pending' = DOMAIN pending \cup {w} /\ pending'[w] = q
         /\ \A v \in DOMAIN pending : pending'[v] = pending[v]
         /\ pending' \in [DOMAIN pending' -> Request] /\ DOMAIN pending' \subseteq Workers
         /\ overlapped' \in BOOLEAN
         /\ ~ overlapped' => ~ overlapped /\ DOMAIN pending = {}
BY DEF TypeOK, Begin, Upsert, OneRow, Disturb

LEMMA EndRemoves ==
  ASSUME TypeOK, NEW w, End(w)
  PROVE  /\ DOMAIN pending' = DOMAIN pending \ {w}
         /\ \A v \in DOMAIN pending' : pending'[v] = pending[v]
         /\ pending' \in [DOMAIN pending' -> Request] /\ DOMAIN pending' \subseteq Workers
         /\ overlapped' = overlapped
BY DEF TypeOK, End, Without

LEMMA DisturbNotices ==
  ASSUME TypeOK, Disturb, UNCHANGED pending
  PROVE  /\ overlapped' \in BOOLEAN
         /\ ~ overlapped' => ~ overlapped /\ DOMAIN pending' = {}
BY DEF TypeOK, Disturb

\* Ensuring a submission changes no submission that exists.
LEMMA EnsureAdds ==
  ASSUME TypeOK, NEW sec \in Sections, EnsureSubmission(sec)
  PROVE  /\ DOMAIN submission' = DOMAIN submission \cup {sec}
         /\ \A s \in DOMAIN submission : submission'[s] = submission[s]
         /\ sec \notin DOMAIN submission => submission'[sec] = NewSubmission
         /\ submission' \in [DOMAIN submission' -> Submission]
         /\ DOMAIN submission' \subseteq Sections
<1>1. NewSubmission \in Submission
  BY DEF NewSubmission, Submission, SubmissionStatus, Editable
<1> QED BY <1>1 DEF TypeOK, EnsureSubmission, Upsert, OneRow

\* The fields of a request, by operation.
LEMMA Shapes ==
  ASSUME TypeOK, NEW w \in DOMAIN pending
  PROVE  /\ pending[w].op \in Decisions \cup {"enter", "edit", "configure"}
         /\ pending[w].op \in Decisions \cup {"enter"} => pending[w].section \in Sections
         /\ pending[w].op = "enter" =>
              /\ DOMAIN pending[w].sheet \subseteq Enrollments
              /\ \A e \in DOMAIN pending[w].sheet : pending[w].sheet[e] \in Mark
         /\ pending[w].op = "edit" => pending[w].enrollment \in Enrollments /\ pending[w].mark \in Mark
         /\ pending[w].op = "configure" =>
              /\ pending[w].max \in Maxima \cup {Keep}
              /\ pending[w].pass \in PassMarks \cup {NoPass, Keep}
<1>1. pending[w] \in Request
  BY DEF TypeOK
<1>2. CASE pending[w].op = "enter"
  BY <1>1, <1>2 DEF Request, Sheets, Decisions
<1>3. CASE pending[w].op = "edit"
  BY <1>1, <1>3 DEF Request, Decisions
<1>4. CASE pending[w].op = "configure"
  BY <1>1, <1>4 DEF Request, Decisions
<1>5. CASE pending[w].op \in Decisions
  BY <1>1, <1>5 DEF Request, Decisions
<1> QED BY <1>1, <1>2, <1>3, <1>4, <1>5 DEF Request

-----------------------------------------------------------------------------
(* One lemma per operation *)

LEMMA InitHolds == Init => IInv
<1> SUFFICES ASSUME Init PROVE IInv
  OBVIOUS
<1>1. /\ DOMAIN submission = {} /\ DOMAIN result = {} /\ DOMAIN pending = {}
      /\ submission \in [{} -> Submission] /\ result \in [{} -> Result] /\ pending \in [{} -> Request]
  BY DEF Init, Without
<1>2. TypeOK
  BY <1>1 DEF Init, TypeOK
<1>3. Reviewed
  BY <1>1, <1>2 DEF Reviewed
<1>4. Serial
  BY <1>1 DEF Serial, MarksOK, Init
<1> QED BY <1>3, <1>4 DEF IInv

LEMMA ConfigureReadKeeps ==
  ASSUME IInv, NEW w \in Workers, NEW max \in Maxima \cup {Keep},
         NEW pass \in PassMarks \cup {NoPass, Keep}, ConfigureRead(w, max, pass)
  PROVE  IInv'
<1> DEFINE q == [op |-> "configure", max |-> max, pass |-> pass]
<1>0. TypeOK
  BY DEF IInv, Reviewed
<1>1. q \in Request /\ q.op = "configure" /\ q.max = max /\ q.pass = pass
  BY DEF Request
<1>2. Begin(w, q) /\ UNCHANGED <<maxMarks, passMark, submission, result, section, status>>
  BY DEF ConfigureRead, roster
<1> HIDE DEF q
<1>3. /\ DOMAIN pending' = DOMAIN pending \cup {w} /\ pending'[w] = q
      /\ \A v \in DOMAIN pending : pending'[v] = pending[v]
      /\ pending' \in [DOMAIN pending' -> Request] /\ DOMAIN pending' \subseteq Workers
      /\ overlapped' \in BOOLEAN
      /\ ~ overlapped' => ~ overlapped /\ DOMAIN pending = {}
  BY <1>0, <1>1, <1>2, BeginAdds
<1>4. TypeOK'
  BY <1>0, <1>2, <1>3 DEF TypeOK
<1>5. \A sec \in DOMAIN submission' : SetOK(sec)'
  BY <1>2 DEF IInv, Reviewed, SetOK
<1>6. \A v \in DOMAIN pending' : Vouched(v)'
  BY <1>1, <1>2, <1>3 DEF IInv, Reviewed, Vouched, Decisions
<1>7. ASSUME ~ overlapped' PROVE MarksOK' /\ \A v \in DOMAIN pending' : v = w /\ Fresh(v)'
  <2>1. MarksOK' /\ DOMAIN pending' = {w}
    BY <1>2, <1>3, <1>7 DEF IInv, Serial, MarksOK, PassWithin, Fits
  <2>2. PassWithin(NewMax(w), NewPass(w))'
    BY <1>1, <1>2, <1>3 DEF ConfigureRead, PassWithin, NewMax, NewPass
  <2>3. max \notin {Keep, maxMarks} => MaxMayBe(max)'
    BY <1>2 DEF ConfigureRead, MaxMayBe, StatusOf
  <2> QED BY <1>1, <1>2, <1>3, <2>1, <2>2, <2>3 DEF Fresh
<1> QED BY <1>4, <1>5, <1>6, <1>7 DEF IInv, Reviewed, Serial

LEMMA EnterReadKeeps ==
  ASSUME IInv, NEW w \in Workers, NEW sec \in Sections, NEW sheet \in Sheets,
         EnterRead(w, sec, sheet)
  PROVE  IInv'
<1> DEFINE q == [op |-> "enter", section |-> sec, sheet |-> sheet]
<1>0. TypeOK
  BY DEF IInv, Reviewed
<1>1. q \in Request /\ q.op = "enter" /\ q.section = sec /\ q.sheet = sheet
  BY DEF Request
<1>2. Begin(w, q) /\ UNCHANGED <<maxMarks, passMark, result, section, status>>
  BY DEF EnterRead, roster
<1> HIDE DEF q
<1>3. /\ DOMAIN pending' = DOMAIN pending \cup {w} /\ pending'[w] = q
      /\ \A v \in DOMAIN pending : pending'[v] = pending[v]
      /\ pending' \in [DOMAIN pending' -> Request] /\ DOMAIN pending' \subseteq Workers
      /\ overlapped' \in BOOLEAN
      /\ ~ overlapped' => ~ overlapped /\ DOMAIN pending = {}
  BY <1>0, <1>1, <1>2, BeginAdds
<1>4. /\ DOMAIN submission' = DOMAIN submission \cup {sec}
      /\ \A s \in DOMAIN submission : submission'[s] = submission[s]
      /\ sec \notin DOMAIN submission => submission'[sec] = NewSubmission
      /\ submission' \in [DOMAIN submission' -> Submission]
      /\ DOMAIN submission' \subseteq Sections
  BY <1>0, EnsureAdds DEF EnterRead
<1>5. TypeOK'
  BY <1>0, <1>2, <1>3, <1>4 DEF TypeOK
<1>6. \A s \in DOMAIN submission' : SetOK(s)'
  BY <1>4 DEF IInv, Reviewed, SetOK, NewSubmission, Finalized
<1>7. \A v \in DOMAIN pending' : Vouched(v)'
  <2>1. Vouched(w)'
    BY <1>1, <1>3, <1>4 DEF Vouched, Decisions
  <2>2. ASSUME NEW v \in DOMAIN pending PROVE Vouched(v)'
    <3>1. Vouched(v) /\ pending'[v] = pending[v]
      BY <1>3 DEF IInv, Reviewed
    <3> QED BY <1>2, <1>4, <3>1 DEF Vouched, Decisions
  <2> QED BY <1>3, <2>1, <2>2
<1>8. ASSUME ~ overlapped' PROVE MarksOK' /\ \A v \in DOMAIN pending' : v = w /\ Fresh(v)'
  <2>1. MarksOK' /\ DOMAIN pending' = {w}
    BY <1>2, <1>3, <1>8 DEF IInv, Serial, MarksOK, PassWithin, Fits
  <2>2. (StatusOf(sec) \in Editable)'
    <3>1. sec \in DOMAIN submission => submission[sec].status \in SubmissionStatus
      BY <1>0 DEF TypeOK, Submission
    <3> QED BY <1>4, <3>1 DEF EnterRead, StatusOf, NewSubmission, Editable, Finalized, SubmissionStatus
  <2>3. \A e \in DOMAIN sheet : Fits(sheet[e])' /\ section'[e] = sec
    BY <1>2 DEF EnterRead, MayBeMarked, Fits
  <2> QED BY <1>1, <1>3, <2>1, <2>2, <2>3 DEF Fresh
<1> QED BY <1>5, <1>6, <1>7, <1>8 DEF IInv, Reviewed, Serial

LEMMA EditReadKeeps ==
  ASSUME IInv, NEW w \in Workers, NEW e \in Enrollments, NEW mark \in Mark, EditRead(w, e, mark)
  PROVE  IInv'
<1> DEFINE q == [op |-> "edit", enrollment |-> e, mark |-> mark]
<1>0. TypeOK
  BY DEF IInv, Reviewed
<1>1. q \in Request /\ q.op = "edit" /\ q.enrollment = e /\ q.mark = mark
  BY DEF Request
<1>2. Begin(w, q) /\ UNCHANGED <<maxMarks, passMark, submission, result, section, status>>
  BY DEF EditRead, roster
<1> HIDE DEF q
<1>3. /\ DOMAIN pending' = DOMAIN pending \cup {w} /\ pending'[w] = q
      /\ \A v \in DOMAIN pending : pending'[v] = pending[v]
      /\ pending' \in [DOMAIN pending' -> Request] /\ DOMAIN pending' \subseteq Workers
      /\ overlapped' \in BOOLEAN
      /\ ~ overlapped' => ~ overlapped /\ DOMAIN pending = {}
  BY <1>0, <1>1, <1>2, BeginAdds
<1>4. TypeOK'
  BY <1>0, <1>2, <1>3 DEF TypeOK
<1>5. \A sec \in DOMAIN submission' : SetOK(sec)'
  BY <1>2 DEF IInv, Reviewed, SetOK
<1>6. \A v \in DOMAIN pending' : Vouched(v)'
  BY <1>1, <1>2, <1>3 DEF IInv, Reviewed, Vouched, Decisions, EditRead
<1>7. ASSUME ~ overlapped' PROVE MarksOK' /\ \A v \in DOMAIN pending' : v = w /\ Fresh(v)'
  <2>1. MarksOK' /\ DOMAIN pending' = {w}
    BY <1>2, <1>3, <1>7 DEF IInv, Serial, MarksOK, PassWithin, Fits
  <2>2. Fits(mark)'
    BY <1>2 DEF EditRead, Fits
  <2> QED BY <1>1, <1>3, <2>1, <2>2 DEF Fresh
<1> QED BY <1>4, <1>5, <1>6, <1>7 DEF IInv, Reviewed, Serial

LEMMA DecideReadKeeps ==
  ASSUME IInv, NEW w \in Workers, NEW op \in Decisions, NEW sec \in Sections,
         DecideRead(w, op, sec)
  PROVE  IInv'
<1> DEFINE q == [op |-> op, section |-> sec]
<1>0. TypeOK
  BY DEF IInv, Reviewed
<1>1. q \in Request /\ q.op = op /\ q.section = sec
  BY DEF Request
<1>2. Begin(w, q) /\ UNCHANGED <<maxMarks, passMark, submission, result, section, status>>
  BY DEF DecideRead, roster
<1> HIDE DEF q
<1>3. /\ DOMAIN pending' = DOMAIN pending \cup {w} /\ pending'[w] = q
      /\ \A v \in DOMAIN pending : pending'[v] = pending[v]
      /\ pending' \in [DOMAIN pending' -> Request] /\ DOMAIN pending' \subseteq Workers
      /\ overlapped' \in BOOLEAN
      /\ ~ overlapped' => ~ overlapped /\ DOMAIN pending = {}
  BY <1>0, <1>1, <1>2, BeginAdds
<1>4. TypeOK'
  BY <1>0, <1>2, <1>3 DEF TypeOK
<1>5. \A s \in DOMAIN submission' : SetOK(s)'
  BY <1>2 DEF IInv, Reviewed, SetOK
<1>6. /\ sec \in DOMAIN submission
      /\ op \in {"approve", "publish", "unpublish"} => submission[sec].submitted
      /\ op \in {"publish", "unpublish"} => submission[sec].approved
  BY DEF DecideRead, StatusOf, From, Editable, Finalized, IInv, Reviewed, SetOK, Decisions
<1>7. \A v \in DOMAIN pending' : Vouched(v)'
  <2>1. Vouched(w)'
    BY <1>1, <1>2, <1>3, <1>6 DEF Vouched, Decisions
  <2>2. \A v \in DOMAIN pending : Vouched(v)'
    BY <1>2, <1>3 DEF IInv, Reviewed, Vouched, Decisions
  <2> QED BY <1>3, <2>1, <2>2
<1>8. ASSUME ~ overlapped' PROVE MarksOK' /\ \A v \in DOMAIN pending' : v = w /\ Fresh(v)'
  <2>1. MarksOK' /\ DOMAIN pending' = {w}
    BY <1>2, <1>3, <1>8 DEF IInv, Serial, MarksOK, PassWithin, Fits
  <2>2. op = "submit" => Enough(sec)'
    BY <1>2 DEF DecideRead, Enough, ResultsOf, ActiveIn
  <2> QED BY <1>1, <1>3, <2>1, <2>2 DEF Fresh, Decisions
<1> QED BY <1>4, <1>5, <1>7, <1>8 DEF IInv, Reviewed, Serial

LEMMA ConfigureWriteKeeps ==
  ASSUME IInv, NEW w, ConfigureWrite(w)
  PROVE  IInv'
<1>0. TypeOK /\ w \in DOMAIN pending /\ pending[w].op = "configure"
  BY DEF IInv, Reviewed, ConfigureWrite, Writing
<1>1. /\ maxMarks' = NewMax(w) /\ passMark' = NewPass(w)
      /\ UNCHANGED <<submission, result, section, status>>
  BY DEF ConfigureWrite, roster, NewMax, NewPass
<1>2. /\ DOMAIN pending' = DOMAIN pending \ {w}
      /\ \A v \in DOMAIN pending' : pending'[v] = pending[v]
      /\ pending' \in [DOMAIN pending' -> Request] /\ DOMAIN pending' \subseteq Workers
      /\ overlapped' = overlapped
  BY <1>0, EndRemoves DEF ConfigureWrite
<1>3. maxMarks' \in Maxima /\ passMark' \in PassMarks \cup {NoPass}
  BY <1>0, <1>1, Shapes DEF NewMax, NewPass, TypeOK
<1>4. TypeOK'
  BY <1>0, <1>1, <1>2, <1>3 DEF TypeOK
<1>5. Reviewed'
  BY <1>1, <1>2, <1>4 DEF IInv, Reviewed, SetOK, Vouched, Decisions
<1>6. ASSUME ~ overlapped' PROVE MarksOK' /\ DOMAIN pending' = {}
  <2>1. MarksOK /\ Fresh(w) /\ DOMAIN pending = {w}
    BY <1>0, <1>2, <1>6 DEF IInv, Serial
  <2>2. PassWithin(maxMarks, passMark)'
    BY <1>0, <1>1, <2>1 DEF Fresh, PassWithin
  <2>3. \A e \in DOMAIN result' : Fits(result[e].mark)'
    BY <1>0, <1>1, <2>1 DEF Fresh, Fits, NewMax, MaxMayBe, MarksOK
  <2> QED BY <1>2, <2>1, <2>2, <2>3 DEF MarksOK
<1> QED BY <1>5, <1>6 DEF IInv, Serial


LEMMA EnterWriteKeeps ==
  ASSUME IInv, NEW w, EnterWrite(w)
  PROVE  IInv'
<1> DEFINE r == pending[w]
<1>0. TypeOK /\ w \in DOMAIN pending /\ r.op = "enter" /\ r.section \in DOMAIN submission
  BY DEF IInv, Reviewed, EnterWrite, Writing, Vouched
<1>1. /\ UNCHANGED <<maxMarks, passMark, submission, section, status>>
      /\ DOMAIN result' = DOMAIN result \cup DOMAIN r.sheet
      /\ \A e \in DOMAIN r.sheet :
           result'[e] = [mark |-> r.sheet[e],
                         set |-> IF e \in DOMAIN result THEN result[e].set ELSE r.section]
      /\ \A e \in DOMAIN result : e \notin DOMAIN r.sheet => result'[e] = result[e]
      /\ result' = [e \in DOMAIN result' |-> result'[e]]
  BY DEF EnterWrite, roster, Upsert
<1>2. /\ DOMAIN pending' = DOMAIN pending \ {w}
      /\ \A v \in DOMAIN pending' : pending'[v] = pending[v]
      /\ pending' \in [DOMAIN pending' -> Request] /\ DOMAIN pending' \subseteq Workers
      /\ overlapped' = overlapped
  BY <1>0, EndRemoves DEF EnterWrite
<1>3. /\ r.section \in Sections /\ DOMAIN r.sheet \subseteq Enrollments
      /\ \A e \in DOMAIN r.sheet : r.sheet[e] \in Mark
  BY <1>0, Shapes
<1> HIDE DEF r
<1>4. /\ DOMAIN result' \subseteq Enrollments
      /\ \A e \in DOMAIN result' : result'[e] \in Result /\ result'[e].set \in DOMAIN submission
  <2> SUFFICES ASSUME NEW e \in DOMAIN result'
               PROVE  e \in Enrollments /\ result'[e] \in Result /\ result'[e].set \in DOMAIN submission
    OBVIOUS
  <2>1. e \in DOMAIN result => result[e] \in Result /\ result[e].set \in DOMAIN submission
    BY <1>0 DEF TypeOK
  <2>2. CASE e \in DOMAIN r.sheet
    <3> DEFINE set == IF e \in DOMAIN result THEN result[e].set ELSE r.section
    <3>1. set \in Sections /\ set \in DOMAIN submission
      BY <1>0, <1>3, <2>1 DEF Result
    <3>2. result'[e] = [mark |-> r.sheet[e], set |-> set]
      BY <1>1, <2>2
    <3> HIDE DEF set
    <3> QED BY <1>3, <2>2, <3>1, <3>2 DEF Result
  <2>3. CASE e \notin DOMAIN r.sheet
    BY <1>0, <1>1, <2>1, <2>3 DEF TypeOK
  <2> QED BY <2>2, <2>3
<1>5. TypeOK'
  BY <1>0, <1>1, <1>2, <1>4 DEF TypeOK
<1>6. \A v \in DOMAIN pending' : Vouched(v)'
  BY <1>1, <1>2 DEF IInv, Reviewed, Vouched, Decisions
<1>7. Reviewed'
  BY <1>1, <1>5, <1>6 DEF IInv, Reviewed, SetOK
<1>8. ASSUME ~ overlapped' PROVE MarksOK' /\ DOMAIN pending' = {}
  <2>1. MarksOK /\ Fresh(w) /\ DOMAIN pending = {w}
    BY <1>0, <1>2, <1>8 DEF IInv, Serial
  <2>2. \A e \in DOMAIN r.sheet : Fits(r.sheet[e])
    BY <1>0, <2>1 DEF Fresh, r
  <2>3. ASSUME NEW e \in DOMAIN r.sheet PROVE result'[e].mark = r.sheet[e]
    <3> DEFINE set == IF e \in DOMAIN result THEN result[e].set ELSE r.section
    <3>1. result'[e] = [mark |-> r.sheet[e], set |-> set]
      BY <1>1
    <3> QED BY <3>1
  <2>4. \A e \in DOMAIN result' : Fits(result[e].mark)'
    BY <1>1, <2>1, <2>2, <2>3 DEF Fits, MarksOK
  <2> QED BY <1>1, <1>2, <2>1, <2>4 DEF MarksOK, PassWithin
<1> QED BY <1>7, <1>8 DEF IInv, Serial

LEMMA EditWriteKeeps ==
  ASSUME IInv, NEW w, EditWrite(w)
  PROVE  IInv'
<1> DEFINE e == pending[w].enrollment
           m == pending[w].mark
<1>0. TypeOK /\ w \in DOMAIN pending /\ pending[w].op = "edit" /\ e \in DOMAIN result
  BY DEF IInv, Reviewed, EditWrite, Writing, Vouched
<1>1. /\ UNCHANGED <<maxMarks, passMark, submission, section, status>>
      /\ result' = [result EXCEPT ![e].mark = m]
  BY DEF EditWrite, roster
<1>2. /\ DOMAIN pending' = DOMAIN pending \ {w}
      /\ \A v \in DOMAIN pending' : pending'[v] = pending[v]
      /\ pending' \in [DOMAIN pending' -> Request] /\ DOMAIN pending' \subseteq Workers
      /\ overlapped' = overlapped
  BY <1>0, EndRemoves DEF EditWrite
<1>3. m \in Mark
  BY <1>0, Shapes
<1> HIDE DEF e, m
<1>4. /\ DOMAIN result' = DOMAIN result
      /\ \A f \in DOMAIN result : f # e => result'[f] = result[f]
      /\ result'[e].mark = m /\ result'[e].set = result[e].set /\ result'[e] \in Result
  <2>1. result[e] \in Result
    BY <1>0 DEF TypeOK
  <2> QED BY <1>0, <1>1, <1>3, <2>1 DEF Result
<1>5. \A f \in DOMAIN result' : result'[f] \in Result /\ result'[f].set \in DOMAIN submission
  BY <1>0, <1>4 DEF TypeOK
<1>6. result' \in [DOMAIN result' -> Result]
  BY <1>1, <1>4, <1>5
<1>7. TypeOK'
  BY <1>0, <1>1, <1>2, <1>4, <1>5, <1>6 DEF TypeOK
<1>8. Reviewed'
  BY <1>1, <1>2, <1>4, <1>7 DEF IInv, Reviewed, SetOK, Vouched, Decisions
<1>9. ASSUME ~ overlapped' PROVE MarksOK' /\ DOMAIN pending' = {}
  <2>1. MarksOK /\ Fresh(w) /\ DOMAIN pending = {w}
    BY <1>0, <1>2, <1>9 DEF IInv, Serial
  <2>2. Fits(m)
    BY <1>0, <2>1 DEF Fresh, m
  <2> QED BY <1>1, <1>2, <1>4, <2>1, <2>2 DEF MarksOK, PassWithin, Fits
<1> QED BY <1>8, <1>9 DEF IInv, Serial

LEMMA DecideWriteKeeps ==
  ASSUME IInv, NEW w, DecideWrite(w)
  PROVE  IInv'
<1>1. PICK op \in Decisions : Writing(w, op) /\ LET sec == pending[w].section
                                                   old == submission[sec]
          IN  submission' = [submission EXCEPT ![sec] =
                [status    |-> To(op),
                 submitted |-> old.submitted \/ op = "submit",
                 approved  |-> old.approved \/ op = "approve"]]
  BY DEF DecideWrite
<1> DEFINE sec == pending[w].section
           old == submission[sec]
           new == [status    |-> To(op),
                   submitted |-> old.submitted \/ op = "submit",
                   approved  |-> old.approved \/ op = "approve"]
<1>2. /\ TypeOK /\ w \in DOMAIN pending /\ pending[w].op = op
      /\ sec \in DOMAIN submission /\ SetOK(sec) /\ Vouched(w)
  BY <1>1 DEF IInv, Reviewed, Writing, Vouched
<1>3. /\ UNCHANGED <<maxMarks, passMark, result, section, status>>
      /\ submission' = [submission EXCEPT ![sec] = new]
  BY <1>1 DEF DecideWrite, roster
<1>4. /\ DOMAIN pending' = DOMAIN pending \ {w}
      /\ \A v \in DOMAIN pending' : pending'[v] = pending[v]
      /\ pending' \in [DOMAIN pending' -> Request] /\ DOMAIN pending' \subseteq Workers
      /\ overlapped' = overlapped
  BY <1>2, EndRemoves DEF DecideWrite
<1>5. old \in Submission
  BY <1>2 DEF TypeOK
<1>6. To(op) \in SubmissionStatus
  BY DEF To, Decisions, SubmissionStatus, Editable, Finalized
<1>7. new \in Submission
  BY <1>5, <1>6 DEF Submission
<1>8. /\ To(op) \in Finalized \cup {"SUBMITTED"} => new.submitted
      /\ To(op) \in Finalized => new.approved
  BY <1>2 DEF To, Decisions, Finalized, Vouched
<1>9. (old.submitted => new.submitted) /\ (old.approved => new.approved) /\ new.status = To(op)
  OBVIOUS
<1> HIDE DEF sec, old, new
<1>10. /\ DOMAIN submission' = DOMAIN submission /\ submission'[sec] = new
       /\ \A s \in DOMAIN submission : s # sec => submission'[s] = submission[s]
       /\ submission' \in [DOMAIN submission' -> Submission]
  BY <1>2, <1>3, <1>7 DEF TypeOK
<1>11. TypeOK'
  BY <1>2, <1>3, <1>4, <1>10 DEF TypeOK
<1>12. \A s \in DOMAIN submission' : SetOK(s)'
  BY <1>8, <1>9, <1>10 DEF IInv, Reviewed, SetOK
<1>13. \A s \in DOMAIN submission : /\ submission[s].submitted => submission'[s].submitted
                                    /\ submission[s].approved => submission'[s].approved
  BY <1>9, <1>10 DEF old
<1>14. \A v \in DOMAIN pending' : Vouched(v)'
  BY <1>3, <1>4, <1>10, <1>13 DEF IInv, Reviewed, Vouched, Decisions
<1>15. ASSUME ~ overlapped' PROVE MarksOK' /\ DOMAIN pending' = {}
  <2>1. MarksOK /\ DOMAIN pending = {w}
    BY <1>2, <1>4, <1>15 DEF IInv, Serial
  <2> QED BY <1>3, <1>4, <2>1 DEF MarksOK, PassWithin, Fits
<1> QED BY <1>11, <1>12, <1>14, <1>15 DEF IInv, Reviewed, Serial

LEMMA RollbackKeeps ==
  ASSUME IInv, NEW w, Rollback(w)
  PROVE  IInv'
<1>1. TypeOK /\ UNCHANGED <<maxMarks, passMark, submission, result, section, status>>
  BY DEF IInv, Reviewed, Rollback, roster
<1>2. /\ w \in DOMAIN pending /\ DOMAIN pending' = DOMAIN pending \ {w}
      /\ \A v \in DOMAIN pending' : pending'[v] = pending[v]
      /\ pending' \in [DOMAIN pending' -> Request] /\ DOMAIN pending' \subseteq Workers
      /\ overlapped' = overlapped
  BY <1>1, EndRemoves DEF Rollback
<1>3. TypeOK'
  BY <1>1, <1>2 DEF TypeOK
<1>4. Reviewed'
  BY <1>1, <1>2, <1>3 DEF IInv, Reviewed, SetOK, Vouched, Decisions
<1>5. ASSUME ~ overlapped' PROVE MarksOK' /\ DOMAIN pending' = {}
  <2>1. MarksOK /\ DOMAIN pending = {w}
    BY <1>2, <1>5 DEF IInv, Serial
  <2> QED BY <1>1, <1>2, <2>1 DEF MarksOK, PassWithin, Fits
<1> QED BY <1>4, <1>5 DEF IInv, Serial


LEMMA UploadPaperKeeps ==
  ASSUME IInv, NEW sec \in Sections, UploadPaper(sec)
  PROVE  IInv'
<1>1. /\ TypeOK /\ EnsureSubmission(sec) /\ Disturb
      /\ UNCHANGED <<maxMarks, passMark, result, section, status, pending>>
  BY DEF IInv, Reviewed, UploadPaper, roster
<1>2. /\ DOMAIN submission' = DOMAIN submission \cup {sec}
      /\ \A s \in DOMAIN submission : submission'[s] = submission[s]
      /\ sec \notin DOMAIN submission => submission'[sec] = NewSubmission
      /\ submission' \in [DOMAIN submission' -> Submission]
      /\ DOMAIN submission' \subseteq Sections
  BY <1>1, EnsureAdds
<1>3. overlapped' \in BOOLEAN /\ (~ overlapped' => ~ overlapped /\ DOMAIN pending' = {})
  BY <1>1, DisturbNotices
<1>4. TypeOK'
  BY <1>1, <1>2, <1>3 DEF TypeOK
<1>5. \A s \in DOMAIN submission' : SetOK(s)'
  BY <1>2 DEF IInv, Reviewed, SetOK, NewSubmission, Finalized
<1>6. \A v \in DOMAIN pending' : Vouched(v)'
  <2> SUFFICES ASSUME NEW v \in DOMAIN pending PROVE Vouched(v)'
    BY <1>1
  <2>1. Vouched(v)
    BY DEF IInv, Reviewed
  <2> QED BY <1>1, <1>2, <2>1 DEF Vouched, Decisions
<1>7. Serial'
  BY <1>1, <1>3 DEF IInv, Serial, MarksOK, PassWithin, Fits
<1> QED BY <1>4, <1>5, <1>6, <1>7 DEF IInv, Reviewed

LEMMA RosterKeeps ==
  ASSUME IInv, RosterChanges
  PROVE  IInv'
<1>1. /\ TypeOK /\ Disturb
      /\ UNCHANGED <<maxMarks, passMark, submission, result, pending>>
      /\ section' \in [Enrollments -> Sections]
      /\ status' \in [Enrollments -> {"NONE", "ACTIVE", "CLOSED"}]
  BY DEF IInv, Reviewed, TypeOK, RosterChanges, Close, Reopen, Join, Move
<1>2. overlapped' \in BOOLEAN /\ (~ overlapped' => ~ overlapped /\ DOMAIN pending' = {})
  BY <1>1, DisturbNotices
<1>3. TypeOK'
  BY <1>1, <1>2 DEF TypeOK
<1>4. Reviewed'
  BY <1>1, <1>3 DEF IInv, Reviewed, SetOK, Vouched, Decisions
<1>5. Serial'
  BY <1>1, <1>2 DEF IInv, Serial, MarksOK, PassWithin, Fits
<1> QED BY <1>4, <1>5 DEF IInv

LEMMA StutterKeeps == IInv /\ UNCHANGED vars => IInv'
<1> SUFFICES ASSUME IInv, UNCHANGED vars PROVE IInv'
  OBVIOUS
<1>1. TypeOK'
  BY DEF IInv, Reviewed, TypeOK, vars, roster
<1>2. Reviewed'
  BY <1>1 DEF IInv, Reviewed, SetOK, Vouched, Decisions, vars, roster
<1>3. MarksOK => MarksOK'
  BY DEF MarksOK, PassWithin, Fits, vars, roster
<1>4. \A w : Fresh(w) => Fresh(w)'
  BY DEF Fresh, StatusOf, Fits, PassWithin, NewMax, NewPass, MaxMayBe, Enough, ResultsOf, ActiveIn, vars, roster
<1> QED BY <1>2, <1>3, <1>4 DEF IInv, Serial, vars, roster

LEMMA NextKeeps == IInv /\ [Next]_vars => IInv'
<1> SUFFICES ASSUME IInv, [Next]_vars PROVE IInv'
  OBVIOUS
<1>1. ASSUME NEW w \in Workers, Reads(w) PROVE IInv'
  BY <1>1, ConfigureReadKeeps, EnterReadKeeps, EditReadKeeps, DecideReadKeeps DEF Reads
<1>2. ASSUME NEW w \in Workers, Writes(w) PROVE IInv'
  BY <1>2, ConfigureWriteKeeps, EnterWriteKeeps, EditWriteKeeps, DecideWriteKeeps, RollbackKeeps DEF Writes
<1> QED BY <1>1, <1>2, UploadPaperKeeps, RosterKeeps, StutterKeeps DEF Next

-----------------------------------------------------------------------------
(* Theorems *)

(* The inductive invariant holds in every reachable state.                  *)
THEOREM Invariance == Spec => []IInv
<1>1. Init => IInv
  BY InitHolds
<1>2. IInv /\ [Next]_vars => IInv'
  BY NextKeeps
<1> QED BY <1>1, <1>2, PTL DEF Spec

(* Every reachable state is well typed, and each result has its submission. *)
THEOREM TypeCorrect == Spec => []TypeOK
<1>1. IInv => TypeOK
  BY DEF IInv, Reviewed
<1> QED BY Invariance, <1>1, PTL

(* What students and promotion see was submitted by somebody and approved   *)
(* by somebody, whatever handlers overlap.                                  *)
THEOREM SeenIsReviewed == Spec => []ReviewedBeforeSeen
<1>1. IInv => ReviewedBeforeSeen
  <2> SUFFICES ASSUME IInv, NEW e \in Enrollments, Counts(e)
               PROVE  submission[result[e].set].submitted /\ submission[result[e].set].approved
    BY DEF ReviewedBeforeSeen
  <2>1. /\ result[e].set \in DOMAIN submission
        /\ submission[result[e].set].status = "PUBLISHED"
    BY DEF Counts, StatusOf
  <2> QED BY <2>1 DEF IInv, Reviewed, SetOK, Finalized
<1> QED BY Invariance, <1>1, PTL

\* The percentage of a mark within the maximum is at most 100.
LEMMA PercentageBound ==
  ASSUME NEW m \in Nat, NEW max \in Nat \ {0}, m <= max
  PROVE  (20000 * m + max) \div (2 * max) <= 10000
<1> DEFINE a == 20000 * m + max
           b == 2 * max
           q == a \div b
<1>1. a \in Nat /\ b \in Nat \ {0} /\ a < 10001 * b
  OBVIOUS
<1> HIDE DEF a, b
<1>2. q \in Int /\ b * q <= a
  BY <1>1
<1>3. ASSUME q >= 10001 PROVE FALSE
  <2>1. b * q >= b * 10001
    BY <1>1, <1>2, <1>3
  <2> QED BY <1>1, <1>2, <2>1
<1> QED BY <1>2, <1>3 DEF a, b

(* As long as no handler was overlapped every mark is within the maximum    *)
(* marks, no percentage is above 100 and the pass mark can be reached.      *)
THEOREM WithinMax == Spec => []MarksWithinMax
<1>1. IInv => MarksWithinMax
  <2> SUFFICES ASSUME IInv, ~ overlapped
               PROVE  /\ PassWithin(maxMarks, passMark)
                      /\ \A e \in DOMAIN result : Fits(result[e].mark) /\ (Counts(e) => Percentage(e) <= 10000)
    BY DEF MarksWithinMax
  <2>1. MarksOK /\ TypeOK
    BY DEF IInv, Serial, Reviewed
  <2>2. ASSUME NEW e \in DOMAIN result, Counts(e) PROVE Percentage(e) <= 10000
    <3>1. result[e].mark \in Nat /\ maxMarks \in Nat \ {0} /\ result[e].mark <= maxMarks
      BY <2>1, <2>2, MarksAssumption DEF Counts, MarksOK, Fits, TypeOK, Result, Mark
    <3>2. PICK m \in Nat, max \in Nat \ {0} : m = result[e].mark /\ max = maxMarks /\ m <= max
      BY <3>1
    <3>3. (20000 * m + max) \div (2 * max) <= 10000
      BY <3>2, PercentageBound
    <3> QED BY <3>2, <3>3 DEF Percentage
  <2> QED BY <2>1, <2>2 DEF MarksOK
<1> QED BY Invariance, <1>1, PTL


\* A step of Next that changes a result, and one that changes the maximum.
LEMMA MarksChangeBy ==
  ASSUME IInv, [Next]_vars, ~ overlapped, NEW e \in Enrollments, AtHome(e), ~ EditedByAdmin(e),
         StatusOf(result[e].set) \notin Editable
  PROVE  result'[e] = result[e]
<1>0. TypeOK /\ e \in DOMAIN result /\ result[e].set = section[e]
  BY DEF IInv, Reviewed, AtHome
<1>1. ASSUME NEW w, EnterWrite(w) PROVE result'[e] = result[e]
  <2>1. w \in DOMAIN pending /\ pending[w].op = "enter" /\ Fresh(w)
    BY <1>1 DEF EnterWrite, Writing, IInv, Serial
  <2>2. e \notin DOMAIN pending[w].sheet
    BY <1>0, <2>1 DEF Fresh
  <2> QED BY <1>0, <1>1, <2>2 DEF EnterWrite, Upsert
<1>2. ASSUME NEW w, EditWrite(w) PROVE result'[e] = result[e]
  <2>1. w \in DOMAIN pending /\ Writing(w, "edit") /\ DOMAIN pending' = DOMAIN pending \ {w}
    BY <1>0, <1>2, EndRemoves DEF EditWrite, Writing
  <2>2. pending[w].enrollment # e
    BY <2>1 DEF EditedByAdmin
  <2> QED BY <1>0, <1>2, <2>2 DEF EditWrite
<1>3. ASSUME NEW w \in Workers, Reads(w) PROVE UNCHANGED result
  BY <1>3 DEF Reads, ConfigureRead, EnterRead, EditRead, DecideRead
<1>4. ASSUME NEW w, ConfigureWrite(w) \/ DecideWrite(w) \/ Rollback(w) PROVE UNCHANGED result
  BY <1>4 DEF ConfigureWrite, DecideWrite, Rollback
<1>5. ASSUME NEW sec, UploadPaper(sec) PROVE UNCHANGED result
  BY <1>5 DEF UploadPaper
<1>6. ASSUME RosterChanges PROVE UNCHANGED result
  BY <1>6 DEF RosterChanges, Close, Reopen, Join, Move
<1> QED BY <1>1, <1>2, <1>3, <1>4, <1>5, <1>6 DEF Next, Writes, vars

LEMMA MaximumStands ==
  ASSUME IInv, [Next]_vars, ~ overlapped, NEW sec \in Sections, StatusOf(sec) \in Finalized
  PROVE  maxMarks' = maxMarks
<1>1. ASSUME NEW w, ConfigureWrite(w) PROVE maxMarks' = maxMarks
  <2>1. w \in DOMAIN pending /\ pending[w].op = "configure" /\ Fresh(w)
    BY <1>1 DEF ConfigureWrite, Writing, IInv, Serial
  <2>2. pending[w].max \in {Keep, maxMarks}
    BY <2>1 DEF Fresh, MaxMayBe
  <2> QED BY <1>1, <2>2 DEF ConfigureWrite
<1>2. ASSUME NEW w \in Workers, Reads(w) PROVE UNCHANGED maxMarks
  BY <1>2 DEF Reads, ConfigureRead, EnterRead, EditRead, DecideRead
<1>3. ASSUME NEW w, EnterWrite(w) \/ EditWrite(w) \/ DecideWrite(w) \/ Rollback(w) PROVE UNCHANGED maxMarks
  BY <1>3 DEF EnterWrite, EditWrite, DecideWrite, Rollback
<1>4. ASSUME NEW s, UploadPaper(s) PROVE UNCHANGED maxMarks
  BY <1>4 DEF UploadPaper
<1>5. ASSUME RosterChanges PROVE UNCHANGED maxMarks
  BY <1>5 DEF RosterChanges, Close, Reopen, Join, Move
<1> QED BY <1>1, <1>2, <1>3, <1>4, <1>5 DEF Next, Writes, vars

(* As long as no handler was overlapped: what was handed in for review is   *)
(* changed by an admin's edit only, while the student stays in the section. *)
THEOREM MarksStand == Spec => ReviewedMarksStand
<1>1. IInv /\ [Next]_vars =>
        [\A e \in Enrollments :
           (~ overlapped /\ AtHome(e) /\ ~ EditedByAdmin(e)) =>
             /\ StatusOf(result[e].set) \notin Editable => result'[e] = result[e]
             /\ StatusOf(result[e].set) \in Finalized => maxMarks' = maxMarks]_vars
  <2> SUFFICES ASSUME IInv, [Next]_vars, NEW e \in Enrollments,
                      ~ overlapped, AtHome(e), ~ EditedByAdmin(e)
               PROVE  /\ StatusOf(result[e].set) \notin Editable => result'[e] = result[e]
                      /\ StatusOf(result[e].set) \in Finalized => maxMarks' = maxMarks
    OBVIOUS
  <2>1. result[e].set \in Sections
    BY DEF AtHome, IInv, Reviewed, TypeOK, Result
  <2> QED BY <2>1, MarksChangeBy, MaximumStands
<1> QED BY Invariance, <1>1, PTL DEF Spec, ReviewedMarksStand


\* Submitting is the only way to become SUBMITTED.
LEMMA SubmittedBy ==
  ASSUME IInv, [Next]_vars, ~ overlapped, NEW sec \in Sections,
         StatusOf(sec) # "SUBMITTED", StatusOf(sec)' = "SUBMITTED"
  PROVE  Enough(sec)
<1>0. TypeOK
  BY DEF IInv, Reviewed
<1>1. ASSUME NEW w, DecideWrite(w) PROVE Enough(sec)
  <2>1. PICK op \in Decisions : Writing(w, op) /\ LET s == pending[w].section
                                                     old == submission[s]
          IN  submission' = [submission EXCEPT ![s] =
                [status    |-> To(op),
                 submitted |-> old.submitted \/ op = "submit",
                 approved  |-> old.approved \/ op = "approve"]]
    BY <1>1 DEF DecideWrite
  <2>2. w \in DOMAIN pending /\ pending[w].op = op /\ Fresh(w)
    BY <2>1 DEF Writing, IInv, Serial
  <2>3. sec = pending[w].section /\ To(op) = "SUBMITTED"
    BY <2>1 DEF StatusOf
  <2>4. op = "submit"
    BY <2>3 DEF To, Decisions
  <2> QED BY <2>2, <2>3, <2>4 DEF Fresh
<1>2. ASSUME NEW s \in Sections, EnsureSubmission(s) PROVE StatusOf(sec)' # "SUBMITTED"
  <2>1. /\ DOMAIN submission' = DOMAIN submission \cup {s}
        /\ \A t \in DOMAIN submission : submission'[t] = submission[t]
        /\ s \notin DOMAIN submission => submission'[s] = NewSubmission
    BY <1>0, <1>2, EnsureAdds
  <2> QED BY <2>1 DEF StatusOf, NewSubmission
<1>3. ASSUME UNCHANGED submission PROVE FALSE
  BY <1>3 DEF StatusOf
<1>4. ASSUME NEW w \in Workers, Reads(w) PROVE FALSE
  BY <1>2, <1>3, <1>4 DEF Reads, ConfigureRead, EnterRead, EditRead, DecideRead
<1>5. ASSUME NEW w, ConfigureWrite(w) \/ EnterWrite(w) \/ EditWrite(w) \/ Rollback(w) PROVE FALSE
  BY <1>3, <1>5 DEF ConfigureWrite, EnterWrite, EditWrite, Rollback
<1>6. ASSUME NEW s \in Sections, UploadPaper(s) PROVE FALSE
  BY <1>2, <1>6 DEF UploadPaper
<1>7. ASSUME RosterChanges PROVE FALSE
  BY <1>3, <1>7 DEF RosterChanges, Close, Reopen, Join, Move
<1> QED BY <1>1, <1>3, <1>4, <1>5, <1>6, <1>7 DEF Next, Writes, vars

(* As long as no handler was overlapped: two equal counts mean a complete   *)
(* set, unless the result of somebody who left the section is among them.   *)
THEOREM CountingSuffices == Spec => SubmittedIsComplete
<1>1. IInv /\ [Next]_vars =>
        [\A sec \in Sections :
           (~ overlapped /\ StatusOf(sec) # "SUBMITTED" /\ StatusOf(sec)' = "SUBMITTED") =>
             \/ \E e \in ResultsOf(sec) : e \notin ActiveIn(sec)
             \/ \A e \in ActiveIn(sec) : AtHome(e)]_vars
  <2> SUFFICES ASSUME IInv, [Next]_vars, NEW sec \in Sections, ~ overlapped,
                      StatusOf(sec) # "SUBMITTED", StatusOf(sec)' = "SUBMITTED",
                      \A e \in ResultsOf(sec) : e \in ActiveIn(sec)
               PROVE  \A e \in ActiveIn(sec) : AtHome(e)
    OBVIOUS
  <2>1. Enough(sec)
    BY SubmittedBy
  <2>2. IsFiniteSet(ActiveIn(sec))
    BY RosterAssumption, FS_Subset DEF ActiveIn
  <2>3. ResultsOf(sec) \in SUBSET ActiveIn(sec)
    OBVIOUS
  <2>4. /\ IsFiniteSet(ResultsOf(sec))
        /\ Cardinality(ResultsOf(sec)) <= Cardinality(ActiveIn(sec))
        /\ Cardinality(ActiveIn(sec)) = Cardinality(ResultsOf(sec)) => ActiveIn(sec) = ResultsOf(sec)
    BY <2>2, <2>3, FS_Subset
  <2>5. Cardinality(ActiveIn(sec)) \in Nat /\ Cardinality(ResultsOf(sec)) \in Nat
    BY <2>2, <2>4, FS_CardinalityType
  <2>6. ActiveIn(sec) = ResultsOf(sec)
    BY <2>1, <2>4, <2>5 DEF Enough
  <2> QED BY <2>6 DEF ActiveIn, ResultsOf, AtHome
<1> QED BY Invariance, <1>1, PTL DEF Spec, SubmittedIsComplete


=============================================================================
