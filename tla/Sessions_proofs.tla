--------------------------- MODULE Sessions_proofs ---------------------------
(***************************************************************************)
(* A reset ends every older session no handler had checked, and tabs that  *)
(* lose nothing and share nothing never trip the theft detection, hold one *)
(* valid token each and stay signed in: for any number of tabs, requests   *)
(* and tokens.                                                             *)
(***************************************************************************)
EXTENDS SessionsProperties, TLAPS

\* The requests that replace the token of a session, and those that end one.
Renewing(w) == pending[w].op \in {"rotate", "issue"} /\ pending[w].row # None

Leaving(w) == pending[w].op \in {"logout", "loggedOut"}

SameSession(i, j) == token[i].session = token[j].session

\* Only teachers are invited again, and nobody is issued a token without a password.
AccountOK ==
  /\ account.role = "STUDENT" => DOMAIN invitation = {}
  /\ \A w \in DOMAIN pending : pending[w].op = "resend" => account.role = "TEACHER"
  /\ \A w \in DOMAIN pending : pending[w].op = "issue" => account.password # "none"

\* Every request of a tab is still waited for, and none of them found a revoked token.
RequestsOK ==
  \A w \in DOMAIN pending :
    /\ pending[w].op \in {"reset", "resend"} \/ pending[w].tab \in Tabs
    /\ pending[w].op # "kill"
    /\ Renewing(w) => tab[pending[w].tab].refresh = "sent"
    /\ Renewing(w) \/ Leaving(w) =>
         \A t \in Tabs : t # pending[w].tab => tab[t].sid # pending[w].row

\* A session is renewed by one request at a time, which holds its only valid token,
\* and a tab renews one session at a time.
RenewalsOK ==
  /\ \A w, v \in DOMAIN pending :
       /\ Renewing(w) /\ Renewing(v)
       /\ pending[w].tab = pending[v].tab \/ SameSession(pending[w].row, pending[v].row)
       => w = v
  /\ \A w \in DOMAIN pending : Renewing(w) =>
       \A i \in DOMAIN token :
         SameSession(i, pending[w].row) /\ (i # pending[w].row \/ pending[w].op = "issue") =>
           token[i].state = "revoked"

\* Somebody is about to replace token i, or to forget it.
Settling(i) ==
  \E w \in DOMAIN pending : pending[w].op \in {"issue", "loggedOut"} /\ pending[w].row = i

SettlingIn(t, i) ==
  \E w \in DOMAIN pending :
    pending[w].op \in {"issue", "loggedOut"} /\ pending[w].row = i /\ pending[w].tab = t

\* Each tab has a session of its own, with a cookie; its token is valid unless the
\* tab is getting another one or is logging out.
TabsOK ==
  /\ \A t, u \in Tabs : tab[t].sid = tab[u].sid /\ tab[t].sid # None => t = u
  /\ \A t \in Tabs : tab[t].sid # None =>
       /\ tab[t].sid \in cookies
       /\ token[tab[t].sid].state = "revoked" => SettlingIn(t, tab[t].sid)
  /\ lastActive # None =>
       /\ lastActive \in cookies
       /\ token[lastActive].state = "revoked" => Settling(lastActive)

OneValid ==
  \A i, j \in DOMAIN token :
    i # j /\ SameSession(i, j) => token[i].state = "revoked" \/ token[j].state = "revoked"

\* What holds as long as nothing was lost, shared, crossed or reset.
Calm == RequestsOK /\ RenewalsOK /\ OneValid /\ TabsOK

Sound == TypeOK /\ AccountOK /\ TemporaryIsReplaced

IInv == Sound /\ (~ disturbed => Calm)

-----------------------------------------------------------------------------
(* What a step does to the requests and the tokens *)

RowOK(r) ==
  r.row \in IF r.op = "accept" THEN DOMAIN invitation
            ELSE IF r.op \in {"rotate", "kill", "logout", "loggedOut"} THEN DOMAIN token
            ELSE {None} \cup DOMAIN token

PendingOK ==
  /\ DOMAIN pending \subseteq Workers /\ pending \in [DOMAIN pending -> Request]
  /\ \A w \in DOMAIN pending : RowOK(pending[w])

\* No row of the tables disappears.
RowsStay ==
  /\ DOMAIN token \subseteq DOMAIN token'
  /\ DOMAIN invitation \subseteq DOMAIN invitation'

Added(w, r) ==
  /\ w \notin DOMAIN pending /\ DOMAIN pending' = DOMAIN pending \cup {w} /\ pending'[w] = r
  /\ \A v \in DOMAIN pending : pending'[v] = pending[v]

Removed(w) ==
  /\ w \in DOMAIN pending /\ DOMAIN pending' = DOMAIN pending \ {w}
  /\ \A v \in DOMAIN pending' : pending'[v] = pending[v]

Changed(w, r) ==
  /\ w \in DOMAIN pending /\ DOMAIN pending' = DOMAIN pending /\ pending'[w] = r
  /\ \A v \in DOMAIN pending \ {w} : pending'[v] = pending[v]

\* The tokens in K take the state s.
Marked(K, s) ==
  /\ token' \in Seq(Token) /\ Len(token') = Len(token) /\ DOMAIN token' = DOMAIN token
  /\ \A i \in DOMAIN token :
       /\ token'[i].session = token[i].session
       /\ token'[i].state = IF i \in K THEN s ELSE token[i].state

Stored(k) ==
  /\ token' \in Seq(Token) /\ Len(token') = Len(token) + 1
  /\ DOMAIN token' = DOMAIN token \cup {Len(token) + 1} /\ Len(token) + 1 \notin DOMAIN token
  /\ \A i \in DOMAIN token : token'[i] = token[i]
  /\ token'[Len(token) + 1] = k

LEMMA BeginAdds ==
  ASSUME TypeOK, NEW w \in Workers, NEW op, NEW t, NEW row, Begin(w, op, t, row),
         [op |-> op, tab |-> t, row |-> row] \in Request,
         RowOK([op |-> op, tab |-> t, row |-> row]), UNCHANGED <<token, invitation>>
  PROVE  Added(w, [op |-> op, tab |-> t, row |-> row]) /\ PendingOK'
<1> DEFINE r == [op |-> op, tab |-> t, row |-> row]
<1>1. pending' = [k \in DOMAIN pending \cup {w} |-> IF k \in {w} THEN r ELSE pending[k]]
  BY DEF Begin, Upsert, OneRow
<1>2. Added(w, r)
  BY <1>1 DEF Begin, Added
<1>3. pending' \in [DOMAIN pending' -> Request]
  <2> HIDE DEF r
  <2>1. r \in Request
    BY DEF r
  <2> QED BY <1>1, <2>1 DEF TypeOK
<1>4. \A v \in DOMAIN pending' : RowOK(pending[v])'
  <2>1. RowOK(r)'
    BY DEF RowOK
  <2>2. \A v \in DOMAIN pending : RowOK(pending[v])
    BY DEF TypeOK, RowOK
  <2> HIDE DEF r
  <2>3. \A v \in DOMAIN pending' : v = w \/ pending'[v] = pending[v]
    BY <1>2 DEF Added
  <2> QED BY <1>2, <2>1, <2>2, <2>3 DEF Added, RowOK
<1> QED BY <1>1, <1>2, <1>3, <1>4 DEF PendingOK, TypeOK

LEMMA EndRemoves ==
  ASSUME TypeOK, NEW w \in DOMAIN pending, End(w), RowsStay
  PROVE  Removed(w) /\ PendingOK'
<1>1. pending' = [k \in DOMAIN pending \ {w} |-> pending[k]]
  BY DEF End, Without
<1>2. Removed(w)
  BY <1>1 DEF Removed
<1>3. \A v \in DOMAIN pending' : RowOK(pending[v])'
  <2>1. \A v \in DOMAIN pending : RowOK(pending[v])
    BY DEF TypeOK, RowOK
  <2> QED BY <1>1, <2>1 DEF RowOK, RowsStay
<1> QED BY <1>1, <1>2, <1>3 DEF PendingOK, TypeOK

LEMMA ChangeChanges ==
  ASSUME TypeOK, NEW w \in DOMAIN pending, NEW r \in Request, RowOK(r)', RowsStay,
         pending' = [pending EXCEPT ![w] = r]
  PROVE  Changed(w, r) /\ PendingOK'
<1>1. Changed(w, r)
  BY DEF TypeOK, Changed
<1>2. \A v \in DOMAIN pending' : RowOK(pending[v])'
  <2>1. \A v \in DOMAIN pending : RowOK(pending[v])
    BY DEF TypeOK, RowOK
  <2> QED BY <1>1, <2>1 DEF Changed, RowOK, RowsStay
<1> QED BY <1>1, <1>2 DEF PendingOK, TypeOK

LEMMA StayPending ==
  ASSUME TypeOK, UNCHANGED pending, RowsStay
  PROVE  PendingOK'
<1>1. \A v \in DOMAIN pending : RowOK(pending[v])
  BY DEF TypeOK, RowOK
<1> QED BY <1>1 DEF PendingOK, TypeOK, RowOK, RowsStay

LEMMA TokenRows ==
  ASSUME TypeOK
  PROVE  /\ Len(token) \in Nat /\ DOMAIN token = 1..Len(token)
         /\ \A i \in DOMAIN token : token[i] \in Token /\ token[i].session \in 1..i
<1>1. token \in Seq(Token) /\ \A i \in DOMAIN token : token[i].session <= i
  BY DEF TypeOK
<1>2. Len(token) \in Nat /\ DOMAIN token = 1..Len(token) /\ \A i \in DOMAIN token : token[i] \in Token
  BY <1>1
<1>3. \A i \in DOMAIN token : token[i].session \in Nat \ {0} /\ i \in Nat
  BY <1>2 DEF Token
<1> QED BY <1>1, <1>2, <1>3

LEMMA MarkOne ==
  ASSUME TypeOK, NEW i \in DOMAIN token, NEW s \in {"live", "expired", "revoked"},
         token' = [token EXCEPT ![i].state = s]
  PROVE  Marked({i}, s) /\ \A j \in DOMAIN token' : token'[j].session <= j
<1>1. token[i] \in Token /\ [token[i] EXCEPT !.state = s] \in Token
  BY TokenRows DEF Token
<1>2. token' \in Seq(Token) /\ Len(token') = Len(token) /\ DOMAIN token' = DOMAIN token
  BY <1>1 DEF TypeOK
<1>3. \A j \in DOMAIN token :
        /\ token'[j].session = token[j].session
        /\ token'[j].state = IF j \in {i} THEN s ELSE token[j].state
  BY <1>1, TokenRows DEF Token
<1> QED BY <1>2, <1>3 DEF Marked, TypeOK

LEMMA RevokeAll ==
  ASSUME TypeOK, token' = [i \in DOMAIN token |-> [token[i] EXCEPT !.state = "revoked"]]
  PROVE  Marked(DOMAIN token, "revoked") /\ \A j \in DOMAIN token' : token'[j].session <= j
<1>1. \A i \in DOMAIN token : [token[i] EXCEPT !.state = "revoked"] \in Token
  BY TokenRows DEF Token
<1>2. token' \in Seq(Token) /\ Len(token') = Len(token) /\ DOMAIN token' = DOMAIN token
  BY <1>1, TokenRows
<1>3. \A j \in DOMAIN token : token'[j].session = token[j].session /\ token'[j].state = "revoked"
  BY <1>1, TokenRows DEF Token
<1> QED BY <1>2, <1>3 DEF Marked, TypeOK

LEMMA TokenStored ==
  ASSUME TypeOK, NEW k \in Token, k.session <= Len(token) + 1, token' = Append(token, k)
  PROVE  Stored(k) /\ \A j \in DOMAIN token' : token'[j].session <= j
<1>1. token' \in Seq(Token) /\ Len(token') = Len(token) + 1 /\ DOMAIN token' = 1..Len(token) + 1
  BY DEF TypeOK
<1>2. \A i \in DOMAIN token : token'[i] = token[i]
  BY TokenRows DEF TypeOK
<1>3. token'[Len(token) + 1] = k
  BY DEF TypeOK
<1> QED BY <1>1, <1>2, <1>3, TokenRows DEF TypeOK, Stored

-----------------------------------------------------------------------------
(* Types, accounts and resets *)

BrowserOK ==
  /\ cookies \subseteq DOMAIN token
  /\ tab \in [Tabs -> Tab]
  /\ \A t \in Tabs : tab[t].sid \in {None} \cup DOMAIN token
  /\ lastActive \in {None} \cup DOMAIN token

LEMMA BrowserStays ==
  ASSUME TypeOK, UNCHANGED browser, RowsStay
  PROVE  BrowserOK'
BY DEF TypeOK, BrowserOK, RowsStay, browser

LEMMA SignedOutOK ==
  ASSUME TypeOK, NEW t \in Tabs, SignedOut(t), UNCHANGED cookies, RowsStay
  PROVE  BrowserOK'
<1>1. tab' \in [Tabs -> Tab] /\ \A u \in Tabs : tab'[u].sid = IF u = t THEN None ELSE tab[u].sid
  BY DEF TypeOK, SignedOut, Tab, None
<1> QED BY <1>1 DEF TypeOK, SignedOut, BrowserOK, RowsStay

LEMMA InitHolds == Init => IInv
<1> SUFFICES ASSUME Init PROVE IInv
  OBVIOUS
<1>1. DOMAIN pending = {}
  BY DEF Init, Without
<1>2. PICK role \in Roles :
        IF role = "STUDENT"
        THEN /\ account = [role |-> role, status |-> "ACTIVE", password |-> "temporary", mustChange |-> TRUE]
             /\ invitation = << >>
        ELSE /\ account = [role |-> role, status |-> "PENDING_SETUP", password |-> "none", mustChange |-> FALSE]
             /\ invitation = <<"PENDING">>
  BY DEF Init
<1>3. account \in Account /\ invitation \in Seq({"PENDING", "ACCEPTED", "REVOKED"})
      /\ (account.role = "STUDENT" => DOMAIN invitation = {})
  <2>1. CASE role = "STUDENT"
    <3>1. account = [role |-> role, status |-> "ACTIVE", password |-> "temporary", mustChange |-> TRUE]
      BY <1>2, <2>1
    <3>2. account \in Account
      BY <3>1 DEF Account
    <3>3. invitation = << >>
      BY <1>2, <2>1
    <3> QED BY <3>2, <3>3
  <2>2. CASE role # "STUDENT"
    <3>1. account = [role |-> role, status |-> "PENDING_SETUP", password |-> "none", mustChange |-> FALSE]
      BY <1>2, <2>2
    <3>2. account \in Account /\ account.role # "STUDENT"
      BY <2>2, <3>1 DEF Account
    <3>3. invitation = <<"PENDING">>
      BY <1>2, <2>2
    <3> QED BY <3>2, <3>3
  <2> QED BY <2>1, <2>2
<1>4. TypeOK
  <2>1. token \in Seq(Token) /\ DOMAIN token = {} /\ Len(token) = 0
    BY DEF Init
  <2>2. tab \in [Tabs -> Tab] /\ \A t \in Tabs : tab[t].sid = None
    BY DEF Init, Tab, None
  <2>3. pending \in [DOMAIN pending -> Request]
    BY <1>1 DEF Init, Without
  <2>4. cookies = {} /\ lastActive = None /\ disturbed = FALSE /\ reset = [tokens |-> 0, late |-> FALSE]
    BY DEF Init
  <2>5. BrowserOK /\ PendingOK
    BY <1>1, <2>2, <2>3, <2>4 DEF BrowserOK, PendingOK
  <2>6. \A i \in DOMAIN token : token[i].session <= i
    BY <2>1
  <2>7. reset \in [tokens : 0..Len(token), late : BOOLEAN]
    BY <2>1, <2>4
  <2>8. disturbed \in BOOLEAN
    BY <2>4
  <2> QED BY <1>3, <2>1, <2>5, <2>6, <2>7, <2>8 DEF TypeOK, BrowserOK, PendingOK, RowOK
<1>5. AccountOK /\ TemporaryIsReplaced
  BY <1>1, <1>2, <1>3 DEF Init, AccountOK, TemporaryIsReplaced
<1>6. Calm
  BY <1>1 DEF Init, Calm, RequestsOK, RenewalsOK, OneValid, TabsOK, None
<1> QED BY <1>4, <1>5, <1>6 DEF IInv, Sound

\* A handler that starts.
LEMMA ReadSound ==
  ASSUME Sound, NEW w \in Workers, NEW op, NEW t, NEW row, Begin(w, op, t, row),
         [op |-> op, tab |-> t, row |-> row] \in Request,
         RowOK([op |-> op, tab |-> t, row |-> row]),
         op = "resend" => account.role = "TEACHER", op = "issue" => account.password # "none",
         UNCHANGED <<server, reset>>, BrowserOK', disturbed' \in BOOLEAN
  PROVE  Sound'
<1> USE DEF server
<1>1. Added(w, [op |-> op, tab |-> t, row |-> row]) /\ PendingOK'
  BY BeginAdds DEF Sound
<1>2. TypeOK'
  BY <1>1 DEF Sound, TypeOK, PendingOK, RowOK, BrowserOK
<1>3. \A v \in DOMAIN pending' :
        \/ v \in DOMAIN pending /\ pending'[v].op = pending[v].op
        \/ v = w /\ pending'[v].op = op
  <2>1. pending'[w] = [op |-> op, tab |-> t, row |-> row]
    BY <1>1 DEF Added
  <2>2. pending'[w].op = op
    BY <2>1
  <2> QED BY <1>1, <2>2 DEF Added
<1>4. AccountOK'
  BY <1>3 DEF Sound, AccountOK
<1> QED BY <1>2, <1>4 DEF Sound, TemporaryIsReplaced

\* A handler that ends or goes on, a browser that changes, a token that is marked.
LEMMA MarkedSound ==
  ASSUME Sound, NEW K, NEW s, Marked(K, s), \A j \in DOMAIN token' : token'[j].session <= j,
         s = "revoked" \/ \A i \in K : token[i].state = "live",
         PendingOK', BrowserOK', disturbed' \in BOOLEAN,
         \A v \in DOMAIN pending' :
           /\ v \in DOMAIN pending
           /\ \/ pending'[v].op = pending[v].op
              \/ pending'[v].op \notin {"resend", "issue"}
              \/ pending'[v].op = "issue" /\ account.password # "none",
         UNCHANGED <<account, invitation, reset>>
  PROVE  Sound'
<1>1. TypeOK'
  BY DEF Sound, TypeOK, PendingOK, RowOK, BrowserOK, Marked
<1>2. AccountOK'
  BY DEF Sound, AccountOK
<1>3. TemporaryIsReplaced'
  BY DEF Sound, TypeOK, TemporaryIsReplaced, Marked
<1> QED BY <1>1, <1>2, <1>3 DEF Sound

LEMMA NothingMarked ==
  ASSUME TypeOK, UNCHANGED token
  PROVE  Marked({}, "revoked") /\ \A j \in DOMAIN token' : token'[j].session <= j
BY DEF TypeOK, Marked

\* A token that is issued.
LEMMA StoredSound ==
  ASSUME Sound, NEW k \in Token, Stored(k), \A j \in DOMAIN token' : token'[j].session <= j,
         account.password # "none",
         PendingOK', BrowserOK', disturbed' \in BOOLEAN,
         \A v \in DOMAIN pending' : v \in DOMAIN pending /\ pending'[v].op = pending[v].op,
         UNCHANGED <<account, invitation, reset>>
  PROVE  Sound'
<1>1. TypeOK'
  BY TokenRows DEF Sound, TypeOK, PendingOK, RowOK, BrowserOK, Stored
<1>2. AccountOK'
  BY DEF Sound, AccountOK
<1> QED BY <1>1, <1>2 DEF Sound, TemporaryIsReplaced

\* A change to the account or its invitations, by a handler in progress or not.
LEMMA AccountSound ==
  ASSUME Sound, account' \in Account, account'.role = account.role,
         invitation' \in Seq({"PENDING", "ACCEPTED", "REVOKED"}),
         account.role = "STUDENT" => DOMAIN invitation' = {},
         account.password # "none" => account'.password # "none",
         TemporaryIsReplaced', PendingOK',
         \A v \in DOMAIN pending' :
           /\ v \in DOMAIN pending
           /\ \/ pending'[v].op = pending[v].op
              \/ pending'[v].op = "issue" /\ account'.password # "none",
         UNCHANGED <<token, browser, history>>
  PROVE  Sound'
<1> USE DEF browser, history
<1>1. TypeOK'
  BY DEF Sound, TypeOK, PendingOK, RowOK
<1>2. AccountOK'
  BY DEF Sound, AccountOK
<1> QED BY <1>1, <1>2 DEF Sound

LEMMA RequestShape ==
  ASSUME TypeOK, NEW w \in DOMAIN pending
  PROVE  /\ pending[w] \in Request /\ RowOK(pending[w])
         /\ pending[w].tab \in Tabs \cup {NoTab} /\ pending[w].row \in Nat
BY DEF TypeOK, RowOK, Request

LEMMA SameRows ==
  ASSUME UNCHANGED <<token, invitation>>
  PROVE  RowsStay
BY DEF RowsStay

LEMMA MarkedRows ==
  ASSUME NEW K, NEW s, Marked(K, s), UNCHANGED invitation
  PROVE  RowsStay
BY DEF RowsStay, Marked

\* The handlers that only read.
LEMMA ReadsSound ==
  ASSUME Sound, NEW w \in Workers,
         \/ \E t \in Tabs :
              \/ LoginRead(w, t)
              \/ LogoutRead(w, t)
              \/ ChangeRead(w, t)
              \/ \E i \in DOMAIN invitation : AcceptRead(w, t, i)
         \/ ResetRead(w)
         \/ ResendRead(w)
  PROVE  Sound'
<1> USE DEF None
<1>0. TypeOK
  BY DEF Sound
<1>1. ASSUME UNCHANGED <<server, browser, history>>
      PROVE  UNCHANGED <<server, reset>> /\ BrowserOK' /\ disturbed' \in BOOLEAN
  BY <1>0, <1>1, BrowserStays, SameRows DEF server, history, TypeOK
<1>2. ASSUME NEW t \in Tabs, LoginRead(w, t) PROVE Sound'
  <2>1. [op |-> "issue", tab |-> t, row |-> 0] \in Request /\ RowOK([op |-> "issue", tab |-> t, row |-> 0])
    BY DEF Request, RowOK
  <2> QED BY <1>1, <1>2, <2>1, ReadSound DEF LoginRead
<1>3. ASSUME NEW t \in Tabs, LogoutRead(w, t) PROVE Sound'
  <2>1. PICK op \in {"logout", "loggedOut"} :
          Begin(w, op, t, tab[t].sid) /\ UNCHANGED <<server, browser, history>>
    BY <1>3 DEF LogoutRead
  <2>2. tab[t].sid \in DOMAIN token /\ tab[t].sid \in Nat
    BY <1>0, <1>3, TokenRows DEF LogoutRead, TypeOK
  <2>3. [op |-> op, tab |-> t, row |-> tab[t].sid] \in Request /\ RowOK([op |-> op, tab |-> t, row |-> tab[t].sid])
    BY <2>2 DEF Request, RowOK
  <2> QED BY <1>1, <2>1, <2>3, ReadSound
<1>4. ASSUME NEW t \in Tabs, ChangeRead(w, t) PROVE Sound'
  <2>1. [op |-> "change", tab |-> t, row |-> 0] \in Request /\ RowOK([op |-> "change", tab |-> t, row |-> 0])
    BY DEF Request, RowOK
  <2> QED BY <1>1, <1>4, <2>1, ReadSound DEF ChangeRead
<1>5. ASSUME NEW t \in Tabs, NEW i \in DOMAIN invitation, AcceptRead(w, t, i) PROVE Sound'
  <2>1. i \in Nat
    BY <1>0 DEF TypeOK
  <2>2. [op |-> "accept", tab |-> t, row |-> i] \in Request /\ RowOK([op |-> "accept", tab |-> t, row |-> i])
    BY <2>1 DEF Request, RowOK
  <2> QED BY <1>1, <1>5, <2>2, ReadSound DEF AcceptRead
<1>6. ASSUME ResetRead(w) PROVE Sound'
  <2>1. [op |-> "reset", tab |-> NoTab, row |-> 0] \in Request /\ RowOK([op |-> "reset", tab |-> NoTab, row |-> 0])
    BY DEF Request, RowOK
  <2> QED BY <1>1, <1>6, <2>1, ReadSound DEF ResetRead
<1>7. ASSUME ResendRead(w) PROVE Sound'
  <2>1. [op |-> "resend", tab |-> NoTab, row |-> 0] \in Request /\ RowOK([op |-> "resend", tab |-> NoTab, row |-> 0])
    BY DEF Request, RowOK
  <2> QED BY <1>1, <1>7, <2>1, ReadSound DEF ResendRead
<1> QED BY <1>2, <1>3, <1>4, <1>5, <1>6, <1>7

LEMMA RefreshReadSound ==
  ASSUME Sound, NEW w \in Workers, NEW t \in Tabs, RefreshRead(w, t)
  PROVE  Sound'
<1>0. TypeOK
  BY DEF Sound
<1>1. PICK op \in {"kill", "rotate"} : Begin(w, op, t, tab[t].sid)
  BY DEF RefreshRead
<1>2. tab[t].sid \in DOMAIN token /\ tab[t].sid \in Nat
  BY <1>0, TokenRows DEF RefreshRead, TypeOK
<1>3. [op |-> op, tab |-> t, row |-> tab[t].sid] \in Request /\ RowOK([op |-> op, tab |-> t, row |-> tab[t].sid])
  BY <1>2 DEF Request, RowOK
<1>4. tab' \in [Tabs -> Tab] /\ \A u \in Tabs : tab'[u].sid = tab[u].sid
  BY <1>0 DEF RefreshRead, TypeOK, Tab
<1>5. BrowserOK' /\ UNCHANGED <<server, reset>>
  BY <1>0, <1>4 DEF RefreshRead, Happened, TypeOK, BrowserOK, server
<1>6. disturbed' \in BOOLEAN
  BY <1>0 DEF RefreshRead, Happened, TypeOK
<1> QED BY <1>1, <1>3, <1>5, <1>6, ReadSound

LEMMA NewTokenOK ==
  ASSUME TypeOK, NEW w \in DOMAIN pending, pending[w].op = "issue"
  PROVE  /\ NewToken(w) \in Token /\ NewToken(w).state = "live" /\ NewToken(w).session <= Len(token) + 1
         /\ pending[w].row \in {None} \cup DOMAIN token
         /\ NewToken(w).session = IF pending[w].row = None THEN Len(token) + 1 ELSE token[pending[w].row].session
<1>1. pending[w].row \in {None} \cup DOMAIN token
  BY RequestShape DEF RowOK
<1>2. pending[w].row # None => token[pending[w].row].session \in 1..Len(token)
  BY <1>1, TokenRows
<1>3. Len(token) \in Nat
  BY TokenRows
<1> QED BY <1>1, <1>2, <1>3 DEF NewToken, Token

\* What Issue and IssueLost have in common.
LEMMA IssuedSound ==
  ASSUME Sound, NEW w, Writing(w, "issue"), token' = Append(token, NewToken(w)), End(w),
         UNCHANGED <<account, invitation, reset>>, disturbed' \in BOOLEAN
  PROVE  Stored(NewToken(w)) /\ Removed(w) /\ RowsStay /\ (BrowserOK' => Sound')
<1>0. TypeOK /\ w \in DOMAIN pending /\ pending[w].op = "issue"
  BY DEF Sound, Writing
<1>1. Stored(NewToken(w)) /\ \A j \in DOMAIN token' : token'[j].session <= j
  BY <1>0, NewTokenOK, TokenStored
<1>2. RowsStay
  BY <1>1 DEF Stored, RowsStay
<1>3. Removed(w) /\ PendingOK'
  BY <1>0, <1>2, EndRemoves
<1>4. account.password # "none"
  BY <1>0 DEF Sound, AccountOK
<1>5. \A v \in DOMAIN pending' : v \in DOMAIN pending /\ pending'[v].op = pending[v].op
  BY <1>3 DEF Removed
<1>6. ASSUME BrowserOK' PROVE Sound'
  <2>1. NewToken(w) \in Token
    BY <1>0, NewTokenOK
  <2> QED BY <1>1, <1>3, <1>4, <1>5, <1>6, <2>1, StoredSound
<1> QED BY <1>1, <1>2, <1>3, <1>6

LEMMA IssueSound ==
  ASSUME Sound, NEW w, Issue(w)
  PROVE  Sound'
<1>0. TypeOK /\ w \in DOMAIN pending /\ disturbed' \in BOOLEAN /\ UNCHANGED reset
  BY DEF Sound, Issue, Writing, history, TypeOK
<1>1. Stored(NewToken(w)) /\ RowsStay /\ (BrowserOK' => Sound')
  BY <1>0, IssuedSound DEF Issue
<1>2. pending[w].tab \in Tabs \cup {NoTab} /\ Len(token) + 1 \in DOMAIN token' /\ Len(token) + 1 \in Nat
  BY <1>0, <1>1, RequestShape, TokenRows DEF Stored
<1>3. cookies' \subseteq DOMAIN token'
  BY <1>0, <1>1, <1>2 DEF Issue, TypeOK, RowsStay
<1>4. CASE pending[w].tab = NoTab
  BY <1>0, <1>1, <1>3, <1>4 DEF Issue, TypeOK, RowsStay, BrowserOK
<1>5. CASE pending[w].tab # NoTab
  <2>1. PICK r \in {"no", "sent", "profile", "itself"} :
          tab' = [tab EXCEPT ![pending[w].tab] = [sid |-> Len(token) + 1, refresh |-> r]]
    <3>1. tab[pending[w].tab].refresh \in {"no", "sent", "profile", "itself"}
      BY <1>0, <1>2, <1>5 DEF TypeOK, Tab
    <3> QED BY <1>5, <3>1 DEF Issue
  <2>2. tab' \in [Tabs -> Tab] /\ \A u \in Tabs : tab'[u].sid \in {tab[u].sid, Len(token) + 1}
    BY <1>0, <1>2, <1>5, <2>1 DEF TypeOK, Tab
  <2>3. lastActive' = Len(token) + 1
    BY <1>5 DEF Issue
  <2> QED BY <1>0, <1>1, <1>2, <1>3, <2>2, <2>3 DEF TypeOK, RowsStay, BrowserOK
<1> QED BY <1>4, <1>5

LEMMA IssueLostSound ==
  ASSUME Sound, NEW w, IssueLost(w)
  PROVE  Sound'
<1>0. TypeOK /\ w \in DOMAIN pending /\ disturbed' \in BOOLEAN /\ UNCHANGED reset
  BY DEF Sound, IssueLost, Writing, Happened
<1>1. RowsStay /\ (BrowserOK' => Sound')
  BY <1>0, IssuedSound DEF IssueLost
<1>2. CASE pending[w].tab # NoTab /\ pending[w].row # None
  <2>1. pending[w].tab \in Tabs /\ SignedOut(pending[w].tab) /\ UNCHANGED cookies
    BY <1>0, <1>2, RequestShape DEF IssueLost
  <2> QED BY <1>0, <1>1, <2>1, SignedOutOK
<1>3. CASE ~ (pending[w].tab # NoTab /\ pending[w].row # None)
  BY <1>0, <1>1, <1>3, BrowserStays DEF IssueLost, browser
<1> QED BY <1>2, <1>3

\* A step of the browser alone.
LEMMA TabSound ==
  ASSUME Sound, UNCHANGED <<server, reset>>, BrowserOK', PendingOK', disturbed' \in BOOLEAN,
         \A v \in DOMAIN pending' : v \in DOMAIN pending /\ pending'[v].op = pending[v].op
  PROVE  Sound'
<1>1. Marked({}, "revoked") /\ \A j \in DOMAIN token' : token'[j].session <= j
  BY NothingMarked DEF server, Sound
<1> QED BY <1>1, MarkedSound DEF server

LEMMA TabStepsSound ==
  ASSUME Sound, NEW t \in Tabs, TabSteps(t)
  PROVE  Sound'
<1>0. TypeOK /\ UNCHANGED <<server, cookies, pending, history>>
  BY DEF Sound, TabSteps, RefreshRefused, LoadProfile, LoadProfileFails
<1>1. RowsStay /\ UNCHANGED reset /\ disturbed' \in BOOLEAN
  BY <1>0 DEF RowsStay, server, history, TypeOK
<1>2. PendingOK'
  BY <1>0, <1>1, StayPending
<1>3. CASE RefreshRefused(t) \/ LoadProfileFails(t)
  <2>1. BrowserOK'
    BY <1>0, <1>1, <1>3, SignedOutOK DEF RefreshRefused, LoadProfileFails
  <2> QED BY <1>0, <1>1, <1>2, <2>1, TabSound
<1>4. CASE LoadProfile(t)
  <2>1. PICK r \in {"no", "itself"} : tab' = [tab EXCEPT ![t].refresh = r]
    BY <1>4 DEF LoadProfile
  <2>2. tab' \in [Tabs -> Tab] /\ \A u \in Tabs : tab'[u].sid = tab[u].sid
    BY <1>0, <2>1 DEF TypeOK, Tab
  <2>3. BrowserOK'
    BY <1>0, <1>1, <1>4, <2>2 DEF LoadProfile, TypeOK, BrowserOK, RowsStay
  <2> QED BY <1>0, <1>1, <1>2, <2>3, TabSound
<1> QED BY <1>3, <1>4 DEF TabSteps

\* A request goes on to its next statement.
LEMMA GoesChanges ==
  ASSUME TypeOK, NEW w \in DOMAIN pending, RowsStay, NEW op \in {"issue", "loggedOut"},
         pending[w].op \in {"rotate", "logout"}, Goes(w, op)
  PROVE  Changed(w, [op |-> op, tab |-> pending[w].tab, row |-> pending[w].row]) /\ PendingOK'
<1>1. pending[w] \in Request /\ RowOK(pending[w])
  BY RequestShape
<1>2. PICK r \in Request : r = [op |-> op, tab |-> pending[w].tab, row |-> pending[w].row]
  BY <1>1 DEF Request
<1>3. RowOK(r)'
  <2>1. pending[w].row \in DOMAIN token
    BY <1>1 DEF RowOK
  <2>2. r.row = pending[w].row /\ r.op = op
    BY <1>2
  <2> QED BY <2>1, <2>2 DEF RowOK, RowsStay
<1>4. [pending[w] EXCEPT !.op = op] = r
  BY <1>1, <1>2 DEF Request
<1>5. pending' = [pending EXCEPT ![w] = r]
  BY <1>4 DEF Goes
<1>6. Changed(w, r) /\ PendingOK'
  BY <1>3, <1>5, ChangeChanges
<1> QED BY <1>2, <1>6

LEMMA RotateSound ==
  ASSUME Sound, NEW w, Rotate(w)
  PROVE  /\ Marked({pending[w].row}, "revoked")
         /\ Changed(w, [op |-> "issue", tab |-> pending[w].tab, row |-> pending[w].row])
         /\ Sound'
<1>0. TypeOK /\ w \in DOMAIN pending /\ pending[w].op = "rotate"
  BY DEF Sound, Rotate, Writing
<1>1. pending[w].row \in DOMAIN token
  BY <1>0, RequestShape DEF RowOK
<1>2. Marked({pending[w].row}, "revoked") /\ \A j \in DOMAIN token' : token'[j].session <= j
  BY <1>0, <1>1, MarkOne DEF Rotate
<1>3. RowsStay
  BY <1>2, MarkedRows DEF Rotate
<1>4. Changed(w, [op |-> "issue", tab |-> pending[w].tab, row |-> pending[w].row]) /\ PendingOK'
  BY <1>0, <1>3, GoesChanges DEF Rotate
<1>5. account.password # "none"
  BY <1>1 DEF Sound, TemporaryIsReplaced
<1>6. BrowserOK' /\ disturbed' \in BOOLEAN /\ UNCHANGED reset
  BY <1>0, <1>3, BrowserStays DEF Rotate, history, TypeOK
<1>7. \A v \in DOMAIN pending' :
        v \in DOMAIN pending /\ (pending'[v].op = pending[v].op \/ pending'[v].op = "issue")
  BY <1>4 DEF Changed
<1> QED BY <1>2, <1>4, <1>5, <1>6, <1>7, MarkedSound DEF Rotate

LEMMA LogoutWriteSound ==
  ASSUME Sound, NEW w, LogoutWrite(w)
  PROVE  /\ Marked({pending[w].row}, "revoked")
         /\ Changed(w, [op |-> "loggedOut", tab |-> pending[w].tab, row |-> pending[w].row])
         /\ Sound'
<1>0. TypeOK /\ w \in DOMAIN pending /\ pending[w].op = "logout"
  BY DEF Sound, LogoutWrite, Writing
<1>1. pending[w].row \in DOMAIN token
  BY <1>0, RequestShape DEF RowOK
<1>2. Marked({pending[w].row}, "revoked") /\ \A j \in DOMAIN token' : token'[j].session <= j
  BY <1>0, <1>1, MarkOne DEF LogoutWrite
<1>3. RowsStay
  BY <1>2, MarkedRows DEF LogoutWrite
<1>4. Changed(w, [op |-> "loggedOut", tab |-> pending[w].tab, row |-> pending[w].row]) /\ PendingOK'
  BY <1>0, <1>3, GoesChanges DEF LogoutWrite
<1>6. BrowserOK' /\ disturbed' \in BOOLEAN /\ UNCHANGED reset
  BY <1>0, <1>3, BrowserStays DEF LogoutWrite, history, TypeOK
<1>7. \A v \in DOMAIN pending' :
        v \in DOMAIN pending /\ (pending'[v].op = pending[v].op \/ pending'[v].op = "loggedOut")
  BY <1>4 DEF Changed
<1> QED BY <1>2, <1>4, <1>6, <1>7, MarkedSound DEF LogoutWrite

LEMMA KillSound ==
  ASSUME Sound, NEW w, Kill(w)
  PROVE  Sound'
<1>0. TypeOK /\ w \in DOMAIN pending /\ pending[w].op = "kill"
  BY DEF Sound, Kill, Writing
<1>1. Marked(DOMAIN token, "revoked") /\ \A j \in DOMAIN token' : token'[j].session <= j
  BY <1>0, RevokeAll DEF Kill
<1>2. RowsStay
  BY <1>1, MarkedRows DEF Kill
<1>3. Removed(w) /\ PendingOK'
  BY <1>0, <1>2, EndRemoves DEF Kill
<1>4. BrowserOK'
  <2>1. CASE pending[w].tab = NoTab
    BY <1>0, <1>2, <2>1, BrowserStays DEF Kill, browser
  <2>2. CASE pending[w].tab # NoTab
    <3>1. pending[w].tab \in Tabs /\ SignedOut(pending[w].tab) /\ UNCHANGED cookies
      BY <1>0, <2>2, RequestShape DEF Kill
    <3> QED BY <1>0, <1>2, <3>1, SignedOutOK
  <2> QED BY <2>1, <2>2
<1>5. disturbed' \in BOOLEAN /\ UNCHANGED reset
  BY <1>0 DEF Kill, history, TypeOK
<1>6. \A v \in DOMAIN pending' : v \in DOMAIN pending /\ pending'[v].op = pending[v].op
  BY <1>3 DEF Removed
<1> QED BY <1>1, <1>3, <1>4, <1>5, <1>6, MarkedSound DEF Kill

\* A request of a tab ends and leaves it without a session.
LEMMA LeftOK ==
  ASSUME TypeOK, RowsStay, cookies' \subseteq cookies, lastActive' \in {lastActive, None},
         NEW t \in Tabs, tab' = [tab EXCEPT ![t].sid = None]
  PROVE  BrowserOK'
<1>1. tab' \in [Tabs -> Tab] /\ \A u \in Tabs : tab'[u].sid = IF u = t THEN None ELSE tab[u].sid
  BY DEF TypeOK, Tab, None
<1> QED BY <1>1 DEF TypeOK, BrowserOK, RowsStay

LEMMA LogoutDoneSound ==
  ASSUME Sound, NEW w, LogoutDone(w)
  PROVE  Sound'
<1>0. TypeOK /\ w \in DOMAIN pending
  BY DEF Sound, LogoutDone, Writing
<1>1. RowsStay /\ UNCHANGED reset /\ disturbed' \in BOOLEAN
  BY <1>0, SameRows DEF LogoutDone, server, history, TypeOK
<1>2. Removed(w) /\ PendingOK'
  BY <1>0, <1>1, EndRemoves DEF LogoutDone
<1>3. pending[w].tab \in Tabs \cup {NoTab} /\ cookies' \subseteq cookies /\ lastActive' \in {lastActive, None}
  BY <1>0, RequestShape DEF LogoutDone
<1>4. BrowserOK'
  <2>1. CASE pending[w].tab = NoTab
    BY <1>0, <1>1, <1>3, <2>1 DEF LogoutDone, TypeOK, BrowserOK, RowsStay
  <2>2. CASE pending[w].tab # NoTab
    BY <1>0, <1>1, <1>3, <2>2, LeftOK DEF LogoutDone
  <2> QED BY <2>1, <2>2
<1>5. \A v \in DOMAIN pending' : v \in DOMAIN pending /\ pending'[v].op = pending[v].op
  BY <1>2 DEF Removed
<1> QED BY <1>1, <1>2, <1>4, <1>5, TabSound DEF LogoutDone

LEMMA FailSound ==
  ASSUME Sound, NEW w, Fail(w)
  PROVE  Sound'
<1>0. TypeOK /\ w \in DOMAIN pending /\ UNCHANGED <<server, cookies>>
  BY DEF Sound, Fail
<1>1. RowsStay /\ UNCHANGED reset /\ disturbed' \in BOOLEAN
  BY <1>0, SameRows DEF Fail, server, Happened
<1>2. Removed(w) /\ PendingOK'
  BY <1>0, <1>1, EndRemoves DEF Fail
<1>3. pending[w].tab \in Tabs \cup {NoTab}
  BY <1>0, RequestShape
<1>4. ASSUME UNCHANGED <<tab, lastActive>> PROVE BrowserOK'
  <2>1. UNCHANGED browser
    BY <1>0, <1>4 DEF browser
  <2> QED BY <1>0, <1>1, <2>1, BrowserStays
<1>5. ASSUME pending[w].tab # NoTab, SignedOut(pending[w].tab) PROVE BrowserOK'
  <2>1. pending[w].tab \in Tabs /\ SignedOut(pending[w].tab) /\ UNCHANGED cookies
    BY <1>0, <1>3, <1>5
  <2> QED BY <1>0, <1>1, <2>1, SignedOutOK
<1>6. ASSUME pending[w].tab # NoTab, tab' = [tab EXCEPT ![pending[w].tab].sid = None],
             lastActive' = IF lastActive = pending[w].row THEN None ELSE lastActive
      PROVE  BrowserOK'
  <2>1. pending[w].tab \in Tabs /\ tab' = [tab EXCEPT ![pending[w].tab].sid = None]
    BY <1>3, <1>6
  <2>2. lastActive' \in {lastActive, None} /\ cookies' \subseteq cookies
    BY <1>0, <1>6
  <2> QED BY <1>0, <1>1, <2>1, <2>2, LeftOK
<1>7. BrowserOK'
  BY <1>4, <1>5, <1>6 DEF Fail
<1>8. \A v \in DOMAIN pending' : v \in DOMAIN pending /\ pending'[v].op = pending[v].op
  BY <1>2 DEF Removed
<1> QED BY <1>0, <1>1, <1>2, <1>7, <1>8, TabSound

LEMMA LoadSound ==
  ASSUME Sound, NEW t \in Tabs, Load(t)
  PROVE  Sound'
<1>0. TypeOK /\ UNCHANGED <<server, cookies, lastActive, reset>> /\ disturbed' \in BOOLEAN
  BY DEF Sound, Load, Happened
<1>1. PICK sid \in {None} \cup DOMAIN token : tab' = [tab EXCEPT ![t] = [sid |-> sid, refresh |-> "no"]]
  <2>1. (IF tab[t].sid # None THEN tab[t].sid ELSE lastActive) \in {None} \cup DOMAIN token
    BY <1>0 DEF TypeOK
  <2> QED BY <2>1 DEF Load
<1>2. tab' \in [Tabs -> Tab] /\ \A u \in Tabs : tab'[u].sid \in {sid, tab[u].sid}
  BY <1>0, <1>1, TokenRows DEF TypeOK, Tab, None
<1>3. BrowserOK'
  BY <1>0, <1>2 DEF TypeOK, BrowserOK, server
<1>4. pending' = [w \in DOMAIN pending |->
        IF pending[w].tab = t THEN [pending[w] EXCEPT !.tab = NoTab] ELSE pending[w]]
  BY DEF Load
<1>5. \A w \in DOMAIN pending :
        /\ pending'[w] \in Request
        /\ pending'[w].op = pending[w].op /\ pending'[w].row = pending[w].row
  BY <1>0, <1>4, RequestShape DEF Request
<1>6. PendingOK'
  <2>1. \A w \in DOMAIN pending : RowOK(pending[w])
    BY <1>0, RequestShape
  <2>2. \A w \in DOMAIN pending' : RowOK(pending[w])'
    BY <1>0, <1>4, <1>5, <2>1 DEF RowOK, server
  <2> QED BY <1>0, <1>4, <1>5, <2>2 DEF PendingOK, TypeOK
<1>7. \A v \in DOMAIN pending' : v \in DOMAIN pending /\ pending'[v].op = pending[v].op
  BY <1>4, <1>5
<1> QED BY <1>0, <1>3, <1>6, <1>7, TabSound

LEMMA ChangeWriteSound ==
  ASSUME Sound, NEW w, ChangeWrite(w)
  PROVE  Sound'
<1>0. TypeOK /\ w \in DOMAIN pending
  BY DEF Sound, ChangeWrite, Writing
<1>1. RowsStay
  BY SameRows DEF ChangeWrite
<1>2. Removed(w) /\ PendingOK'
  BY <1>0, <1>1, EndRemoves DEF ChangeWrite
<1>3. \A v \in DOMAIN pending' : v \in DOMAIN pending /\ pending'[v].op = pending[v].op
  BY <1>2 DEF Removed
<1>4. /\ account' \in Account /\ account'.role = account.role
      /\ account'.password = "chosen" /\ ~ account'.mustChange
  BY <1>0 DEF ChangeWrite, TypeOK, Account
<1>5. TemporaryIsReplaced'
  BY <1>4 DEF TemporaryIsReplaced
<1>6. invitation' \in Seq({"PENDING", "ACCEPTED", "REVOKED"}) /\ (account.role = "STUDENT" => DOMAIN invitation' = {})
  BY <1>0 DEF ChangeWrite, Sound, TypeOK, AccountOK
<1> QED BY <1>2, <1>3, <1>4, <1>5, <1>6, AccountSound DEF ChangeWrite

LEMMA AcceptWriteSound ==
  ASSUME Sound, NEW w, AcceptWrite(w)
  PROVE  Changed(w, [op |-> "issue", tab |-> pending[w].tab, row |-> None]) /\ Sound'
<1>0. TypeOK /\ w \in DOMAIN pending /\ pending[w].op = "accept"
  BY DEF Sound, AcceptWrite, Writing
<1>1. pending[w] \in Request /\ pending[w].row \in DOMAIN invitation
  BY <1>0, RequestShape DEF RowOK
<1>2. invitation' \in Seq({"PENDING", "ACCEPTED", "REVOKED"}) /\ DOMAIN invitation' = DOMAIN invitation
  BY <1>0 DEF AcceptWrite, TypeOK
<1>3. RowsStay
  BY <1>2 DEF AcceptWrite, RowsStay
<1>4. PICK r \in Request : r = [op |-> "issue", tab |-> pending[w].tab, row |-> None]
  BY <1>1 DEF Request, None
<1>5. pending' = [pending EXCEPT ![w] = [[pending[w] EXCEPT !.op = "issue"] EXCEPT !.row = None]]
  BY DEF AcceptWrite
<1>6. pending' = [pending EXCEPT ![w] = r]
  <2>1. PICK a : a = [pending[w] EXCEPT !.op = "issue"]
    OBVIOUS
  <2>2. a \in Request /\ a.op = "issue" /\ a.tab = pending[w].tab
    BY <1>1, <2>1 DEF Request
  <2>3. [a EXCEPT !.row = None] = r
    BY <1>4, <2>2 DEF Request
  <2> QED BY <1>5, <2>1, <2>3
<1>7. RowOK(r)'
  BY <1>4 DEF RowOK
<1>8. Changed(w, r) /\ PendingOK'
  BY <1>0, <1>3, <1>6, <1>7, ChangeChanges
<1>9. /\ account' \in Account /\ account'.role = account.role
      /\ account'.password = "chosen" /\ account'.mustChange = account.mustChange
  BY <1>0 DEF AcceptWrite, TypeOK, Account
<1>10. account.role # "STUDENT"
  BY <1>1 DEF Sound, AccountOK
<1>11. TemporaryIsReplaced'
  BY <1>9, <1>10 DEF TemporaryIsReplaced
<1>12. \A v \in DOMAIN pending' :
         v \in DOMAIN pending /\ (pending'[v].op = pending[v].op \/ pending'[v].op = "issue")
  BY <1>4, <1>8 DEF Changed
<1>13. Sound'
  BY <1>2, <1>8, <1>9, <1>10, <1>11, <1>12, AccountSound DEF AcceptWrite
<1> QED BY <1>4, <1>8, <1>13

\* Invitations that are revoked keep their rows.
LEMMA RevokedInvitations ==
  ASSUME TypeOK
  PROVE  /\ [i \in DOMAIN invitation |-> IF invitation[i] = "PENDING" THEN "REVOKED" ELSE invitation[i]]
              \in Seq({"PENDING", "ACCEPTED", "REVOKED"})
         /\ Len([i \in DOMAIN invitation |-> IF invitation[i] = "PENDING" THEN "REVOKED" ELSE invitation[i]])
              = Len(invitation)
BY DEF TypeOK

LEMMA ResetWriteSound ==
  ASSUME Sound, NEW w, ResetWrite(w)
  PROVE  Sound'
<1>0. TypeOK /\ w \in DOMAIN pending
  BY DEF Sound, ResetWrite, Writing
<1>1. Marked(DOMAIN token, "revoked") /\ \A j \in DOMAIN token' : token'[j].session <= j
  BY <1>0, RevokeAll DEF ResetWrite
<1>2. invitation' \in Seq({"PENDING", "ACCEPTED", "REVOKED"}) /\ DOMAIN invitation' = DOMAIN invitation
  BY <1>0, RevokedInvitations DEF ResetWrite
<1>3. RowsStay
  BY <1>1, <1>2 DEF RowsStay, Marked
<1>4. Removed(w) /\ PendingOK'
  BY <1>0, <1>3, EndRemoves DEF ResetWrite
<1>5. BrowserOK'
  BY <1>0, <1>3, BrowserStays DEF ResetWrite
<1>6. /\ account' \in Account /\ account'.role = account.role
      /\ account'.password = "temporary" /\ account'.mustChange
  BY <1>0 DEF ResetWrite, TypeOK, Account
<1>7. reset' \in [tokens : 0..Len(token'), late : BOOLEAN] /\ disturbed' \in BOOLEAN
  BY <1>0, <1>1, TokenRows DEF ResetWrite, Marked
<1>8. TypeOK'
  BY <1>1, <1>2, <1>4, <1>5, <1>6, <1>7 DEF TypeOK, PendingOK, BrowserOK, RowOK, Marked
<1>9. AccountOK'
  <2>1. \A v \in DOMAIN pending' : v \in DOMAIN pending /\ pending'[v].op = pending[v].op
    BY <1>4 DEF Removed
  <2> QED BY <1>2, <1>6, <2>1 DEF Sound, AccountOK
<1>10. TemporaryIsReplaced'
  BY <1>1, <1>6 DEF TemporaryIsReplaced, Marked
<1> QED BY <1>8, <1>9, <1>10 DEF Sound

LEMMA ResendWriteSound ==
  ASSUME Sound, NEW w, ResendWrite(w)
  PROVE  Sound'
<1>0. TypeOK /\ w \in DOMAIN pending /\ account.role = "TEACHER"
  BY DEF Sound, AccountOK, ResendWrite, Writing
<1>1. invitation' \in Seq({"PENDING", "ACCEPTED", "REVOKED"}) /\ Len(invitation') = Len(invitation) + 1
  BY <1>0, RevokedInvitations DEF ResendWrite
<1>2. Len(invitation) \in Nat /\ DOMAIN invitation = 1..Len(invitation)
  BY <1>0 DEF TypeOK
<1>3. RowsStay
  BY <1>1, <1>2 DEF ResendWrite, RowsStay
<1>4. Removed(w) /\ PendingOK'
  BY <1>0, <1>3, EndRemoves DEF ResendWrite
<1>5. \A v \in DOMAIN pending' : v \in DOMAIN pending /\ pending'[v].op = pending[v].op
  BY <1>4 DEF Removed
<1>6. account' = account /\ account' \in Account /\ TemporaryIsReplaced'
  BY <1>0 DEF ResendWrite, Sound, TypeOK, TemporaryIsReplaced
<1> QED BY <1>0, <1>1, <1>4, <1>5, <1>6, AccountSound DEF ResendWrite

LEMMA InviteAgainSound ==
  ASSUME Sound, InviteAgain
  PROVE  Sound'
<1>0. TypeOK
  BY DEF Sound
<1>1. invitation' \in Seq({"PENDING", "ACCEPTED", "REVOKED"}) /\ Len(invitation') = Len(invitation) + 1
  BY <1>0 DEF TypeOK, InviteAgain
<1>2. Len(invitation) \in Nat /\ DOMAIN invitation = 1..Len(invitation)
  BY <1>0 DEF TypeOK
<1>3. RowsStay
  BY <1>1, <1>2 DEF InviteAgain, RowsStay
<1>4. PendingOK' /\ UNCHANGED pending
  BY <1>0, <1>3, StayPending DEF InviteAgain
<1>5. account' = account /\ account' \in Account /\ TemporaryIsReplaced' /\ account.role = "SCHOOL_ADMIN"
  BY <1>0 DEF InviteAgain, Sound, TypeOK, TemporaryIsReplaced
<1> QED BY <1>1, <1>4, <1>5, AccountSound DEF InviteAgain

LEMMA ArchiveSound ==
  ASSUME Sound, Archive
  PROVE  Sound'
<1>0. TypeOK
  BY DEF Sound
<1>1. RowsStay
  BY SameRows DEF Archive
<1>2. PendingOK' /\ UNCHANGED pending
  BY <1>0, <1>1, StayPending DEF Archive
<1>3. /\ account' \in Account /\ account'.role = account.role
      /\ account'.password = account.password /\ account'.mustChange = account.mustChange
  BY <1>0 DEF Archive, TypeOK, Account
<1>4. TemporaryIsReplaced'
  BY <1>3 DEF Sound, TemporaryIsReplaced, Archive
<1>5. invitation' \in Seq({"PENDING", "ACCEPTED", "REVOKED"}) /\ (account.role = "STUDENT" => DOMAIN invitation' = {})
  BY <1>0 DEF Archive, Sound, TypeOK, AccountOK
<1> QED BY <1>2, <1>3, <1>4, <1>5, AccountSound DEF Archive

LEMMA ExpireSound ==
  ASSUME Sound, NEW i \in DOMAIN token, Expire(i)
  PROVE  Marked({i}, "expired") /\ Sound'
<1>0. TypeOK
  BY DEF Sound
<1>1. Marked({i}, "expired") /\ \A j \in DOMAIN token' : token'[j].session <= j
  BY <1>0, MarkOne DEF Expire
<1>2. RowsStay
  BY <1>1, MarkedRows DEF Expire
<1>3. PendingOK' /\ UNCHANGED pending
  BY <1>0, <1>2, StayPending DEF Expire
<1>4. BrowserOK' /\ disturbed' \in BOOLEAN /\ UNCHANGED reset
  BY <1>0, <1>2, BrowserStays DEF Expire, history, TypeOK
<1>5. \A v \in DOMAIN pending' : v \in DOMAIN pending /\ pending'[v].op = pending[v].op
  BY <1>3
<1>6. \A j \in {i} : token[j].state = "live"
  BY DEF Expire
<1> QED BY <1>1, <1>3, <1>4, <1>5, <1>6, MarkedSound DEF Expire

-----------------------------------------------------------------------------
(* While nothing is lost, shared, crossed or reset *)

\* A request that replaces no token, and is no news for the other tabs.
Harmless(r) ==
  /\ r.op \notin {"rotate", "kill"} /\ (r.op = "issue" => r.row = None)
  /\ r.op \in {"reset", "resend"} \/ r.tab \in Tabs
  /\ r.op \in {"logout", "loggedOut"} => \A t \in Tabs : t # r.tab => tab[t].sid # r.row

RevokedStay ==
  /\ DOMAIN token' = DOMAIN token
  /\ \A i \in DOMAIN token :
       /\ token'[i].session = token[i].session
       /\ token'[i].state = "revoked" <=> token[i].state = "revoked"

LEMMA CalmStays ==
  ASSUME TypeOK, Calm, UNCHANGED browser, RevokedStay,
         \A w \in DOMAIN pending' : (w \in DOMAIN pending /\ pending'[w] = pending[w]) \/ Harmless(pending'[w]),
         \A w \in DOMAIN pending :
           (w \in DOMAIN pending' /\ pending'[w] = pending[w]) \/ pending[w].op \notin {"issue", "loggedOut"}
  PROVE  Calm'
<1> USE DEF browser
<1>1. \A w \in DOMAIN pending' : Renewing(w)' => w \in DOMAIN pending /\ pending'[w] = pending[w] /\ Renewing(w)
  BY DEF Renewing, Harmless
<1>2. RequestsOK'
  BY <1>1 DEF Calm, RequestsOK, Renewing, Leaving, Harmless
<1>3. \A w \in DOMAIN pending : Renewing(w) => pending[w].row \in DOMAIN token
  BY RequestShape DEF RowOK, Renewing
<1>4. RenewalsOK'
  BY <1>1, <1>3 DEF Calm, RenewalsOK, SameSession, RevokedStay
<1>5. OneValid'
  BY DEF Calm, OneValid, SameSession, RevokedStay
<1>6. \A t \in Tabs : \A i : SettlingIn(t, i) => SettlingIn(t, i)'
  BY DEF SettlingIn
<1>7. \A i : Settling(i) => Settling(i)'
  BY DEF Settling
<1>8. TabsOK'
  BY <1>6, <1>7 DEF Calm, TabsOK, RevokedStay, TypeOK
<1> QED BY <1>2, <1>4, <1>5, <1>8 DEF Calm

LEMMA SameTokens ==
  ASSUME UNCHANGED token
  PROVE  RevokedStay
BY DEF RevokedStay

LEMMA BeginCalm ==
  ASSUME TypeOK, Calm, NEW w \in Workers, NEW op, NEW t, NEW row, Begin(w, op, t, row),
         Harmless([op |-> op, tab |-> t, row |-> row]), UNCHANGED <<server, browser>>
  PROVE  Calm'
<1> DEFINE r == [op |-> op, tab |-> t, row |-> row]
<1>1. pending' = [k \in DOMAIN pending \cup {w} |-> IF k \in {w} THEN r ELSE pending[k]] /\ w \notin DOMAIN pending
  BY DEF Begin, Upsert, OneRow
<1>2. RevokedStay
  BY SameTokens DEF server
<1> HIDE DEF r
<1>3. Harmless(r)
  BY DEF r
<1>4. \A v \in DOMAIN pending' : (v \in DOMAIN pending /\ pending'[v] = pending[v]) \/ Harmless(pending'[v])
  BY <1>1, <1>3
<1>5. \A v \in DOMAIN pending : v \in DOMAIN pending' /\ pending'[v] = pending[v]
  BY <1>1
<1> QED BY <1>2, <1>4, <1>5, CalmStays

LEMMA ReadsCalm ==
  ASSUME TypeOK, Calm, NEW w \in Workers,
         \/ \E t \in Tabs :
              \/ LoginRead(w, t)
              \/ LogoutRead(w, t)
              \/ ChangeRead(w, t)
              \/ \E i \in DOMAIN invitation : AcceptRead(w, t, i)
         \/ ResetRead(w)
         \/ ResendRead(w)
  PROVE  Calm'
<1>1. ASSUME NEW t \in Tabs, LoginRead(w, t) PROVE Calm'
  <2>1. Harmless([op |-> "issue", tab |-> t, row |-> None])
    BY DEF Harmless
  <2> QED BY <1>1, <2>1, BeginCalm DEF LoginRead
<1>2. ASSUME NEW t \in Tabs, LogoutRead(w, t) PROVE Calm'
  <2>1. PICK op \in {"logout", "loggedOut"} :
          Begin(w, op, t, tab[t].sid) /\ UNCHANGED <<server, browser>>
    BY <1>2 DEF LogoutRead
  <2>2. tab[t].sid # None /\ \A u \in Tabs : u # t => tab[u].sid # tab[t].sid
    BY <1>2, TokenRows DEF LogoutRead, Calm, TabsOK, TypeOK, None
  <2>3. Harmless([op |-> op, tab |-> t, row |-> tab[t].sid])
    BY <2>2 DEF Harmless
  <2> QED BY <2>1, <2>3, BeginCalm
<1>3. ASSUME NEW t \in Tabs, ChangeRead(w, t) PROVE Calm'
  <2>1. Harmless([op |-> "change", tab |-> t, row |-> None])
    BY DEF Harmless
  <2> QED BY <1>3, <2>1, BeginCalm DEF ChangeRead
<1>4. ASSUME NEW t \in Tabs, NEW i \in DOMAIN invitation, AcceptRead(w, t, i) PROVE Calm'
  <2>1. Harmless([op |-> "accept", tab |-> t, row |-> i])
    BY DEF Harmless
  <2> QED BY <1>4, <2>1, BeginCalm DEF AcceptRead
<1>5. ASSUME ResetRead(w) PROVE Calm'
  <2>1. Harmless([op |-> "reset", tab |-> NoTab, row |-> None])
    BY DEF Harmless
  <2> QED BY <1>5, <2>1, BeginCalm DEF ResetRead
<1>6. ASSUME ResendRead(w) PROVE Calm'
  <2>1. Harmless([op |-> "resend", tab |-> NoTab, row |-> None])
    BY DEF Harmless
  <2> QED BY <1>6, <2>1, BeginCalm DEF ResendRead
<1> QED BY <1>1, <1>2, <1>3, <1>4, <1>5, <1>6

LEMMA EndsCalm ==
  ASSUME TypeOK, Calm, NEW w, ChangeWrite(w) \/ ResendWrite(w)
  PROVE  Calm'
<1>1. w \in DOMAIN pending /\ pending[w].op \in {"change", "resend"}
  BY DEF ChangeWrite, ResendWrite, Writing
<1>2. UNCHANGED browser /\ UNCHANGED token
  BY DEF ChangeWrite, ResendWrite
<1>3. pending' = [k \in DOMAIN pending \ {w} |-> pending[k]]
  BY DEF ChangeWrite, ResendWrite, End, Without
<1>4. RevokedStay
  BY <1>2, SameTokens
<1> QED BY <1>1, <1>2, <1>3, <1>4, CalmStays

LEMMA AcceptWriteCalm ==
  ASSUME Sound, Calm, NEW w, AcceptWrite(w)
  PROVE  Calm'
<1>1. w \in DOMAIN pending /\ pending[w].op = "accept" /\ TypeOK
  BY DEF AcceptWrite, Writing, Sound
<1>2. Changed(w, [op |-> "issue", tab |-> pending[w].tab, row |-> None])
  BY AcceptWriteSound
<1>3. pending[w].tab \in Tabs
  BY <1>1 DEF Calm, RequestsOK
<1>4. Harmless([op |-> "issue", tab |-> pending[w].tab, row |-> None])
  BY <1>3 DEF Harmless
<1>5. RevokedStay /\ UNCHANGED browser
  BY SameTokens DEF AcceptWrite
<1>6. \A v \in DOMAIN pending' : (v \in DOMAIN pending /\ pending'[v] = pending[v]) \/ Harmless(pending'[v])
  <2>1. Harmless(pending'[w])
    BY <1>2, <1>4 DEF Changed
  <2> QED BY <1>2, <2>1 DEF Changed
<1>7. \A v \in DOMAIN pending :
        (v \in DOMAIN pending' /\ pending'[v] = pending[v]) \/ pending[v].op \notin {"issue", "loggedOut"}
  BY <1>1, <1>2 DEF Changed
<1> QED BY <1>1, <1>5, <1>6, <1>7, CalmStays

LEMMA AdminCalm ==
  ASSUME TypeOK, Calm, InviteAgain \/ Archive
  PROVE  Calm'
<1>1. UNCHANGED browser /\ UNCHANGED token /\ UNCHANGED pending
  BY DEF InviteAgain, Archive
<1>2. RevokedStay
  BY <1>1, SameTokens
<1> QED BY <1>1, <1>2, CalmStays

LEMMA ExpireCalm ==
  ASSUME Sound, Calm, NEW i \in DOMAIN token, Expire(i)
  PROVE  Calm'
<1>1. Marked({i}, "expired") /\ token[i].state = "live" /\ UNCHANGED browser /\ UNCHANGED pending /\ TypeOK
  BY ExpireSound DEF Expire, Sound
<1>2. RevokedStay
  BY <1>1 DEF Marked, RevokedStay
<1> QED BY <1>1, <1>2, CalmStays

\* A token is revoked by the request that holds it, which goes on to replace it or to
\* report that the session is over.
LEMMA RevokeCalm ==
  ASSUME TypeOK, Calm, NEW w \in DOMAIN pending, NEW op,
         \/ pending[w].op = "rotate" /\ op = "issue"
         \/ pending[w].op = "logout" /\ op = "loggedOut",
         Marked({pending[w].row}, "revoked"),
         Changed(w, [op |-> op, tab |-> pending[w].tab, row |-> pending[w].row]),
         UNCHANGED browser
  PROVE  Calm'
<1> USE DEF browser
<1>0. /\ pending[w].row \in DOMAIN token /\ pending[w].row # None
      /\ pending[w].tab \in Tabs
  BY RequestShape, TokenRows DEF RowOK, Calm, RequestsOK, None
<1>1. /\ DOMAIN pending' = DOMAIN pending
      /\ pending'[w].op = op /\ pending'[w].tab = pending[w].tab /\ pending'[w].row = pending[w].row
      /\ \A v \in DOMAIN pending : v # w => pending'[v] = pending[v]
  BY DEF Changed
<1>2. \A v \in DOMAIN pending :
        /\ pending'[v].tab = pending[v].tab /\ pending'[v].row = pending[v].row
        /\ Renewing(v)' <=> Renewing(v)
        /\ Leaving(v)' <=> Leaving(v)
  BY <1>0, <1>1 DEF Renewing, Leaving
<1>3. RequestsOK'
  BY <1>1, <1>2 DEF Calm, RequestsOK
<1>4. \A v \in DOMAIN pending : Renewing(v) => pending[v].row \in DOMAIN token
  BY RequestShape DEF RowOK, Renewing
<1>5. RenewalsOK'
  <2>1. ASSUME NEW v \in DOMAIN pending', NEW u \in DOMAIN pending', Renewing(v)', Renewing(u)',
               pending'[v].tab = pending'[u].tab \/ SameSession(pending[v].row, pending[u].row)'
        PROVE  v = u
    <3>1. pending[v].tab = pending[u].tab \/ SameSession(pending[v].row, pending[u].row)
      BY <1>1, <1>2, <1>4, <2>1 DEF SameSession, Marked
    <3> QED BY <1>1, <1>2, <2>1, <3>1 DEF Calm, RenewalsOK
  <2>2. ASSUME NEW v \in DOMAIN pending', Renewing(v)', NEW i \in DOMAIN token',
               SameSession(i, pending[v].row)', i # pending'[v].row \/ pending'[v].op = "issue"
        PROVE  token'[i].state = "revoked"
    <3>1. v \in DOMAIN pending /\ Renewing(v) /\ i \in DOMAIN token /\ SameSession(i, pending[v].row)
      BY <1>1, <1>2, <1>4, <2>2 DEF SameSession, Marked
    <3>2. CASE i = pending[w].row
      BY <3>1, <3>2 DEF Marked
    <3>3. CASE i # pending[w].row
      <4>1. i # pending[v].row \/ pending[v].op = "issue"
        BY <1>1, <1>2, <2>2, <3>1, <3>3
      <4> QED BY <3>1, <4>1 DEF Calm, RenewalsOK, Marked
    <3> QED BY <3>2, <3>3
  <2> QED BY <2>1, <2>2 DEF RenewalsOK
<1>6. OneValid'
  BY DEF Calm, OneValid, SameSession, Marked
<1>7. \A t \in Tabs : \A i : SettlingIn(t, i) => SettlingIn(t, i)'
  BY <1>1, <1>2 DEF SettlingIn
<1>8. \A i : Settling(i) => Settling(i)'
  BY <1>1, <1>2 DEF Settling
<1>9. SettlingIn(pending[w].tab, pending[w].row)' /\ Settling(pending[w].row)'
  BY <1>1 DEF SettlingIn, Settling
<1>10. \A t \in Tabs : tab[t].sid = pending[w].row => t = pending[w].tab
  BY <1>0 DEF Calm, RequestsOK, Renewing, Leaving
<1>11. ASSUME NEW t \in Tabs, tab'[t].sid # None
       PROVE  /\ tab'[t].sid \in cookies'
              /\ token'[tab'[t].sid].state = "revoked" => SettlingIn(t, tab[t].sid)'
  <2>1. tab[t].sid \in DOMAIN token /\ tab'[t].sid = tab[t].sid
    BY <1>11 DEF TypeOK
  <2>2. CASE tab[t].sid = pending[w].row
    <3>1. t = pending[w].tab
      BY <1>10, <2>2
    <3>2. SettlingIn(t, tab[t].sid)'
      BY <1>1, <2>1, <2>2, <3>1 DEF SettlingIn
    <3> QED BY <1>11, <2>1, <3>2 DEF Calm, TabsOK
  <2>3. CASE tab[t].sid # pending[w].row
    BY <1>7, <1>11, <2>1, <2>3 DEF Calm, TabsOK, Marked
  <2> QED BY <2>2, <2>3
<1>12. ASSUME lastActive' # None
       PROVE  /\ lastActive' \in cookies'
              /\ token'[lastActive'].state = "revoked" => Settling(lastActive)'
  <2>1. lastActive \in DOMAIN token /\ lastActive' = lastActive
    BY <1>12 DEF TypeOK
  <2>2. CASE lastActive = pending[w].row
    <3>1. Settling(lastActive)'
      BY <1>1, <2>1, <2>2 DEF Settling
    <3> QED BY <1>12, <2>1, <3>1 DEF Calm, TabsOK
  <2>3. CASE lastActive # pending[w].row
    BY <1>8, <1>12, <2>1, <2>3 DEF Calm, TabsOK, Marked
  <2> QED BY <2>2, <2>3
<1>13. TabsOK'
  BY <1>11, <1>12 DEF Calm, TabsOK
<1> QED BY <1>3, <1>5, <1>6, <1>13 DEF Calm

LEMMA RotateCalm ==
  ASSUME Sound, Calm, NEW w, Rotate(w) \/ LogoutWrite(w)
  PROVE  Calm'
<1>1. CASE Rotate(w)
  BY <1>1, RotateSound, RevokeCalm DEF Rotate, Writing, Sound
<1>2. CASE LogoutWrite(w)
  BY <1>2, LogoutWriteSound, RevokeCalm DEF LogoutWrite, Writing, Sound
<1> QED BY <1>1, <1>2

\* A tab that found its token revoked would have been waiting for another one.
LEMMA RefreshReadCalm ==
  ASSUME TypeOK, Calm, NEW w \in Workers, NEW t \in Tabs, RefreshRead(w, t), ~ disturbed'
  PROVE  Calm'
<1>1. /\ tab[t].sid # None /\ tab[t].refresh = "no" /\ tab[t].sid \in DOMAIN token
      /\ \A v \in DOMAIN pending : pending[v].tab = t => pending[v].op \notin {"logout", "loggedOut"}
  BY DEF RefreshRead, MayRefresh, Happened, Of, TypeOK
<1>2. \A v \in DOMAIN pending : Renewing(v) => pending[v].tab # t
  BY <1>1 DEF Calm, RequestsOK
<1>3. token[tab[t].sid].state # "revoked"
  <2>1. ~ SettlingIn(t, tab[t].sid)
    BY <1>1, <1>2 DEF SettlingIn, Renewing
  <2> QED BY <1>1, <2>1 DEF Calm, TabsOK
<1>4. Begin(w, "rotate", t, tab[t].sid) /\ UNCHANGED <<server, cookies, lastActive>>
      /\ tab' = [tab EXCEPT ![t].refresh = "sent"]
  BY <1>3 DEF RefreshRead
<1>5. w \notin DOMAIN pending
      /\ pending' = [k \in DOMAIN pending \cup {w} |->
           IF k \in {w} THEN [op |-> "rotate", tab |-> t, row |-> tab[t].sid] ELSE pending[k]]
  BY <1>4 DEF Begin, Upsert, OneRow
<1>6. /\ DOMAIN pending' = DOMAIN pending \cup {w}
      /\ pending'[w].op = "rotate" /\ pending'[w].tab = t /\ pending'[w].row = tab[t].sid
      /\ \A v \in DOMAIN pending : v # w /\ pending'[v] = pending[v]
  BY <1>5
<1>7. /\ \A u \in Tabs : tab'[u].sid = tab[u].sid
      /\ \A u \in Tabs : tab'[u].refresh = IF u = t THEN "sent" ELSE tab[u].refresh
  BY <1>4 DEF TypeOK, Tab
<1>8. \A v \in DOMAIN pending : (Renewing(v)' <=> Renewing(v)) /\ (Leaving(v)' <=> Leaving(v))
  BY <1>6 DEF Renewing, Leaving
<1>9. \A u \in Tabs : u # t => tab[u].sid # tab[t].sid
  BY <1>1 DEF Calm, TabsOK
<1>10. RequestsOK'
  <2> SUFFICES ASSUME NEW v \in DOMAIN pending'
               PROVE  /\ pending'[v].op \in {"reset", "resend"} \/ pending'[v].tab \in Tabs
                      /\ pending'[v].op # "kill"
                      /\ Renewing(v)' => tab'[pending'[v].tab].refresh = "sent"
                      /\ Renewing(v)' \/ Leaving(v)' =>
                           \A u \in Tabs : u # pending'[v].tab => tab'[u].sid # pending'[v].row
    BY DEF RequestsOK
  <2>1. CASE v = w
    BY <1>6, <1>7, <1>9, <2>1
  <2>2. CASE v # w
    <3>1. v \in DOMAIN pending /\ pending'[v] = pending[v]
      BY <1>6, <2>2
    <3>2. Renewing(v) => pending[v].tab \in Tabs /\ tab[pending[v].tab].refresh = "sent"
      BY <3>1 DEF Calm, RequestsOK, Renewing
    <3>3. Renewing(v)' => tab'[pending'[v].tab].refresh = "sent"
      BY <1>2, <1>7, <1>8, <3>1, <3>2
    <3> QED BY <1>7, <1>8, <3>1, <3>3 DEF Calm, RequestsOK
  <2> QED BY <2>1, <2>2
<1>11. \A v \in DOMAIN pending : Renewing(v) => ~ SameSession(pending[v].row, tab[t].sid)
  <2> SUFFICES ASSUME NEW v \in DOMAIN pending, Renewing(v), SameSession(pending[v].row, tab[t].sid)
               PROVE  FALSE
    OBVIOUS
  <2>1. tab[t].sid = pending[v].row
    BY <1>1, <1>3 DEF Calm, RenewalsOK, SameSession
  <2> QED BY <1>2, <2>1 DEF Calm, RequestsOK
<1>12. RenewalsOK'
  <2>1. ASSUME NEW v \in DOMAIN pending', NEW u \in DOMAIN pending', Renewing(v)', Renewing(u)',
               pending'[v].tab = pending'[u].tab \/ SameSession(pending[v].row, pending[u].row)'
        PROVE  v = u
    <3>1. CASE v = w /\ u # w
      BY <1>2, <1>4, <1>6, <1>8, <1>11, <2>1, <3>1 DEF SameSession, server
    <3>2. CASE u = w /\ v # w
      BY <1>2, <1>4, <1>6, <1>8, <1>11, <2>1, <3>2 DEF SameSession, server
    <3>3. CASE u # w /\ v # w
      BY <1>4, <1>6, <1>8, <2>1, <3>3 DEF SameSession, server, Calm, RenewalsOK
    <3> QED BY <3>1, <3>2, <3>3
  <2>2. ASSUME NEW v \in DOMAIN pending', Renewing(v)', NEW i \in DOMAIN token',
               SameSession(i, pending[v].row)', i # pending'[v].row \/ pending'[v].op = "issue"
        PROVE  token'[i].state = "revoked"
    <3>1. CASE v = w
      BY <1>1, <1>3, <1>4, <1>6, <2>2, <3>1 DEF SameSession, server, Calm, OneValid
    <3>2. CASE v # w
      BY <1>4, <1>6, <1>8, <2>2, <3>2 DEF SameSession, server, Calm, RenewalsOK
    <3> QED BY <3>1, <3>2
  <2> QED BY <2>1, <2>2 DEF RenewalsOK
<1>13. OneValid'
  BY <1>4 DEF Calm, OneValid, SameSession, server
<1>14. \A u \in Tabs : \A i : SettlingIn(u, i) => SettlingIn(u, i)'
  BY <1>6 DEF SettlingIn
<1>15. \A i : Settling(i) => Settling(i)'
  BY <1>6 DEF Settling
<1>16. TabsOK'
  BY <1>4, <1>7, <1>14, <1>15 DEF Calm, TabsOK, server
<1> QED BY <1>10, <1>12, <1>13, <1>16 DEF Calm

\* The token that is issued is the only valid one of its session.
LEMMA IssueCalm ==
  ASSUME Sound, Calm, NEW w, Issue(w)
  PROVE  Calm'
<1> DEFINE n == Len(token) + 1
<1>0. TypeOK /\ w \in DOMAIN pending /\ pending[w].op = "issue" /\ disturbed' \in BOOLEAN /\ UNCHANGED reset
  BY DEF Sound, Issue, Writing, history, TypeOK
<1>1. Stored(NewToken(w)) /\ Removed(w)
  BY <1>0, IssuedSound DEF Issue
<1>2. /\ n \in Nat \ {0} /\ n \notin DOMAIN token /\ DOMAIN token' = DOMAIN token \cup {n}
      /\ \A i \in DOMAIN token : token'[i] = token[i] /\ i # n
      /\ token'[n] = NewToken(w)
  BY <1>1, TokenRows DEF Stored
<1>3. /\ pending[w].row \in {None} \cup DOMAIN token
      /\ token'[n].state = "live"
      /\ token'[n].session = IF pending[w].row = None THEN n ELSE token[pending[w].row].session
  BY <1>0, <1>2, NewTokenOK
<1>4. PICK t \in Tabs : t = pending[w].tab
  BY <1>0 DEF Calm, RequestsOK
<1>5. \A i \in DOMAIN token : token[i].session < n
  BY <1>0, TokenRows
<1>6. /\ cookies' = (cookies \ {pending[w].row}) \cup {n} /\ lastActive' = n
      /\ tab' = [tab EXCEPT ![t] = [sid |-> n, refresh |-> IF pending[w].row = None THEN @.refresh ELSE "profile"]]
  <2>1. t # NoTab
    BY SessionsAssumption
  <2> QED BY <1>4, <2>1 DEF Issue
<1> HIDE DEF n
<1>7. /\ \A u \in Tabs : u # t => tab'[u] = tab[u]
      /\ tab'[t].sid = n
      /\ pending[w].row = None => tab'[t].refresh = tab[t].refresh
  BY <1>0, <1>6 DEF TypeOK
<1>8. \A v \in DOMAIN pending' :
        /\ v \in DOMAIN pending /\ v # w /\ pending'[v] = pending[v]
        /\ Renewing(v)' <=> Renewing(v)
        /\ Leaving(v)' <=> Leaving(v)
  BY <1>1 DEF Removed, Renewing, Leaving
<1>9. Renewing(w) <=> pending[w].row # None
  BY <1>0 DEF Renewing
<1>10. \A v \in DOMAIN pending' : Renewing(v) \/ Leaving(v) => pending[v].row \in DOMAIN token
  BY <1>0, <1>8, RequestShape DEF RowOK, Renewing, Leaving
<1>11. RequestsOK'
  <2>1. ASSUME NEW v \in DOMAIN pending', Renewing(v) PROVE tab'[pending[v].tab].refresh = "sent"
    <3>1. pending[v].tab \in Tabs /\ tab[pending[v].tab].refresh = "sent"
      BY <1>0, <1>8, <2>1 DEF Calm, RequestsOK, Renewing
    <3>2. CASE pending[v].tab = t
      <4>1. ~ Renewing(w)
        BY <1>0, <1>4, <1>8, <2>1, <3>2 DEF Calm, RenewalsOK
      <4> QED BY <1>7, <1>9, <3>1, <3>2, <4>1
    <3>3. CASE pending[v].tab # t
      BY <1>7, <3>1, <3>3
    <3> QED BY <3>2, <3>3
  <2>2. ASSUME NEW v \in DOMAIN pending', Renewing(v) \/ Leaving(v), NEW u \in Tabs, u # pending[v].tab
        PROVE  tab'[u].sid # pending[v].row
    <3>1. tab[u].sid # pending[v].row /\ pending[v].row # n
      BY <1>2, <1>8, <1>10, <2>2 DEF Calm, RequestsOK
    <3> QED BY <1>7, <3>1
  <2>3. \A v \in DOMAIN pending' :
          (pending[v].op \in {"reset", "resend"} \/ pending[v].tab \in Tabs) /\ pending[v].op # "kill"
    BY <1>8 DEF Calm, RequestsOK
  <2> QED BY <1>8, <2>1, <2>2, <2>3 DEF RequestsOK
<1>12. \A i \in DOMAIN token : token'[i].session = token'[n].session => Renewing(w) /\ SameSession(i, pending[w].row)
  BY <1>2, <1>3, <1>5, <1>9 DEF SameSession
<1>13. RenewalsOK'
  <2>1. ASSUME NEW v \in DOMAIN pending', NEW u \in DOMAIN pending', Renewing(v)', Renewing(u)',
               pending'[v].tab = pending'[u].tab \/ SameSession(pending[v].row, pending[u].row)'
        PROVE  v = u
    <3>1. pending[v].tab = pending[u].tab \/ SameSession(pending[v].row, pending[u].row)
      BY <1>2, <1>8, <1>10, <2>1 DEF SameSession
    <3> QED BY <1>8, <2>1, <3>1 DEF Calm, RenewalsOK
  <2>2. ASSUME NEW v \in DOMAIN pending', Renewing(v)', NEW i \in DOMAIN token',
               SameSession(i, pending[v].row)', i # pending'[v].row \/ pending'[v].op = "issue"
        PROVE  token'[i].state = "revoked"
    <3>1. v \in DOMAIN pending /\ v # w /\ Renewing(v) /\ pending'[v] = pending[v] /\ pending[v].row \in DOMAIN token
      BY <1>8, <1>10, <2>2
    <3>2. token'[i].session = token[pending[v].row].session
      BY <1>2, <2>2, <3>1 DEF SameSession
    <3>3. CASE i = n
      <4>1. Renewing(w) /\ SameSession(pending[v].row, pending[w].row)
        BY <1>2, <1>12, <3>1, <3>2, <3>3
      <4> QED BY <1>0, <3>1, <4>1 DEF Calm, RenewalsOK
    <3>4. CASE i # n
      BY <1>2, <2>2, <3>1, <3>2, <3>4 DEF SameSession, Calm, RenewalsOK
    <3> QED BY <3>3, <3>4
  <2> QED BY <2>1, <2>2 DEF RenewalsOK
<1>14. \A i \in DOMAIN token : token'[i].session = token'[n].session => token'[i].state = "revoked"
  BY <1>0, <1>2, <1>12 DEF Calm, RenewalsOK
<1>15. OneValid'
  BY <1>2, <1>14 DEF Calm, OneValid, SameSession
<1>16. \A u \in Tabs : u # t => \A i : SettlingIn(u, i) => SettlingIn(u, i)'
  BY <1>1, <1>4 DEF SettlingIn, Removed
<1>17. ASSUME NEW u \in Tabs, tab'[u].sid # None
       PROVE  /\ tab'[u].sid \in cookies'
              /\ token'[tab'[u].sid].state = "revoked" => SettlingIn(u, tab[u].sid)'
  <2>1. CASE u = t
    BY <1>3, <1>6, <1>7, <2>1
  <2>2. CASE u # t
    <3>1. tab'[u] = tab[u] /\ tab[u].sid \in DOMAIN token /\ tab[u].sid # None
      BY <1>0, <1>7, <1>17, <2>2 DEF TypeOK
    <3>2. tab[u].sid # pending[w].row
      BY <1>0, <1>4, <1>9, <2>2, <3>1 DEF Calm, RequestsOK
    <3>3. token'[tab[u].sid].state = "revoked" => SettlingIn(u, tab[u].sid)
      BY <1>2, <3>1 DEF Calm, TabsOK
    <3>4. PICK i : i = tab[u].sid
      OBVIOUS
    <3>5. SettlingIn(u, i) => SettlingIn(u, i)'
      BY <1>16, <2>2
    <3>6. SettlingIn(u, i)' => SettlingIn(u, tab[u].sid)'
      BY <3>1, <3>4 DEF SettlingIn
    <3> QED BY <1>6, <3>1, <3>2, <3>3, <3>4, <3>5, <3>6 DEF Calm, TabsOK
  <2> QED BY <2>1, <2>2
<1>18. \A u, v \in Tabs : tab'[u].sid = tab'[v].sid /\ tab'[u].sid # None => u = v
  <2>1. \A u \in Tabs : tab[u].sid # n
    BY <1>0, <1>2 DEF TypeOK, None
  <2> QED BY <1>7, <2>1 DEF Calm, TabsOK
<1>19. TabsOK'
  BY <1>3, <1>6, <1>17, <1>18 DEF TabsOK
<1> QED BY <1>11, <1>13, <1>15, <1>19 DEF Calm

\* A step of one tab that ends what it was waiting for, without a request of its own that
\* replaces a token.
LEMMA TabStepsCalm ==
  ASSUME TypeOK, Calm, NEW t \in Tabs, TabSteps(t)
  PROVE  Calm'
<1>1. UNCHANGED <<server, cookies, pending>>
  BY DEF TabSteps, RefreshRefused, LoadProfile, LoadProfileFails
<1>2. tab[t].refresh # "sent"
  BY DEF TabSteps, RefreshRefused, LoadProfile, LoadProfileFails, MayRefresh
<1>3. /\ \A u \in Tabs : u # t => tab'[u] = tab[u]
      /\ tab'[t].sid \in {None, tab[t].sid}
      /\ lastActive' \in {None, lastActive}
  <2>1. CASE RefreshRefused(t) \/ LoadProfileFails(t)
    BY <2>1 DEF RefreshRefused, LoadProfileFails, SignedOut, TypeOK
  <2>2. CASE LoadProfile(t)
    <3>1. PICK r : tab' = [tab EXCEPT ![t].refresh = r]
      BY <2>2 DEF LoadProfile
    <3>2. tab'[t].sid = tab[t].sid /\ \A u \in Tabs : u # t => tab'[u] = tab[u]
      BY <3>1 DEF TypeOK, Tab
    <3> QED BY <2>2, <3>2 DEF LoadProfile
  <2> QED BY <2>1, <2>2 DEF TabSteps
<1>4. \A v \in DOMAIN pending : Renewing(v) => pending[v].tab # t
  BY <1>2 DEF Calm, RequestsOK
<1>5. \A v \in DOMAIN pending : Renewing(v) \/ Leaving(v) => pending[v].row # None
  BY RequestShape, TokenRows DEF RowOK, Renewing, Leaving, None
<1>6. RequestsOK'
  <2> SUFFICES ASSUME NEW v \in DOMAIN pending
               PROVE  /\ pending[v].op \in {"reset", "resend"} \/ pending[v].tab \in Tabs
                      /\ pending[v].op # "kill"
                      /\ Renewing(v) => tab'[pending[v].tab].refresh = "sent"
                      /\ Renewing(v) \/ Leaving(v) =>
                           \A u \in Tabs : u # pending[v].tab => tab'[u].sid # pending[v].row
    BY <1>1 DEF RequestsOK, Renewing, Leaving
  <2>1. Renewing(v) => pending[v].tab \in Tabs /\ tab[pending[v].tab].refresh = "sent"
    BY DEF Calm, RequestsOK, Renewing
  <2> QED BY <1>3, <1>4, <1>5, <2>1 DEF Calm, RequestsOK
<1>7. RenewalsOK' /\ OneValid'
  BY <1>1 DEF Calm, RenewalsOK, OneValid, Renewing, SameSession, server
<1>8. TabsOK'
  <2>1. \A u, v \in Tabs : tab'[u].sid = tab'[v].sid /\ tab'[u].sid # None => u = v
    BY <1>3 DEF Calm, TabsOK
  <2>2. \A u \in Tabs : tab'[u].sid # None => tab'[u].sid = tab[u].sid
    BY <1>3
  <2> QED BY <1>1, <1>3, <2>1, <2>2 DEF Calm, TabsOK, SettlingIn, Settling, server
<1> QED BY <1>6, <1>7, <1>8 DEF Calm

\* The end of a logout: no other tab has the session.
LEMMA LogoutDoneCalm ==
  ASSUME TypeOK, Calm, NEW w, LogoutDone(w)
  PROVE  Calm'
<1>0. w \in DOMAIN pending /\ pending[w].op = "loggedOut" /\ UNCHANGED server
  BY DEF LogoutDone, Writing
<1>1. PICK t \in Tabs : t = pending[w].tab
  BY <1>0 DEF Calm, RequestsOK
<1>2. /\ cookies' = cookies \ {pending[w].row}
      /\ lastActive' = IF lastActive = pending[w].row THEN None ELSE lastActive
      /\ tab' = [tab EXCEPT ![t].sid = None]
      /\ pending' = [v \in DOMAIN pending \ {w} |-> pending[v]]
  <2>1. t # NoTab
    BY SessionsAssumption
  <2> QED BY <1>1, <2>1 DEF LogoutDone, End, Without
<1>3. /\ \A u \in Tabs : tab'[u].refresh = tab[u].refresh
      /\ \A u \in Tabs : u # t => tab'[u].sid = tab[u].sid
      /\ tab'[t].sid = None
  BY <1>2 DEF TypeOK, Tab
<1>4. \A v \in DOMAIN pending' :
        /\ v \in DOMAIN pending /\ v # w /\ pending'[v] = pending[v]
        /\ Renewing(v)' <=> Renewing(v)
        /\ Leaving(v)' <=> Leaving(v)
  BY <1>2 DEF Renewing, Leaving
<1>5. \A v \in DOMAIN pending : Renewing(v) \/ Leaving(v) => pending[v].row # None
  BY RequestShape, TokenRows DEF RowOK, Renewing, Leaving, None
<1>6. RequestsOK'
  <2> SUFFICES ASSUME NEW v \in DOMAIN pending'
               PROVE  /\ pending'[v].op \in {"reset", "resend"} \/ pending'[v].tab \in Tabs
                      /\ pending'[v].op # "kill"
                      /\ Renewing(v)' => tab'[pending'[v].tab].refresh = "sent"
                      /\ Renewing(v)' \/ Leaving(v)' =>
                           \A u \in Tabs : u # pending'[v].tab => tab'[u].sid # pending'[v].row
    BY DEF RequestsOK
  <2>1. v \in DOMAIN pending /\ pending'[v] = pending[v]
    BY <1>4
  <2>2. Renewing(v) => pending[v].tab \in Tabs /\ tab[pending[v].tab].refresh = "sent"
    BY <2>1 DEF Calm, RequestsOK, Renewing
  <2>3. Renewing(v)' => tab'[pending'[v].tab].refresh = "sent"
    BY <1>3, <1>4, <2>1, <2>2
  <2> QED BY <1>3, <1>4, <1>5, <2>1, <2>3 DEF Calm, RequestsOK
<1>7. \A v \in DOMAIN pending' : Renewing(v) => pending[v].row \in DOMAIN token
  BY <1>4, RequestShape DEF RowOK, Renewing
<1>8. RenewalsOK' /\ OneValid'
  BY <1>0, <1>4, <1>7 DEF Calm, RenewalsOK, OneValid, SameSession, server
<1>9. \A u \in Tabs : u # t => \A i : SettlingIn(u, i) => SettlingIn(u, i)'
  BY <1>1, <1>2 DEF SettlingIn
<1>10. \A i : i # pending[w].row /\ Settling(i) => Settling(i)'
  BY <1>2 DEF Settling
<1>11. \A u \in Tabs : u # t => tab[u].sid # pending[w].row
  BY <1>0, <1>1 DEF Calm, RequestsOK, Leaving
<1>12. ASSUME NEW u \in Tabs, tab'[u].sid # None
       PROVE  /\ tab'[u].sid \in cookies'
              /\ token'[tab'[u].sid].state = "revoked" => SettlingIn(u, tab[u].sid)'
  <2>1. u # t /\ tab'[u].sid = tab[u].sid
    BY <1>3, <1>12
  <2>2. PICK i : i = tab[u].sid
    OBVIOUS
  <2>3. SettlingIn(u, i) => SettlingIn(u, i)'
    BY <1>9, <2>1
  <2>4. SettlingIn(u, i)' => SettlingIn(u, tab[u].sid)'
    BY <2>1, <2>2 DEF SettlingIn
  <2> QED BY <1>0, <1>2, <1>11, <1>12, <2>1, <2>2, <2>3, <2>4 DEF Calm, TabsOK, server
<1>13. ASSUME lastActive' # None
       PROVE  /\ lastActive' \in cookies'
              /\ token'[lastActive'].state = "revoked" => Settling(lastActive)'
  <2>1. lastActive' = lastActive /\ lastActive # pending[w].row
    BY <1>2, <1>13
  <2>2. PICK i : i = lastActive
    OBVIOUS
  <2>3. Settling(i) => Settling(i)'
    BY <1>10, <2>1, <2>2
  <2>4. Settling(i)' => Settling(lastActive)'
    BY <2>1, <2>2 DEF Settling
  <2> QED BY <1>0, <1>2, <1>13, <2>1, <2>2, <2>3, <2>4 DEF Calm, TabsOK, server
<1>14. \A u, v \in Tabs : tab'[u].sid = tab'[v].sid /\ tab'[u].sid # None => u = v
  BY <1>3 DEF Calm, TabsOK
<1>15. TabsOK'
  BY <1>12, <1>13, <1>14 DEF TabsOK
<1> QED BY <1>6, <1>8, <1>15 DEF Calm

\* A tab is opened with a session that no other tab has, or goes on with its own.
LEMMA LoadCalm ==
  ASSUME TypeOK, Calm, NEW t \in Tabs, Load(t), ~ disturbed'
  PROVE  Calm'
<1> DEFINE sid == IF tab[t].sid # None THEN tab[t].sid ELSE lastActive
<1>1. /\ Of(t) = {} /\ tab[t].refresh = "no" /\ UNCHANGED <<server, cookies, lastActive>>
      /\ tab' = [tab EXCEPT ![t] = [sid |-> sid, refresh |-> "no"]]
      /\ pending' = [w \in DOMAIN pending |->
           IF pending[w].tab = t THEN [pending[w] EXCEPT !.tab = NoTab] ELSE pending[w]]
      /\ sid # None =>
           \A u \in Tabs \ {t} : tab[u].sid # sid /\ \A w \in DOMAIN pending : pending[w].tab = u => pending[w].row # sid
  BY DEF Load, Happened, Of
<1>2. DOMAIN pending' = DOMAIN pending /\ \A v \in DOMAIN pending : pending[v].tab # t /\ pending'[v] = pending[v]
  BY <1>1 DEF Of
<1>3. /\ \A u \in Tabs : u # t => tab'[u] = tab[u]
      /\ tab'[t].sid = sid /\ tab'[t].refresh = "no"
  BY <1>1 DEF TypeOK
<1>4. /\ sid \in {None} \cup DOMAIN token
      /\ sid # None => sid \in cookies
      /\ sid # None /\ token[sid].state = "revoked" => sid = lastActive /\ Settling(sid)
  <2>1. \A i : ~ SettlingIn(t, i)
    BY <1>2 DEF SettlingIn
  <2>2. CASE tab[t].sid # None
    BY <2>1, <2>2 DEF Calm, TabsOK, TypeOK
  <2>3. CASE tab[t].sid = None
    BY <2>3 DEF Calm, TabsOK, TypeOK
  <2> QED BY <2>2, <2>3
<1>5. sid # None => token[sid].state # "revoked"
  <2> SUFFICES ASSUME sid # None, Settling(sid) PROVE FALSE
    BY <1>4
  <2> HIDE DEF sid
  <2>1. PICK w \in DOMAIN pending : pending[w].op \in {"issue", "loggedOut"} /\ pending[w].row = sid
    BY DEF Settling
  <2>2. pending[w].tab \in Tabs \ {t}
    BY <1>2, <2>1 DEF Calm, RequestsOK
  <2> QED BY <1>1, <2>1, <2>2
<1>6. \A v \in DOMAIN pending : Renewing(v) \/ Leaving(v) => pending[v].row # None /\ pending[v].tab \in Tabs \ {t}
  <2> SUFFICES ASSUME NEW v \in DOMAIN pending, Renewing(v) \/ Leaving(v)
               PROVE  pending[v].row # None /\ pending[v].tab \in Tabs \ {t}
    OBVIOUS
  <2>1. pending[v].row # None
    BY RequestShape, TokenRows DEF RowOK, Renewing, Leaving, None
  <2>2. pending[v].tab \in Tabs \ {t}
    BY <1>2 DEF Calm, RequestsOK, Renewing, Leaving
  <2> QED BY <2>1, <2>2
<1> HIDE DEF sid
<1>7. RequestsOK'
  <2> SUFFICES ASSUME NEW v \in DOMAIN pending
               PROVE  /\ pending[v].op \in {"reset", "resend"} \/ pending[v].tab \in Tabs
                      /\ pending[v].op # "kill"
                      /\ Renewing(v) => tab'[pending[v].tab].refresh = "sent"
                      /\ Renewing(v) \/ Leaving(v) =>
                           \A u \in Tabs : u # pending[v].tab => tab'[u].sid # pending[v].row
    BY <1>2 DEF RequestsOK, Renewing, Leaving
  <2>1. ASSUME Renewing(v) \/ Leaving(v), NEW u \in Tabs, u # pending[v].tab PROVE tab'[u].sid # pending[v].row
    <3>1. CASE u = t
      BY <1>1, <1>3, <1>6, <2>1, <3>1
    <3>2. CASE u # t
      BY <1>3, <2>1, <3>2 DEF Calm, RequestsOK
    <3> QED BY <3>1, <3>2
  <2> QED BY <1>3, <1>6, <2>1 DEF Calm, RequestsOK
<1>8. RenewalsOK' /\ OneValid'
  BY <1>1, <1>2 DEF Calm, RenewalsOK, OneValid, Renewing, SameSession, server
<1>9. TabsOK'
  <2>1. \A u, v \in Tabs : tab'[u].sid = tab'[v].sid /\ tab'[u].sid # None => u = v
    BY <1>1, <1>3 DEF Calm, TabsOK
  <2>2. ASSUME NEW u \in Tabs, tab'[u].sid # None
        PROVE  /\ tab'[u].sid \in cookies'
               /\ token'[tab'[u].sid].state = "revoked" => SettlingIn(u, tab[u].sid)'
    <3>1. CASE u = t
      BY <1>1, <1>3, <1>4, <1>5, <2>2, <3>1 DEF server
    <3>2. CASE u # t
      BY <1>1, <1>2, <1>3, <2>2, <3>2 DEF Calm, TabsOK, SettlingIn, server
    <3> QED BY <3>1, <3>2
  <2>3. lastActive' # None =>
          /\ lastActive' \in cookies'
          /\ token'[lastActive'].state = "revoked" => Settling(lastActive)'
    BY <1>1, <1>2 DEF Calm, TabsOK, Settling, server
  <2> QED BY <2>1, <2>2, <2>3 DEF TabsOK
<1> QED BY <1>7, <1>8, <1>9 DEF Calm

-----------------------------------------------------------------------------
(* Theorems *)

LEMMA StatementsKeep ==
  ASSUME IInv, NEW w \in Workers, Statements(w)
  PROVE  Sound' /\ (~ disturbed' => Calm')
<1>0. Sound /\ (~ disturbed => Calm) /\ TypeOK
  BY DEF IInv, Sound
<1>1. CASE Issue(w)
  BY <1>0, <1>1, IssueSound, IssueCalm DEF Issue, history
<1>2. CASE Rotate(w)
  BY <1>0, <1>2, RotateSound, RotateCalm DEF Rotate, history
<1>3. CASE Kill(w)
  <2>1. disturbed
    BY <1>0, <1>3 DEF Kill, Writing, Calm, RequestsOK
  <2> QED BY <1>0, <1>3, <2>1, KillSound DEF Kill, history
<1>4. CASE LogoutWrite(w)
  BY <1>0, <1>4, LogoutWriteSound, RotateCalm DEF LogoutWrite, history
<1>5. CASE LogoutDone(w)
  BY <1>0, <1>5, LogoutDoneSound, LogoutDoneCalm DEF LogoutDone, history
<1>6. CASE ChangeWrite(w)
  BY <1>0, <1>6, ChangeWriteSound, EndsCalm DEF ChangeWrite, history
<1>7. CASE AcceptWrite(w)
  BY <1>0, <1>7, AcceptWriteSound, AcceptWriteCalm DEF AcceptWrite, history
<1>8. CASE ResetWrite(w)
  BY <1>0, <1>8, ResetWriteSound DEF ResetWrite
<1>9. CASE ResendWrite(w)
  BY <1>0, <1>9, ResendWriteSound, EndsCalm DEF ResendWrite, history
<1> QED BY <1>1, <1>2, <1>3, <1>4, <1>5, <1>6, <1>7, <1>8, <1>9 DEF Statements

LEMMA RequestsKeep ==
  ASSUME IInv, NEW w \in Workers, Requests(w)
  PROVE  Sound' /\ (~ disturbed' => Calm')
<1>0. Sound /\ (~ disturbed => Calm) /\ TypeOK
  BY DEF IInv, Sound
<1>1. CASE \E t \in Tabs : RefreshRead(w, t)
  <2>1. PICK t \in Tabs : RefreshRead(w, t)
    BY <1>1
  <2>2. ~ disturbed' => ~ disturbed
    BY <2>1 DEF RefreshRead, Happened
  <2> QED BY <1>0, <2>1, <2>2, RefreshReadSound, RefreshReadCalm
<1>2. CASE \/ \E t \in Tabs :
                \/ LoginRead(w, t)
                \/ LogoutRead(w, t)
                \/ ChangeRead(w, t)
                \/ \E i \in DOMAIN invitation : AcceptRead(w, t, i)
           \/ ResetRead(w)
           \/ ResendRead(w)
  <2>1. UNCHANGED disturbed
    BY <1>2 DEF LoginRead, LogoutRead, ChangeRead, AcceptRead, ResetRead, ResendRead, history
  <2> QED BY <1>0, <1>2, <2>1, ReadsSound, ReadsCalm
<1> QED BY <1>1, <1>2 DEF Requests

LEMMA StepKeeps == ASSUME IInv, [Next]_vars PROVE IInv'
<1>0. Sound /\ (~ disturbed => Calm) /\ TypeOK
  BY DEF IInv, Sound
<1>1. ASSUME NEW w \in Workers, Requests(w) PROVE IInv'
  BY <1>1, RequestsKeep DEF IInv
<1>2. ASSUME NEW w \in Workers, Statements(w) PROVE IInv'
  BY <1>2, StatementsKeep DEF IInv
<1>3. ASSUME NEW w \in Workers, IssueLost(w) PROVE IInv'
  BY <1>0, <1>3, IssueLostSound DEF IssueLost, Happened, IInv
<1>4. ASSUME NEW w \in Workers, Fail(w) PROVE IInv'
  BY <1>0, <1>4, FailSound DEF Fail, Happened, IInv
<1>5. ASSUME NEW t \in Tabs, TabSteps(t) PROVE IInv'
  BY <1>0, <1>5, TabStepsSound, TabStepsCalm DEF TabSteps, RefreshRefused, LoadProfile, LoadProfileFails, history, IInv
<1>6. ASSUME NEW t \in Tabs, Load(t) PROVE IInv'
  <2>1. ~ disturbed' => ~ disturbed
    BY <1>6 DEF Load, Happened
  <2> QED BY <1>0, <1>6, <2>1, LoadSound, LoadCalm DEF IInv
<1>7. ASSUME NEW i \in DOMAIN token, Expire(i) PROVE IInv'
  BY <1>0, <1>7, ExpireSound, ExpireCalm DEF Expire, history, IInv
<1>8. CASE InviteAgain
  BY <1>0, <1>8, InviteAgainSound, AdminCalm DEF InviteAgain, history, IInv
<1>9. CASE Archive
  BY <1>0, <1>9, ArchiveSound, AdminCalm DEF Archive, history, IInv
<1>10. CASE UNCHANGED vars
  <2>1. UNCHANGED <<account, invitation, token, cookies, tab, lastActive, pending, disturbed, reset>>
    BY <1>10 DEF vars, server, browser, history
  <2>2. TypeOK'
    BY <1>0, <2>1 DEF TypeOK
  <2>3. AccountOK' /\ TemporaryIsReplaced'
    BY <1>0, <2>1 DEF Sound, AccountOK, TemporaryIsReplaced
  <2>4. Calm => Calm'
    <3>1. RequestsOK => RequestsOK'
      BY <2>1 DEF RequestsOK, Renewing, Leaving
    <3>2. RenewalsOK => RenewalsOK'
      BY <2>1 DEF RenewalsOK, Renewing, SameSession
    <3>3. OneValid => OneValid'
      BY <2>1 DEF OneValid, SameSession
    <3>4. TabsOK => TabsOK'
      BY <2>1 DEF TabsOK, Settling, SettlingIn
    <3> QED BY <3>1, <3>2, <3>3, <3>4 DEF Calm
  <2> QED BY <1>0, <2>1, <2>2, <2>3, <2>4 DEF IInv, Sound
<1> QED BY <1>1, <1>2, <1>3, <1>4, <1>5, <1>6, <1>7, <1>8, <1>9, <1>10 DEF Next

LEMMA Invariance == Spec => []IInv
<1>1. IInv /\ [Next]_vars => IInv'
  BY StepKeeps
<1> QED BY InitHolds, <1>1, PTL DEF Spec

-----------------------------------------------------------------------------
(* What a reset ends stays ended *)

Old(i) == i \in DOMAIN token /\ token[i].session <= reset.tokens

\* No session from before the reset has a valid token.
Older == ~ reset.late => \A i \in DOMAIN token : Old(i) => token[i].state = "revoked"

\* Only portal accounts have temporary passwords, and no link beside one.
PortalOK ==
  /\ account.password = "temporary" => account.role \in {"STUDENT", "PARENT"}
  /\ ~ reset.late /\ account.password = "temporary" =>
       \A i \in DOMAIN invitation : invitation[i] # "PENDING"

\* No request goes on from what the reset ended.
Fresh(w) ==
  /\ pending[w].op = "reset" => account.role \in {"STUDENT", "PARENT"}
  /\ ~ reset.late =>
       /\ Renewing(w) => token[pending[w].row].session > reset.tokens
       /\ pending[w].op = "accept" => account.password # "temporary"

ResetOK == Older /\ PortalOK /\ \A w \in DOMAIN pending : Fresh(w)

LEMMA InitReset == Init => ResetOK
<1> SUFFICES ASSUME Init PROVE ResetOK
  OBVIOUS
<1>1. DOMAIN pending = {} /\ DOMAIN token = {}
  BY DEF Init, Without
<1>2. account.password = "temporary" => account.role = "STUDENT" /\ DOMAIN invitation = {}
  <2>1. PICK role \in Roles :
          IF role = "STUDENT"
          THEN /\ account = [role |-> role, status |-> "ACTIVE", password |-> "temporary", mustChange |-> TRUE]
               /\ invitation = << >>
          ELSE account = [role |-> role, status |-> "PENDING_SETUP", password |-> "none", mustChange |-> FALSE]
    BY DEF Init
  <2> QED BY <2>1
<1> QED BY <1>1, <1>2 DEF ResetOK, Older, PortalOK

\* The tokens keep their sessions, and one that is revoked stays so.
TokensKept ==
  \A i \in DOMAIN token :
    /\ i \in DOMAIN token' /\ token'[i].session = token[i].session
    /\ token[i].state = "revoked" => token'[i].state = "revoked"

\* A request that was there goes on with the row it has.
SameRequest(w) ==
  /\ w \in DOMAIN pending
  /\ \/ pending'[w].row = pending[w].row /\ pending'[w].op = pending[w].op
     \/ pending'[w].row = pending[w].row /\ pending'[w].op = "issue" /\ pending[w].op = "rotate"
     \/ pending'[w].op = "issue" /\ pending'[w].row = None
     \/ pending'[w].op = "loggedOut"

\* A request that starts has found what it goes on from valid.
NewRequest(w) ==
  /\ pending'[w].op = "reset" => account.role \in {"STUDENT", "PARENT"}
  /\ pending'[w].op = "accept" => pending'[w].row \in DOMAIN invitation /\ invitation[pending'[w].row] = "PENDING"
  /\ pending'[w].op \in {"rotate", "issue"} /\ pending'[w].row # None =>
       pending'[w].row \in DOMAIN token /\ token[pending'[w].row].state # "revoked"

\* A step that leaves the account alone and stores no token.
LEMMA KeptReset ==
  ASSUME IInv, ResetOK, UNCHANGED <<account, invitation, reset>>,
         DOMAIN token' = DOMAIN token, TokensKept,
         \A w \in DOMAIN pending' : SameRequest(w) \/ NewRequest(w)
  PROVE  ResetOK'
<1>0. TypeOK
  BY DEF IInv, Sound
<1>1. Older'
  BY DEF ResetOK, Older, Old, TokensKept
<1>2. PortalOK'
  BY DEF ResetOK, PortalOK
<1>3. ASSUME NEW w \in DOMAIN pending', SameRequest(w) PROVE Fresh(w)'
  <2>1. w \in DOMAIN pending /\ Fresh(w)
    BY <1>3 DEF SameRequest, ResetOK
  <2>2. Renewing(w)' => Renewing(w) /\ pending'[w].row = pending[w].row
    BY <1>3 DEF SameRequest, Renewing
  <2>3. Renewing(w) => pending[w].row \in DOMAIN token
    BY <1>0, <2>1, RequestShape DEF Renewing, RowOK
  <2>4. pending'[w].op \in {"reset", "accept"} => pending'[w].op = pending[w].op
    BY <1>3 DEF SameRequest
  <2>5. Renewing(w)' /\ ~ reset.late => token'[pending'[w].row].session > reset.tokens
    BY <2>1, <2>2, <2>3 DEF Fresh, TokensKept
  <2> QED BY <2>1, <2>4, <2>5 DEF Fresh
<1>4. ASSUME NEW w \in DOMAIN pending', NewRequest(w) PROVE Fresh(w)'
  <2>1. ASSUME Renewing(w)', ~ reset.late PROVE token'[pending'[w].row].session > reset.tokens
    <3>1. PICK i \in DOMAIN token : i = pending'[w].row /\ token[i].state # "revoked"
      BY <1>4, <2>1 DEF NewRequest, Renewing
    <3>2. token[i].session \in Nat /\ reset.tokens \in Nat /\ token'[i].session = token[i].session
      BY <1>0, TokenRows DEF TypeOK, TokensKept
    <3>3. ~ (token[i].session <= reset.tokens)
      BY <2>1, <3>1 DEF ResetOK, Older, Old
    <3> QED BY <3>1, <3>2, <3>3
  <2>2. pending'[w].op = "accept" /\ ~ reset.late => account.password # "temporary"
    BY <1>4 DEF NewRequest, ResetOK, PortalOK
  <2> QED BY <1>4, <2>1, <2>2 DEF Fresh, NewRequest
<1> QED BY <1>1, <1>2, <1>3, <1>4 DEF ResetOK

\* A step that changes the account or its links and no token.
LEMMA AccountReset ==
  ASSUME IInv, ResetOK, UNCHANGED <<token, reset>>, account'.role = account.role, PortalOK',
         account'.password \in {account.password, "chosen"},
         \A w \in DOMAIN pending' : SameRequest(w)
  PROVE  ResetOK'
<1>1. Older'
  BY DEF ResetOK, Older, Old
<1>2. ASSUME NEW w \in DOMAIN pending' PROVE Fresh(w)'
  <2>1. w \in DOMAIN pending /\ Fresh(w)
    BY <1>2 DEF SameRequest, ResetOK
  <2>2. Renewing(w)' => Renewing(w) /\ pending'[w].row = pending[w].row
    BY <1>2 DEF SameRequest, Renewing
  <2>3. pending'[w].op \in {"reset", "accept"} => pending'[w].op = pending[w].op
    BY <1>2 DEF SameRequest
  <2> QED BY <2>1, <2>2, <2>3 DEF Fresh
<1> QED BY <1>1, <1>2 DEF ResetOK

\* A token that is issued is of a session that began after the reset.
LEMMA IssueReset ==
  ASSUME IInv, ResetOK, NEW w, Issue(w) \/ IssueLost(w)
  PROVE  ResetOK'
<1>0. /\ Sound /\ TypeOK /\ Writing(w, "issue") /\ w \in DOMAIN pending /\ pending[w].op = "issue"
      /\ token' = Append(token, NewToken(w)) /\ End(w) /\ UNCHANGED <<account, invitation, reset>>
  BY DEF IInv, Sound, Issue, IssueLost, Writing, history, Happened
<1>1. disturbed' \in BOOLEAN
  BY <1>0 DEF Issue, IssueLost, history, Happened, TypeOK
<1>2. Stored(NewToken(w)) /\ Removed(w)
  BY <1>0, <1>1, IssuedSound
<1>3. PortalOK'
  BY <1>0 DEF ResetOK, PortalOK
<1>4. ASSUME NEW v \in DOMAIN pending' PROVE Fresh(v)'
  <2>1. v \in DOMAIN pending /\ pending'[v] = pending[v] /\ Fresh(v)
    BY <1>2 DEF Removed, ResetOK
  <2>2. Renewing(v) => pending[v].row \in DOMAIN token
    BY <1>0, <2>1, RequestShape DEF Renewing, RowOK
  <2>3. Renewing(v) => token'[pending[v].row] = token[pending[v].row]
    BY <1>2, <2>2 DEF Stored
  <2> QED BY <1>0, <2>1, <2>3 DEF Fresh, Renewing
<1>5. ~ reset.late => NewToken(w).session > reset.tokens
  <2>1. Len(token) \in Nat /\ reset.tokens \in 0..Len(token)
    BY <1>0, TokenRows DEF TypeOK
  <2>2. CASE pending[w].row = None
    BY <1>0, <2>1, <2>2, NewTokenOK
  <2>3. CASE pending[w].row # None
    BY <1>0, <2>3, NewTokenOK DEF ResetOK, Fresh, Renewing
  <2> QED BY <2>2, <2>3
<1>6. Older'
  <2> SUFFICES ASSUME ~ reset.late, NEW i \in DOMAIN token', token'[i].session <= reset.tokens
               PROVE  token'[i].state = "revoked"
    BY <1>0 DEF Older, Old
  <2>1. CASE i \in DOMAIN token
    BY <1>2, <2>1 DEF Stored, ResetOK, Older, Old
  <2>2. CASE i \notin DOMAIN token
    <3>1. i = Len(token) + 1 /\ token'[i] = NewToken(w)
      BY <1>2, <2>2 DEF Stored
    <3>2. NewToken(w).session \in Nat /\ reset.tokens \in Nat
      BY <1>0, NewTokenOK, TokenRows DEF Token, TypeOK
    <3> QED BY <1>5, <3>1, <3>2
  <2> QED BY <2>1, <2>2
<1> QED BY <1>3, <1>4, <1>6 DEF ResetOK

\* After a reset that met no such request, none of those in progress goes on from
\* anything.
LEMMA ResetWriteReset ==
  ASSUME IInv, ResetOK, NEW w, ResetWrite(w)
  PROVE  ResetOK'
<1>0. Sound /\ TypeOK /\ w \in DOMAIN pending /\ pending[w].op = "reset"
  BY DEF IInv, Sound, ResetWrite, Writing
<1>1. Marked(DOMAIN token, "revoked")
  BY <1>0, RevokeAll DEF ResetWrite
<1>2. /\ account'.role = account.role /\ account.role \in {"STUDENT", "PARENT"}
  BY <1>0 DEF ResetWrite, TypeOK, Account, ResetOK, Fresh
<1>3. DOMAIN pending' \subseteq DOMAIN pending /\ \A v \in DOMAIN pending' : pending'[v] = pending[v]
  BY DEF ResetWrite, End, Without
<1>4. ~ reset'.late => \A v \in DOMAIN pending : pending[v].op \notin Checked
  BY DEF ResetWrite
<1>5. Older'
  BY <1>1 DEF Older, Old, Marked
<1>6. PortalOK'
  <2>1. DOMAIN invitation' = DOMAIN invitation /\ \A i \in DOMAIN invitation : invitation'[i] # "PENDING"
    BY <1>0 DEF ResetWrite, TypeOK
  <2> QED BY <1>2, <2>1 DEF PortalOK
<1>7. \A v \in DOMAIN pending' : Fresh(v)'
  BY <1>2, <1>3, <1>4 DEF Fresh, Renewing, Checked
<1> QED BY <1>5, <1>6, <1>7 DEF ResetOK

\* The requests that start.
LEMMA RequestsReset ==
  ASSUME IInv, ResetOK, NEW w \in Workers, Requests(w)
  PROVE  ResetOK'
<1>0. TypeOK
  BY DEF IInv, Sound
<1>1. UNCHANGED <<server, reset>>
  BY DEF Requests, LoginRead, RefreshRead, LogoutRead, ChangeRead, AcceptRead, ResetRead, ResendRead, history, Happened
<1>2. TokensKept /\ DOMAIN token' = DOMAIN token /\ UNCHANGED <<account, invitation>>
  BY <1>1 DEF TokensKept, server
<1>3. ASSUME NEW op, NEW t, NEW row, Begin(w, op, t, row),
             op = "reset" => account.role \in {"STUDENT", "PARENT"},
             op = "accept" => row \in DOMAIN invitation /\ invitation[row] = "PENDING",
             op \in {"rotate", "issue"} /\ row # None => row \in DOMAIN token /\ token[row].state # "revoked"
      PROVE  ResetOK'
  <2>1. pending' = [k \in DOMAIN pending \cup {w} |->
                      IF k \in {w} THEN [op |-> op, tab |-> t, row |-> row] ELSE pending[k]]
    BY <1>3 DEF Begin, Upsert, OneRow
  <2>2. \A v \in DOMAIN pending' : v = w \/ (v \in DOMAIN pending /\ pending'[v] = pending[v])
    BY <2>1
  <2>3. pending'[w].op = op /\ pending'[w].row = row
    BY <2>1
  <2>4. NewRequest(w)
    BY <1>3, <2>3 DEF NewRequest
  <2>5. \A v \in DOMAIN pending' : SameRequest(v) \/ NewRequest(v)
    BY <2>2, <2>4 DEF SameRequest
  <2> QED BY <1>1, <1>2, <2>5, KeptReset
<1>4. ASSUME NEW t \in Tabs, LoginRead(w, t) PROVE ResetOK'
  BY <1>3, <1>4 DEF LoginRead
<1>5. ASSUME NEW t \in Tabs, RefreshRead(w, t) PROVE ResetOK'
  <2>1. tab[t].sid \in DOMAIN token
    BY <1>0, <1>5 DEF RefreshRead, TypeOK
  <2>2. CASE token[tab[t].sid].state = "revoked"
    BY <1>3, <1>5, <2>2 DEF RefreshRead
  <2>3. CASE token[tab[t].sid].state # "revoked"
    BY <1>3, <1>5, <2>1, <2>3 DEF RefreshRead
  <2> QED BY <2>2, <2>3
<1>6. ASSUME NEW t \in Tabs, LogoutRead(w, t) PROVE ResetOK'
  <2>1. PICK op \in {"logout", "loggedOut"} : Begin(w, op, t, tab[t].sid)
    BY <1>6 DEF LogoutRead
  <2> QED BY <1>3, <2>1
<1>7. ASSUME NEW t \in Tabs, ChangeRead(w, t) PROVE ResetOK'
  BY <1>3, <1>7 DEF ChangeRead
<1>8. ASSUME NEW t \in Tabs, NEW i \in DOMAIN invitation, AcceptRead(w, t, i) PROVE ResetOK'
  BY <1>3, <1>8 DEF AcceptRead
<1>9. CASE ResetRead(w)
  BY <1>3, <1>9 DEF ResetRead
<1>10. CASE ResendRead(w)
  BY <1>3, <1>10 DEF ResendRead
<1> QED BY <1>4, <1>5, <1>6, <1>7, <1>8, <1>9, <1>10 DEF Requests

\* A request that ends, or goes on to its next statement.
LEMMA RequestGoesOn ==
  ASSUME TypeOK, NEW w \in DOMAIN pending,
         \/ End(w)
         \/ Goes(w, "issue") /\ pending[w].op = "rotate"
         \/ Goes(w, "loggedOut")
  PROVE  \A v \in DOMAIN pending' : SameRequest(v)
<1>1. CASE End(w)
  BY <1>1 DEF End, Without, SameRequest
<1>2. ASSUME NEW op, Goes(w, op), op = "loggedOut" \/ (op = "issue" /\ pending[w].op = "rotate")
      PROVE  \A v \in DOMAIN pending' : SameRequest(v)
  <2>1. pending[w] \in Request
    BY RequestShape
  <2>2. /\ DOMAIN pending' = DOMAIN pending
        /\ pending'[w].op = op /\ pending'[w].row = pending[w].row
        /\ \A v \in DOMAIN pending : v # w => pending'[v] = pending[v]
    BY <1>2, <2>1 DEF Goes, TypeOK, Request
  <2> QED BY <1>2, <2>2 DEF SameRequest
<1> QED BY <1>1, <1>2

LEMMA StatementsReset ==
  ASSUME IInv, ResetOK, NEW w \in Workers, Statements(w) \/ IssueLost(w) \/ Fail(w)
  PROVE  ResetOK'
<1>0. TypeOK /\ Sound
  BY DEF IInv, Sound
<1>1. ASSUME UNCHANGED token PROVE TokensKept /\ DOMAIN token' = DOMAIN token
  BY <1>1 DEF TokensKept
<1>2. ASSUME NEW K, Marked(K, "revoked") PROVE TokensKept /\ DOMAIN token' = DOMAIN token
  BY <1>2 DEF Marked, TokensKept
<1>3. CASE Issue(w) \/ IssueLost(w)
  BY <1>3, IssueReset
<1>4. CASE Rotate(w)
  <2>1. Marked({pending[w].row}, "revoked") /\ w \in DOMAIN pending /\ pending[w].op = "rotate"
    BY <1>0, <1>4, RotateSound DEF Rotate, Writing
  <2>2. \A v \in DOMAIN pending' : SameRequest(v)
    BY <1>0, <1>4, <2>1, RequestGoesOn DEF Rotate
  <2> QED BY <1>2, <1>4, <2>1, <2>2, KeptReset DEF Rotate, history
<1>5. CASE Kill(w)
  <2>1. Marked(DOMAIN token, "revoked") /\ w \in DOMAIN pending
    BY <1>0, <1>5, RevokeAll DEF Kill, Writing
  <2>2. \A v \in DOMAIN pending' : SameRequest(v)
    BY <1>0, <1>5, <2>1, RequestGoesOn DEF Kill
  <2> QED BY <1>2, <1>5, <2>1, <2>2, KeptReset DEF Kill, history
<1>6. CASE LogoutWrite(w)
  <2>1. Marked({pending[w].row}, "revoked") /\ w \in DOMAIN pending
    BY <1>0, <1>6, LogoutWriteSound DEF LogoutWrite, Writing
  <2>2. \A v \in DOMAIN pending' : SameRequest(v)
    BY <1>0, <1>6, <2>1, RequestGoesOn DEF LogoutWrite
  <2> QED BY <1>2, <1>6, <2>1, <2>2, KeptReset DEF LogoutWrite, history
<1>7. CASE LogoutDone(w) \/ Fail(w)
  <2>1. w \in DOMAIN pending /\ End(w) /\ UNCHANGED <<server, reset>>
    BY <1>7 DEF LogoutDone, Fail, Writing, history, Happened
  <2>2. \A v \in DOMAIN pending' : SameRequest(v)
    BY <1>0, <2>1, RequestGoesOn
  <2> QED BY <1>1, <2>1, <2>2, KeptReset DEF server
<1>8. CASE ChangeWrite(w)
  <2>1. w \in DOMAIN pending /\ End(w) /\ UNCHANGED <<invitation, token, reset>>
    BY <1>8 DEF ChangeWrite, Writing, history
  <2>2. \A v \in DOMAIN pending' : SameRequest(v)
    BY <1>0, <2>1, RequestGoesOn
  <2>3. account'.role = account.role /\ account'.password = "chosen"
    BY <1>0, <1>8 DEF ChangeWrite, TypeOK, Account
  <2>4. PortalOK'
    BY <2>3 DEF PortalOK
  <2> QED BY <2>1, <2>2, <2>3, <2>4, AccountReset
<1>9. CASE AcceptWrite(w)
  <2>1. w \in DOMAIN pending /\ Changed(w, [op |-> "issue", tab |-> pending[w].tab, row |-> None])
    BY <1>0, <1>9, AcceptWriteSound DEF AcceptWrite, Writing
  <2>2. \A v \in DOMAIN pending' : SameRequest(v)
    BY <2>1 DEF Changed, SameRequest
  <2>3. account'.role = account.role /\ account'.password = "chosen"
    BY <1>0, <1>9 DEF AcceptWrite, TypeOK, Account
  <2>4. PortalOK'
    BY <2>3 DEF PortalOK
  <2> QED BY <1>9, <2>2, <2>3, <2>4, AccountReset DEF AcceptWrite, history
<1>10. CASE ResetWrite(w)
  BY <1>10, ResetWriteReset
<1>11. CASE ResendWrite(w)
  <2>1. w \in DOMAIN pending /\ End(w) /\ UNCHANGED <<account, token, reset>> /\ account.role = "TEACHER"
    BY <1>0, <1>11 DEF ResendWrite, Writing, history, Sound, AccountOK
  <2>2. \A v \in DOMAIN pending' : SameRequest(v)
    BY <1>0, <2>1, RequestGoesOn
  <2>3. PortalOK'
    BY <2>1 DEF PortalOK, ResetOK
  <2> QED BY <2>1, <2>2, <2>3, AccountReset
<1> QED BY <1>3, <1>4, <1>5, <1>6, <1>7, <1>8, <1>9, <1>10, <1>11 DEF Statements

LEMMA ResetStepKeeps ==
  ASSUME IInv, ResetOK, [Next]_vars
  PROVE  ResetOK'
<1>0. TypeOK /\ Sound
  BY DEF IInv, Sound
<1>1. ASSUME UNCHANGED token PROVE TokensKept /\ DOMAIN token' = DOMAIN token
  BY <1>1 DEF TokensKept
<1>2. ASSUME UNCHANGED pending PROVE \A v \in DOMAIN pending' : SameRequest(v)
  BY <1>2 DEF SameRequest
<1>3. ASSUME NEW w \in Workers, Requests(w) \/ Statements(w) \/ IssueLost(w) \/ Fail(w) PROVE ResetOK'
  BY <1>3, RequestsReset, StatementsReset
<1>4. ASSUME NEW t \in Tabs, TabSteps(t) PROVE ResetOK'
  <2>1. UNCHANGED <<server, pending, reset>>
    BY <1>4 DEF TabSteps, RefreshRefused, LoadProfile, LoadProfileFails, history
  <2> QED BY <1>1, <1>2, <2>1, KeptReset DEF server
<1>5. ASSUME NEW t \in Tabs, Load(t) PROVE ResetOK'
  <2>1. UNCHANGED <<server, reset>>
    BY <1>5 DEF Load, Happened
  <2>2. pending' = [w \in DOMAIN pending |->
          IF pending[w].tab = t THEN [pending[w] EXCEPT !.tab = NoTab] ELSE pending[w]]
    BY <1>5 DEF Load
  <2>3. \A v \in DOMAIN pending : pending'[v].op = pending[v].op /\ pending'[v].row = pending[v].row
    BY <1>0, <2>2, RequestShape DEF Request
  <2>4. \A v \in DOMAIN pending' : SameRequest(v)
    BY <2>2, <2>3 DEF SameRequest
  <2> QED BY <1>1, <2>1, <2>4, KeptReset DEF server
<1>6. ASSUME NEW i \in DOMAIN token, Expire(i) PROVE ResetOK'
  <2>1. Marked({i}, "expired") /\ token[i].state = "live" /\ UNCHANGED <<account, invitation, pending, reset>>
    BY <1>0, <1>6, ExpireSound DEF Expire, history
  <2>2. TokensKept /\ DOMAIN token' = DOMAIN token
    BY <2>1 DEF Marked, TokensKept
  <2> QED BY <1>2, <2>1, <2>2, KeptReset
<1>7. CASE InviteAgain
  <2>1. UNCHANGED <<account, token, pending, reset>> /\ account.role = "SCHOOL_ADMIN"
    BY <1>7 DEF InviteAgain, history
  <2>2. PortalOK'
    BY <2>1 DEF PortalOK, ResetOK
  <2> QED BY <1>2, <2>1, <2>2, AccountReset
<1>8. CASE Archive
  <2>1. UNCHANGED <<invitation, token, pending, reset>>
        /\ account'.role = account.role /\ account'.password = account.password
    BY <1>0, <1>8 DEF Archive, history, TypeOK, Account
  <2>2. PortalOK'
    BY <2>1 DEF PortalOK, ResetOK
  <2> QED BY <1>2, <2>1, <2>2, AccountReset
<1>9. CASE UNCHANGED vars
  <2>1. UNCHANGED <<account, invitation, token, pending, reset>>
    BY <1>9 DEF vars, server, browser, history
  <2> QED BY <1>1, <1>2, <2>1, KeptReset
<1> QED BY <1>3, <1>4, <1>5, <1>6, <1>7, <1>8, <1>9 DEF Next

(* Every request, tab and cookie refers to a token or an invitation that exists. *)
THEOREM TypeCorrect == Spec => []TypeOK
<1>1. IInv => TypeOK
  BY DEF IInv, Sound
<1> QED BY Invariance, <1>1, PTL

(* A reset ends every older session and every link: nothing that the browser still holds    *)
(* brings one back, unless a handler in progress had checked it before the reset.           *)
THEOREM ResetEnds == Spec => []ResetEndsSessions
<1>1. IInv /\ ResetOK /\ [Next]_vars => ResetOK'
  BY ResetStepKeeps
<1>2. IInv /\ ResetOK => ResetEndsSessions
  <2> SUFFICES ASSUME ResetOK, ~ reset.late PROVE ResetEndsSessions
    BY DEF ResetEndsSessions
  <2>1. \A i \in DOMAIN token : token[i].session <= reset.tokens => token[i].state = "revoked"
    BY DEF ResetOK, Older, Old
  <2>2. account.password = "temporary" => \A i \in DOMAIN invitation : invitation[i] # "PENDING"
    BY DEF ResetOK, PortalOK
  <2>3. account.password = "temporary" => \A w \in DOMAIN pending : pending[w].op # "accept"
    BY DEF ResetOK, Fresh
  <2> QED BY <2>1, <2>2, <2>3 DEF ResetEndsSessions
<1> QED BY Invariance, InitReset, <1>1, <1>2, PTL DEF Spec

(* A password that an admin has seen has to be changed, and only a holder with a password   *)
(* has sessions.                                                                            *)
THEOREM TemporaryStaysTemporary == Spec => []TemporaryIsReplaced
<1>1. IInv => TemporaryIsReplaced
  BY DEF IInv, Sound
<1> QED BY Invariance, <1>1, PTL

(* The theft detection of refresh never fires on tabs that lose and share nothing.          *)
THEOREM NoTabIsTakenForAThief == Spec => []NoFalseAlarm
<1>1. IInv => NoFalseAlarm
  BY DEF IInv, NoFalseAlarm, Calm, RequestsOK
<1> QED BY Invariance, <1>1, PTL

(* Rotation leaves a login session one valid token.                                         *)
THEOREM OneToken == Spec => []OneTokenPerSession
<1>1. IInv => OneTokenPerSession
  BY DEF IInv, OneTokenPerSession, Calm, OneValid, SameSession
<1> QED BY Invariance, <1>1, PTL

(* A tab loses its session only at a logout, when its token has expired or when the profile *)
(* at the end of a refresh does not arrive.                                                 *)
THEOREM StaysSignedIn == Spec => SignedInUntilLogout
<1> DEFINE Stays == \A t \in Tabs :
       (tab[t].sid # None /\ tab'[t].sid = None /\ ~ disturbed') =>
         \/ token[tab[t].sid].state = "expired"
         \/ tab[t].refresh = "profile"
         \/ \E w \in Of(t) : pending[w].op = "loggedOut"
<1>1. ASSUME IInv, [Next]_vars PROVE Stays
  <2> SUFFICES ASSUME NEW t \in Tabs, tab[t].sid # None, tab'[t].sid = None, ~ disturbed'
               PROVE  \/ token[tab[t].sid].state = "expired"
                      \/ tab[t].refresh = "profile"
                      \/ \E w \in Of(t) : pending[w].op = "loggedOut"
    OBVIOUS
  <2>0. TypeOK /\ (~ disturbed => Calm)
    BY <1>1 DEF IInv, Sound
  <2>1. CASE UNCHANGED tab
    BY <2>1
  <2>2. ASSUME NEW w \in Workers, NEW u \in Tabs, RefreshRead(w, u) PROVE FALSE
    BY <2>0, <2>2 DEF RefreshRead, TypeOK, Tab
  <2>3. ASSUME NEW w \in Workers, Issue(w) PROVE FALSE
    <3>1. pending[w].tab # NoTab => pending[w].tab \in Tabs
      BY <2>0, <2>3, RequestShape DEF Issue, Writing
    <3>2. Len(token) + 1 # None
      BY <2>0, TokenRows DEF None
    <3> QED BY <2>0, <2>3, <3>1, <3>2 DEF Issue, TypeOK
  <2>4. ASSUME NEW w \in Workers, Kill(w) PROVE FALSE
    BY <2>0, <2>4 DEF Kill, Writing, Calm, RequestsOK, history
  <2>5. ASSUME NEW w \in Workers, LogoutDone(w) PROVE \E v \in Of(t) : pending[v].op = "loggedOut"
    <3>1. w \in DOMAIN pending /\ pending[w].op = "loggedOut"
      BY <2>5 DEF LogoutDone, Writing
    <3>2. pending[w].tab = t
      BY <2>0, <2>5 DEF LogoutDone, TypeOK
    <3> QED BY <3>1, <3>2 DEF Of
  <2>6. ASSUME NEW w \in Workers, IssueLost(w) \/ Fail(w) PROVE FALSE
    BY <2>6 DEF IssueLost, Fail, Happened
  <2>7. ASSUME NEW u \in Tabs, RefreshRefused(u) PROVE token[tab[t].sid].state = "expired"
    <3>1. t = u
      BY <2>0, <2>7 DEF RefreshRefused, SignedOut, TypeOK
    <3>2. tab[t].sid \in cookies
      BY <2>0, <2>7 DEF RefreshRefused, history, Calm, TabsOK
    <3> QED BY <2>7, <3>1, <3>2 DEF RefreshRefused
  <2>8. ASSUME NEW u \in Tabs, LoadProfile(u) PROVE FALSE
    <3>1. PICK r : tab' = [tab EXCEPT ![u].refresh = r]
      BY <2>8 DEF LoadProfile
    <3> QED BY <2>0, <3>1 DEF TypeOK, Tab
  <2>13. ASSUME NEW u \in Tabs, LoadProfileFails(u) PROVE tab[t].refresh = "profile"
    <3>1. t = u
      BY <2>0, <2>13 DEF LoadProfileFails, SignedOut, TypeOK
    <3> QED BY <2>13, <3>1 DEF LoadProfileFails
  <2>9. ASSUME NEW u \in Tabs, Load(u) PROVE FALSE
    <3>1. tab' = [tab EXCEPT ![u] = [sid |-> IF tab[u].sid # None THEN tab[u].sid ELSE lastActive, refresh |-> "no"]]
      BY <2>9 DEF Load
    <3> QED BY <2>0, <3>1 DEF TypeOK
  <2>10. ASSUME NEW w \in Workers, Requests(w), ~ \E u \in Tabs : RefreshRead(w, u) PROVE UNCHANGED tab
    BY <2>10 DEF Requests, LoginRead, LogoutRead, ChangeRead, AcceptRead, ResetRead, ResendRead, browser
  <2>11. ASSUME NEW w \in Workers, Statements(w), ~ Issue(w), ~ Kill(w), ~ LogoutDone(w) PROVE UNCHANGED tab
    BY <2>11 DEF Statements, Rotate, LogoutWrite, ChangeWrite, AcceptWrite, ResetWrite, ResendWrite, browser
  <2>12. CASE (\E i \in DOMAIN token : Expire(i)) \/ InviteAgain \/ Archive \/ UNCHANGED vars
    <3>1. UNCHANGED tab
      BY <2>12 DEF Expire, InviteAgain, Archive, vars, browser
    <3> QED BY <2>1, <3>1
  <2> QED BY <1>1, <2>1, <2>2, <2>3, <2>4, <2>5, <2>6, <2>7, <2>8, <2>9, <2>10, <2>11, <2>12, <2>13 DEF Next, TabSteps
<1>2. [][Stays]_vars <=> SignedInUntilLogout
  BY DEF SignedInUntilLogout
<1>3. IInv /\ [Next]_vars => [Stays]_vars
  BY <1>1
<1> HIDE DEF Stays
<1> QED BY Invariance, <1>2, <1>3, PTL DEF Spec

=============================================================================
