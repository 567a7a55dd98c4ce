------------------------------ MODULE Sessions ------------------------------
(***************************************************************************)
(* The login sessions of one account: refresh tokens on the server, their  *)
(* cookies in the browser, the tabs that use them, and what an admin does  *)
(* to the account (invitations, password resets, archiving).               *)
(*                                                                         *)
(* Source: apps/api/src/auth/auth.service.ts, auth.controller.ts,          *)
(* portal-password-reset.ts; apps/web/src/lib/auth-context.tsx, api.ts;    *)
(* guardians, teachers, schools and students (.service.ts) for the         *)
(* account's invitations.                                                  *)
(*                                                                         *)
(* Accounts share no row, so one is enough.  A handler reads in one        *)
(* statement and writes in later ones: it is in `pending` in between, with *)
(* what it does next.  Tokens and invitations are numbered as they are     *)
(* stored.  Request and response are lost together with the step they      *)
(* belong to; time is the action Expire.                                   *)
(*                                                                         *)
(* disturbed and reset are history.  An operator whose comment starts with *)
(* "Mutant" is not used: it is a plausible bug of the definition that      *)
(* follows it.                                                             *)
(***************************************************************************)
EXTENDS Naturals, FiniteSets, Sequences, Tables

CONSTANTS
  Roles,           \* roles of the account, of STUDENT, PARENT, TEACHER, SCHOOL_ADMIN
  Tabs,            \* tabs of the browser
  NoTab,           \* the tab that sent a request is gone, or an admin sent it
  Workers,         \* handlers that can be in progress at once
  MaxTokens,       \* bound: refresh tokens ever stored, by role
  MaxInvitations   \* bound: invitations ever stored

ASSUME SessionsAssumption ==
  /\ Roles \subseteq {"STUDENT", "PARENT", "TEACHER", "SCHOOL_ADMIN"}
  /\ NoTab \notin Tabs
  /\ MaxTokens \in [Roles -> Nat] /\ MaxInvitations \in Nat \ {0}

VARIABLES
  account,     \* the row of users
  invitation,  \* table invitations: their statuses
  token,       \* table refresh_tokens
  cookies,     \* the tokens the browser has a cookie for
  tab,         \* sessionIdRef and refreshPromiseRef of each tab
  lastActive,  \* localStorage: the session id a new tab starts from
  pending,     \* handlers between two statements, by worker
  disturbed,   \* has anything happened that rotation has no answer to?
  reset        \* tokens: those stored when the password was last reset; late: had a
               \* handler that was in progress then checked what the reset ends?

server == <<account, invitation, token>>
browser == <<cookies, tab, lastActive>>
history == <<disturbed, reset>>
vars == <<server, browser, pending, history>>

None == 0   \* no token

\* password: what kind of password the hash is of
Account == [role : Roles, status : {"PENDING_SETUP", "ACTIVE", "SUSPENDED"},
            password : {"none", "chosen", "temporary"}, mustChange : BOOLEAN]

\* session: the first token of the login session.  An expired token is one
\* that is not revoked.
Token == [state : {"live", "expired", "revoked"}, session : Nat \ {0}]

\* refresh: "profile" while performRefresh waits for loadProfile, "itself" once
\* loadProfile waits for performRefresh
Tab == [sid : Nat, refresh : {"no", "sent", "profile", "itself"}]

\* row: the token or the invitation the request is about
Request == [op : {"rotate", "kill", "issue", "logout", "loggedOut", "change", "accept", "reset", "resend"},
            tab : Tabs \cup {NoTab}, row : Nat]

-----------------------------------------------------------------------------
(* Requests *)

Begin(w, op, t, row) ==
  /\ w \notin DOMAIN pending
  /\ pending' = Upsert(pending, OneRow(w, [op |-> op, tab |-> t, row |-> row]))

Writing(w, op) == w \in DOMAIN pending /\ pending[w].op = op

End(w) == pending' = Without(pending, {w})

Goes(w, op) == pending' = [pending EXCEPT ![w].op = op]

Of(t) == {w \in DOMAIN pending : pending[w].tab = t}

\* The requests that go on from a token, a password or an invitation they
\* found valid.
Checked == {"rotate", "issue", "accept"}

\* Keeps the number of tokens within its bound.
RoomForToken ==
  Len(token) + Cardinality({w \in DOMAIN pending : pending[w].op \in Checked}) < MaxTokens[account.role]

Happened(what) == disturbed' = (disturbed \/ what) /\ UNCHANGED reset

\* clearSessionId, and the end of what the tab was waiting for
SignedOut(t) ==
  /\ tab' = [tab EXCEPT ![t] = [sid |-> None, refresh |-> "no"]]
  /\ lastActive' = IF lastActive = tab[t].sid THEN None ELSE lastActive

-----------------------------------------------------------------------------
(* login, and issueTokenPair, the last statement of login, refresh and      *)
(* acceptInvite                                                             *)

LoginRead(w, t) ==
  /\ tab[t].sid = None /\ Of(t) = {}
  /\ account.status = "ACTIVE" /\ account.password # "none"
  /\ RoomForToken
  /\ Begin(w, "issue", t, None)
  /\ UNCHANGED <<server, browser, history>>

NewToken(w) ==
  [state   |-> "live",
   session |-> IF pending[w].row = None THEN Len(token) + 1 ELSE token[pending[w].row].session]

\* Mutant: the browser has one refresh cookie for all its sessions.
IssueOneCookie(w) ==
  /\ Writing(w, "issue")
  /\ token' = Append(token, NewToken(w))
  /\ cookies' = {Len(token) + 1}
  /\ IF pending[w].tab = NoTab
     THEN UNCHANGED <<tab, lastActive>>
     ELSE /\ tab' = [tab EXCEPT ![pending[w].tab] =
               [sid |-> Len(token) + 1, refresh |-> IF pending[w].row = None THEN @.refresh ELSE "profile"]]
          /\ lastActive' = Len(token) + 1
  /\ End(w)
  /\ UNCHANGED <<account, invitation, history>>

Issue(w) ==
  /\ Writing(w, "issue")
  /\ token' = Append(token, NewToken(w))
  /\ cookies' = (cookies \ {pending[w].row}) \cup {Len(token) + 1}
  /\ IF pending[w].tab = NoTab
     THEN UNCHANGED <<tab, lastActive>>
     ELSE /\ tab' = [tab EXCEPT ![pending[w].tab] =
               [sid |-> Len(token) + 1, refresh |-> IF pending[w].row = None THEN @.refresh ELSE "profile"]]
          /\ lastActive' = Len(token) + 1
  /\ End(w)
  /\ UNCHANGED <<account, invitation, history>>

\* The token is stored and the response does not arrive.
IssueLost(w) ==
  /\ Writing(w, "issue")
  /\ token' = Append(token, NewToken(w))
  /\ IF pending[w].tab # NoTab /\ pending[w].row # None
     THEN SignedOut(pending[w].tab)
     ELSE UNCHANGED <<tab, lastActive>>
  /\ End(w)
  /\ Happened(TRUE)
  /\ UNCHANGED <<account, invitation, cookies>>

(* performRefresh and refresh *)

\* Mutant: performRefresh does not share the refresh that is under way.
MayRefreshAgain(t) == tab[t].sid # None /\ tab[t].refresh \in {"no", "sent"}

MayRefresh(t) == tab[t].sid # None /\ tab[t].refresh = "no"

\* Mutant: a revoked token is not told from a valid one.
RefreshReadAny(w, t) ==
  /\ MayRefresh(t)
  /\ tab[t].sid \in cookies /\ token[tab[t].sid].state # "expired"
  /\ RoomForToken /\ Begin(w, "rotate", t, tab[t].sid)
  /\ tab' = [tab EXCEPT ![t].refresh = "sent"]
  /\ Happened(\E v \in Of(t) : pending[v].op \in {"logout", "loggedOut"})
  /\ UNCHANGED <<server, cookies, lastActive>>

\* The request carries the cookie named after sid, if the browser has it.
RefreshRead(w, t) ==
  /\ MayRefresh(t)
  /\ LET sid == tab[t].sid
     IN  /\ sid \in cookies /\ token[sid].state # "expired"
         /\ IF token[sid].state = "revoked"
            THEN Begin(w, "kill", t, sid)
            ELSE RoomForToken /\ Begin(w, "rotate", t, sid)
  /\ tab' = [tab EXCEPT ![t].refresh = "sent"]
  /\ Happened(\E v \in Of(t) : pending[v].op \in {"logout", "loggedOut"})
  /\ UNCHANGED <<server, cookies, lastActive>>

\* "No refresh token", "Refresh token expired"
RefreshRefused(t) ==
  /\ MayRefresh(t)
  /\ tab[t].sid \in cookies => token[tab[t].sid].state = "expired"
  /\ SignedOut(t)
  /\ UNCHANGED <<server, cookies, pending, history>>

\* Mutant: the old token stays valid.
RotateKeeps(w) ==
  /\ Writing(w, "rotate")
  /\ Goes(w, "issue")
  /\ UNCHANGED <<server, browser, history>>

Rotate(w) ==
  /\ Writing(w, "rotate")
  /\ token' = [token EXCEPT ![pending[w].row].state = "revoked"]
  /\ Goes(w, "issue")
  /\ UNCHANGED <<account, invitation, browser, history>>

\* "Refresh token reuse detected": every session of the account ends.
Kill(w) ==
  /\ Writing(w, "kill")
  /\ token' = [i \in DOMAIN token |-> [token[i] EXCEPT !.state = "revoked"]]
  /\ IF pending[w].tab = NoTab THEN UNCHANGED <<tab, lastActive>> ELSE SignedOut(pending[w].tab)
  /\ End(w)
  /\ UNCHANGED <<account, invitation, cookies, history>>

\* api.me at the end of performRefresh.  A 401 makes request() call the
\* handler for a new token, which is the refresh that is under way.
LoadProfile(t) ==
  /\ tab[t].refresh = "profile"
  /\ tab' = [tab EXCEPT ![t].refresh = IF account.status = "ACTIVE" THEN "no" ELSE "itself"]
  /\ UNCHANGED <<server, cookies, lastActive, pending, history>>

\* api.me fails in any other way: the catch of performRefresh ends the session
\* of the tab, whose new token and cookie are valid.
LoadProfileFails(t) ==
  /\ tab[t].refresh = "profile"
  /\ SignedOut(t)
  /\ UNCHANGED <<server, cookies, pending, history>>

(* logout, by the tab that holds the session *)

LogoutRead(w, t) ==
  /\ tab[t].sid \in cookies
  /\ \A v \in Of(t) : pending[v].op \notin {"logout", "loggedOut"}
  /\ Begin(w, IF token[tab[t].sid].state = "revoked" THEN "loggedOut" ELSE "logout", t, tab[t].sid)
  /\ UNCHANGED <<server, browser, history>>

LogoutWrite(w) ==
  /\ Writing(w, "logout")
  /\ token' = [token EXCEPT ![pending[w].row].state = "revoked"]
  /\ Goes(w, "loggedOut")
  /\ UNCHANGED <<account, invitation, browser, history>>

\* The response clears the cookie; the tab forgets whatever session it has.
LogoutDone(w) ==
  /\ Writing(w, "loggedOut")
  /\ cookies' = cookies \ {pending[w].row}
  /\ lastActive' = IF lastActive = pending[w].row THEN None ELSE lastActive
  /\ tab' = IF pending[w].tab = NoTab THEN tab ELSE [tab EXCEPT ![pending[w].tab].sid = None]
  /\ End(w)
  /\ UNCHANGED <<server, history>>

-----------------------------------------------------------------------------
(* changeMyPassword, acceptInvite *)

ChangeRead(w, t) ==
  /\ tab[t].sid # None /\ Of(t) = {}
  /\ account.status = "ACTIVE" /\ account.password # "none"
  /\ Begin(w, "change", t, None)
  /\ UNCHANGED <<server, browser, history>>

\* Mutant: changing the password does not end the obligation to change it.
ChangeWriteKeeps(w) ==
  /\ Writing(w, "change")
  /\ account' = [account EXCEPT !.password = "chosen"]
  /\ End(w)
  /\ UNCHANGED <<invitation, token, browser, history>>

ChangeWrite(w) ==
  /\ Writing(w, "change")
  /\ account' = [account EXCEPT !.password = "chosen", !.mustChange = FALSE]
  /\ End(w)
  /\ UNCHANGED <<invitation, token, browser, history>>

AcceptRead(w, t, i) ==
  /\ tab[t].sid = None /\ Of(t) = {}
  /\ invitation[i] = "PENDING"
  /\ RoomForToken
  /\ Begin(w, "accept", t, i)
  /\ UNCHANGED <<server, browser, history>>

\* Mutant: the invitation is taken for the token to replace.
AcceptWriteKeepsRow(w) ==
  /\ Writing(w, "accept")
  /\ account' = [account EXCEPT !.password = "chosen", !.status = "ACTIVE"]
  /\ invitation' = [invitation EXCEPT ![pending[w].row] = "ACCEPTED"]
  /\ Goes(w, "issue")
  /\ UNCHANGED <<token, browser, history>>

AcceptWrite(w) ==
  /\ Writing(w, "accept")
  /\ account' = [account EXCEPT !.password = "chosen", !.status = "ACTIVE"]
  /\ invitation' = [invitation EXCEPT ![pending[w].row] = "ACCEPTED"]
  /\ pending' = [pending EXCEPT ![w].op = "issue", ![w].row = None]
  /\ UNCHANGED <<token, browser, history>>

-----------------------------------------------------------------------------
(* What admins do to the account *)

\* resetPortalPassword: assertResettablePortalUser, then applyTemporaryPassword
ResetRead(w) ==
  /\ account.role \in {"STUDENT", "PARENT"} /\ account.status # "SUSPENDED"
  /\ Begin(w, "reset", NoTab, None)
  /\ UNCHANGED <<server, browser, history>>

ResetWrite(w) ==
  /\ Writing(w, "reset")
  /\ account' = [account EXCEPT !.password = "temporary", !.mustChange = TRUE, !.status = "ACTIVE"]
  /\ token' = [i \in DOMAIN token |-> [token[i] EXCEPT !.state = "revoked"]]
  /\ invitation' = [i \in DOMAIN invitation |-> IF invitation[i] = "PENDING" THEN "REVOKED" ELSE invitation[i]]
  /\ End(w)
  /\ disturbed' = TRUE
  /\ reset' = [tokens |-> Len(token),
               late   |-> \E v \in DOMAIN pending : pending[v].op \in Checked]
  /\ UNCHANGED browser

\* resendInvite of a teacher
ResendRead(w) ==
  /\ account.role = "TEACHER" /\ account.status # "ACTIVE"
  /\ Begin(w, "resend", NoTab, None)
  /\ UNCHANGED <<server, browser, history>>

ResendWrite(w) ==
  /\ Writing(w, "resend") /\ Len(invitation) < MaxInvitations
  /\ invitation' = Append(
       [i \in DOMAIN invitation |-> IF invitation[i] = "PENDING" THEN "REVOKED" ELSE invitation[i]], "PENDING")
  /\ End(w)
  /\ UNCHANGED <<account, token, browser, history>>

\* inviteAdmin, asked again: the older links stay
InviteAgain ==
  /\ account.role = "SCHOOL_ADMIN" /\ account.status # "ACTIVE"
  /\ Len(invitation) < MaxInvitations
  /\ invitation' = Append(invitation, "PENDING")
  /\ UNCHANGED <<account, token, browser, pending, history>>

\* GuardiansService.update to ARCHIVED
Archive ==
  /\ account.role = "PARENT"
  /\ account' = [account EXCEPT !.status = "SUSPENDED"]
  /\ UNCHANGED <<invitation, token, browser, pending, history>>

-----------------------------------------------------------------------------
(* Time, failures, and the tabs *)

Expire(i) ==
  /\ token[i].state = "live"
  /\ token' = [token EXCEPT ![i].state = "expired"]
  /\ UNCHANGED <<account, invitation, browser, pending, history>>

\* The statement fails or the process dies: catch of performRefresh and of
\* logout, anything else leaves the tab as it was.
Fail(w) ==
  /\ w \in DOMAIN pending
  /\ LET r == pending[w]
     IN  CASE r.tab = NoTab -> UNCHANGED <<tab, lastActive>>
           [] r.tab # NoTab /\ (r.op \in {"rotate", "kill"} \/ (r.op = "issue" /\ r.row # None)) -> SignedOut(r.tab)
           [] r.tab # NoTab /\ r.op \in {"logout", "loggedOut"} ->
                /\ tab' = [tab EXCEPT ![r.tab].sid = None]
                /\ lastActive' = IF lastActive = r.row THEN None ELSE lastActive
           [] OTHER -> UNCHANGED <<tab, lastActive>>
  /\ End(w)
  /\ Happened(TRUE)
  /\ UNCHANGED <<server, cookies>>

\* A tab is reloaded, or a tab without a session is opened anew: nobody waits
\* for its requests any more, and it takes up the session id it remembers or
\* the one that was last active (readInitialSessionId).
Load(t) ==
  LET sid == IF tab[t].sid # None THEN tab[t].sid ELSE lastActive
      lost == Of(t) # {} \/ tab[t].refresh # "no"
      shared == sid # None /\ \E u \in Tabs \ {t} : tab[u].sid = sid \/ \E w \in Of(u) : pending[w].row = sid
  IN  /\ tab' = [tab EXCEPT ![t] = [sid |-> sid, refresh |-> "no"]]
      /\ pending' = [w \in DOMAIN pending |->
           IF pending[w].tab = t THEN [pending[w] EXCEPT !.tab = NoTab] ELSE pending[w]]
      /\ Happened(lost \/ shared)
      /\ UNCHANGED <<server, cookies, lastActive>>

-----------------------------------------------------------------------------
\* createPortalAccount of a student; inviteLogin, createPortalAccount of a
\* parent, inviteAdmin.
Init ==
  /\ \E role \in Roles :
       IF role = "STUDENT"
       THEN /\ account = [role |-> role, status |-> "ACTIVE", password |-> "temporary", mustChange |-> TRUE]
            /\ invitation = << >>
       ELSE /\ account = [role |-> role, status |-> "PENDING_SETUP", password |-> "none", mustChange |-> FALSE]
            /\ invitation = <<"PENDING">>
  /\ token = << >>
  /\ cookies = {}
  /\ tab = [t \in Tabs |-> [sid |-> None, refresh |-> "no"]]
  /\ lastActive = None
  /\ pending = Without([w \in Workers |-> None], Workers)
  /\ disturbed = FALSE
  /\ reset = [tokens |-> 0, late |-> FALSE]

Requests(w) ==
  \/ \E t \in Tabs :
       \/ LoginRead(w, t)
       \/ RefreshRead(w, t)
       \/ LogoutRead(w, t)
       \/ ChangeRead(w, t)
       \/ \E i \in DOMAIN invitation : AcceptRead(w, t, i)
  \/ ResetRead(w)
  \/ ResendRead(w)

Statements(w) ==
  \/ Issue(w)
  \/ Rotate(w)
  \/ Kill(w)
  \/ LogoutWrite(w)
  \/ LogoutDone(w)
  \/ ChangeWrite(w)
  \/ AcceptWrite(w)
  \/ ResetWrite(w)
  \/ ResendWrite(w)

TabSteps(t) == RefreshRefused(t) \/ LoadProfile(t) \/ LoadProfileFails(t)

Next ==
  \/ \E w \in Workers : Requests(w) \/ Statements(w) \/ IssueLost(w) \/ Fail(w)
  \/ \E t \in Tabs : TabSteps(t) \/ Load(t)
  \/ \E i \in DOMAIN token : Expire(i)
  \/ InviteAgain
  \/ Archive

Spec == Init /\ [][Next]_vars

\* A handler that started goes on to its next statement, and the response of
\* api.me arrives.  Nobody has to reload a tab.
FairSpec ==
  /\ Spec
  /\ \A w \in Workers : WF_vars(Statements(w))
  /\ \A t \in Tabs : WF_vars(LoadProfile(t))

=============================================================================
