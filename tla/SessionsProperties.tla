------------------------- MODULE SessionsProperties -------------------------
(***************************************************************************)
(* What the login sessions of an account guarantee, under every overlap,   *)
(* loss and failure, and what the repository says of a refresh and the     *)
(* code does not keep.                                                     *)
(***************************************************************************)
EXTENDS Sessions

(* Type correctness, and every reference is to a row that exists. *)
TypeOK ==
  /\ account \in Account
  /\ invitation \in Seq({"PENDING", "ACCEPTED", "REVOKED"})
  /\ token \in Seq(Token)
  /\ \A i \in DOMAIN token : token[i].session <= i
  /\ cookies \subseteq DOMAIN token
  /\ tab \in [Tabs -> Tab]
  /\ \A t \in Tabs : tab[t].sid \in {None} \cup DOMAIN token
  /\ lastActive \in {None} \cup DOMAIN token
  /\ DOMAIN pending \subseteq Workers /\ pending \in [DOMAIN pending -> Request]
  /\ \A w \in DOMAIN pending :
       pending[w].row \in IF pending[w].op = "accept" THEN DOMAIN invitation
                          ELSE IF pending[w].op \in {"rotate", "kill", "logout", "loggedOut"} THEN DOMAIN token
                          ELSE {None} \cup DOMAIN token
  /\ disturbed \in BOOLEAN
  /\ reset \in [tokens : 0..Len(token), late : BOOLEAN]

(* "Every live session is revoked, so an old login can't outlive the reset; *)
(* a still-pending invite link is revoked, so it can't overwrite the reset" *)
(* (applyTemporaryPassword): whatever the browser still holds and does      *)
(* later, no refresh and no rotation brings a session from before the reset *)
(* back, and no link sets a password beside the temporary one - unless a    *)
(* handler in progress had checked its token, password or link already.     *)
ResetEndsSessions ==
  ~ reset.late =>
    /\ \A i \in DOMAIN token : token[i].session <= reset.tokens => token[i].state = "revoked"
    /\ account.password = "temporary" =>
         /\ \A i \in DOMAIN invitation : invitation[i] # "PENDING"
         /\ \A w \in DOMAIN pending : pending[w].op # "accept"

(* A password the admin has seen is never one the holder may keep, and      *)
(* nobody has a session on an account without a password.                   *)
TemporaryIsReplaced ==
  /\ account.password = "temporary" => account.mustChange
  /\ account.password = "chosen" /\ account.role = "STUDENT" => ~ account.mustChange
  /\ account.password = "none" => token = << >>

(* "A revoked token being presented again means it was stolen/replayed"     *)
(* (refresh): two tabs that refresh, log in and log out at any time never   *)
(* trip it, unless an answer was lost, a tab took up the session of         *)
(* another, or a refresh crossed a logout of its tab or a reset.            *)
NoFalseAlarm ==
  (\E w \in DOMAIN pending : pending[w].op = "kill") => disturbed

(* Rotation: a login session has one valid token at a time.                 *)
OneTokenPerSession ==
  ~ disturbed =>
    \A i, j \in DOMAIN token :
      i # j /\ token[i].session = token[j].session =>
        token[i].state = "revoked" \/ token[j].state = "revoked"

(* A tab stays signed in until it logs out, its token expires or the        *)
(* profile at the end of a refresh does not arrive, again unless something  *)
(* was lost, shared, crossed or reset.                                      *)
SignedInUntilLogout ==
  [][\A t \in Tabs :
       (tab[t].sid # None /\ tab'[t].sid = None /\ ~ disturbed') =>
         \/ token[tab[t].sid].state = "expired"
         \/ tab[t].refresh = "profile"
         \/ \E w \in Of(t) : pending[w].op = "loggedOut"]_vars

-----------------------------------------------------------------------------
(* Said by the repository, not kept by the code *)

(* "Every live session is revoked, so an old login can't outlive the reset" *)
(* (applyTemporaryPassword), whatever was in progress when it ran.          *)
OldLoginEnds ==
  \A i \in DOMAIN token : token[i].session <= reset.tokens => token[i].state = "revoked"

(* "If the refresh itself fails ... the existing 'no user -> redirect to    *)
(* /login' effect takes over - a real re-auth prompt instead of a stuck     *)
(* error screen" (api.ts): every refresh of a tab comes to an end.          *)
RefreshSettles ==
  \A t \in Tabs : tab[t].refresh # "no" ~> tab[t].refresh = "no"

=============================================================================
