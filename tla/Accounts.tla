------------------------------ MODULE Accounts ------------------------------
(***************************************************************************)
(* A learner's refresh tokens and password reset links: usecase/auth.go,   *)
(* usecase/accounts.go and their statements in adapter/repository/tokens.go*)
(* and users.go, for one account.  Requests run at the same time on any    *)
(* number of processes; they meet only in the database, which is Postgres  *)
(* at READ COMMITTED: a statement that changes rows finds them in a        *)
(* snapshot, waits for the transactions that hold them and only then       *)
(* changes those that still match.  Rows inserted meanwhile it misses.     *)
(*                                                                         *)
(* A token's number is the order of its issue; a family is named after its *)
(* first token.  Access tokens are stateless and left out.                 *)
(***************************************************************************)
EXTENDS Integers

CONSTANTS
  Requests,    \* HTTP requests in progress at the same time
  MaxTokens,   \* bound: refresh tokens issued
  MaxLinks,    \* bound: reset links mailed
  None         \* no token, no link

ASSUME AccountsAssumption ==
  /\ MaxTokens \in Nat \ {0} /\ MaxLinks \in Nat
  /\ None \notin 0..MaxTokens /\ None \notin 0..MaxLinks
  /\ None \notin {"usable", "used"}

VARIABLES
  account,     \* the user's row exists
  tokens,      \* refresh_tokens: by number the row, or None
  issued,      \* how many tokens were ever issued
  links,       \* per reset link "usable", "used" or None: expired or not mailed yet
  mailed,      \* how many links were ever mailed
  pc,          \* per request the statement it comes to next
  req          \* per request what it knows

vars == <<account, tokens, issued, links, mailed, pc, req>>

Tokens == 1..MaxTokens
Links  == 1..MaxLinks

TokenRows == [family : Tokens, used : {"no", "lately", "long ago"},
              revoked : BOOLEAN]

NewToken(family) == [family |-> family, used |-> "no", revoked |-> FALSE]

Places == {"idle", "consume", "rotate", "find", "revoke", "revoked",
           "hash", "links", "invalidate", "sign out", "commit"}
Known  == [token : Tokens \cup {None}, replay : BOOLEAN, family : Tokens \cup {None},
           link : Links \cup {None}, others : SUBSET Links, found : SUBSET Tokens]

NoRequest == [token |-> None, replay |-> FALSE, family |-> None, link |-> None,
              others |-> {}, found |-> {}]

\* The learner has registered: the account and its first token.
Init ==
  /\ account = TRUE
  /\ tokens = [t \in Tokens |-> IF t = 1 THEN NewToken(1) ELSE None] /\ issued = 1
  /\ links = [l \in Links |-> None] /\ mailed = 0
  /\ pc = [r \in Requests |-> "idle"]
  /\ req = [r \in Requests |-> NoRequest]

At(r, place) == pc[r] = place
Go(r, place) == pc' = [pc EXCEPT ![r] = place]
Return(r)    == Go(r, "idle") /\ req' = [req EXCEPT ![r] = NoRequest]

-----------------------------------------------------------------------------
(* Rows that a transaction has changed are held until it ends. *)

TokenHeld(t) == \E r \in Requests : At(r, "rotate") /\ req[r].token = t

HoldsUser(r) == pc[r] \in {"links", "invalidate", "sign out", "commit"}

HoldsLink(r, l) ==
  \/ (HoldsUser(r) \/ At(r, "hash")) /\ req[r].link = l
  \/ pc[r] \in {"sign out", "commit"} /\ l \in req[r].others

LinkHeld(l) == \E r \in Requests : HoldsLink(r, l)

-----------------------------------------------------------------------------
(* Refresh: one transaction consumes the token and issues its successor *)

\* The request's time is read here: what is a replay is decided by it, even if
\* the statements come much later.
Refresh(r, t) ==
  /\ At(r, "idle") /\ Go(r, "consume")
  /\ req' = [req EXCEPT ![r] = [NoRequest EXCEPT
               !.token = t,
               !.replay = tokens[t] # None /\ tokens[t].used = "long ago"]]
  /\ UNCHANGED <<account, tokens, issued, links, mailed>>

Consumable_Reused(r) ==
  LET row == tokens[req[r].token] IN row # None /\ ~row.revoked
Consumable(r) ==
  LET row == tokens[req[r].token]
  IN  row # None /\ row.used = "no" /\ ~row.revoked

\* Of several requests that present a token one changes its row, and the
\* others wait for that one's transaction.
ConsumeRefresh(r) ==
  /\ At(r, "consume") /\ ~TokenHeld(req[r].token)
  /\ Go(r, IF Consumable(r) THEN "rotate" ELSE "find")
  /\ UNCHANGED <<account, tokens, issued, links, mailed, req>>

CreateRefresh(family, rows) ==
  /\ issued < MaxTokens /\ issued' = issued + 1
  /\ tokens' = [rows EXCEPT ![issued + 1] = NewToken(family)]

\* The successor is inserted and both changes are committed.
Rotate(r) ==
  /\ At(r, "rotate")
  /\ LET t == req[r].token
     IN  CreateRefresh(tokens[t].family, [tokens EXCEPT ![t].used = "lately"])
  /\ Return(r)
  /\ UNCHANGED <<account, links, mailed>>

\* An invalid token may be a replay: then its family is revoked.
FindRefresh(r) ==
  /\ At(r, "find")
  /\ LET row == tokens[req[r].token]
     IN  IF row # None /\ req[r].replay
           THEN Go(r, "revoke") /\ req' = [req EXCEPT ![r].family = row.family]
           ELSE Return(r)
  /\ UNCHANGED <<account, tokens, issued, links, mailed>>

-----------------------------------------------------------------------------
(* Revoking tokens: the rows are found in a snapshot and changed later *)

Unrevoked_Unused(family) ==
  {t \in Tokens : /\ tokens[t] # None /\ ~tokens[t].revoked /\ tokens[t].used = "no"
                  /\ family \in {None, tokens[t].family}}
Unrevoked(family) == {t \in Tokens : /\ tokens[t] # None /\ ~tokens[t].revoked
                                     /\ family \in {None, tokens[t].family}}

RevokeFamily(r) ==
  /\ At(r, "revoke") /\ Go(r, "revoked")
  /\ req' = [req EXCEPT ![r].found = Unrevoked(req[r].family)]
  /\ UNCHANGED <<account, tokens, issued, links, mailed>>

\* Logout
RevokeFamilyOf(r, t) ==
  /\ At(r, "idle") /\ Go(r, "revoked")
  /\ req' = [req EXCEPT ![r].found = IF tokens[t] = None THEN {} ELSE Unrevoked(tokens[t].family)]
  /\ UNCHANGED <<account, tokens, issued, links, mailed>>

Revoking(found) ==
  [t \in Tokens |-> IF t \in found /\ tokens[t] # None
                      THEN [tokens[t] EXCEPT !.revoked = TRUE] ELSE tokens[t]]

Revoked(r) ==
  /\ At(r, "revoked") /\ \A t \in req[r].found : ~TokenHeld(t)
  /\ tokens' = Revoking(req[r].found)
  /\ Return(r)
  /\ UNCHANGED <<account, issued, links, mailed>>

-----------------------------------------------------------------------------
(* Signing in and deleting the account *)

\* The insert refers to the user's row, which must still exist.
Login ==
  /\ account
  /\ CreateRefresh(issued + 1, tokens)
  /\ UNCHANGED <<account, links, mailed, pc, req>>

\* The rows that refer to the user's go with it, and none may be held.
Delete ==
  /\ account /\ \A r \in Requests : ~HoldsUser(r)
  /\ \A t \in Tokens : ~TokenHeld(t)
  /\ \A l \in Links : ~LinkHeld(l)
  /\ account' = FALSE
  /\ tokens' = [t \in Tokens |-> None] /\ links' = [l \in Links |-> None]
  /\ UNCHANGED <<issued, mailed, pc, req>>

-----------------------------------------------------------------------------
(* Forgotten passwords *)

CreatePasswordReset ==
  /\ account /\ mailed < MaxLinks
  /\ mailed' = mailed + 1
  /\ links' = [links EXCEPT ![mailed + 1] = "usable"]
  /\ UNCHANGED <<account, tokens, issued, pc, req>>

\* ResetPassword, one transaction from here to Committed.
ConsumePasswordReset(r, l) ==
  /\ At(r, "idle") /\ links[l] = "usable" /\ ~LinkHeld(l)
  /\ Go(r, "hash") /\ req' = [req EXCEPT ![r] = [NoRequest EXCEPT !.link = l]]
  /\ UNCHANGED <<account, tokens, issued, links, mailed>>

UserHeld == \E r \in Requests : HoldsUser(r)

UpdatePassword(r) ==
  /\ At(r, "hash") /\ ~UserHeld
  /\ Go(r, "links")
  /\ UNCHANGED <<account, tokens, issued, links, mailed, req>>

FindPasswordResets_None(r) ==
  /\ At(r, "links") /\ Go(r, "invalidate")
  /\ UNCHANGED <<account, tokens, issued, links, mailed, req>>

\* The account's other links: found in a snapshot, then waited for.
FindPasswordResets(r) ==
  /\ At(r, "links") /\ Go(r, "invalidate")
  /\ req' = [req EXCEPT ![r].others =
               {l \in Links \ {req[r].link} : links[l] = "usable"}]
  /\ UNCHANGED <<account, tokens, issued, links, mailed>>

InvalidatePasswordResets(r) ==
  /\ At(r, "invalidate") /\ \A l \in req[r].others : ~LinkHeld(l)
  /\ Go(r, "sign out")
  /\ UNCHANGED <<account, tokens, issued, links, mailed, req>>

RevokeAllForUser(r) ==
  /\ At(r, "sign out") /\ Go(r, "commit")
  /\ req' = [req EXCEPT ![r].found = Unrevoked(None)]
  /\ UNCHANGED <<account, tokens, issued, links, mailed>>

Committed(r) ==
  /\ At(r, "commit") /\ \A t \in req[r].found : ~TokenHeld(t)
  /\ tokens' = Revoking(req[r].found)
  /\ links' = [l \in Links |-> IF l \in req[r].others \cup {req[r].link} /\ links[l] # None
                                 THEN "used" ELSE links[l]]
  /\ Return(r)
  /\ UNCHANGED <<account, issued, mailed>>

-----------------------------------------------------------------------------
\* A statement fails, the client is gone, the process dies, or Postgres ends
\* one of two transactions that wait for each other: nothing is changed.
Fails(r) ==
  /\ pc[r] # "idle" /\ Return(r)
  /\ UNCHANGED <<account, tokens, issued, links, mailed>>

(* Time, and the sweeper *)

\* More than RefreshReuseGrace has passed since the token was rotated.
GracePasses(t) ==
  /\ tokens[t] # None /\ tokens[t].used = "lately"
  /\ tokens' = [tokens EXCEPT ![t].used = "long ago"]
  /\ UNCHANGED <<account, issued, links, mailed, pc, req>>

\* A token expires and is purged.  In between it is not told from one that is
\* gone, if it was never used, or from one that is not expired, if it was.
Expires(t) ==
  /\ tokens[t] # None /\ ~TokenHeld(t)
  /\ tokens' = [tokens EXCEPT ![t] = None]
  /\ UNCHANGED <<account, issued, links, mailed, pc, req>>

\* A link that has expired is not told from one that is purged.
LinkExpires(l) ==
  /\ links[l] # None
  /\ links' = [links EXCEPT ![l] = None]
  /\ UNCHANGED <<account, tokens, issued, mailed, pc, req>>

-----------------------------------------------------------------------------
RefreshStep(r) ==
  \/ \E t \in 1..issued : Refresh(r, t)
  \/ ConsumeRefresh(r) \/ Rotate(r) \/ FindRefresh(r)

RevokeStep(r) ==
  \/ \E t \in 1..issued : RevokeFamilyOf(r, t)
  \/ RevokeFamily(r) \/ Revoked(r)

ResetStep(r) ==
  \/ \E l \in 1..mailed : ConsumePasswordReset(r, l)
  \/ UpdatePassword(r) \/ FindPasswordResets(r) \/ InvalidatePasswordResets(r)
  \/ RevokeAllForUser(r) \/ Committed(r)

Next ==
  \/ \E r \in Requests : RefreshStep(r) \/ RevokeStep(r) \/ ResetStep(r) \/ Fails(r)
  \/ Login \/ Delete \/ CreatePasswordReset
  \/ \E t \in Tokens : GracePasses(t) \/ Expires(t)
  \/ \E l \in Links : LinkExpires(l)

Spec == Init /\ [][Next]_vars

-----------------------------------------------------------------------------
(* Properties *)

\* Rows and requests have their shapes, numbers are issued in order, and nothing
\* refers to an account that is gone (the schema of migrations/).
TypeOK ==
  /\ account \in BOOLEAN /\ issued \in 0..MaxTokens /\ mailed \in 0..MaxLinks
  /\ tokens \in [Tokens -> TokenRows \cup {None}]
  /\ links \in [Links -> {"usable", "used", None}]
  /\ pc \in [Requests -> Places] /\ req \in [Requests -> Known]
  /\ \A t \in Tokens : tokens[t] # None => account /\ t <= issued /\ tokens[t].family <= t
  /\ \A l \in Links : links[l] # None => account /\ l <= mailed

\* A family is a chain: only its last token was not rotated yet, however many
\* requests present the same token at once (tokens.go, ConsumeRefresh; auth.go,
\* Refresh).
RotationIsAChain ==
  \A t, u \in Tokens :
    /\ t < u /\ tokens[t] # None /\ tokens[u] # None
    /\ tokens[t].family = tokens[u].family
    => tokens[t].used # "no"

\* Revoking misses no older token: what a rotation may bring in while a family
\* is revoked is its one next token, and no token behind it (tokens.go,
\* RevokeFamily, RevokeFamilyOf and RevokeAllForUser).
RevokedIsPrefix ==
  \A t, u \in Tokens :
    /\ t < u /\ tokens[t] # None /\ tokens[u] # None
    /\ tokens[t].family = tokens[u].family
    => (tokens[u].revoked => tokens[t].revoked)

\* A link that changes the password takes every older link with it, also one
\* that is being used at the same time (auth.go, ResetPassword).
ResetEndsOlderLinks ==
  [][\A r \in Requests, l \in Links :
       /\ At(r, "commit") /\ links'[req[r].link] = "used"
       /\ l <= req[r].link
       => links'[l] # "usable"]_vars

(* What the code's comments say, and the code does not do *)

\* auth.go:220: "Logout revokes the refresh token's whole family."
LogoutEndsFamily ==
  [][\A r \in Requests : At(r, "revoked") /\ tokens' # tokens /\ pc'[r] = "idle"
       => \A t \in req[r].found, u \in Tokens :
            tokens'[t] # None /\ tokens'[u] # None /\ tokens'[u].family = tokens'[t].family
              => tokens'[u].revoked]_vars

\* auth.go:257: ResetPassword "signs them out everywhere".
ResetSignsOut ==
  [][\A r \in Requests : At(r, "commit") /\ links' # links /\ pc'[r] = "idle"
       => \A t \in Tokens : tokens'[t] # None => tokens'[t].revoked]_vars
=============================================================================
