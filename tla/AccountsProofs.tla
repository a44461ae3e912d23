--------------------------- MODULE AccountsProofs ---------------------------
(***************************************************************************)
(* Proofs about refresh tokens and reset links, for any number of requests,*)
(* tokens and links: a family of tokens stays a chain, revoking leaves no  *)
(* older token behind, and a link that is used ends the ones before it.    *)
(*                                                                         *)
(* Tokens and links have an invariant each.  Both rest on what a waiting   *)
(* statement knows: that the rows it found are still all that matter once  *)
(* it gets to change them.                                                 *)
(***************************************************************************)
EXTENDS Accounts, TLAPS

InReset(r) == HoldsUser(r) \/ At(r, "hash")

-----------------------------------------------------------------------------
(* The invariant of the tokens *)

\* A request that refreshes has a token.
TokenNamed ==
  \A r \in Requests : pc[r] \in {"consume", "rotate", "find"} => req[r].token \in Tokens

\* A held row stays as the request that holds it found it.
HeldTokens ==
  \A r \in Requests : At(r, "rotate") =>
    LET row == tokens[req[r].token]
    IN  row # None /\ row.used = "no" /\ ~row.revoked

OneHolder ==
  \A r, s \in Requests :
    At(r, "rotate") /\ At(s, "rotate") /\ req[r].token = req[s].token => r = s

Behind(t, u) ==
  /\ t < u /\ tokens[t] # None /\ tokens[u] # None
  /\ tokens[t].family = tokens[u].family

\* A statement that revokes has found all that is behind what it found.
FoundAllBehind ==
  \A r \in Requests : pc[r] \in {"revoked", "commit"} =>
    /\ req[r].found \subseteq 1..issued
    /\ \A t \in Tokens, u \in req[r].found :
         Behind(t, u) => t \in req[r].found \/ tokens[t].revoked

TokenInv ==
  /\ TypeOK /\ TokenNamed /\ HeldTokens /\ OneHolder
  /\ RotationIsAChain /\ RevokedIsPrefix /\ FoundAllBehind

-----------------------------------------------------------------------------
(* The invariant of the links *)

LinkNamed ==
  \A r \in Requests : InReset(r) => req[r].link \in 1..mailed

\* The row of the user is held by one reset at a time.
OneUser == \A r, s \in Requests : HoldsUser(r) /\ HoldsUser(s) => r = s

\* No reset has used, or is about to, the link of another.
LinksApart ==
  /\ \A r \in Requests : InReset(r) => links[req[r].link] # "used"
  /\ \A r, s \in Requests : r # s /\ InReset(r) /\ InReset(s) =>
       /\ req[r].link # req[s].link
       /\ pc[s] \in {"sign out", "commit"} => req[r].link \notin req[s].others

\* A reset has found every link that is older than its own.
OlderFound ==
  \A r \in Requests : pc[r] \in {"invalidate", "sign out", "commit"} =>
    \A l \in Links : l < req[r].link /\ links[l] = "usable" => l \in req[r].others

LinkInv == TypeOK /\ LinkNamed /\ OneUser /\ LinksApart /\ OlderFound

-----------------------------------------------------------------------------
(* Types *)

LEMMA AccountsInit == Init => TokenInv /\ LinkInv
<1> SUFFICES ASSUME Init PROVE TokenInv /\ LinkInv
  OBVIOUS
<1> USE AccountsAssumption
<1>1. TypeOK
  <2>1. NewToken(1) \in TokenRows
    BY DEF NewToken, TokenRows, Tokens
  <2>2. NoRequest \in Known
    BY DEF NoRequest, Known
  <2>3. tokens \in [Tokens -> TokenRows \cup {None}]
    BY <2>1 DEF Init, Tokens
  <2>4. \A t \in Tokens : tokens[t] # None => t = 1 /\ tokens[t].family = 1
    BY DEF Init, NewToken
  <2> QED BY <2>2, <2>3, <2>4 DEF Init, TypeOK, Places, Tokens
<1>2. TokenNamed /\ HeldTokens /\ OneHolder /\ FoundAllBehind
  BY DEF Init, TokenNamed, HeldTokens, OneHolder, FoundAllBehind, At
<1>3. RotationIsAChain /\ RevokedIsPrefix
  BY DEF Init, RotationIsAChain, RevokedIsPrefix, NewToken, Tokens
<1>4. LinkNamed /\ OneUser /\ LinksApart /\ OlderFound
  BY DEF Init, LinkNamed, OneUser, LinksApart, OlderFound, InReset, HoldsUser, At
<1> QED BY <1>1, <1>2, <1>3, <1>4 DEF TokenInv, LinkInv

\* A new token, whoever it is for, has the next number.
LEMMA NewTokenTypes ==
  ASSUME TypeOK, account, NEW rows \in [Tokens -> TokenRows \cup {None}],
         \A t \in Tokens : rows[t] # None => t <= issued /\ rows[t].family <= t,
         NEW family \in Tokens, family <= issued + 1,
         CreateRefresh(family, rows)
  PROVE  /\ issued' = issued + 1 /\ issued' \in Tokens
         /\ tokens' = [rows EXCEPT ![issued'] = NewToken(family)]
         /\ tokens' \in [Tokens -> TokenRows \cup {None}]
         /\ \A t \in Tokens : tokens'[t] # None => t <= issued' /\ tokens'[t].family <= t
<1> USE AccountsAssumption DEF Tokens
<1>1. issued' = issued + 1 /\ issued' \in Tokens
  BY DEF CreateRefresh, TypeOK
<1>2. NewToken(family) \in TokenRows /\ NewToken(family).family = family
  BY DEF NewToken, TokenRows
<1>3. tokens' = [rows EXCEPT ![issued'] = NewToken(family)]
  BY <1>1 DEF CreateRefresh
<1>4. \A t \in Tokens : tokens'[t] = IF t = issued' THEN NewToken(family) ELSE rows[t]
  BY <1>1, <1>3
<1>5. \A t \in Tokens : tokens'[t] # None => t <= issued' /\ tokens'[t].family <= t
  BY <1>1, <1>2, <1>4 DEF TypeOK
<1> QED BY <1>1, <1>2, <1>3, <1>5

\* What revoking rows does to each of them.
LEMMA RevokingRows ==
  ASSUME TypeOK, NEW found
  PROVE  /\ Revoking(found) \in [Tokens -> TokenRows \cup {None}]
         /\ \A t \in Tokens :
              /\ tokens[t] = None => Revoking(found)[t] = None
              /\ t \notin found => Revoking(found)[t] = tokens[t]
              /\ tokens[t] # None =>
                   /\ Revoking(found)[t].family = tokens[t].family
                   /\ Revoking(found)[t].used = tokens[t].used
                   /\ Revoking(found)[t].revoked = (tokens[t].revoked \/ t \in found)
<1>1. ASSUME NEW t \in Tokens, tokens[t] # None
      PROVE  /\ [tokens[t] EXCEPT !.revoked = TRUE] \in TokenRows
             /\ [tokens[t] EXCEPT !.revoked = TRUE].family = tokens[t].family
             /\ [tokens[t] EXCEPT !.revoked = TRUE].used = tokens[t].used
             /\ [tokens[t] EXCEPT !.revoked = TRUE].revoked = TRUE
             /\ tokens[t].revoked \in BOOLEAN
  <2>1. tokens[t] \in TokenRows
    BY <1>1 DEF TypeOK
  <2> QED BY <2>1 DEF TokenRows
<1>2. Revoking(found) \in [Tokens -> TokenRows \cup {None}]
  BY <1>1 DEF Revoking, TypeOK
<1>3. ASSUME NEW t \in Tokens, tokens[t] # None, t \in found
      PROVE  Revoking(found)[t] = [tokens[t] EXCEPT !.revoked = TRUE]
  BY <1>3 DEF Revoking
<1>4. ASSUME NEW t \in Tokens, tokens[t] = None \/ t \notin found
      PROVE  Revoking(found)[t] = tokens[t]
  BY <1>4 DEF Revoking
<1> QED BY <1>1, <1>2, <1>3, <1>4

\* A request that comes to a new statement, or ends, leaves the others alone.
LEMMA RequestTypes ==
  ASSUME TypeOK, NEW r \in Requests, NEW place \in Places, NEW known \in Known,
         Go(r, place), req' = [req EXCEPT ![r] = known]
  PROVE  pc' \in [Requests -> Places] /\ req' \in [Requests -> Known]
BY DEF TypeOK, Go

LEMMA NoRequestTypes == NoRequest \in Known
BY DEF NoRequest, Known

LEMMA KnownTypes ==
  ASSUME NEW k \in Known
  PROVE  /\ \A t \in Tokens, b \in BOOLEAN : [k EXCEPT !.token = t, !.replay = b] \in Known
         /\ \A f \in Tokens : [k EXCEPT !.family = f] \in Known
         /\ \A l \in Links : [k EXCEPT !.link = l] \in Known
         /\ \A others \in SUBSET Links : [k EXCEPT !.others = others] \in Known
         /\ \A found \in SUBSET Tokens : [k EXCEPT !.found = found] \in Known
BY DEF Known

LEMMA AccountsTypes == TokenInv /\ [Next]_vars => TypeOK'
<1> SUFFICES ASSUME TokenInv, [Next]_vars PROVE TypeOK'
  OBVIOUS
<1> USE AccountsAssumption
<1>0. TypeOK /\ TokenNamed /\ HeldTokens
  BY DEF TokenInv
<1>1. ASSUME NEW r \in Requests, RefreshStep(r) PROVE TypeOK'
  <2>1. ASSUME NEW t \in 1..issued, Refresh(r, t) PROVE TypeOK'
    <3>1. t \in Tokens
      BY <1>0, <2>1 DEF TypeOK, Tokens
    <3>2. req'[r] \in Known /\ req' = [req EXCEPT ![r] = req'[r]]
      BY <1>0, <2>1, <3>1 DEF Refresh, NoRequest, Known, TypeOK
    <3>3. pc' \in [Requests -> Places] /\ req' \in [Requests -> Known]
      BY <1>0, <2>1, <3>2, RequestTypes DEF Refresh, Places
    <3> QED BY <1>0, <2>1, <3>3 DEF Refresh, TypeOK
  <2>2. CASE ConsumeRefresh(r)
    BY <1>0, <2>2 DEF ConsumeRefresh, Go, TypeOK, Places
  <2>3. CASE Rotate(r)
    <3> DEFINE t == req[r].token
               rotated == [tokens EXCEPT ![t].used = "lately"]
    <3>1. t \in Tokens /\ tokens[t] # None /\ tokens[t] \in TokenRows
      BY <1>0, <2>3 DEF Rotate, At, TokenNamed, HeldTokens, TypeOK
    <3>2. rotated \in [Tokens -> TokenRows \cup {None}]
      BY <1>0, <3>1 DEF TypeOK, TokenRows
    <3>3. \A u \in Tokens : rotated[u] # None => u <= issued /\ rotated[u].family <= u
      BY <1>0, <3>1 DEF TypeOK, TokenRows
    <3>a. account /\ tokens[t].family \in Tokens /\ tokens[t].family <= t /\ t <= issued
      BY <1>0, <3>1 DEF TypeOK, TokenRows
    <3>4. account /\ tokens[t].family \in Tokens /\ tokens[t].family <= issued + 1
      BY <1>0, <3>1, <3>a DEF TypeOK, Tokens
    <3>5. CreateRefresh(tokens[t].family, rotated)
      BY <2>3 DEF Rotate
    <3> HIDE DEF t, rotated
    <3>6. /\ issued' \in Tokens
          /\ tokens' \in [Tokens -> TokenRows \cup {None}]
          /\ \A u \in Tokens : tokens'[u] # None => u <= issued' /\ tokens'[u].family <= u
      BY <1>0, <3>2, <3>3, <3>4, <3>5, NewTokenTypes
    <3>7. pc' \in [Requests -> Places] /\ req' \in [Requests -> Known]
      BY <1>0, <2>3, RequestTypes, NoRequestTypes DEF Rotate, Return, Places
    <3> QED BY <1>0, <2>3, <3>4, <3>6, <3>7 DEF Rotate, TypeOK, Tokens
  <2>4. CASE FindRefresh(r)
    <3>1. tokens[req[r].token] # None => tokens[req[r].token].family \in Tokens
      BY <1>0, <2>4, ZenonT(60) DEF FindRefresh, At, TokenNamed, TypeOK, TokenRows
    <3>2. pc' \in [Requests -> Places] /\ req' \in [Requests -> Known]
      <4>1. CASE tokens[req[r].token] # None /\ req[r].replay
        <5>1. req' = [req EXCEPT ![r] = [req[r] EXCEPT !.family = tokens[req[r].token].family]]
          BY <2>4, <4>1 DEF FindRefresh
        <5>2. req[r] \in Known
          BY <1>0 DEF TypeOK
        <5>3. [req[r] EXCEPT !.family = tokens[req[r].token].family] \in Known
          BY <3>1, <4>1, <5>2, KnownTypes
        <5> QED BY <1>0, <2>4, <4>1, <5>1, <5>3, RequestTypes DEF FindRefresh, Places
      <4>2. CASE ~(tokens[req[r].token] # None /\ req[r].replay)
        BY <1>0, <2>4, <4>2, NoRequestTypes, RequestTypes DEF FindRefresh, Return, Places
      <4> QED BY <4>1, <4>2
    <3> QED BY <1>0, <2>4, <3>2 DEF FindRefresh, TypeOK
  <2> QED BY <1>1, <2>1, <2>2, <2>3, <2>4 DEF RefreshStep
<1>2. ASSUME NEW r \in Requests, RevokeStep(r) PROVE TypeOK'
  <2>1. CASE RevokeFamily(r) \/ \E t \in 1..issued : RevokeFamilyOf(r, t)
    <3>1. \E found \in SUBSET Tokens : req' = [req EXCEPT ![r] = [req[r] EXCEPT !.found = found]]
      <4>1. CASE RevokeFamily(r)
        <5>1. Unrevoked(req[r].family) \in SUBSET Tokens
          BY DEF Unrevoked
        <5> QED BY <4>1, <5>1 DEF RevokeFamily
      <4>2. ASSUME NEW t \in 1..issued, RevokeFamilyOf(r, t)
            PROVE  \E found \in SUBSET Tokens : req' = [req EXCEPT ![r] = [req[r] EXCEPT !.found = found]]
        <5> DEFINE found == IF tokens[t] = None THEN {} ELSE Unrevoked(tokens[t].family)
        <5>1. found \in SUBSET Tokens
          BY DEF Unrevoked
        <5> QED BY <4>2, <5>1 DEF RevokeFamilyOf
      <4> QED BY <2>1, <4>1, <4>2
    <3>2. req[r] \in Known
      BY <1>0 DEF TypeOK
    <3>3. pc' \in [Requests -> Places] /\ req' \in [Requests -> Known]
      BY <1>0, <2>1, <3>1, <3>2, KnownTypes, RequestTypes DEF RevokeFamily, RevokeFamilyOf, Places
    <3> QED BY <1>0, <2>1, <3>3 DEF RevokeFamily, RevokeFamilyOf, TypeOK
  <2>2. CASE Revoked(r)
    <3>1. pc' \in [Requests -> Places] /\ req' \in [Requests -> Known]
      BY <1>0, <2>2, RequestTypes, NoRequestTypes DEF Revoked, Return, Places
    <3>2. tokens' = Revoking(req[r].found)
      BY <2>2 DEF Revoked
    <3> QED BY <1>0, <2>2, <3>1, <3>2, RevokingRows DEF Revoked, TypeOK
  <2> QED BY <1>2, <2>1, <2>2 DEF RevokeStep
<1>3. ASSUME NEW r \in Requests, ResetStep(r) PROVE TypeOK'
  <2>1. ASSUME NEW l \in 1..mailed, ConsumePasswordReset(r, l) PROVE TypeOK'
    <3>0. l \in Links
      BY <1>0, <2>1 DEF TypeOK, Links
    <3>1. [NoRequest EXCEPT !.link = l] \in Known
      BY <3>0, NoRequestTypes, KnownTypes
    <3>2. pc' \in [Requests -> Places] /\ req' \in [Requests -> Known]
      BY <1>0, <2>1, <3>1, RequestTypes DEF ConsumePasswordReset, Places
    <3> QED BY <1>0, <2>1, <3>2 DEF ConsumePasswordReset, TypeOK
  <2>2. CASE UpdatePassword(r) \/ InvalidatePasswordResets(r)
    BY <1>0, <2>2, ZenonT(60) DEF UpdatePassword, InvalidatePasswordResets, Go, TypeOK, Places
  <2>3. CASE FindPasswordResets(r) \/ RevokeAllForUser(r)
    <3>1. req[r] \in Known
      BY <1>0 DEF TypeOK
    <3>2. pc' \in [Requests -> Places] /\ req' \in [Requests -> Known]
      <4>1. CASE FindPasswordResets(r)
        <5> DEFINE others == {l \in Links \ {req[r].link} : links[l] = "usable"}
        <5>1. req' = [req EXCEPT ![r] = [req[r] EXCEPT !.others = others]] /\ others \in SUBSET Links
          BY <4>1 DEF FindPasswordResets
        <5> QED BY <1>0, <3>1, <4>1, <5>1, KnownTypes, RequestTypes DEF FindPasswordResets, Places
      <4>2. CASE RevokeAllForUser(r)
        <5>1. /\ req' = [req EXCEPT ![r] = [req[r] EXCEPT !.found = Unrevoked(None)]]
              /\ Unrevoked(None) \in SUBSET Tokens
          BY <4>2 DEF RevokeAllForUser, Unrevoked
        <5> QED BY <1>0, <3>1, <4>2, <5>1, KnownTypes, RequestTypes DEF RevokeAllForUser, Places
      <4> QED BY <2>3, <4>1, <4>2
    <3> QED BY <1>0, <2>3, <3>2 DEF FindPasswordResets, RevokeAllForUser, TypeOK
  <2>4. CASE Committed(r)
    <3>1. pc' \in [Requests -> Places] /\ req' \in [Requests -> Known]
      BY <1>0, <2>4, RequestTypes, NoRequestTypes DEF Committed, Return, Places
    <3>2. tokens' = Revoking(req[r].found)
      BY <2>4 DEF Committed
    <3>3. /\ links' \in [Links -> {"usable", "used", None}]
          /\ \A l \in Links : links'[l] # None => links[l] # None
      BY <1>0, <2>4 DEF Committed, TypeOK
    <3> QED BY <1>0, <2>4, <3>1, <3>2, <3>3, RevokingRows DEF Committed, TypeOK
  <2> QED BY <1>3, <2>1, <2>2, <2>3, <2>4 DEF ResetStep
<1>4. ASSUME NEW r \in Requests, Fails(r) PROVE TypeOK'
  <2>1. pc' \in [Requests -> Places] /\ req' \in [Requests -> Known]
    BY <1>0, <1>4, RequestTypes, NoRequestTypes DEF Fails, Return, Places
  <2> QED BY <1>0, <1>4, <2>1 DEF Fails, TypeOK
<1>5. CASE Login
  <2>1. account /\ CreateRefresh(issued + 1, tokens) /\ issued + 1 \in Tokens
    BY <1>0, <1>5 DEF Login, CreateRefresh, TypeOK, Tokens
  <2>2. /\ issued' \in Tokens
        /\ tokens' \in [Tokens -> TokenRows \cup {None}]
        /\ \A u \in Tokens : tokens'[u] # None => u <= issued' /\ tokens'[u].family <= u
    BY <1>0, <2>1, NewTokenTypes DEF TypeOK
  <2> QED BY <1>0, <1>5, <2>1, <2>2 DEF Login, TypeOK, Tokens
<1>6. CASE Delete
  BY <1>0, <1>6 DEF Delete, TypeOK
<1>7. CASE CreatePasswordReset
  BY <1>0, <1>7 DEF CreatePasswordReset, TypeOK, Links
<1>8. ASSUME NEW t \in Tokens, GracePasses(t) \/ Expires(t) PROVE TypeOK'
  BY <1>0, <1>8, ZenonT(120) DEF GracePasses, Expires, TypeOK, TokenRows
<1>9. ASSUME NEW l \in Links, LinkExpires(l) PROVE TypeOK'
  BY <1>0, <1>9 DEF LinkExpires, TypeOK
<1>10. CASE UNCHANGED vars
  BY <1>0, <1>10 DEF vars, TypeOK
<1> QED BY <1>1, <1>2, <1>3, <1>4, <1>5, <1>6, <1>7, <1>8, <1>9, <1>10 DEF Next

-----------------------------------------------------------------------------
(* Rows: what a step may do to them *)

Kept(t) ==
  /\ tokens[t] # None /\ tokens'[t].family = tokens[t].family
  /\ tokens[t].used # "no" => tokens'[t].used # "no"
  /\ tokens[t].revoked => tokens'[t].revoked

NewRow(u) ==
  /\ u = issued' /\ ~tokens'[u].revoked
  /\ \A t \in Tokens : t < u /\ tokens'[t] # None /\ tokens'[t].family = tokens'[u].family
                          => tokens'[t].used # "no"

\* An old row is rotated, revoked or gone; a new one comes last; revoking takes
\* the rows behind too; and held rows are left to their holders.
RowsStep ==
  /\ issued <= issued'
  /\ \A t \in Tokens : t <= issued /\ tokens'[t] # None => Kept(t)
  /\ \A u \in Tokens : u > issued /\ tokens'[u] # None => NewRow(u)
  /\ \A t, u \in Tokens :
       Behind(t, u) /\ tokens'[t] # None /\ tokens'[u] # None /\ tokens'[u].revoked
         => tokens'[t].revoked
  /\ \A s \in Requests :
       At(s, "rotate") /\ pc'[s] = "rotate" => tokens'[req[s].token] = tokens[req[s].token]

\* Rows that stay, or go.
LEMMA RowsGo ==
  ASSUME TokenInv, issued' = issued,
         \A t \in Tokens : tokens'[t] \in {tokens[t], None},
         \A t \in Tokens : TokenHeld(t) => tokens'[t] = tokens[t]
  PROVE  RowsStep
<1> USE AccountsAssumption
<1>1. issued \in 0..MaxTokens /\ \A t \in Tokens : tokens[t] # None => t <= issued
  BY DEF TokenInv, TypeOK
<1>2. \A t \in Tokens : tokens'[t] # None => tokens'[t] = tokens[t]
  OBVIOUS
<1>3. \A s \in Requests : At(s, "rotate") => tokens'[req[s].token] = tokens[req[s].token]
  BY DEF TokenInv, TokenNamed, TokenHeld, At
<1>4. \A u \in Tokens : u > issued => tokens'[u] = None
  BY <1>1, <1>2 DEF Tokens
<1>5. \A t, u \in Tokens : Behind(t, u) /\ tokens[u].revoked => tokens[t].revoked
  BY DEF TokenInv, RevokedIsPrefix, Behind
<1>6. \A t \in Tokens : t <= issued /\ tokens'[t] # None => Kept(t)
  BY <1>2 DEF Kept
<1>7. \A t, u \in Tokens : Behind(t, u) /\ tokens'[t] # None /\ tokens'[u] # None
                           /\ tokens'[u].revoked => tokens'[t].revoked
  BY <1>2, <1>5
<1>8. issued <= issued'
  BY <1>1
<1> QED BY <1>3, <1>4, <1>6, <1>7, <1>8 DEF RowsStep

LEMMA RowsRotate ==
  ASSUME TokenInv, NEW r \in Requests, Rotate(r)
  PROVE  RowsStep
<1> USE AccountsAssumption
<1> DEFINE t == req[r].token
           rotated == [tokens EXCEPT ![t].used = "lately"]
           family == tokens[t].family
<1>1. /\ t \in Tokens /\ tokens[t] # None /\ tokens[t] \in TokenRows
      /\ tokens[t].used = "no" /\ issued \in 0..MaxTokens
  BY DEF Rotate, At, TokenInv, TokenNamed, HeldTokens, TypeOK
<1>2. /\ issued < MaxTokens /\ issued' = issued + 1
      /\ tokens' = [rotated EXCEPT ![issued'] = NewToken(family)]
  BY DEF Rotate, CreateRefresh
<1>3. /\ issued' \in Tokens /\ \A u \in Tokens : tokens[u] # None => u <= issued
      /\ tokens \in [Tokens -> TokenRows \cup {None}]
  BY <1>1, <1>2 DEF TokenInv, TypeOK, Tokens
<1>4. t <= issued /\ t # issued'
  BY <1>1, <1>2, <1>3 DEF Tokens
<1>5. /\ tokens'[t].family = family /\ tokens'[t].used = "lately"
      /\ tokens'[t].revoked = tokens[t].revoked
  BY <1>1, <1>2, <1>3, <1>4 DEF TokenRows
<1>6. \A u \in Tokens : u # t /\ u # issued' => tokens'[u] = tokens[u]
  BY <1>1, <1>2, <1>3
<1>7. /\ tokens'[issued'].family = family /\ ~tokens'[issued'].revoked
  BY <1>1, <1>2, <1>3 DEF NewToken
<1> HIDE DEF t, rotated, family
<1>8. \A u \in Tokens : u <= issued /\ tokens'[u] # None => Kept(u)
  BY <1>1, <1>2, <1>4, <1>5, <1>6 DEF Kept, family, Tokens
<1>9. ASSUME NEW u \in Tokens, u > issued, tokens'[u] # None PROVE NewRow(u)
  <2>1. u = issued'
    BY <1>1, <1>2, <1>3, <1>4, <1>6, <1>9 DEF Tokens
  <2>2. ASSUME NEW v \in Tokens, v < u, tokens'[v] # None, tokens'[v].family = tokens'[u].family
        PROVE  tokens'[v].used # "no"
    <3>1. CASE v = t
      BY <3>1, <1>5
    <3>2. CASE v # t
      <4>1. tokens[v] = tokens'[v] /\ tokens[v] # None /\ tokens[v].family = tokens[t].family
        BY <2>1, <2>2, <3>2, <1>6, <1>7 DEF family, Tokens
      <4>2. v < t
        <5>1. ~(t < v)
          BY <4>1, <1>1 DEF TokenInv, RotationIsAChain
        <5> QED BY <5>1, <3>2, <1>1 DEF Tokens
      <4> QED BY <4>1, <4>2, <1>1 DEF TokenInv, RotationIsAChain
    <3> QED BY <3>1, <3>2
  <2> QED BY <2>1, <2>2, <1>7 DEF NewRow
<1>10. ASSUME NEW v \in Tokens, NEW u \in Tokens, Behind(v, u), tokens'[u].revoked
       PROVE  tokens'[v].revoked
  <2>1. v # issued' /\ u # issued'
    BY <1>1, <1>2, <1>3, <1>10 DEF Behind, Tokens
  <2>2. tokens[u].revoked
    BY <2>1, <1>5, <1>6, <1>10
  <2>3. tokens[v].revoked
    BY <2>2, <1>10 DEF Behind, TokenInv, RevokedIsPrefix
  <2> QED BY <2>1, <2>3, <1>5, <1>6
<1>11. ASSUME NEW s \in Requests, At(s, "rotate"), pc'[s] = "rotate"
       PROVE  tokens'[req[s].token] = tokens[req[s].token]
  <2>1. s # r
    BY <1>11 DEF Rotate, Return, Go, TokenInv, TypeOK
  <2>2. req[s].token # t /\ req[s].token \in Tokens /\ tokens[req[s].token] # None
    BY <1>11, <2>1 DEF t, Rotate, At, TokenInv, OneHolder, TokenNamed, HeldTokens
  <2>3. req[s].token # issued'
    BY <2>2, <1>1, <1>2, <1>3 DEF Tokens
  <2> QED BY <2>2, <2>3, <1>6
<1>12. issued <= issued'
  BY <1>1, <1>2
<1> QED BY <1>8, <1>9, <1>10, <1>11, <1>12 DEF RowsStep

LEMMA RowsLogin ==
  ASSUME TokenInv, Login
  PROVE  RowsStep
<1> USE AccountsAssumption
<1>1. /\ issued \in 0..MaxTokens /\ tokens \in [Tokens -> TokenRows \cup {None}]
      /\ \A t \in Tokens : tokens[t] # None => t <= issued /\ tokens[t].family <= t
      /\ \A t \in Tokens : tokens[t] # None => tokens[t].family \in Tokens
  BY DEF TokenInv, TypeOK, TokenRows
<1>2. /\ issued < MaxTokens /\ issued' = issued + 1
      /\ tokens' = [tokens EXCEPT ![issued'] = NewToken(issued')]
  BY DEF Login, CreateRefresh
<1>3. issued' \in Tokens /\ tokens'[issued'] = NewToken(issued')
  BY <1>1, <1>2 DEF Tokens
<1>4. \A t \in Tokens : t # issued' => tokens'[t] = tokens[t]
  BY <1>1, <1>2
<1>5. \A t \in Tokens : t <= issued /\ tokens'[t] # None => Kept(t)
  BY <1>1, <1>2, <1>4 DEF Kept, Tokens
<1>6. ASSUME NEW u \in Tokens, u > issued, tokens'[u] # None PROVE NewRow(u)
  <2>1. u = issued'
    BY <1>1, <1>2, <1>4, <1>6 DEF Tokens
  <2>2. tokens'[u].family = u /\ ~tokens'[u].revoked
    BY <1>3, <2>1 DEF NewToken
  <2>3. ASSUME NEW t \in Tokens, t < u, tokens'[t] # None PROVE tokens'[t].family # u
    <3>1. tokens'[t] = tokens[t]
      BY <1>4, <2>1, <2>3 DEF Tokens
    <3> QED BY <1>1, <2>3, <3>1 DEF Tokens
  <2> QED BY <2>1, <2>2, <2>3 DEF NewRow
<1>7. ASSUME NEW t \in Tokens, NEW u \in Tokens, Behind(t, u), tokens'[u].revoked
      PROVE  tokens'[t].revoked
  <2>1. t # issued' /\ u # issued'
    BY <1>1, <1>2, <1>7 DEF Behind, Tokens
  <2>2. tokens[u].revoked
    BY <1>4, <1>7, <2>1
  <2>3. tokens[t].revoked
    BY <1>7, <2>2 DEF Behind, TokenInv, RevokedIsPrefix
  <2> QED BY <1>4, <2>1, <2>3
<1>8. ASSUME NEW s \in Requests, At(s, "rotate")
      PROVE  tokens'[req[s].token] = tokens[req[s].token]
  <2>1. req[s].token \in Tokens /\ tokens[req[s].token] # None
    BY <1>8 DEF At, TokenInv, TokenNamed, HeldTokens
  <2>2. req[s].token # issued'
    BY <1>1, <1>2, <2>1 DEF Tokens
  <2> QED BY <1>4, <2>1, <2>2
<1>9. issued <= issued'
  BY <1>1, <1>2
<1> QED BY <1>5, <1>6, <1>7, <1>8, <1>9 DEF RowsStep

LEMMA RowsRevoking ==
  ASSUME TokenInv, issued' = issued, NEW r \in Requests,
         pc[r] \in {"revoked", "commit"}, tokens' = Revoking(req[r].found),
         \A t \in req[r].found : ~TokenHeld(t)
  PROVE  RowsStep
<1> USE AccountsAssumption
<1> DEFINE found == req[r].found
<1>1. /\ issued \in 0..MaxTokens
      /\ \A t \in Tokens : tokens[t] # None => t <= issued
      /\ \A t \in Tokens : tokens[t] # None => tokens[t].revoked \in BOOLEAN
  BY DEF TokenInv, TypeOK, TokenRows
<1>2. /\ \A t \in Tokens : tokens[t] = None => tokens'[t] = None
      /\ \A t \in Tokens : t \notin found => tokens'[t] = tokens[t]
      /\ \A t \in Tokens : tokens[t] # None =>
           /\ tokens'[t].family = tokens[t].family
           /\ tokens'[t].used = tokens[t].used
           /\ tokens'[t].revoked = (tokens[t].revoked \/ t \in found)
  BY RevokingRows DEF TokenInv
<1>3. \A t, u \in Tokens : Behind(t, u) /\ u \in found => t \in found \/ tokens[t].revoked
  BY DEF TokenInv, FoundAllBehind
<1> HIDE DEF found
<1>4. \A t \in Tokens : tokens'[t] # None => Kept(t)
  BY <1>1, <1>2 DEF Kept
<1>5. \A u \in Tokens : u > issued => tokens'[u] = None
  BY <1>1, <1>2 DEF Tokens
<1>6. ASSUME NEW t \in Tokens, NEW u \in Tokens, Behind(t, u), tokens'[u].revoked
      PROVE  tokens'[t].revoked
  <2>1. tokens[u].revoked \/ u \in found
    BY <1>2, <1>6 DEF Behind
  <2>2. tokens[t].revoked \/ t \in found
    BY <1>3, <1>6, <2>1 DEF Behind, TokenInv, RevokedIsPrefix
  <2> QED BY <1>2, <1>6, <2>2 DEF Behind
<1>7. ASSUME NEW s \in Requests, At(s, "rotate")
      PROVE  tokens'[req[s].token] = tokens[req[s].token]
  <2>1. req[s].token \in Tokens /\ req[s].token \notin found
    BY <1>7 DEF found, At, TokenInv, TokenNamed, TokenHeld
  <2> QED BY <1>2, <2>1
<1>8. issued <= issued'
  BY <1>1
<1> QED BY <1>4, <1>5, <1>6, <1>7, <1>8 DEF RowsStep

LEMMA RowsGrace ==
  ASSUME TokenInv, NEW t \in Tokens, GracePasses(t)
  PROVE  RowsStep
<1> USE AccountsAssumption
<1>0. /\ issued' = issued /\ issued \in 0..MaxTokens
      /\ \A u \in Tokens : tokens[u] # None => u <= issued
  BY DEF TokenInv, TypeOK, GracePasses
<1>1. /\ tokens[t] \in TokenRows /\ tokens[t].used = "lately"
      /\ tokens' = [tokens EXCEPT ![t].used = "long ago"]
      /\ tokens \in [Tokens -> TokenRows \cup {None}]
  BY DEF TokenInv, TypeOK, GracePasses
<1>2. /\ \A u \in Tokens : u # t => tokens'[u] = tokens[u]
      /\ tokens'[t].family = tokens[t].family /\ tokens'[t].used = "long ago"
      /\ tokens'[t].revoked = tokens[t].revoked
  BY <1>1 DEF TokenRows
<1>3. tokens[t] # None
  BY DEF GracePasses
<1>4. \A u \in Tokens : tokens'[u] # None => Kept(u)
  BY <1>2, <1>3 DEF Kept
<1>5. ASSUME NEW u \in Tokens, u > issued PROVE tokens'[u] = None
  <2>1. tokens[u] = None
    BY <1>0, <1>5 DEF Tokens
  <2> QED BY <1>2, <1>3, <2>1
<1>6. ASSUME NEW v \in Tokens, NEW u \in Tokens, Behind(v, u), tokens'[u].revoked
      PROVE  tokens'[v].revoked
  <2>1. tokens[u].revoked
    BY <1>2, <1>6
  <2>2. tokens[v].revoked
    BY <1>6, <2>1 DEF Behind, TokenInv, RevokedIsPrefix
  <2> QED BY <1>2, <2>2
<1>7. ASSUME NEW s \in Requests, At(s, "rotate")
      PROVE  tokens'[req[s].token] = tokens[req[s].token]
  <2>1. req[s].token \in Tokens /\ req[s].token # t
    BY <1>1, <1>7 DEF At, TokenInv, TokenNamed, HeldTokens
  <2> QED BY <1>2, <2>1
<1>8. issued <= issued'
  BY <1>0
<1> QED BY <1>4, <1>5, <1>6, <1>7, <1>8 DEF RowsStep

LEMMA RowsNext == TokenInv /\ [Next]_vars => RowsStep
<1> SUFFICES ASSUME TokenInv, [Next]_vars PROVE RowsStep
  OBVIOUS
<1>1. CASE UNCHANGED <<tokens, issued>>
  BY <1>1, RowsGo
<1>2. ASSUME NEW r \in Requests, RefreshStep(r) PROVE RowsStep
  BY <1>1, <1>2, RowsRotate DEF RefreshStep, Refresh, ConsumeRefresh, FindRefresh
<1>3. ASSUME NEW r \in Requests, RevokeStep(r) PROVE RowsStep
  <2>1. CASE Revoked(r)
    BY <2>1, RowsRevoking DEF Revoked, At
  <2> QED BY <1>1, <1>3, <2>1 DEF RevokeStep, RevokeFamily, RevokeFamilyOf
<1>4. ASSUME NEW r \in Requests, ResetStep(r) PROVE RowsStep
  <2>1. CASE Committed(r)
    BY <2>1, RowsRevoking DEF Committed, At
  <2> QED BY <1>1, <1>4, <2>1 DEF ResetStep, ConsumePasswordReset, UpdatePassword,
         FindPasswordResets, InvalidatePasswordResets, RevokeAllForUser
<1>5. ASSUME NEW r \in Requests, Fails(r) PROVE RowsStep
  BY <1>1, <1>5 DEF Fails
<1>6. CASE Login
  BY <1>6, RowsLogin
<1>7. CASE Delete
  <2>1. \A t \in Tokens : tokens'[t] = None /\ ~TokenHeld(t)
    BY <1>7 DEF Delete
  <2> QED BY <1>7, <2>1, RowsGo DEF Delete
<1>8. ASSUME NEW t \in Tokens, GracePasses(t) PROVE RowsStep
  BY <1>8, RowsGrace
<1>9. ASSUME NEW t \in Tokens, Expires(t) PROVE RowsStep
  <2>1. /\ \A u \in Tokens : tokens'[u] \in {tokens[u], None}
        /\ \A u \in Tokens : TokenHeld(u) => tokens'[u] = tokens[u]
    BY <1>9 DEF Expires, TokenInv, TypeOK
  <2> QED BY <1>9, <2>1, RowsGo DEF Expires
<1>10. CASE CreatePasswordReset \/ \E l \in Links : LinkExpires(l)
  BY <1>1, <1>10 DEF CreatePasswordReset, LinkExpires
<1>11. CASE UNCHANGED vars
  BY <1>1, <1>11 DEF vars
<1> QED BY <1>2, <1>3, <1>4, <1>5, <1>6, <1>7, <1>8, <1>9, <1>10, <1>11 DEF Next

-----------------------------------------------------------------------------
(* The tokens' invariant is kept *)

\* A step of a request is a step of nobody else.
OnlyOf(r) == \A s \in Requests : s # r => pc'[s] = pc[s] /\ req'[s] = req[s]

LEMMA OnlyOne ==
  ASSUME TypeOK, NEW r \in Requests, RefreshStep(r) \/ RevokeStep(r) \/ ResetStep(r) \/ Fails(r)
  PROVE  OnlyOf(r)
<1> USE DEF OnlyOf, TypeOK
<1>1. CASE RefreshStep(r)
  BY <1>1 DEF RefreshStep, Refresh, ConsumeRefresh, Rotate, FindRefresh, Go, Return
<1>2. CASE RevokeStep(r)
  BY <1>2 DEF RevokeStep, RevokeFamily, RevokeFamilyOf, Revoked, Go, Return
<1>3. CASE ResetStep(r)
  BY <1>3 DEF ResetStep, ConsumePasswordReset, UpdatePassword, FindPasswordResets,
       InvalidatePasswordResets, RevokeAllForUser, Committed, Go, Return
<1>4. CASE Fails(r)
  BY <1>4 DEF Fails, Return, Go
<1> QED BY <1>1, <1>2, <1>3, <1>4

\* A step without a request leaves them all alone.
LEMMA NextOf ==
  ASSUME TypeOK, [Next]_vars
  PROVE  \/ UNCHANGED <<pc, req>>
         \/ \E r \in Requests : /\ RefreshStep(r) \/ RevokeStep(r) \/ ResetStep(r) \/ Fails(r)
                               /\ OnlyOf(r)
BY OnlyOne DEF Next, Login, Delete, CreatePasswordReset, GracePasses, Expires, LinkExpires, vars

LEMMA RotationKept == TokenInv /\ [Next]_vars => RotationIsAChain' /\ RevokedIsPrefix'
<1> SUFFICES ASSUME TokenInv, [Next]_vars PROVE RotationIsAChain' /\ RevokedIsPrefix'
  OBVIOUS
<1>1. RowsStep /\ issued \in Int
  BY RowsNext DEF TokenInv, TypeOK
<1> SUFFICES ASSUME NEW t \in Tokens, NEW u \in Tokens, Behind(t, u)'
             PROVE  /\ tokens'[t].used # "no"
                    /\ tokens'[u].revoked => tokens'[t].revoked
  BY DEF RotationIsAChain, RevokedIsPrefix, Behind
<1>2. t < u /\ tokens'[t] # None /\ tokens'[u] # None /\ tokens'[t].family = tokens'[u].family
  BY DEF Behind
<1>3. CASE u > issued
  <2>1. NewRow(u)
    BY <1>1, <1>2, <1>3 DEF RowsStep
  <2> QED BY <1>2, <2>1 DEF NewRow
<1>4. CASE ~(u > issued)
  <2>1. t <= issued /\ u <= issued
    BY <1>1, <1>2, <1>4 DEF Tokens
  <2>2. Kept(t) /\ Kept(u)
    BY <1>1, <1>2, <2>1 DEF RowsStep
  <2>3. Behind(t, u)
    BY <1>2, <2>2 DEF Kept, Behind
  <2>4. tokens'[t].used # "no"
    BY <2>2, <2>3 DEF Kept, Behind, TokenInv, RotationIsAChain
  <2>5. tokens'[u].revoked => tokens'[t].revoked
    BY <1>1, <1>2, <2>3 DEF RowsStep
  <2> QED BY <2>4, <2>5
<1> QED BY <1>3, <1>4

LEMMA HeldKept == TokenInv /\ [Next]_vars => TokenNamed' /\ HeldTokens' /\ OneHolder'
<1> SUFFICES ASSUME TokenInv, [Next]_vars PROVE TokenNamed' /\ HeldTokens' /\ OneHolder'
  OBVIOUS
<1>1. RowsStep /\ TypeOK
  BY RowsNext DEF TokenInv
<1>2. CASE UNCHANGED <<pc, req>>
  BY <1>1, <1>2 DEF TokenInv, TokenNamed, HeldTokens, OneHolder, RowsStep, At
<1>3. ASSUME NEW r \in Requests, OnlyOf(r),
             pc'[r] \notin {"consume", "rotate", "find"}
      PROVE  TokenNamed' /\ HeldTokens' /\ OneHolder'
  BY <1>1, <1>3 DEF TokenInv, TokenNamed, HeldTokens, OneHolder, RowsStep, OnlyOf, At
<1>4. ASSUME NEW r \in Requests, OnlyOf(r), NEW t \in 1..issued, Refresh(r, t)
      PROVE  TokenNamed' /\ HeldTokens' /\ OneHolder'
  <2>1. t \in Tokens
    BY <1>1, AccountsAssumption DEF TypeOK, Tokens
  <2>2. pc'[r] = "consume" /\ req'[r].token = t
    BY <1>1, <1>4 DEF Refresh, Go, TypeOK, NoRequest
  <2> QED BY <1>1, <1>4, <2>1, <2>2
            DEF TokenInv, TokenNamed, HeldTokens, OneHolder, RowsStep, OnlyOf, At
<1>5. ASSUME NEW r \in Requests, OnlyOf(r), ConsumeRefresh(r)
      PROVE  TokenNamed' /\ HeldTokens' /\ OneHolder'
  <2>1. /\ UNCHANGED <<tokens, req>> /\ req[r].token \in Tokens
        /\ pc'[r] = IF Consumable(r) THEN "rotate" ELSE "find"
        /\ \A s \in Requests : At(s, "rotate") => req[s].token # req[r].token
    BY <1>1, <1>5 DEF ConsumeRefresh, Go, At, TypeOK, TokenInv, TokenNamed, TokenHeld
  <2>2. TokenNamed'
    BY <1>5, <2>1 DEF TokenInv, TokenNamed, OnlyOf
  <2>3. HeldTokens'
    BY <1>5, <2>1 DEF TokenInv, HeldTokens, OnlyOf, At, Consumable
  <2>4. OneHolder'
    BY <1>5, <2>1 DEF TokenInv, OneHolder, OnlyOf, At
  <2> QED BY <2>2, <2>3, <2>4
<1>6. ASSUME NEW r \in Requests, OnlyOf(r),
             RefreshStep(r) \/ RevokeStep(r) \/ ResetStep(r) \/ Fails(r)
      PROVE  \/ pc'[r] \notin {"consume", "rotate", "find"}
             \/ ConsumeRefresh(r) \/ \E t \in 1..issued : Refresh(r, t)
  <2>1. CASE RefreshStep(r)
    BY <1>1, <2>1 DEF RefreshStep, Rotate, FindRefresh, Go, Return, TypeOK
  <2>2. CASE RevokeStep(r)
    BY <1>1, <2>2 DEF RevokeStep, RevokeFamily, RevokeFamilyOf, Revoked, Go, Return, TypeOK
  <2>3. CASE ResetStep(r)
    BY <1>1, <2>3 DEF ResetStep, ConsumePasswordReset, UpdatePassword, FindPasswordResets,
         InvalidatePasswordResets, RevokeAllForUser, Committed, Go, Return, TypeOK
  <2>4. CASE Fails(r)
    BY <1>1, <2>4 DEF Fails, Go, Return, TypeOK
  <2> QED BY <1>6, <2>1, <2>2, <2>3, <2>4
<1> QED BY <1>1, <1>2, <1>3, <1>4, <1>5, <1>6, NextOf

LEMMA FoundKept == TokenInv /\ [Next]_vars => FoundAllBehind'
<1> SUFFICES ASSUME TokenInv, [Next]_vars PROVE FoundAllBehind'
  OBVIOUS
<1>1. RowsStep /\ TypeOK
  BY RowsNext DEF TokenInv
<1> DEFINE All(found) ==
      /\ found \subseteq 1..issued
      /\ \A t \in Tokens, u \in found : Behind(t, u) => t \in found \/ tokens[t].revoked
    Later(found) ==
      /\ found \subseteq 1..issued'
      /\ \A t \in Tokens, u \in found : Behind(t, u)' => t \in found \/ tokens'[t].revoked
<1>2. ASSUME NEW found \in SUBSET Tokens, All(found) PROVE Later(found)
  <2>1. issued \in Int /\ issued' \in Int /\ issued <= issued'
    BY <1>1, AccountsTypes DEF RowsStep, TypeOK
  <2>2. found \subseteq 1..issued'
    BY <1>2, <2>1
  <2>3. ASSUME NEW t \in Tokens, NEW u \in found, Behind(t, u)'
        PROVE  t \in found \/ tokens'[t].revoked
    <3>1. t <= issued /\ u <= issued /\ u \in Tokens
      BY <1>2, <2>1, <2>3 DEF Behind, Tokens
    <3>2. Kept(t) /\ Kept(u)
      BY <1>1, <2>3, <3>1 DEF RowsStep, Behind
    <3>3. Behind(t, u)
      BY <2>3, <3>2 DEF Behind, Kept
    <3> QED BY <1>2, <3>2, <3>3 DEF Kept
  <2> QED BY <2>2, <2>3
<1>3. ASSUME NEW s \in Requests, pc[s] \in {"revoked", "commit"}, req'[s] = req[s]
      PROVE  Later(req'[s].found)
  <2>1. All(req[s].found) /\ req[s].found \in SUBSET Tokens
    BY <1>1, <1>3 DEF TokenInv, FoundAllBehind, TypeOK, Known
  <2> QED BY <1>2, <1>3, <2>1
<1>4. ASSUME NEW family PROVE All(Unrevoked(family))
  <2>1. \A t \in Tokens : tokens[t] # None => t <= issued
    BY <1>1 DEF TypeOK
  <2>2. Unrevoked(family) \subseteq 1..issued
    BY <1>1, <2>1 DEF Unrevoked, Tokens, TypeOK
  <2> QED BY <2>2 DEF Unrevoked, Behind
<1>5. ASSUME NEW r \in Requests, OnlyOf(r),
             RefreshStep(r) \/ RevokeStep(r) \/ ResetStep(r) \/ Fails(r),
             pc'[r] \in {"revoked", "commit"}
      PROVE  Later(req'[r].found)
  <2>1. CASE RevokeFamily(r) \/ RevokeAllForUser(r) \/ \E t \in 1..issued : RevokeFamilyOf(r, t)
    <3>1. \/ \E family : req'[r].found = Unrevoked(family)
          \/ req'[r].found = {}
      <4>1. req[r] \in Known /\ req \in [Requests -> Known]
        BY <1>1 DEF TypeOK
      <4>2. \A found : [req[r] EXCEPT !.found = found].found = found
        BY <4>1 DEF Known
      <4>3. \A found : req' = [req EXCEPT ![r].found = found] => req'[r].found = found
        BY <4>1, <4>2
      <4> QED BY <2>1, <4>3 DEF RevokeFamily, RevokeAllForUser, RevokeFamilyOf
    <3>2. req'[r].found \in SUBSET Tokens /\ All(req'[r].found)
      BY <1>4, <3>1, SMTT(60) DEF Unrevoked
    <3> QED BY <1>2, <3>2
  <2>2. CASE ~(RevokeFamily(r) \/ RevokeAllForUser(r) \/ \E t \in 1..issued : RevokeFamilyOf(r, t))
    BY <1>1, <1>5, <2>2 DEF RefreshStep, Refresh, ConsumeRefresh, Rotate, FindRefresh,
         RevokeStep, Revoked, ResetStep, ConsumePasswordReset, UpdatePassword,
         FindPasswordResets, InvalidatePasswordResets, Committed, Fails, Go, Return, TypeOK
  <2> QED BY <2>1, <2>2
<1>6. ASSUME NEW s \in Requests, pc'[s] \in {"revoked", "commit"} PROVE Later(req'[s].found)
  <2>1. CASE UNCHANGED <<pc, req>>
    BY <1>3, <1>6, <2>1
  <2>2. ASSUME NEW r \in Requests, OnlyOf(r),
               RefreshStep(r) \/ RevokeStep(r) \/ ResetStep(r) \/ Fails(r)
        PROVE  Later(req'[s].found)
    BY <1>3, <1>5, <1>6, <2>2 DEF OnlyOf
  <2> QED BY <1>1, <2>1, <2>2, NextOf
<1> QED BY <1>6 DEF FoundAllBehind

THEOREM TokenInvariant == Spec => []TokenInv
<1>1. Init => TokenInv
  BY AccountsInit
<1>2. TokenInv /\ [Next]_vars => TokenInv'
  BY AccountsTypes, RotationKept, HeldKept, FoundKept DEF TokenInv
<1> QED BY <1>1, <1>2, PTL DEF Spec

\* Every state has the shapes of TypeOK.
THEOREM AccountsTypeOK == Spec => []TypeOK
<1>1. TokenInv => TypeOK
  BY DEF TokenInv
<1> QED BY <1>1, TokenInvariant, PTL

\* ConsumeRefresh and Rotate keep a family a chain: of its tokens only the last
\* was not rotated, whoever presents which of them at the same time.
THEOREM RotationStaysAChain == Spec => []RotationIsAChain
<1>1. TokenInv => RotationIsAChain
  BY DEF TokenInv
<1> QED BY <1>1, TokenInvariant, PTL

\* A statement that revokes finds its rows and changes them later; no older token
\* of a family escapes it in between.
THEOREM RevokingMissesNoOlder == Spec => []RevokedIsPrefix
<1>1. TokenInv => RevokedIsPrefix
  BY DEF TokenInv
<1> QED BY <1>1, TokenInvariant, PTL

-----------------------------------------------------------------------------
(* Reset links *)

\* What every step but a commit does to the links: a new one has the next number.
LinksKept ==
  \A l \in Links : /\ links'[l] = "usable" => links[l] = "usable" \/ l > mailed
                   /\ links'[l] = "used" => links[l] = "used"

LEMMA LinksNext ==
  ASSUME TypeOK, [Next]_vars
  PROVE  /\ mailed \in Int /\ mailed' \in Int /\ mailed <= mailed'
         /\ LinksKept \/ \E r \in Requests : Committed(r)
<1> USE AccountsAssumption DEF TypeOK
<1>1. CASE UNCHANGED <<links, mailed>>
  BY <1>1 DEF LinksKept
<1>2. CASE CreatePasswordReset
  BY <1>2 DEF CreatePasswordReset, LinksKept, Links
<1>3. CASE Delete \/ \E l \in Links : LinkExpires(l)
  BY <1>3 DEF Delete, LinkExpires, LinksKept
<1>4. ASSUME NEW r \in Requests, RefreshStep(r) \/ RevokeStep(r) \/ ResetStep(r) \/ Fails(r)
      PROVE  Committed(r) \/ UNCHANGED <<links, mailed>>
  BY <1>4 DEF RefreshStep, Refresh, ConsumeRefresh, Rotate, FindRefresh, RevokeStep,
       RevokeFamily, RevokeFamilyOf, Revoked, ResetStep, ConsumePasswordReset, UpdatePassword,
       FindPasswordResets, InvalidatePasswordResets, RevokeAllForUser, Fails
<1>5. CASE \E r \in Requests : Committed(r)
  BY <1>5 DEF Committed
<1>6. CASE Login \/ \E t \in Tokens : GracePasses(t) \/ Expires(t)
  BY <1>1, <1>6 DEF Login, GracePasses, Expires
<1> QED BY <1>1, <1>2, <1>3, <1>4, <1>5, <1>6 DEF Next, vars

\* A commit marks the links the transaction found, and no other.
LEMMA CommittedLinks ==
  ASSUME TypeOK, NEW r \in Requests, Committed(r), NEW l \in Links
  PROVE  /\ links'[l] = "usable" =>
              links[l] = "usable" /\ l \notin req[r].others /\ l # req[r].link
         /\ links'[l] = "used" =>
              links[l] = "used" \/ l \in req[r].others \/ l = req[r].link
BY AccountsAssumption DEF Committed, TypeOK

\* What a request's step does to its own place in a reset.
Moves(r) ==
  \/ ~InReset(r)'
  \/ \E l \in 1..mailed : ConsumePasswordReset(r, l)
  \/ UpdatePassword(r) \/ FindPasswordResets(r) \/ InvalidatePasswordResets(r)
  \/ RevokeAllForUser(r)

LEMMA ResetMoves ==
  ASSUME TypeOK, NEW r \in Requests,
         RefreshStep(r) \/ RevokeStep(r) \/ ResetStep(r) \/ Fails(r)
  PROVE  Moves(r)
<1> USE DEF TypeOK, Moves, InReset, HoldsUser, At, Go, Return
<1>1. CASE RefreshStep(r)
  BY <1>1 DEF RefreshStep, Refresh, ConsumeRefresh, Rotate, FindRefresh
<1>2. CASE RevokeStep(r)
  BY <1>2 DEF RevokeStep, RevokeFamily, RevokeFamilyOf, Revoked
<1>3. CASE ResetStep(r)
  BY <1>3 DEF ResetStep, Committed
<1>4. CASE Fails(r)
  BY <1>4 DEF Fails
<1> QED BY <1>1, <1>2, <1>3, <1>4, ZenonT(60)

\* The same step by step: where it comes from, and what it now knows.
LEMMA ResetKnows ==
  ASSUME TypeOK, NEW r \in Requests, Moves(r), InReset(r)'
  PROVE  \/ /\ pc'[r] = "hash" /\ req'[r].link \in 1..mailed
            /\ links[req'[r].link] = "usable" /\ ~LinkHeld(req'[r].link)
            /\ UNCHANGED links
         \/ /\ At(r, "hash") /\ pc'[r] = "links" /\ ~UserHeld
            /\ UNCHANGED links /\ req'[r].link = req[r].link
         \/ /\ At(r, "links") /\ pc'[r] = "invalidate" /\ req'[r].link = req[r].link
            /\ req'[r].others = {l \in Links \ {req[r].link} : links[l] = "usable"}
            /\ UNCHANGED links
         \/ /\ At(r, "invalidate") /\ pc'[r] = "sign out"
            /\ req'[r].link = req[r].link /\ req'[r].others = req[r].others
            /\ \A l \in req[r].others : ~LinkHeld(l)
            /\ UNCHANGED links
         \/ /\ At(r, "sign out") /\ pc'[r] = "commit"
            /\ req'[r].link = req[r].link /\ req'[r].others = req[r].others
            /\ UNCHANGED links
<1> USE DEF Go, At
<1>0. req[r] \in Known /\ pc \in [Requests -> Places] /\ req \in [Requests -> Known]
  BY DEF TypeOK
<1>1. ASSUME NEW l \in 1..mailed, ConsumePasswordReset(r, l)
      PROVE  /\ pc'[r] = "hash" /\ req'[r].link = l
             /\ links[l] = "usable" /\ ~LinkHeld(l) /\ UNCHANGED links
  BY <1>0, <1>1 DEF ConsumePasswordReset, NoRequest
<1>2. CASE UpdatePassword(r)
  BY <1>0, <1>2 DEF UpdatePassword
<1>3. CASE FindPasswordResets(r)
  BY <1>0, <1>3 DEF FindPasswordResets, Known
<1>4. CASE InvalidatePasswordResets(r)
  BY <1>0, <1>4 DEF InvalidatePasswordResets
<1>5. CASE RevokeAllForUser(r)
  BY <1>0, <1>5 DEF RevokeAllForUser, Known
<1> QED BY <1>1, <1>2, <1>3, <1>4, <1>5 DEF Moves

\* What a link is held for.
LEMMA Holding ==
  ASSUME NEW r \in Requests
  PROVE  /\ InReset(r) => LinkHeld(req[r].link)
         /\ pc[r] \in {"sign out", "commit"} =>
              InReset(r) /\ HoldsUser(r) /\ \A l \in req[r].others : LinkHeld(l)
         /\ HoldsUser(r) => InReset(r) /\ UserHeld
BY DEF InReset, HoldsUser, UserHeld, LinkHeld, HoldsLink, At

\* The numbers of links, in one place.
LEMMA Numbers ==
  ASSUME LinkInv, [Next]_vars
  PROVE  /\ 1..mailed \subseteq 1..mailed' /\ 1..mailed \subseteq Links /\ Links \subseteq Int
         /\ \A k \in 1..mailed : ~(k > mailed)
         /\ \A k \in 1..mailed, l \in Links : l < k => ~(l > mailed)
<1>1. mailed \in 0..MaxLinks /\ mailed \in Int /\ mailed' \in Int /\ mailed <= mailed'
  BY LinksNext DEF LinkInv, TypeOK
<1>2. MaxLinks \in Int
  BY AccountsAssumption
<1> QED BY <1>1, <1>2 DEF Links

LEMMA LinkInvUnmoved ==
  ASSUME LinkInv, [Next]_vars, UNCHANGED <<pc, req>>
  PROVE  LinkNamed' /\ OneUser' /\ LinksApart' /\ OlderFound'
<1>1. /\ mailed \in Int /\ mailed' \in Int /\ mailed <= mailed'
      /\ mailed \in 0..MaxLinks /\ TypeOK
  BY LinksNext DEF LinkInv, TypeOK
<1>2. LinksKept
  <2>1. ~ \E r \in Requests : Committed(r)
    BY <1>1 DEF Committed, Return, Go, At, TypeOK
  <2> QED BY <1>1, <2>1, LinksNext
<1>3. \A r \in Requests : InReset(r) => req[r].link \in 1..mailed /\ req[r].link \in Links
  BY <1>1, AccountsAssumption DEF LinkInv, LinkNamed, Links
<1>4. LinkNamed'
  BY <1>3, Numbers DEF LinkNamed, InReset, HoldsUser, At
<1>5. OneUser'
  BY DEF LinkInv, OneUser, HoldsUser
<1>6. LinksApart'
  BY <1>2, <1>3 DEF LinkInv, LinksApart, LinksKept, InReset, HoldsUser, At
<1>7. OlderFound'
  <2>1. ASSUME NEW r \in Requests, pc[r] \in {"invalidate", "sign out", "commit"},
               NEW l \in Links, l < req[r].link, links'[l] = "usable"
        PROVE  l \in req[r].others
    <3>1. links[l] = "usable"
      BY <1>2, <1>3, <2>1, Numbers DEF LinksKept, InReset, HoldsUser
    <3> QED BY <2>1, <3>1 DEF LinkInv, OlderFound
  <2> QED BY <2>1 DEF OlderFound
<1> QED BY <1>4, <1>5, <1>6, <1>7

LEMMA LinkInvMoved ==
  ASSUME LinkInv, [Next]_vars, NEW r \in Requests, OnlyOf(r), Moves(r)
  PROVE  LinkNamed' /\ OneUser' /\ LinksApart' /\ OlderFound'
<1>1. /\ mailed \in Int /\ mailed' \in Int /\ mailed <= mailed'
      /\ mailed \in 0..MaxLinks /\ TypeOK
  BY LinksNext DEF LinkInv, TypeOK
<1>2. \A s \in Requests : InReset(s) => req[s].link \in 1..mailed /\ req[s].link \in Links
  BY <1>1, AccountsAssumption DEF LinkInv, LinkNamed, Links
<1>3. \/ LinksKept
      \/ Committed(r) /\ At(r, "commit") /\ ~InReset(r)'
  <2>1. ASSUME NEW s \in Requests, Committed(s)
        PROVE  s = r /\ At(s, "commit") /\ ~InReset(s)'
    BY <1>1, <2>1 DEF Committed, Return, Go, At, TypeOK, OnlyOf, InReset, HoldsUser
  <2> QED BY <1>1, <2>1, LinksNext
<1>4. \A s \in Requests : s # r => /\ InReset(s)' = InReset(s) /\ HoldsUser(s)' = HoldsUser(s)
                                   /\ pc'[s] = pc[s] /\ req'[s] = req[s]
  BY DEF OnlyOf, InReset, HoldsUser, At
\* The one that moves, as far as it is in a reset afterwards.
<1>5. ASSUME InReset(r)'
      PROVE  /\ LinksKept /\ req'[r].link \in 1..mailed
             /\ links'[req'[r].link] # "used"
             /\ HoldsUser(r)' => HoldsUser(r) \/ ~UserHeld
             /\ \/ InReset(r) /\ req'[r].link = req[r].link
                \/ ~LinkHeld(req'[r].link)
             /\ pc'[r] \in {"sign out", "commit"} =>
                  /\ InReset(r) /\ req'[r].others = req[r].others
                  /\ pc[r] \in {"sign out", "commit"}
                       \/ \A l \in req[r].others : ~LinkHeld(l)
  BY <1>1, <1>2, <1>3, <1>5, ResetKnows, ZenonT(120)
     DEF LinkInv, LinksApart, InReset, HoldsUser, At, LinksKept
<1>6. LinkNamed'
  BY <1>2, <1>4, <1>5, Numbers DEF LinkNamed
<1>7. OneUser'
  <2>1. \A s, t \in Requests : HoldsUser(s)' /\ HoldsUser(t)' /\ t # r => s = t
    BY <1>4, <1>5, Holding DEF LinkInv, OneUser, InReset
  <2> QED BY <2>1 DEF OneUser
<1>8. LinksApart'
  <2>1. ASSUME NEW s \in Requests, InReset(s)' PROVE links'[req'[s].link] # "used"
    <3>1. CASE s = r
      BY <1>5, <2>1, <3>1
    <3>2. CASE s # r
      <4>1. InReset(s) /\ req'[s] = req[s] /\ req[s].link \in Links
        BY <1>2, <1>4, <2>1, <3>2
      <4>2. links[req[s].link] # "used"
        BY <4>1 DEF LinkInv, LinksApart
      <4>3. CASE LinksKept
        BY <4>1, <4>2, <4>3 DEF LinksKept
      <4>4. CASE Committed(r) /\ At(r, "commit")
        <5>1. req[s].link # req[r].link /\ req[s].link \notin req[r].others
          BY <3>2, <4>1, <4>4, Holding DEF LinkInv, LinksApart, At
        <5> QED BY <1>1, <4>1, <4>2, <4>4, <5>1, CommittedLinks
      <4> QED BY <1>3, <4>3, <4>4
    <3> QED BY <3>1, <3>2
  <2>2. ASSUME NEW s \in Requests, NEW t \in Requests, s # t, InReset(s)', InReset(t)'
        PROVE  /\ req'[s].link # req'[t].link
               /\ pc'[t] \in {"sign out", "commit"} => req'[s].link \notin req'[t].others
    <3>1. CASE s # r /\ t # r
      BY <1>4, <2>2, <3>1, ZenonT(60) DEF LinkInv, LinksApart
    <3>2. CASE s = r
      <4>1. InReset(t) /\ req'[t] = req[t] /\ pc'[t] = pc[t]
        BY <1>4, <2>2, <3>2
      <4>2. CASE InReset(r) /\ req'[r].link = req[r].link
        BY <2>2, <3>2, <4>1, <4>2 DEF LinkInv, LinksApart
      <4>3. CASE ~LinkHeld(req'[r].link)
        BY <3>2, <4>1, <4>3, Holding
      <4> QED BY <1>5, <2>2, <3>2, <4>2, <4>3
    <3>3. CASE t = r
      <4>1. InReset(s) /\ req'[s] = req[s]
        BY <1>4, <2>2, <3>3
      <4>2. req'[s].link # req'[r].link
        BY <1>5, <2>2, <3>3, <4>1, Holding DEF LinkInv, LinksApart
      <4>3. pc'[r] \in {"sign out", "commit"} => req'[s].link \notin req'[r].others
        BY <1>5, <2>2, <3>3, <4>1, Holding DEF LinkInv, LinksApart
      <4> QED BY <3>3, <4>2, <4>3
    <3> QED BY <3>1, <3>2, <3>3
  <2> QED BY <2>1, <2>2 DEF LinksApart
<1>9. OlderFound'
  <2>1. ASSUME NEW s \in Requests, pc'[s] \in {"invalidate", "sign out", "commit"},
               NEW l \in Links, l < req'[s].link, links'[l] = "usable"
        PROVE  l \in req'[s].others
    <3>1. InReset(s)'
      BY <2>1 DEF InReset, HoldsUser
    <3>2. req'[s].link \in 1..mailed
      BY <1>2, <1>4, <1>5, <3>1
    <3>3. links[l] = "usable"
      <4>1. LinksKept => links[l] = "usable"
        BY <2>1, <3>2, Numbers DEF LinksKept
      <4>2. Committed(r) => links[l] = "usable"
        BY <1>1, <2>1, CommittedLinks
      <4> QED BY <1>3, <4>1, <4>2
    <3>4. CASE s # r
      BY <1>4, <2>1, <3>3, <3>4 DEF LinkInv, OlderFound
    <3>5. CASE s = r
      <4>1. CASE pc'[r] = "invalidate"
        <5>1. /\ req'[r].others = {k \in Links \ {req[r].link} : links[k] = "usable"}
              /\ req'[r].link = req[r].link
          BY <1>1, <3>1, <3>5, <4>1, ResetKnows DEF At
        <5>2. l # req'[r].link
          <6>1. \A k \in Int : ~(k < k)
            OBVIOUS
          <6> QED BY <2>1, <3>5, <6>1, Numbers
        <5> QED BY <2>1, <3>3, <3>5, <5>1, <5>2
      <4>2. CASE pc'[r] \in {"sign out", "commit"}
        <5>1. /\ pc[r] \in {"invalidate", "sign out"}
              /\ req'[r].link = req[r].link /\ req'[r].others = req[r].others
          BY <1>1, <3>1, <3>5, <4>2, ResetKnows DEF At
        <5> QED BY <2>1, <3>3, <3>5, <5>1 DEF LinkInv, OlderFound
      <4> QED BY <2>1, <3>5, <4>1, <4>2
    <3> QED BY <3>4, <3>5
  <2> QED BY <2>1 DEF OlderFound
<1> QED BY <1>6, <1>7, <1>8, <1>9

THEOREM LinkInvariant == Spec => [](TokenInv /\ LinkInv)
<1>1. Init => TokenInv /\ LinkInv
  BY AccountsInit
<1>2. TokenInv /\ LinkInv /\ [Next]_vars => LinkInv'
  <2> SUFFICES ASSUME TokenInv, LinkInv, [Next]_vars PROVE LinkInv'
    OBVIOUS
  <2>1. TypeOK'
    BY AccountsTypes
  <2>2. LinkNamed' /\ OneUser' /\ LinksApart' /\ OlderFound'
    BY LinkInvUnmoved, LinkInvMoved, NextOf, ResetMoves DEF LinkInv
  <2> QED BY <2>1, <2>2 DEF LinkInv
<1> QED BY <1>1, <1>2, TokenInvariant, PTL DEF Spec

\* ResetPassword: when a link has changed the password, no link mailed before it
\* can, not even one that another request was using at the same time.
THEOREM ResetEndsOlder == Spec => ResetEndsOlderLinks
<1> DEFINE Ends == \A r \in Requests, l \in Links :
                     /\ At(r, "commit") /\ links'[req[r].link] = "used"
                     /\ l <= req[r].link
                     => links'[l] # "usable"
<1>1. LinkInv /\ [Next]_vars => Ends
  <2> SUFFICES ASSUME LinkInv, [Next]_vars, NEW r \in Requests, NEW l \in Links,
                      At(r, "commit"), links'[req[r].link] = "used", l <= req[r].link
               PROVE  links'[l] # "usable"
    OBVIOUS
  <2>1. InReset(r) /\ HoldsUser(r) /\ TypeOK
    BY DEF InReset, HoldsUser, At, LinkInv
  <2>2. req[r].link \in 1..mailed /\ req[r].link \in Links /\ links[req[r].link] # "used"
    BY <2>1, Numbers DEF LinkInv, LinkNamed, LinksApart
  <2>3. Committed(r)
    <3>1. PICK s \in Requests : Committed(s)
      BY <2>1, <2>2, LinksNext DEF LinksKept
    <3>2. HoldsUser(s)
      BY <3>1 DEF Committed, HoldsUser, At
    <3> QED BY <2>1, <3>1, <3>2 DEF LinkInv, OneUser
  <2>4. CASE l = req[r].link
    BY <2>1, <2>3, <2>4, CommittedLinks
  <2>5. CASE l < req[r].link
    BY <2>1, <2>3, <2>5, CommittedLinks DEF LinkInv, OlderFound, At
  <2> QED BY <2>2, <2>4, <2>5 DEF Links
<1>2. LinkInv /\ [Next]_vars => [Ends]_vars
  BY <1>1
<1> QED BY <1>2, LinkInvariant, PTL DEF Spec, ResetEndsOlderLinks
=============================================================================
