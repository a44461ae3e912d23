--------------------------------- MODULE Api ---------------------------------
(***************************************************************************)
(* The session requests of the REST API: the handlers                      *)
(* (httpapi/session_handlers.go), the use cases behind them                *)
(* (usecase/sessions.go) and their statements                              *)
(* (adapter/repository/sessions.go), under the limiter that new sessions   *)
(* and reconnect tickets share.                                            *)
(*                                                                         *)
(* Sessions are created while a learner reads the list page by page.  A    *)
(* session is stamped before its transaction commits, so that it may show  *)
(* later than a younger one; identifiers are random, and say nothing of    *)
(* the order.                                                              *)
(***************************************************************************)
EXTENDS Limiter, SequencesExt

CONSTANTS
  Asks,      \* requests to create a session
  Ids,       \* identifiers, which the statement orders
  PageSize,  \* sessions of a page
  Worlds     \* what a behaviour is drawn from: [users, who creates sessions, with the
             \* requests asks; tickets, who fetches tickets]

ASSUME ApiAssumption ==
  /\ PageSize \in Nat \ {0} /\ Ids \subseteq Nat
  /\ \A w \in Worlds : w.users \cup w.tickets \subseteq Keys /\ w.asks \subseteq Asks

VARIABLES
  row,    \* the committed sessions: [id, owner, at]
  ask,    \* each request to create: where it is, who asks, the stamp of the session
  list,   \* the listing: where it is, whose, the cursor, the sessions it saw, those there at its start
  world   \* who asks, and for what; it does not change

apiVars == <<row, ask, list, world>>
vars == <<limiterVars, apiVars>>

Init ==
  /\ LimiterInit
  /\ world \in Worlds
  /\ row = {}
  /\ ask = [a \in Asks |-> [pc |-> "out", user |-> {}, at |-> 0]]
  /\ list = [pc |-> "out", owner |-> {}, after |-> {}, seen |-> <<>>, base |-> {}]

-----------------------------------------------------------------------------
(* Create *)

\* handleCreateSession: the user's budget first.
Admit(a) ==
  /\ ask[a].pc = "out" /\ a \in world.asks
  /\ \E u \in world.users :
       /\ Use(u)
       /\ ask' = [ask EXCEPT ![a].pc = IF Allowed(u) THEN "valid" ELSE "refused", ![a].user = {u}]
  /\ UNCHANGED <<row, list, world>>

\* Sessions.Create: the input is checked and the user read, or it ends here; then
\* the session is stamped with the clock, inside its transaction.
Stamp(a) ==
  /\ ask[a].pc = "valid"
  /\ \/ ask' = [ask EXCEPT ![a].pc = "refused"]
     \/ ask' = [ask EXCEPT ![a].pc = "stamped", ![a].at = now]
  /\ UNCHANGED <<limiterVars, row, list, world>>

Unused == Ids \ {r.id : r \in row}

\* Sessions.Create of the repository: a new row for the asker, as old as its stamp.
Created(a, u, i) == row \cup {[id |-> i, owner |-> u, at |-> ask[a].at]}

\* The session and its ticket are inserted and commit together, or neither does.
Commit(a) ==
  /\ ask[a].pc = "stamped"
  /\ \/ ask' = [ask EXCEPT ![a].pc = "refused"] /\ UNCHANGED row
     \/ /\ ask' = [ask EXCEPT ![a].pc = "done"]
        /\ \E u \in ask[a].user, i \in Unused : row' = Created(a, u, i)
  /\ UNCHANGED <<limiterVars, list, world>>

\* handleSessionTicket: a reconnect ticket takes from the same budget.
NewTicket(u) == u \in world.tickets /\ Use(u) /\ UNCHANGED apiVars

-----------------------------------------------------------------------------
(* List *)

\* ORDER BY created_at DESC, id DESC.
Newer(r, s) == r.at > s.at \/ (r.at = s.at /\ r.id > s.id)

RowsAfter_ByTime(owner, after) == {r \in row : r.owner \in owner /\ \A c \in after : r.at < c.at}
\* The owner's sessions after the cursor: (created_at, id) < (the cursor's).
RowsAfter(owner, after) == {r \in row : r.owner \in owner /\ \A c \in after : Newer(c, r)}

\* A set of sessions in that order.
Ordered(S) == CHOOSE s \in SetToSeqs(S) : \A i, j \in 1..Len(s) : i < j => Newer(s[i], s[j])

FirstOf(s, n) == SubSeq(s, 1, IF Len(s) < n THEN Len(s) ELSE n)

\* Sessions.List: one more session than the page holds was fetched; if it is there,
\* the cursor is the page's last.
Page(items) ==
  [items |-> FirstOf(items, PageSize), next |-> IF Len(items) > PageSize THEN {items[PageSize]} ELSE {}]

\* A request for a page, and what the client keeps of it.
Show(owner, after, base) ==
  LET page == Page(FirstOf(Ordered(RowsAfter(owner, after)), PageSize + 1))
  IN  list' = [pc |-> IF page.next = {} THEN "done" ELSE "more", owner |-> owner, after |-> page.next,
               seen |-> list.seen \o page.items, base |-> base]

FirstPage ==
  /\ list.pc = "out"
  /\ \E u \in world.users : Show({u}, {}, {r \in row : r.owner = u})
  /\ UNCHANGED <<limiterVars, row, ask, world>>

NextPage ==
  /\ list.pc = "more" /\ Show(list.owner, list.after, list.base)
  /\ UNCHANGED <<limiterVars, row, ask, world>>

Clock == (Tick \/ (world.tickets # {} /\ Watch)) /\ UNCHANGED apiVars

Next == Clock \/ (\E a \in Asks : Admit(a) \/ Stamp(a) \/ Commit(a)) \/ (\E u \in Keys : NewTicket(u)) \/ FirstPage \/ NextPage

Spec == Init /\ [][Next]_vars

-----------------------------------------------------------------------------
(* Properties *)

\* The pages of a listing, which other requests run between, show every session that
\* was there at the first page once, and are in order throughout.
PagesAreComplete ==
  /\ \A i, j \in 1..Len(list.seen) : i < j => Newer(list.seen[i], list.seen[j])
  /\ list.pc = "done" => list.base \subseteq {list.seen[i] : i \in 1..Len(list.seen)}
=============================================================================
