----------------------------- MODULE Connections -----------------------------
(***************************************************************************)
(* The connections of one tutoring session over time: the hubs that admit  *)
(* them (hub.go, one per process), what a connection saves and how it ends *)
(* (session.go, finish), the persister that writes for it (persister.go),  *)
(* and the row of the session with its messages (repository/sessions.go),  *)
(* which the end request and the sweeper change too.                       *)
(*                                                                         *)
(* A database statement is one step, but for UpdateTutor: it reads the     *)
(* session without locking its row, so what it saw may be old when its     *)
(* write commits.                                                          *)
(***************************************************************************)
EXTENDS Integers, Sequences, FiniteSets

CONSTANTS
  Conns,      \* the connections clients open for the session, one after another or at once
  Procs,      \* the processes that host a hub
  MaxNo,      \* bound: turn numbers
  QueueCap,   \* the persister's queue (32 in the code)
  Attempts,   \* tries of one write (3 in the code)
  MinTurns,   \* turns a session needs to be summarized (MinTurnsForSummary)
  Faults      \* the sets of things that may happen in one behaviour: "db", "reply",
              \* "slow", "wait", "crash", "drain", "sweep", "end", "cut"

ASSUME ConnectionsAssumption ==
  /\ MaxNo \in Nat /\ MinTurns \in Nat
  /\ QueueCap \in Nat \ {0} /\ Attempts \in Nat \ {0}

VARIABLES
  db,         \* the session's row and its messages
  conn,       \* each connection: where it is, and what its actor knows
  wr,         \* each connection's persister
  live,       \* Hub.live: the registered connection of each process, if any
  draining,   \* Hub.draining
  req,        \* the learner's request to end the session over HTTP
  faults      \* what may happen in this behaviour; it does not change

vars == <<db, conn, wr, live, draining, req, faults>>

TurnNo == 1..MaxNo
NoOp == [k |-> "none", no |-> 0]
Op(k, n) == [k |-> k, no |-> n]

Init ==
  /\ db = [epoch |-> 0, status |-> "created", fresh |-> TRUE, rows |-> <<>>, submitted |-> 0]
  /\ conn = [c \in Conns |-> [pc |-> "out", proc |-> {}, old |-> {}, epoch |-> 0, base |-> 0, no |-> 0,
                              cut |-> FALSE, stop |-> {}, ends |-> FALSE, late |-> FALSE]]
  /\ wr = [c \in Conns |-> [q |-> <<>>, shut |-> FALSE, stopped |-> TRUE, op |-> NoOp, try |-> 0,
                            snap |-> FALSE, fenced |-> FALSE, touch |-> FALSE, failed |-> FALSE]]
  /\ live = [p \in Procs |-> {}]
  /\ draining = [p \in Procs |-> FALSE]
  /\ req = [pc |-> "none", proc |-> {}, turns |-> 0]
  /\ faults \in Faults

-----------------------------------------------------------------------------
(* The hub *)

\* The hub knows the connection's actor, so it can be told to stop.
Attached(c) == conn[c].pc \in {"run", "finish", "drain", "end", "leave"}
StopActor(f, c, cause) == [f EXCEPT ![c].stop = @ \cup {cause}]
Goto(c, pc) == conn' = [conn EXCEPT ![c].pc = pc]

\* The ticket is redeemed, which an ended session refuses.
Arrive(c, p) ==
  /\ conn[c].pc = "out" /\ ~draining[p] /\ db.status # "ended"
  /\ conn' = [conn EXCEPT ![c].pc = "register", ![c].proc = {p}]
  /\ UNCHANGED <<db, wr, live, draining, req, faults>>

Register(c) ==
  /\ conn[c].pc = "register"
  /\ \E p \in conn[c].proc :
       \/ draining[p] /\ Goto(c, "gone") /\ UNCHANGED live
       \/ /\ ~draining[p] /\ live[p] = {}
          /\ live' = [live EXCEPT ![p] = {c}]
          /\ Goto(c, "connect")
       \/ /\ ~draining[p]
          /\ \E d \in live[p] :
               LET w == [conn EXCEPT ![c].pc = "waiting", ![c].old = {d}]
               IN  conn' = IF Attached(d) THEN StopActor(w, d, "replaced") ELSE w
          /\ UNCHANGED live
  /\ UNCHANGED <<db, wr, draining, req, faults>>

WaitDone(c) ==
  /\ conn[c].pc = "waiting"
  /\ \A d \in conn[c].old : conn[d].pc = "gone"
  /\ Goto(c, "register")
  /\ UNCHANGED <<db, wr, live, draining, req, faults>>

WaitFails_OnceReplaced(c) ==
  /\ conn[c].pc = "waiting" /\ "wait" \in faults
  /\ \E d \in conn[c].old : conn[d].stop # {}
  /\ Goto(c, "gone")
  /\ UNCHANGED <<db, wr, live, draining, req, faults>>

\* replaceWait passes, or the client goes away.
WaitFails(c) ==
  /\ conn[c].pc = "waiting" /\ "wait" \in faults
  /\ Goto(c, "gone")
  /\ UNCHANGED <<db, wr, live, draining, req, faults>>

Connect_KeepsEpoch(c) ==
  /\ conn[c].pc = "connect" /\ db.status # "ended"
  /\ db' = [db EXCEPT !.epoch = 1, !.status = "active", !.fresh = TRUE]
  /\ conn' = [conn EXCEPT ![c].pc = "max", ![c].epoch = 1]
  /\ UNCHANGED <<wr, live, draining, req, faults>>

\* load: the epoch first, then what the last connection left.
Connect(c) ==
  /\ conn[c].pc = "connect"
  /\ IF db.status = "ended" THEN Goto(c, "leave") /\ UNCHANGED db
     ELSE /\ db' = [db EXCEPT !.epoch = @ + 1, !.status = "active", !.fresh = TRUE]
          /\ conn' = [conn EXCEPT ![c].pc = "max", ![c].epoch = db.epoch + 1]
  /\ UNCHANGED <<wr, live, draining, req, faults>>

MaxTurn(rows) == CHOOSE n \in {0} \cup DOMAIN rows : \A m \in DOMAIN rows : m <= n

LoadMax(c) ==
  /\ conn[c].pc = "max"
  /\ conn' = [conn EXCEPT ![c].pc = "history", ![c].base = MaxTurn(db.rows), ![c].no = MaxTurn(db.rows)]
  /\ UNCHANGED <<db, wr, live, draining, req, faults>>

\* The history is loaded, the actor is made and attached, and its persister starts.
LoadHistory(c) ==
  /\ conn[c].pc = "history"
  /\ Goto(c, "run")
  /\ wr' = [wr EXCEPT ![c].stopped = FALSE]
  /\ UNCHANGED <<db, live, draining, req, faults>>

LoadFails(c) ==
  /\ "db" \in faults /\ conn[c].pc \in {"connect", "max", "history"}
  /\ Goto(c, "leave")
  /\ UNCHANGED <<db, wr, live, draining, req, faults>>

\* Serve's deferred clean-up.
Leave(c) ==
  /\ conn[c].pc = "leave"
  /\ Goto(c, "gone")
  /\ live' = [p \in Procs |-> IF p \in conn[c].proc THEN {} ELSE live[p]]
  /\ UNCHANGED <<db, wr, draining, req, faults>>

HubDrain(p) ==
  /\ "drain" \in faults /\ ~draining[p]
  /\ draining' = [draining EXCEPT ![p] = TRUE]
  /\ conn' = [c \in Conns |-> IF c \in live[p] /\ Attached(c)
                              THEN [conn[c] EXCEPT !.stop = @ \cup {"shutdown"}] ELSE conn[c]]
  /\ UNCHANGED <<db, wr, live, req, faults>>

\* A process dies with its connections, and starts again.
Crash(p) ==
  /\ "crash" \in faults
  /\ \E c \in Conns : conn[c].proc = {p} /\ conn[c].pc \notin {"out", "gone"}
  /\ conn' = [c \in Conns |-> IF conn[c].proc = {p} /\ conn[c].pc # "out"
                              THEN [conn[c] EXCEPT !.pc = "gone", !.late = TRUE] ELSE conn[c]]
  /\ wr' = [c \in Conns |-> IF conn[c].proc = {p} /\ conn[c].pc # "out"
                            THEN [wr[c] EXCEPT !.q = <<>>, !.op = NoOp, !.stopped = TRUE] ELSE wr[c]]
  /\ live' = [live EXCEPT ![p] = {}]
  /\ draining' = [draining EXCEPT ![p] = FALSE]
  /\ UNCHANGED <<db, req, faults>>

-----------------------------------------------------------------------------
(* The connection's actor: what it gives its persister, and how it ends *)

\* TryEnqueue on the persister w.
HasRoom(w) == ~w.shut /\ Len(w.q) < QueueCap
Queued(w, op) == [w EXCEPT !.q = Append(@, op)]

\* finalize and enqueue: a turn is saved under the next number.  A full queue
\* ends the connection.
SaveTurn(c) ==
  /\ conn[c].pc = "run" /\ conn[c].no < MaxNo
  /\ LET a == [conn EXCEPT ![c].no = @ + 1, ![c].cut = FALSE] IN
     \/ /\ HasRoom(wr[c]) /\ conn' = a
        /\ wr' = [wr EXCEPT ![c] = Queued(@, Op("insert", conn[c].no + 1))]
     \/ /\ ~HasRoom(wr[c]) /\ conn' = [a EXCEPT ![c].pc = "finish"]
        /\ wr' = [wr EXCEPT ![c].failed = TRUE]
  /\ UNCHANGED <<db, live, draining, req, faults>>

\* lateBargeIn: the reply saved last is cut, once.
CutLast(c) ==
  /\ "cut" \in faults /\ conn[c].pc = "run" /\ conn[c].no > conn[c].base /\ ~conn[c].cut
  /\ LET a == [conn EXCEPT ![c].cut = TRUE] IN
     \/ /\ HasRoom(wr[c]) /\ conn' = a
        /\ wr' = [wr EXCEPT ![c] = Queued(@, Op("update", conn[c].no))]
     \/ /\ ~HasRoom(wr[c]) /\ conn' = [a EXCEPT ![c].pc = "finish"]
        /\ wr' = [wr EXCEPT ![c].failed = TRUE]
  /\ UNCHANGED <<db, live, draining, req, faults>>

Touch(c) ==
  /\ conn[c].pc = "run" /\ ~wr[c].touch /\ "sweep" \in faults
  /\ wr' = [wr EXCEPT ![c].touch = TRUE]
  /\ UNCHANGED <<db, conn, live, draining, req, faults>>

\* Run's loop ends: the learner ends the session or is gone, or the actor was
\* told to stop.  Only the learner's end, by message or request, ends the session.
Close(c) ==
  /\ conn[c].pc = "run"
  /\ \E cause \in conn[c].stop \cup {"learner", "lost"} :
       conn' = [conn EXCEPT ![c].pc = "finish", ![c].ends = (cause \in {"learner", "endrequest"})]
  /\ UNCHANGED <<db, wr, live, draining, req, faults>>

\* finish: the current turn, if any, is saved as far as it was heard; then the
\* persister takes no more.
Finish(c) ==
  /\ conn[c].pc = "finish"
  /\ \E busy \in BOOLEAN :
       /\ busy => conn[c].no < MaxNo
       /\ conn' = [conn EXCEPT ![c].pc = "drain", ![c].no = IF busy THEN @ + 1 ELSE @]
       /\ LET w == IF ~busy THEN wr[c]
                   ELSE IF HasRoom(wr[c]) THEN Queued(wr[c], Op("insert", conn[c].no + 1))
                   ELSE [wr[c] EXCEPT !.failed = TRUE]
          IN  wr' = [wr EXCEPT ![c] = [w EXCEPT !.shut = TRUE]]
  /\ UNCHANGED <<db, live, draining, req, faults>>

Drained(c) ==
  /\ conn[c].pc = "drain" /\ wr[c].stopped
  /\ Goto(c, "end")
  /\ UNCHANGED <<db, wr, live, draining, req, faults>>

\* persistDrain passes: the writer is left to itself.
DrainTimesOut(c) ==
  /\ "slow" \in faults /\ conn[c].pc = "drain" /\ ~wr[c].stopped
  /\ conn' = [conn EXCEPT ![c].pc = "end", ![c].late = TRUE]
  /\ UNCHANGED <<db, wr, live, draining, req, faults>>

\* Sessions.End changes a row once; who changed it asks for the summary.
Ended(d)    == [d EXCEPT !.status = "ended"]
Submit(d)   == [d EXCEPT !.submitted = @ + 1]
EndRow_Again(d, summarize) == IF summarize THEN Submit(Ended(d)) ELSE Ended(d)
EndRow(d, summarize) ==
  IF d.status = "ended" THEN d ELSE IF summarize THEN Submit(Ended(d)) ELSE Ended(d)

EndSession(c) ==
  /\ conn[c].pc = "end"
  /\ Goto(c, "leave")
  /\ \/ conn[c].ends /\ db' = EndRow(db, TRUE)
     \/ ~conn[c].ends /\ UNCHANGED db
     \/ "db" \in faults /\ UNCHANGED db
  /\ UNCHANGED <<wr, live, draining, req, faults>>

-----------------------------------------------------------------------------
(* The persister's goroutine *)

NextOp(c) ==
  /\ ~wr[c].stopped /\ wr[c].op = NoOp /\ wr[c].q # <<>>
  /\ wr' = [wr EXCEPT ![c].q = Tail(@), ![c].try = 0, ![c].snap = FALSE,
                      ![c].op = IF wr[c].fenced THEN NoOp ELSE Head(wr[c].q)]
  /\ UNCHANGED <<db, conn, live, draining, req, faults>>

Done(w) == [w EXCEPT !.op = NoOp]

\* The write found a newer epoch: nothing this persister holds may land any more.
Fence(c) ==
  /\ wr' = [wr EXCEPT ![c] = [Done(@) EXCEPT !.fenced = TRUE]]
  /\ conn' = StopActor(conn, c, "fenced")

Fail(c) ==
  /\ wr' = [wr EXCEPT ![c] = [Done(@) EXCEPT !.failed = TRUE]]
  /\ conn' = StopActor(conn, c, "storage")

Retry_Forever(c) == wr' = [wr EXCEPT ![c].try = (@ + 1) % Attempts, ![c].snap = FALSE] /\ UNCHANGED conn

\* An attempt that failed, or whose answer did not arrive.
Retry(c) ==
  IF wr[c].try + 1 = Attempts THEN Fail(c)
  ELSE wr' = [wr EXCEPT ![c].try = @ + 1, ![c].snap = FALSE] /\ UNCHANGED conn

Succeed(c) == wr' = [wr EXCEPT ![c] = Done(@)] /\ UNCHANGED conn

WithRow(rows, n, c) == [m \in DOMAIN rows \cup {n} |-> IF m = n THEN [by |-> c, cut |-> FALSE] ELSE rows[m]]

Current_Always(c) == TRUE

\* Whether the fenced statements of a connection match the session's row.
Current(c) == db.epoch = conn[c].epoch

\* InsertTurn: one statement, fenced by the epoch, once per turn number.
Insert(c) ==
  LET n == wr[c].op.no
      done == [db EXCEPT !.rows = WithRow(@, n, c), !.fresh = TRUE] IN
  /\ wr[c].op.k = "insert"
  /\ \/ ~Current(c) /\ Fence(c) /\ UNCHANGED db
     \/ Current(c) /\ n \in DOMAIN db.rows /\ Retry(c) /\ UNCHANGED db
     \/ Current(c) /\ n \notin DOMAIN db.rows /\ db' = done /\ Succeed(c)
     \/ Current(c) /\ n \notin DOMAIN db.rows /\ "reply" \in faults /\ db' = done /\ Retry(c)
     \/ "db" \in faults /\ Retry(c) /\ UNCHANGED db
  /\ UNCHANGED <<live, draining, req, faults>>

\* UpdateTutor, first: the statement's snapshot.  No match: replaced, or no row.
UpdateReads(c) ==
  /\ wr[c].op.k = "update" /\ ~wr[c].snap
  /\ \/ ~Current(c) /\ Fence(c)
     \/ Current(c) /\ wr[c].op.no \notin DOMAIN db.rows /\ Fail(c)
     \/ /\ Current(c) /\ wr[c].op.no \in DOMAIN db.rows
        /\ wr' = [wr EXCEPT ![c].snap = TRUE] /\ UNCHANGED conn
     \/ "db" \in faults /\ Retry(c)
  /\ UNCHANGED <<db, live, draining, req, faults>>

\* UpdateTutor, then: its commit.
UpdateCommits(c) ==
  /\ wr[c].op.k = "update" /\ wr[c].snap
  /\ db' = [db EXCEPT !.rows[wr[c].op.no].cut = TRUE]
  /\ \/ Succeed(c)
     \/ "reply" \in faults /\ Retry(c)
  /\ UNCHANGED <<live, draining, req, faults>>

\* flushTouch, with its attempts.
FlushTouch(c) ==
  /\ ~wr[c].stopped /\ wr[c].op = NoOp /\ wr[c].touch /\ ~wr[c].fenced
  /\ LET w == [wr EXCEPT ![c].touch = FALSE] IN
     \/ /\ ~Current(c)
        /\ wr' = [w EXCEPT ![c].fenced = TRUE] /\ conn' = StopActor(conn, c, "fenced") /\ UNCHANGED db
     \/ /\ Current(c)
        /\ wr' = w /\ db' = [db EXCEPT !.fresh = TRUE] /\ UNCHANGED conn
     \/ /\ "db" \in faults
        /\ wr' = w /\ conn' = StopActor(conn, c, "storage") /\ UNCHANGED db
  /\ UNCHANGED <<live, draining, req, faults>>

WriterStops_OnClose(c) ==
  /\ ~wr[c].stopped /\ wr[c].op = NoOp /\ wr[c].shut
  /\ wr' = [wr EXCEPT ![c].stopped = TRUE]
  /\ UNCHANGED <<db, conn, live, draining, req, faults>>

\* The queue is closed and empty, the last touch written.
WriterStops(c) ==
  /\ ~wr[c].stopped /\ wr[c].op = NoOp /\ wr[c].shut /\ wr[c].q = <<>>
  /\ wr[c].touch => wr[c].fenced
  /\ wr' = [wr EXCEPT ![c].stopped = TRUE]
  /\ UNCHANGED <<db, conn, live, draining, req, faults>>

Writer(c) == NextOp(c) \/ Insert(c) \/ UpdateReads(c) \/ UpdateCommits(c) \/ FlushTouch(c) \/ WriterStops(c)

-----------------------------------------------------------------------------
(* Ending the session from outside *)

\* Sessions.End of the use case: the session as the learner owns it now.
EndRequested(p) ==
  /\ "end" \in faults /\ req.pc = "none" /\ db.epoch > 0
  /\ req' = [pc |-> "asked", proc |-> {p}, turns |-> Cardinality(DOMAIN db.rows)]
  /\ UNCHANGED <<db, conn, wr, live, draining, faults>>

\* Hub.End: a connection attached here is asked to end the session itself.
EndLive ==
  /\ req.pc = "asked"
  /\ LET here == {c \in UNION {live[p] : p \in req.proc} : Attached(c)} IN
     /\ req' = [req EXCEPT !.pc = IF here = {} THEN "missed" ELSE "accepted"]
     /\ conn' = [c \in Conns |-> IF c \in here THEN [conn[c] EXCEPT !.stop = @ \cup {"endrequest"}] ELSE conn[c]]
  /\ UNCHANGED <<db, wr, live, draining, faults>>

\* Otherwise the row is ended here, and a session with enough turns summarized.
EndStored ==
  /\ req.pc = "missed"
  /\ req' = [req EXCEPT !.pc = "ended"]
  /\ db' = EndRow(db, req.turns >= MinTurns)
  /\ UNCHANGED <<conn, wr, live, draining, faults>>

\* The grace period passes without a connection: a running one touches its
\* session every minute, and one that cannot is ended by its persister.
TimePasses ==
  /\ "sweep" \in faults /\ db.fresh
  /\ \A c \in Conns : conn[c].pc \in {"out", "register", "gone"} /\ wr[c].stopped
  /\ db' = [db EXCEPT !.fresh = FALSE]
  /\ UNCHANGED <<conn, wr, live, draining, req, faults>>

\* ClaimStale.
Sweep ==
  /\ "sweep" \in faults /\ ~db.fresh /\ db.status # "ended"
  /\ db' = EndRow(db, TRUE)
  /\ UNCHANGED <<conn, wr, live, draining, req, faults>>

-----------------------------------------------------------------------------
\* Serve's own progress, once the connection arrived.
Serve(c) == \/ Register(c) \/ WaitDone(c) \/ Connect(c) \/ LoadMax(c) \/ LoadHistory(c)
            \/ Finish(c) \/ Drained(c) \/ DrainTimesOut(c) \/ EndSession(c) \/ Leave(c)

\* Every connection came and went, or is refused.
Refused(c) == conn[c].pc = "out" /\ (db.status = "ended" \/ \A p \in Procs : draining[p])
Quiet == /\ \A c \in Conns : conn[c].pc = "gone" \/ Refused(c)
         /\ UNCHANGED vars

Next ==
  \/ \E c \in Conns : \/ \E p \in Procs : Arrive(c, p)
                      \/ Serve(c) \/ WaitFails(c) \/ LoadFails(c)
                      \/ SaveTurn(c) \/ CutLast(c) \/ Touch(c) \/ Close(c)
                      \/ Writer(c)
  \/ \E p \in Procs : HubDrain(p) \/ Crash(p) \/ EndRequested(p)
  \/ EndLive \/ EndStored \/ TimePasses \/ Sweep
  \/ Quiet

Spec == Init /\ [][Next]_vars

\* Goroutines run, statements and waits are bounded by their timeouts, and an
\* actor that was told to stop reads its events.  Clients need not do anything.
Fairness ==
  \A c \in Conns : /\ WF_vars(Serve(c)) /\ WF_vars(WaitFails(c)) /\ WF_vars(Writer(c))
                   /\ WF_vars(conn[c].stop # {} /\ Close(c))

FairSpec == Spec /\ Fairness

-----------------------------------------------------------------------------
(* Properties *)

PCs == {"out", "register", "waiting", "connect", "max", "history", "run", "finish", "drain", "end", "leave", "gone"}
Causes == {"replaced", "shutdown", "fenced", "storage", "endrequest"}
OpType == [k : {"none", "insert", "update"}, no : 0..MaxNo]
ConnType == [pc : PCs, proc : SUBSET Procs, old : SUBSET Conns, epoch : Nat, base : 0..MaxNo, no : 0..MaxNo,
             cut : BOOLEAN, stop : SUBSET Causes, ends : BOOLEAN, late : BOOLEAN]

\* The type of the state; the persister's queue stays within its capacity and the
\* hub has at most one connection of the session (hub.go, persister.go).
TypeOK ==
  /\ db.epoch \in Nat /\ db.submitted \in Nat
  /\ db.status \in {"created", "active", "ended"} /\ db.fresh \in BOOLEAN
  /\ DOMAIN db.rows \subseteq TurnNo
  /\ \A n \in DOMAIN db.rows : db.rows[n] \in [by : Conns, cut : BOOLEAN]
  /\ conn \in [Conns -> ConnType]
  /\ \A c \in Conns :
       /\ Len(wr[c].q) <= QueueCap /\ \A i \in 1..Len(wr[c].q) : wr[c].q[i] \in OpType
       /\ wr[c].op \in OpType /\ wr[c].try \in 0..(Attempts - 1)
  /\ \A p \in Procs : live[p] \subseteq Conns /\ Cardinality(live[p]) <= 1
  /\ draining \in [Procs -> BOOLEAN]

Newest(c) == db.epoch = conn[c].epoch

\* What a connection loaded stays complete: while it is the newest, no other one
\* adds a turn (Connect before MaxTurnNo, and the epoch in every insert).
LoadedIsComplete ==
  \A c \in Conns : conn[c].pc \in {"history", "run", "finish", "drain"} /\ Newest(c) =>
    \A n \in DOMAIN db.rows : n <= conn[c].base \/ db.rows[n].by = c

\* "Turn numbers never collide": an insert that passes the fence finds its number
\* taken only by an earlier attempt of its own.
NumbersNeverCollide ==
  \A c \in Conns : wr[c].op.k = "insert" /\ Newest(c) /\ wr[c].op.no \in DOMAIN db.rows
    => db.rows[wr[c].op.no].by = c

\* Every turn an orderly connection saved is in the database once the hub lets go
\* of it, unless a write failed and was reported or a newer connection took over.
AcceptedIsStored ==
  \A c \in Conns :
    conn[c].pc \in {"end", "leave", "gone"} /\ ~conn[c].late /\ ~wr[c].failed /\ ~wr[c].fenced =>
      \A n \in (conn[c].base + 1)..conn[c].no : n \in DOMAIN db.rows /\ db.rows[n].by = c

\* Of the learner's message, the learner's request and the sweeper, at most one
\* ends the session and has it summarized.
SummarizedOnce == db.submitted <= 1 /\ (db.submitted = 1 => db.status = "ended")

\* An actor that is told to stop gets through finish, whatever the database does.
StopsWhenTold == \A c \in Conns : conn[c].stop # {} ~> conn[c].pc = "gone"

\* A connection that arrived is served or sent away.
Served == \A c \in Conns : conn[c].pc = "register" ~> conn[c].pc \in {"run", "gone"}

-----------------------------------------------------------------------------
(* What the comments and the documentation say, and the code does not do *)

\* repository/sessions.go: "a replaced connection can never write".
ReplacedNeverWrites ==
  [][\A c \in Conns : UpdateCommits(c) => Newest(c)]_vars

\* README.md: the end request "ends the row, and the live connection is fenced on
\* its next write".
EndFences ==
  [][req.pc = "ended" => DOMAIN db'.rows = DOMAIN db.rows]_vars

\* usecase/sessions.go: "the live session finishes itself: it saves what the learner
\* heard, ends and summarizes".
AcceptedEndEnds ==
  req.pc = "accepted" /\ (\A c \in Conns : conn[c].pc \in {"out", "gone"}) => db.status = "ended"

\* usecase/sessions.go: End "ends the learner's session and queues its summary".
EndSummarizes ==
  [][EndStored /\ db.status # "ended" /\ Cardinality(DOMAIN db.rows) >= MinTurns => db'.submitted = 1]_vars

\* hub.go: Drain "tells every live session the server is shutting down".
DrainTellsAll ==
  \A p \in Procs : draining[p] => \A c \in live[p] : conn[c].pc = "run" => "shutdown" \in conn[c].stop

\* hub.go: "A new connection for a session that is already live here replaces the
\* old one": one that waited in vain at least told a running one to stop.
NewReplacesOld ==
  [][\A c \in Conns : WaitFails(c) =>
       \A d \in conn[c].old : conn[d].pc = "run" => conn[d].stop # {}]_vars
=============================================================================
