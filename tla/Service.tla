------------------------------- MODULE Service -------------------------------
(***************************************************************************)
(* One process of the service with all its roles, from the connections and *)
(* requests it admits to the shutdown that waits for them: App.Run         *)
(* (bootstrap.go), the WebSocket handler (ws/handler.go), the hub's        *)
(* registration and drain (hub.go), the end request (usecase/sessions.go), *)
(* the sweeper (sweeper.go) and the pool that writes the summaries         *)
(* (summaries.go).                                                         *)
(*                                                                         *)
(* What happens inside a connection is Connections.tla and Session.tla:    *)
(* here it gives turns to its persister, ends and leaves, and the          *)
(* persister writes on, after it too when its drain timed out.  The        *)
(* database is one row for each session; another process may sweep the     *)
(* same rows (that it may connect to them is Connections.tla).             *)
(***************************************************************************)
EXTENDS Integers, FiniteSets

CONSTANTS
  Sess,      \* the sessions
  Conns,     \* WebSocket connects
  Reqs,      \* requests to end a session
  MaxTurns,  \* bound: turns of a session
  MinTurns,  \* turns a session needs to be summarized (MinTurnsForSummary)
  Slots,     \* summaries written at once (summaryConcurrency)
  Batch,     \* sessions one claim of the sweeper ends at most (sweepBatch)
  Worlds     \* what a behaviour may be drawn from: [visited, the sessions clients connect to
             \* or end here; left, those left behind (the others ended long ago); conns and
             \* reqs, the clients' connects and requests; turns, a session may get; faults, what
             \* may happen: "db", "listen", "elsewhere", "slow" (the shutdown deadline passes)]

ASSUME ServiceAssumption ==
  /\ MaxTurns \in Nat /\ MinTurns \in 0..MaxTurns /\ Slots \in Nat \ {0} /\ Batch \in Nat \ {0}
  /\ \A w \in Worlds :
       /\ w.visited \subseteq Sess /\ w.left \subseteq Sess \ w.visited
       /\ w.conns \subseteq Conns /\ w.reqs \subseteq Reqs
       /\ w.turns \in 0..MaxTurns
       /\ w.faults \subseteq {"db", "listen", "elsewhere", "slow"}

VARIABLES
  row,      \* each session's row: status, grace passed, turns, the turns its summary covers, who ended
            \* it, and the connection whose epoch it has
  run,      \* App.Run: its phase, whether the shutdown deadline passed, whether an error was joined
  draining, \* Hub.draining
  conn,     \* each connect: where it is, its session, what it was told, the turns its persister holds,
            \* and whether its drain timed out
  req,      \* each end request: where it is, its session, and the session it read
  sweep,    \* the sweeper: where it is, the sessions claimed and not submitted yet
  job,      \* each session's summary job
  closed,   \* Summaries.closed
  refused,  \* sessions whose summary was asked for and refused
  world     \* what happens around the process; it does not change

vars == <<row, run, draining, conn, req, sweep, job, closed, refused, world>>

NoSession == {}
NoJob == [pc |-> "none", by |-> "none", seen |-> 0]

Row(status, turns) == [status |-> status, idle |-> FALSE, turns |-> turns, sum |-> {},
                        by |-> "none", owner |-> {}]

Init ==
  /\ world \in Worlds
  /\ row = [s \in Sess |-> IF s \in world.visited THEN Row("created", 0)
                           ELSE IF s \in world.left THEN Row("active", MinTurns) ELSE Row("ended", 0)]
  /\ run = [phase |-> "serving", late |-> FALSE, err |-> FALSE]
  /\ draining = FALSE
  /\ conn = [c \in Conns |-> [pc |-> "out", s |-> NoSession, stop |-> {}, ends |-> FALSE,
                             q |-> 0, late |-> FALSE]]
  /\ req = [r \in Reqs |-> [pc |-> "out", s |-> NoSession, need |-> FALSE]]
  /\ sweep = [pc |-> "wait", ids |-> {}, full |-> FALSE]
  /\ job = [s \in Sess |-> NoJob]
  /\ closed = FALSE
  /\ refused = {}

Running == run.phase # "returned"
Failing == "db" \in world.faults
Ends(s, who) == [row EXCEPT ![s].status = "ended", ![s].by = who]

-----------------------------------------------------------------------------
(* Summaries *)

Submit_WhenFree(s, by) ==
  IF closed THEN refused' = refused \cup {s} /\ UNCHANGED job
  ELSE /\ job' = IF Cardinality({t \in Sess : job[t].pc \in {"queued", "read", "store"}}) < Slots
                 THEN [job EXCEPT ![s] = [pc |-> "queued", by |-> by, seen |-> 0]] ELSE job
       /\ UNCHANGED refused

\* Submit: a job of its own, unless the service no longer takes any.
Submit(s, by) ==
  IF closed THEN refused' = refused \cup {s} /\ UNCHANGED job
  ELSE job' = [job EXCEPT ![s] = [pc |-> "queued", by |-> by, seen |-> 0]] /\ UNCHANGED refused

NeedsSummary(s) == row[s].turns >= MinTurns
\* The summary covers the n turns the transcript had.
SetSummary(s, n) == [row EXCEPT ![s].sum = {n}]

Busy(s) == job[s].pc \in {"read", "store"}
JobTo(s, pc) == job' = [job EXCEPT ![s].pc = pc]

\* A slot is free.  Summarize: too short, or summarized already, and there is nothing to do.
JobStarts(s) ==
  /\ job[s].pc = "queued" /\ Cardinality({t \in Sess : Busy(t)}) < Slots
  /\ JobTo(s, IF NeedsSummary(s) /\ row[s].sum = {} THEN "read" ELSE "done")
  /\ UNCHANGED row

\* The transcript is read, and the model writes its summary.
JobReads(s) ==
  /\ job[s].pc = "read"
  /\ job' = [job EXCEPT ![s].pc = IF row[s].turns = 0 THEN "done" ELSE "store", ![s].seen = row[s].turns]
  /\ UNCHANGED row

JobStores(s) ==
  /\ job[s].pc = "store"
  /\ row' = SetSummary(s, job[s].seen)
  /\ JobTo(s, "done")

\* A statement or the model fails, or summaryTimeout passes: logged, never tried again.
JobFails(s) == Busy(s) /\ JobTo(s, "done") /\ UNCHANGED row

Job(s) ==
  /\ Running
  /\ JobStarts(s) \/ JobReads(s) \/ JobStores(s) \/ JobFails(s)
  /\ UNCHANGED <<run, draining, conn, req, sweep, closed, refused, world>>

-----------------------------------------------------------------------------
(* Connections *)

\* The listener is open until the servers are shut down.
Listening == run.phase \in {"serving", "drain"}
Registered(c) == conn[c].pc \in {"load", "attach", "run", "finish", "drain", "end", "submit"}
\* The hub knows the connection's actor.
Attached(c) == Registered(c) /\ conn[c].pc \notin {"load", "attach"}
Of(s) == {c \in Conns : conn[c].s = {s}}
ConnTo(c, pc) == conn' = [conn EXCEPT ![c].pc = pc]
Tell(cs, cause) == [c \in Conns |-> IF c \in cs THEN [conn[c] EXCEPT !.stop = @ \cup {cause}] ELSE conn[c]]

\* ServeHTTP, first: the hub takes connections.  A client holds a ticket of some session.
Check(c) ==
  /\ conn[c].pc = "out" /\ c \in world.conns /\ Listening /\ ~draining
  /\ \E s \in world.visited : conn' = [conn EXCEPT ![c].pc = "checked", ![c].s = {s}]
  /\ UNCHANGED <<row, job, refused>>

\* Then: the ticket is redeemed, which an ended session refuses, and the socket is accepted.
Redeem(c) ==
  /\ conn[c].pc = "checked"
  /\ \E s \in conn[c].s :
       \/ row[s].status # "ended" /\ ConnTo(c, "register")
       \/ (row[s].status = "ended" \/ Failing) /\ ConnTo(c, "gone")
  /\ UNCHANGED <<row, job, refused>>

\* Hub.register: refused while draining; a live connection of the session is told
\* to stop and waited for, in vain at most replaceWait.
Register(c) ==
  /\ conn[c].pc = "register"
  /\ LET old == {d \in UNION {Of(s) : s \in conn[c].s} : Registered(d)} IN
     \/ draining /\ ConnTo(c, "gone")
     \/ ~draining /\ old = {} /\ ConnTo(c, "load")
     \/ ~draining /\ \E d \in old : Attached(d) /\ "replaced" \notin conn[d].stop /\ conn' = Tell({d}, "replaced")
     \/ old # {} /\ ConnTo(c, "gone")
  /\ UNCHANGED <<row, job, refused>>

\* Hub.load: the session is opened, unless it has ended, and has the connection's epoch now.
Connect(c) ==
  /\ conn[c].pc = "load"
  /\ \E s \in conn[c].s :
       \/ /\ row[s].status # "ended"
          /\ row' = [row EXCEPT ![s].status = "active", ![s].idle = FALSE, ![s].owner = {c}]
          /\ ConnTo(c, "attach")
       \/ (row[s].status = "ended" \/ Failing) /\ ConnTo(c, "gone") /\ UNCHANGED row
  /\ UNCHANGED <<job, refused>>

\* The actor is made and the hub learns of it.
Attach(c) == conn[c].pc = "attach" /\ ConnTo(c, "run") /\ UNCHANGED <<row, job, refused>>

\* A turn for the persister.  One that its full queue refuses is lost, and the
\* connection with it; the queue is longer than a session has turns here.
Queued(c) == conn[c].q + 1
HasRoom(c) == \E s \in conn[c].s : row[s].turns + conn[c].q < world.turns

SaveTurn(c) ==
  /\ conn[c].pc = "run" /\ HasRoom(c)
  /\ conn' = [conn EXCEPT ![c].q = Queued(c)]
  /\ UNCHANGED <<row, job, refused>>

\* Only the learner's end, by message or by request, ends the session.
Close(c) ==
  /\ conn[c].pc = "run"
  /\ \E cause \in conn[c].stop \cup {"learner", "lost"} :
       conn' = [conn EXCEPT ![c].pc = "finish", ![c].ends = (cause \in {"learner", "endrequest"})]
  /\ UNCHANGED <<row, job, refused>>

\* finish: the turn in progress goes to the persister, if there is one.
Finish(c) ==
  /\ conn[c].pc = "finish"
  /\ \E q \in {conn[c].q} \cup (IF HasRoom(c) THEN {Queued(c)} ELSE {}) :
       conn' = [conn EXCEPT ![c].pc = "drain", ![c].q = q]
  /\ UNCHANGED <<row, job, refused>>

\* Drain waits until the persister has written all it holds, or for persistDrain; then
\* finish goes on all the same, and the persister too.
Drain(c) ==
  /\ conn[c].pc = "drain"
  /\ conn' = [conn EXCEPT ![c].pc = IF conn[c].ends THEN "end" ELSE "gone", ![c].late = @ \/ conn[c].q > 0]
  /\ UNCHANGED <<row, job, refused>>

\* Then the session is ended, by the one whose statement changes the row.
EndSession(c) ==
  /\ conn[c].pc = "end"
  /\ \E s \in conn[c].s :
       \/ row[s].status # "ended" /\ row' = Ends(s, "conn") /\ ConnTo(c, "submit")
       \/ (row[s].status = "ended" \/ Failing) /\ ConnTo(c, "gone") /\ UNCHANGED row
  /\ UNCHANGED <<job, refused>>

\* OnEnded, and Serve's clean-up: the connection leaves the hub.
Ended(c) == conn[c].pc = "submit" /\ ConnTo(c, "gone") /\ (\E s \in conn[c].s : Submit(s, "conn")) /\ UNCHANGED row

-----------------------------------------------------------------------------
(* The persister of a connection, which may outlive it *)

Current_Always(c) == TRUE
\* The row still has the epoch of the connection: InsertTurn asks for no more, and
\* finds the row of a session that has ended too.
Current(c) == \E s \in conn[c].s : c \in row[s].owner
Saved(s) == [row EXCEPT ![s].turns = @ + 1, ![s].idle = FALSE]
\* The persister is left with q turns, and the actor, while it reads events, told to close.
Left(c, q, causes) ==
  conn' = [conn EXCEPT ![c].q = q, ![c].stop = @ \cup (IF conn[c].pc = "run" THEN causes ELSE {})]

Writes(c) ==
  /\ conn[c].q > 0 /\ Current(c)
  /\ \E s \in conn[c].s : row' = Saved(s)
  /\ Left(c, conn[c].q - 1, {})

\* Once a write is fenced nothing that waits may land.
Fenced(c) == conn[c].q > 0 /\ ~Current(c) /\ Left(c, 0, {"persister"}) /\ UNCHANGED row

\* All attempts fail; one of them may have landed and lost its reply.
WriteFails(c) ==
  /\ conn[c].q > 0 /\ Failing
  /\ UNCHANGED row \/ (Current(c) /\ \E s \in conn[c].s : row' = Saved(s))
  /\ Left(c, conn[c].q - 1, {"persister"})

-----------------------------------------------------------------------------

Progress(c) ==
  Redeem(c) \/ Register(c) \/ Connect(c) \/ Attach(c) \/ Finish(c) \/ Drain(c) \/ EndSession(c) \/ Ended(c)
Told(c) == conn[c].stop # {} /\ Close(c)
Rest == <<run, draining, req, sweep, closed, world>>

Serve(c) == Running /\ Progress(c) /\ UNCHANGED Rest
Obey(c)  == Running /\ Told(c) /\ UNCHANGED Rest
Persister(c) ==
  Running /\ (Writes(c) \/ Fenced(c) \/ WriteFails(c)) /\ UNCHANGED <<job, refused>> /\ UNCHANGED Rest
Client(c) == Running /\ (Check(c) \/ SaveTurn(c) \/ Close(c)) /\ UNCHANGED Rest

-----------------------------------------------------------------------------
(* The end request *)

Asked(r) ==
  /\ req[r].pc = "out" /\ r \in world.reqs /\ Listening
  /\ \E s \in world.visited : req' = [req EXCEPT ![r].pc = "read", ![r].s = {s}]
  /\ UNCHANGED <<row, conn, job, refused>>

\* Sessions.End: the session as it is now, and whether it needs a summary.
EndReads(r) ==
  /\ req[r].pc = "read"
  /\ \E s \in req[r].s :
       \/ req' = [req EXCEPT ![r].pc = "live", ![r].need = NeedsSummary(s)]
       \/ Failing /\ req' = [req EXCEPT ![r].pc = "done"]
  /\ UNCHANGED <<row, conn, job, refused>>

\* Hub.End: a live connection whose actor the hub knows is asked to end the session itself.
EndLive(r) ==
  /\ req[r].pc = "live"
  /\ LET here == {c \in UNION {Of(s) : s \in req[r].s} : Attached(c)} IN
     /\ conn' = Tell(here, "endrequest")
     /\ req' = [req EXCEPT ![r].pc = IF here = {} THEN "store" ELSE "done"]
  /\ UNCHANGED <<row, job, refused>>

EndStores(r) ==
  /\ req[r].pc = "store"
  /\ \E s \in req[r].s :
       \/ /\ row[s].status # "ended" /\ row' = Ends(s, "request")
          /\ req' = [req EXCEPT ![r].pc = IF req[r].need THEN "submit" ELSE "done"]
       \/ (row[s].status = "ended" \/ Failing) /\ req' = [req EXCEPT ![r].pc = "done"] /\ UNCHANGED row
  /\ UNCHANGED <<conn, job, refused>>

EndSubmits(r) ==
  /\ req[r].pc = "submit" /\ req' = [req EXCEPT ![r].pc = "done"]
  /\ \E s \in req[r].s : Submit(s, "request")
  /\ UNCHANGED <<row, conn>>

Handle(r) ==
  /\ Running /\ (EndReads(r) \/ EndLive(r) \/ EndStores(r) \/ EndSubmits(r))
  /\ UNCHANGED <<run, draining, sweep, closed, world>>
Ask(r) == Running /\ Asked(r) /\ UNCHANGED <<run, draining, sweep, closed, world>>

-----------------------------------------------------------------------------
(* The sweeper *)

Cancelled_AtReturn == run.phase = "returned"
\* stopWorkers was called.
Cancelled == run.phase \in {"workers", "summaries"}
Stale == {s \in Sess : row[s].idle /\ row[s].status # "ended"}
Swept(ids, who) == [s \in Sess |-> IF s \in ids THEN [row[s] EXCEPT !.status = "ended", !.by = who] ELSE row[s]]

\* The ticker; once the context is cancelled a further pass would fail at once.
Tick == sweep.pc = "wait" /\ ~Cancelled /\ Stale # {} /\ sweep' = [sweep EXCEPT !.pc = "claim"]
        /\ UNCHANGED <<row, job, refused>>

\* ClaimStale ends stale sessions, skipping locked ones, and returns them.
Claim ==
  /\ sweep.pc = "claim"
  /\ \E ids \in SUBSET Stale :
       /\ Cardinality(ids) <= Batch
       /\ row' = Swept(ids, "sweep")
       /\ sweep' = [pc |-> "submit", ids |-> ids, full |-> Cardinality(ids) = Batch]
  /\ UNCHANGED <<job, refused>>

\* It fails, before or after its effect, and the pass ends.
ClaimFails ==
  /\ sweep.pc = "claim" /\ (Cancelled \/ Failing)
  /\ \E ids \in SUBSET Stale : Cardinality(ids) <= Batch /\ row' = Swept(ids, "nobody")
  /\ sweep' = [sweep EXCEPT !.pc = "wait"]
  /\ UNCHANGED <<job, refused>>

\* Sweep's loop: the claimed sessions are submitted; a full batch means another claim.
\* The pass ends by deleting expired tickets and tokens, which nobody reads any more.
SubmitClaimed ==
  /\ sweep.pc = "submit" /\ UNCHANGED row
  /\ \/ \E s \in sweep.ids : Submit(s, "sweep") /\ sweep' = [sweep EXCEPT !.ids = @ \ {s}]
     \/ /\ sweep.ids = {} /\ sweep' = [sweep EXCEPT !.pc = IF sweep.full THEN "claim" ELSE "wait"]
        /\ UNCHANGED <<job, refused>>

SweeperStops == sweep.pc = "wait" /\ Cancelled /\ sweep' = [sweep EXCEPT !.pc = "stopped"] /\ UNCHANGED <<row, job, refused>>

Sweeper ==
  /\ Running /\ (Tick \/ Claim \/ ClaimFails \/ SubmitClaimed \/ SweeperStops)
  /\ UNCHANGED <<run, draining, conn, req, closed, world>>

-----------------------------------------------------------------------------
(* The world outside: time, and the sweeper of another process *)

TimePasses(s) ==
  /\ ~row[s].idle /\ row[s].status # "ended" /\ \A c \in Of(s) : Registered(c) => conn[c].pc = "load"
  /\ row' = [row EXCEPT ![s].idle = TRUE]

SweptElsewhere(s) == "elsewhere" \in world.faults /\ s \in Stale /\ row' = Swept({s}, "elsewhere")

Outside(s) ==
  /\ Running /\ (TimePasses(s) \/ SweptElsewhere(s))
  /\ UNCHANGED <<run, draining, conn, req, sweep, job, closed, refused, world>>

-----------------------------------------------------------------------------
(* App.Run *)

Phase(p) == run' = [run EXCEPT !.phase = p]
GiveUp(p) == run.late /\ run' = [run EXCEPT !.phase = p, !.err = TRUE]

\* A signal, or a server that fails: the hub refuses connections and tells those it knows.
Shutdown ==
  /\ run.phase = "serving"
  /\ \E failed \in (IF "listen" \in world.faults THEN BOOLEAN ELSE {FALSE}) :
       run' = [run EXCEPT !.phase = "drain", !.err = failed]
  /\ draining' = TRUE
  /\ conn' = Tell({c \in Conns : Attached(c)}, "shutdown")
  /\ UNCHANGED closed

\* shutdownCtx ends.
Deadline ==
  /\ "slow" \in world.faults /\ run.phase # "serving" /\ ~run.late
  /\ run' = [run EXCEPT !.late = TRUE]
  /\ UNCHANGED <<draining, conn, closed>>

\* Hub.Drain returns when every registered connection has left.
Drained ==
  /\ run.phase = "drain"
  /\ ((\A c \in Conns : ~Registered(c)) /\ Phase("servers")) \/ GiveUp("servers")
  /\ UNCHANGED <<draining, conn, closed>>

\* http.Server.Shutdown waits for requests, not for sockets that were taken over.
InFlight == (\E r \in Reqs : req[r].pc \notin {"out", "done"}) \/ (\E c \in Conns : conn[c].pc = "checked")

ServersStop ==
  /\ run.phase = "servers"
  /\ (~InFlight /\ Phase("workers")) \/ (InFlight /\ GiveUp("workers"))
  /\ UNCHANGED <<draining, conn, closed>>

WorkersStop_NoWait ==
  /\ run.phase = "workers"
  /\ Phase("summaries") /\ closed' = TRUE
  /\ UNCHANGED <<draining, conn>>

\* stopWorkers, which cancels the sweeper's context, and workers.Wait, without a limit;
\* then Summaries.Wait takes no more jobs.
WorkersStop ==
  /\ run.phase = "workers" /\ sweep.pc = "stopped"
  /\ Phase("summaries") /\ closed' = TRUE
  /\ UNCHANGED <<draining, conn>>

SummariesDone ==
  /\ run.phase = "summaries"
  /\ ((\A s \in Sess : job[s].pc \in {"none", "done"}) /\ Phase("returned")) \/ GiveUp("returned")
  /\ UNCHANGED <<draining, conn, closed>>

Main == (Drained \/ ServersStop \/ WorkersStop \/ SummariesDone) /\ UNCHANGED <<row, req, sweep, job, refused, world>>
Stop == (Shutdown \/ Deadline) /\ UNCHANGED <<row, req, sweep, job, refused, world>>

\* Run returned: the pool is closed and the process exits.
Exited == run.phase = "returned" /\ UNCHANGED vars

Next ==
  \/ \E c \in Conns : Serve(c) \/ Client(c) \/ Persister(c)
  \/ \E r \in Reqs : Ask(r) \/ Handle(r)
  \/ \E s \in Sess : Job(s) \/ Outside(s)
  \/ Sweeper \/ Main \/ Stop \/ Exited

Spec == Init /\ [][Next]_vars

\* Goroutines run and statements end; an actor that is told to stop reads its
\* events.  Clients do nothing unasked, no signal or deadline need come, and no
\* persister need ever get its answer: what waits for one has its own limit.
Fairness ==
  /\ \A c \in Conns : WF_vars(Serve(c)) /\ WF_vars(Obey(c))
  /\ \A r \in Reqs : WF_vars(Handle(r))
  /\ \A s \in Sess : WF_vars(Job(s))
  /\ WF_vars(Sweeper) /\ WF_vars(Main)

FairSpec == Spec /\ Fairness

-----------------------------------------------------------------------------
(* Properties *)

Who == {"none", "conn", "request", "sweep", "elsewhere", "nobody"}

\* The type of the state; no more summaries are written at once than there are slots.
TypeOK ==
  /\ row \in [Sess -> [status : {"created", "active", "ended"}, idle : BOOLEAN, turns : 0..MaxTurns,
                       sum : SUBSET (0..MaxTurns), by : Who, owner : SUBSET Conns]]
  /\ run \in [phase : {"serving", "drain", "servers", "workers", "summaries", "returned"},
              late : BOOLEAN, err : BOOLEAN]
  /\ draining \in BOOLEAN /\ closed \in BOOLEAN /\ refused \subseteq Sess
  /\ \A c \in Conns : conn[c].s \subseteq Sess /\ conn[c].stop \subseteq {"replaced", "shutdown", "endrequest", "persister"}
                        /\ conn[c].q \in 0..MaxTurns
  /\ \A r \in Reqs : req[r].s \subseteq Sess
  /\ sweep.ids \subseteq Sess
  /\ Cardinality({s \in Sess : Busy(s)}) <= Slots

\* When Run returns without an error, nothing it admitted is left behind: every
\* connection of the hub has left, with nothing unwritten unless its drain timed out,
\* every request is answered, the sweeper has stopped, and every summary asked for was taken and is written or has failed.
CleanExit ==
  run.phase = "returned" /\ ~run.err =>
    /\ \A c \in Conns : ~Registered(c) /\ (conn[c].q = 0 \/ conn[c].late)
    /\ \A r \in Reqs : req[r].pc \in {"out", "done"}
    /\ sweep.pc = "stopped" /\ sweep.ids = {}
    /\ \A s \in Sess : job[s].pc \in {"none", "done"}
    /\ refused = {}

\* The summary of a session that its own connection ended covers every turn the
\* session ever has, if the last connection's persister had drained when it ended:
\* what an earlier one still holds is fenced, and no later one opens the session.
\* (Summarize reads 200 messages, the turns of a session here and many more.)
SummaryIsWhole ==
  \A s \in Sess :
    job[s].by = "conn" /\ (\A c \in row[s].owner : ~conn[c].late) => \A n \in row[s].sum : n = row[s].turns

\* A session that a connection or the sweeper of this process ended has its summary
\* tried, unless Run returned first.
SummaryFollows ==
  \A s \in Sess :
    row[s].by \in {"conn", "sweep"} ~> job[s].pc = "done" \/ run.phase = "returned"

\* Once the signal came, Run returns, provided that the deadline passes: the sweeper,
\* which is waited for without a limit, stops.  And a drain that told every
\* connection registered ends by itself, without the deadline.
RunReturns ==
  /\ []<>(run.phase = "serving" \/ run.late) => (run.phase = "drain" ~> run.phase = "returned")
  /\ (run.phase = "drain" /\ \A c \in Conns : Registered(c) => "shutdown" \in conn[c].stop)
       ~> run.phase # "drain"

-----------------------------------------------------------------------------
(* What the comments and the documentation say, and the code does not do *)

\* hub.go: Drain "tells every live session the server is shutting down".
DrainTellsAll == run.phase = "drain" => \A c \in Conns : conn[c].pc = "run" => "shutdown" \in conn[c].stop

\* design.md: at the end of a session "drain the persister; Sessions.End; summary".
DrainedBeforeEnd == \A c \in Conns : conn[c].pc \in {"end", "submit"} => conn[c].q = 0

\* handler.go: "a rejected connect does not burn the ticket".
NoTicketBurnt == [][\A c \in Conns : conn[c].pc = "register" => ~(draining /\ conn'[c].pc = "gone")]_vars

\* sessions.go: End "ends the learner's session and queues its summary".
EndQueuesSummary ==
  [][\A r \in Reqs : EndStores(r) =>
       \A s \in req[r].s : row[s].status # "ended" /\ row[s].turns >= MinTurns => req'[r].pc = "submit"]_vars
=============================================================================
