---------------------------- MODULE ServiceProofs ----------------------------
(***************************************************************************)
(* The two safety properties of the process, for any sets of sessions,     *)
(* connects and requests.                                                  *)
(*                                                                         *)
(* The exit: each phase of the shutdown leaves something behind for good   *)
(* (ExitInv), which the later phases rely on.  The summaries: who ended a  *)
(* session is who submits it (WholeInv), and once its connection has ended *)
(* it only a persister whose drain timed out still holds turns of it.      *)
(***************************************************************************)
EXTENDS Service, TLAPS

Causes == {"replaced", "shutdown", "endrequest", "persister"}
RowRec == [status : {"created", "active", "ended"}, idle : BOOLEAN, turns : Nat, sum : SUBSET Nat, by : Who,
           owner : SUBSET Conns]
ConnRec == [pc : {"out", "checked", "register", "load", "attach", "run", "finish", "drain", "end", "submit",
                  "gone"},
            s : SUBSET Sess, stop : SUBSET Causes, ends : BOOLEAN, q : Nat, late : BOOLEAN]
ReqRec == [pc : {"out", "read", "live", "store", "submit", "done"}, s : SUBSET Sess, need : BOOLEAN]
JobRec == [pc : {"none", "queued", "read", "store", "done"}, by : Who, seen : Nat]

\* The process keeps its types, variable by variable.
RowOK == row \in [Sess -> RowRec]
ConnOK == conn \in [Conns -> ConnRec]
ReqOK == req \in [Reqs -> ReqRec]
JobOK == job \in [Sess -> JobRec]
SweepOK == sweep \in [pc : {"wait", "claim", "submit", "stopped"}, ids : SUBSET Sess, full : BOOLEAN]
RunOK == run \in [phase : {"serving", "drain", "servers", "workers", "summaries", "returned"},
                  late : BOOLEAN, err : BOOLEAN]
Types == RowOK /\ ConnOK /\ ReqOK /\ JobOK /\ SweepOK /\ RunOK

-----------------------------------------------------------------------------
(* Types *)

LEMMA TypesInit == Init => Types
<1> SUFFICES ASSUME Init PROVE Types
  OBVIOUS
<1>1. RowOK
  BY ServiceAssumption DEF Init, Row, RowOK, RowRec, Who
<1>2. ConnOK /\ ReqOK /\ SweepOK
  BY DEF Init, NoSession, ConnOK, ConnRec, ReqOK, ReqRec, SweepOK
<1>3. JobOK /\ RunOK
  BY DEF Init, NoJob, JobOK, JobRec, RunOK, Who
<1> QED BY <1>1, <1>2, <1>3 DEF Types

\* A summary that is asked for becomes a job of its own, or is refused.
LEMMA SubmitTypes ==
  ASSUME JobOK, NEW s \in Sess, NEW by \in Who, Submit(s, by)
  PROVE  JobOK'
BY DEF JobOK, JobRec, Submit

\* Telling connections changes nothing else of them.
LEMMA TellTypes ==
  ASSUME ConnOK, NEW cs \in SUBSET Conns, NEW cause \in Causes
  PROVE  /\ Tell(cs, cause) \in [Conns -> ConnRec]
         /\ \A c \in Conns : /\ Tell(cs, cause)[c].pc = conn[c].pc
                             /\ Tell(cs, cause)[c].s = conn[c].s
                             /\ Tell(cs, cause)[c].q = conn[c].q
                             /\ Tell(cs, cause)[c].late = conn[c].late
BY DEF ConnOK, ConnRec, Tell, Causes

\* A connection goes on, and keeps its session.
Moves(c, p) == \A d \in Conns : conn'[d].pc = (IF d = c THEN p ELSE conn[d].pc) /\ conn'[d].s = conn[d].s

LEMMA ConnMoves ==
  ASSUME ConnOK, NEW c \in Conns, NEW p, ConnTo(c, p)
  PROVE  Moves(c, p) /\ \A d \in Conns : conn'[d].q = conn[d].q /\ conn'[d].late = conn[d].late
BY DEF ConnTo, ConnOK, ConnRec, Moves

LEMMA FinishMoves ==
  ASSUME Types, NEW c \in Conns, Finish(c)
  PROVE  Moves(c, "drain") /\ \A d \in Conns : d # c => conn'[d] = conn[d]
<1>1. PICK q : conn' = [conn EXCEPT ![c].pc = "drain", ![c].q = q]
  BY DEF Finish
<1> QED BY <1>1 DEF Types, ConnOK, ConnRec, Moves

\* A persister that still holds turns has been left because its drain timed out.
LEMMA DrainMoves ==
  ASSUME Types, NEW c \in Conns, Drain(c)
  PROVE  /\ \E p \in {"end", "gone"} : Moves(c, p)
         /\ conn'[c].q > 0 \/ conn[c].late => conn'[c].late
         /\ \A d \in Conns : d # c => conn'[d] = conn[d]
<1>1. PICK p \in {"end", "gone"} : conn' = [conn EXCEPT ![c].pc = p, ![c].late = @ \/ conn[c].q > 0]
  BY DEF Drain
<1>2. /\ conn'[c].q = conn[c].q /\ conn'[c].late = (conn[c].late \/ conn[c].q > 0) /\ Moves(c, p)
      /\ \A d \in Conns : d # c => conn'[d] = conn[d]
  BY <1>1 DEF Types, ConnOK, ConnRec, Moves
<1> QED BY <1>2

\* A turn that is saved, and a session that is swept.
LEMMA SavedTypes == ASSUME RowOK, NEW s \in Sess PROVE Saved(s) \in [Sess -> RowRec]
<1>1. row[s].turns + 1 \in Nat /\ row[s] \in RowRec
  BY DEF RowOK, RowRec
<1>2. [row[s] EXCEPT !.turns = @ + 1, !.idle = FALSE] \in RowRec
  BY <1>1 DEF RowRec
<1>3. Saved(s) = [row EXCEPT ![s] = [row[s] EXCEPT !.turns = @ + 1, !.idle = FALSE]]
  BY DEF RowOK, Saved
<1> QED BY <1>2, <1>3 DEF RowOK

LEMMA SweptTypes == ASSUME RowOK, NEW ids, NEW who \in Who PROVE Swept(ids, who) \in [Sess -> RowRec]
BY ZenonT(60) DEF RowOK, RowRec, Swept

LEMMA ServeTypes == ASSUME Types, NEW c \in Conns, Serve(c) PROVE Types'
<1>1. ReqOK' /\ SweepOK' /\ RunOK'
  BY DEF Serve, Rest, Types, ReqOK, SweepOK, RunOK
<1>2. CASE Redeem(c)
  <2>1. ConnOK'
    BY <1>2 DEF Redeem, ConnTo, Types, ConnOK, ConnRec
  <2> QED BY <1>1, <1>2, <2>1 DEF Redeem, Types, RowOK, JobOK
<1>3. CASE Register(c)
  <2> DEFINE old == {d \in UNION {Of(s) : s \in conn[c].s} : Registered(d)}
  <2>1. \A d \in old : d \in Conns
    BY DEF Of
  <2>2. CASE \E d \in old : conn' = Tell({d}, "replaced")
    <3>1. ConnOK'
      BY <2>1, <2>2, TellTypes DEF Types, ConnOK, Causes
    <3> QED BY <1>1, <1>3, <3>1 DEF Register, Types, RowOK, JobOK
  <2>3. CASE ConnTo(c, "gone") \/ ConnTo(c, "load")
    <3>1. ConnOK'
      BY <2>3 DEF ConnTo, Types, ConnOK, ConnRec
    <3> QED BY <1>1, <1>3, <3>1 DEF Register, Types, RowOK, JobOK
  <2> QED BY <1>3, <2>2, <2>3 DEF Register
<1>4. CASE Connect(c)
  <2>1. ConnOK'
    BY <1>4, SMTT(60) DEF Connect, ConnTo, Types, ConnOK, ConnRec
  <2>2. RowOK'
    BY <1>4 DEF Connect, Types, RowOK, RowRec
  <2> QED BY <1>1, <1>4, <2>1, <2>2 DEF Connect, Types, JobOK
<1>5. CASE Attach(c)
  <2>1. ConnOK'
    BY <1>5 DEF Attach, ConnTo, Types, ConnOK, ConnRec
  <2> QED BY <1>1, <1>5, <2>1 DEF Attach, Types, RowOK, JobOK
<1>6. CASE Finish(c)
  <2>1. conn[c].q \in Nat /\ Queued(c) \in Nat
    BY DEF Queued, Types, ConnOK, ConnRec
  <2>2. PICK q \in Nat : conn' = [conn EXCEPT ![c].pc = "drain", ![c].q = q]
    BY <1>6, <2>1 DEF Finish
  <2>3. ConnOK'
    BY <2>2, ZenonT(60) DEF Types, ConnOK, ConnRec
  <2> QED BY <1>1, <1>6, <2>3 DEF Finish, Types, RowOK, JobOK
<1>9. CASE Drain(c)
  <2>1. (conn[c].late \/ conn[c].q > 0) \in BOOLEAN
    OBVIOUS
  <2>2. PICK p \in {"end", "gone"}, l \in BOOLEAN : conn' = [conn EXCEPT ![c].pc = p, ![c].late = l]
    BY <1>9, <2>1 DEF Drain
  <2>3. ConnOK'
    BY <2>2, ZenonT(60) DEF Types, ConnOK, ConnRec
  <2> QED BY <1>1, <1>9, <2>3 DEF Drain, Types, RowOK, JobOK
<1>7. CASE EndSession(c)
  <2>1. ConnOK'
    BY <1>7 DEF EndSession, ConnTo, Types, ConnOK, ConnRec
  <2>2. RowOK'
    BY <1>7 DEF EndSession, Ends, Types, RowOK, RowRec, Who
  <2> QED BY <1>1, <1>7, <2>1, <2>2 DEF EndSession, Types, JobOK
<1>8. CASE Ended(c)
  <2>1. ConnOK'
    BY <1>8 DEF Ended, ConnTo, Types, ConnOK, ConnRec
  <2>2. PICK s \in conn[c].s : Submit(s, "conn")
    BY <1>8 DEF Ended
  <2>3. s \in Sess /\ "conn" \in Who
    BY DEF Types, ConnOK, ConnRec, Who
  <2>4. JobOK'
    BY <2>2, <2>3, SubmitTypes DEF Types
  <2> QED BY <1>1, <1>8, <2>1, <2>4 DEF Ended, Types, RowOK
<1> QED BY <1>2, <1>3, <1>4, <1>5, <1>6, <1>7, <1>8, <1>9 DEF Serve, Progress

LEMMA ClientTypes == ASSUME Types, NEW c \in Conns, Client(c), world \in Worlds PROVE Types'
<1>1. ReqOK' /\ SweepOK' /\ RunOK'
  BY DEF Client, Rest, Types, ReqOK, SweepOK, RunOK
<1>2. CASE Check(c)
  <2>1. PICK s \in world.visited : conn' = [conn EXCEPT ![c].pc = "checked", ![c].s = {s}]
    BY <1>2 DEF Check
  <2>2. s \in Sess
    BY ServiceAssumption
  <2>3. ConnOK'
    BY <2>1, <2>2, ZenonT(60) DEF Types, ConnOK, ConnRec
  <2> QED BY <1>1, <1>2, <2>3 DEF Check, Types, RowOK, JobOK
<1>3. CASE SaveTurn(c)
  <2>1. ConnOK'
    BY <1>3 DEF SaveTurn, Queued, Types, ConnOK, ConnRec
  <2> QED BY <1>1, <1>3, <2>1 DEF SaveTurn, Types, RowOK, JobOK
<1>4. CASE Close(c)
  <2>1. PICK cause : conn' = [conn EXCEPT ![c].pc = "finish", ![c].ends = (cause \in {"learner", "endrequest"})]
    BY <1>4 DEF Close
  <2>2. (cause \in {"learner", "endrequest"}) \in BOOLEAN
    OBVIOUS
  <2>3. ConnOK'
    BY <2>1, <2>2, ZenonT(60) DEF Types, ConnOK, ConnRec
  <2> QED BY <1>1, <1>4, <2>3 DEF Close, Types, RowOK, JobOK
<1> QED BY <1>2, <1>3, <1>4 DEF Client

\* What the persister does to its connection.
LEMMA LeftMoves ==
  ASSUME ConnOK, NEW c \in Conns, NEW q \in Nat, NEW causes \in SUBSET Causes, Left(c, q, causes)
  PROVE  /\ ConnOK'
         /\ \A d \in Conns : /\ conn'[d].pc = conn[d].pc /\ conn'[d].s = conn[d].s /\ conn'[d].late = conn[d].late
                             /\ conn'[d].q = IF d = c THEN q ELSE conn[d].q
<1>1. (IF conn[c].pc = "run" THEN causes ELSE {}) \in SUBSET Causes
  OBVIOUS
<1> QED BY <1>1, ZenonT(60) DEF Left, ConnOK, ConnRec

\* A step of a persister: it holds fewer turns, and one may land in the row with its epoch.
LEMMA PersisterStep ==
  ASSUME Types, NEW c \in Conns, Persister(c)
  PROVE  /\ ConnOK' /\ conn[c].q > 0
         /\ \A d \in Conns : /\ conn'[d].pc = conn[d].pc /\ conn'[d].s = conn[d].s /\ conn'[d].late = conn[d].late
                             /\ conn'[d].q <= conn[d].q
         /\ row' = row \/ \E s \in conn[c].s : Current(c) /\ row' = Saved(s)
<1> USE DEF Types
<1>1. conn[c].q \in Nat /\ conn[c].q > 0 /\ \A d \in Conns : conn[d].q \in Nat
  BY DEF Persister, Writes, Fenced, WriteFails, ConnOK, ConnRec
<1>2. PICK q \in Nat, causes \in SUBSET Causes : q < conn[c].q /\ Left(c, q, causes)
  <2>1. conn[c].q - 1 \in Nat /\ conn[c].q - 1 < conn[c].q /\ 0 < conn[c].q
    BY <1>1
  <2>2. {} \in SUBSET Causes /\ {"persister"} \in SUBSET Causes
    BY DEF Causes
  <2> QED BY <2>1, <2>2 DEF Persister, Writes, Fenced, WriteFails
<1>3. row' = row \/ \E s \in conn[c].s : Current(c) /\ row' = Saved(s)
  BY DEF Persister, Writes, Fenced, WriteFails
<1> QED BY <1>1, <1>2, <1>3, LeftMoves

LEMMA PersisterTypes == ASSUME Types, NEW c \in Conns, Persister(c) PROVE Types'
<1>1. ReqOK' /\ SweepOK' /\ RunOK' /\ JobOK'
  BY DEF Persister, Rest, Types, ReqOK, SweepOK, RunOK, JobOK
<1>2. RowOK'
  <2>1. CASE row' = row
    BY <2>1 DEF Types, RowOK
  <2>2. CASE \E s \in conn[c].s : row' = Saved(s)
    <3>1. PICK s \in Sess : row' = Saved(s)
      BY <2>2 DEF Types, ConnOK, ConnRec
    <3> QED BY <3>1, SavedTypes DEF Types, RowOK
  <2> QED BY <2>1, <2>2, PersisterStep
<1> QED BY <1>1, <1>2, PersisterStep DEF Types

LEMMA HandleTypes == ASSUME Types, NEW r \in Reqs, Ask(r) \/ Handle(r), world \in Worlds PROVE Types'
<1>1. SweepOK' /\ RunOK'
  BY DEF Ask, Handle, Types, SweepOK, RunOK
<1>2. CASE Ask(r)
  <2>1. PICK s \in world.visited : req' = [req EXCEPT ![r].pc = "read", ![r].s = {s}]
    BY <1>2 DEF Ask, Asked
  <2>2. s \in Sess
    BY ServiceAssumption
  <2>3. ReqOK'
    BY <2>1, <2>2, ZenonT(60) DEF Types, ReqOK, ReqRec
  <2> QED BY <1>1, <1>2, <2>3 DEF Ask, Asked, Types, RowOK, ConnOK, JobOK
<1>3. CASE Handle(r) /\ EndReads(r)
  <2>1. \A s \in req[r].s : NeedsSummary(s) \in BOOLEAN
    BY DEF NeedsSummary
  <2>2. ReqOK'
    BY <1>3, <2>1 DEF EndReads, Types, ReqOK, ReqRec
  <2> QED BY <1>1, <1>3, <2>2 DEF EndReads, Types, RowOK, ConnOK, JobOK
<1>4. CASE Handle(r) /\ EndLive(r)
  <2> DEFINE here == {c \in UNION {Of(s) : s \in req[r].s} : Attached(c)}
  <2>1. here \in SUBSET Conns
    BY DEF Of
  <2>2. ConnOK'
    BY <1>4, <2>1, TellTypes DEF EndLive, Types, ConnOK, Causes
  <2>3. ReqOK'
    BY <1>4 DEF EndLive, Types, ReqOK, ReqRec
  <2> QED BY <1>1, <1>4, <2>2, <2>3 DEF EndLive, Types, RowOK, JobOK
<1>5. CASE Handle(r) /\ EndStores(r)
  <2>1. RowOK'
    BY <1>5 DEF EndStores, Ends, Types, RowOK, RowRec, Who
  <2>2. ReqOK'
    BY <1>5 DEF EndStores, Types, ReqOK, ReqRec
  <2> QED BY <1>1, <1>5, <2>1, <2>2 DEF EndStores, Types, ConnOK, JobOK
<1>6. CASE Handle(r) /\ EndSubmits(r)
  <2>1. ReqOK'
    BY <1>6 DEF EndSubmits, Types, ReqOK, ReqRec
  <2>2. PICK s \in req[r].s : Submit(s, "request")
    BY <1>6 DEF EndSubmits
  <2>3. s \in Sess /\ "request" \in Who
    BY DEF Types, ReqOK, ReqRec, Who
  <2>4. JobOK'
    BY <2>2, <2>3, SubmitTypes DEF Types
  <2> QED BY <1>1, <1>6, <2>1, <2>4 DEF EndSubmits, Types, RowOK, ConnOK
<1> QED BY <1>2, <1>3, <1>4, <1>5, <1>6 DEF Handle

LEMMA JobTypes == ASSUME Types, NEW s \in Sess, Job(s) \/ Outside(s) PROVE Types'
<1>1. ConnOK' /\ ReqOK' /\ SweepOK' /\ RunOK'
  BY DEF Job, Outside, Types, ConnOK, ReqOK, SweepOK, RunOK
<1>2. CASE Job(s)
  <2>1. JobOK'
    BY <1>2, SMTT(60) DEF Job, JobStarts, JobReads, JobStores, JobFails, JobTo, Types, JobOK, JobRec, RowOK, RowRec
  <2>2. RowOK'
    <3>1. CASE row' = row
      BY <3>1 DEF Types, RowOK
    <3>2. CASE JobStores(s)
      <4>1. {job[s].seen} \in SUBSET Nat
        BY DEF Types, JobOK, JobRec
      <4> QED BY <3>2, <4>1 DEF JobStores, SetSummary, Types, RowOK, RowRec
    <3> QED BY <1>2, <3>1, <3>2 DEF Job, JobStarts, JobReads, JobFails
  <2> QED BY <1>1, <2>1, <2>2 DEF Types
<1>3. CASE Outside(s)
  <2>1. CASE TimePasses(s)
    BY <1>1, <1>3, <2>1, ZenonT(60) DEF Outside, TimePasses, Types, RowOK, RowRec, JobOK
  <2>2. CASE SweptElsewhere(s)
    BY <1>1, <1>3, <2>2, SweptTypes DEF Outside, SweptElsewhere, Types, RowOK, JobOK, Who
  <2> QED BY <1>3, <2>1, <2>2 DEF Outside
<1> QED BY <1>2, <1>3

LEMMA SweeperTypes == ASSUME Types, Sweeper PROVE Types'
<1>1. ConnOK' /\ ReqOK' /\ RunOK'
  BY DEF Sweeper, Types, ConnOK, ReqOK, RunOK
<1>2. CASE Tick \/ SweeperStops
  BY <1>1, <1>2 DEF Tick, SweeperStops, Types, SweepOK, RowOK, JobOK
<1>3. CASE Claim
  <2>1. PICK ids \in SUBSET Stale :
          row' = Swept(ids, "sweep") /\ \E full \in BOOLEAN : sweep' = [pc |-> "submit", ids |-> ids, full |-> full]
    BY <1>3 DEF Claim
  <2>2. RowOK'
    BY <2>1, SweptTypes DEF Types, RowOK, Who
  <2>3. SweepOK'
    BY <2>1 DEF Stale, SweepOK
  <2> QED BY <1>1, <1>3, <2>2, <2>3 DEF Claim, Types, JobOK
<1>4. CASE ClaimFails
  <2>1. RowOK'
    BY <1>4, SweptTypes DEF ClaimFails, Types, RowOK, Who
  <2>2. SweepOK'
    BY <1>4 DEF ClaimFails, Types, SweepOK
  <2> QED BY <1>1, <1>4, <2>1, <2>2 DEF ClaimFails, Types, JobOK
<1>5. CASE SubmitClaimed
  <2>1. SweepOK'
    BY <1>5 DEF SubmitClaimed, Types, SweepOK
  <2>2. \A s \in sweep.ids : s \in Sess
    BY DEF Types, SweepOK
  <2>3. JobOK'
    BY <1>5, <2>2, SubmitTypes DEF SubmitClaimed, Types, JobOK, Who
  <2> QED BY <1>1, <1>5, <2>1, <2>3 DEF SubmitClaimed, Types, RowOK
<1> QED BY <1>2, <1>3, <1>4, <1>5 DEF Sweeper

LEMMA RunTypes == ASSUME Types, Main \/ Stop PROVE Types'
<1>1. RowOK' /\ ReqOK' /\ SweepOK' /\ JobOK'
  BY DEF Main, Stop, Types, RowOK, ReqOK, SweepOK, JobOK
<1>2. RunOK'
  BY DEF Main, Drained, ServersStop, WorkersStop, SummariesDone, Phase, GiveUp, Stop, Shutdown, Deadline, Types, RunOK
<1>3. ConnOK'
  <2>1. CASE Stop /\ Shutdown
    BY <2>1, TellTypes DEF Shutdown, Types, ConnOK, Causes
  <2>2. CASE UNCHANGED conn
    BY <2>2 DEF Types, ConnOK
  <2> QED BY <2>1, <2>2 DEF Main, Drained, ServersStop, WorkersStop, SummariesDone, Stop, Deadline
<1> QED BY <1>1, <1>2, <1>3 DEF Types

\* The world stays.
LEMMA WorldStays == [Next]_vars => world' = world
BY DEF Next, Serve, Client, Persister, Rest, Ask, Handle, Job, Outside, Sweeper, Main, Stop, Exited, vars

LEMMA TypesNext == ASSUME Types, world \in Worlds, [Next]_vars PROVE Types'
<1>1. CASE Exited \/ UNCHANGED vars
  BY <1>1 DEF Exited, vars, Types, RowOK, ConnOK, ReqOK, JobOK, SweepOK, RunOK
<1> QED BY <1>1, ServeTypes, ClientTypes, PersisterTypes, HandleTypes, JobTypes, SweeperTypes, RunTypes DEF Next

-----------------------------------------------------------------------------
(* The exit *)

\* What each phase of App.Run has left behind it, unless the deadline ended one; and
\* that only then is a summary refused.
ExitInv ==
  /\ (draining <=> run.phase # "serving")
  /\ (closed <=> run.phase \in {"summaries", "returned"})
  /\ sweep.pc # "submit" => sweep.ids = {}
  /\ closed => sweep.pc = "stopped"
  /\ ~closed \/ ~run.err => refused = {}
  /\ ~run.err /\ run.phase \in {"servers", "workers", "summaries", "returned"} => \A c \in Conns : ~Registered(c)
  /\ ~run.err /\ run.phase \in {"workers", "summaries", "returned"} => ~InFlight
  /\ ~run.err /\ run.phase = "returned" => \A s \in Sess : job[s].pc \in {"none", "done"}

LEMMA ExitInit == Init => ExitInv
BY DEF Init, ExitInv, Registered, InFlight

\* While the hub drains no connection registers, and none is on its way to be checked.
LEMMA ServeExit == ASSUME Types, ExitInv, NEW c \in Conns, Serve(c) PROVE ExitInv'
<1>1. run' = run /\ draining' = draining /\ sweep' = sweep /\ closed' = closed /\ req' = req /\ run.phase # "returned"
  BY DEF Serve, Rest, Running
<1>2. CASE Register(c) /\ \E d \in Conns : conn' = Tell({d}, "replaced")
  <2>1. \A d \in Conns : conn'[d].pc = conn[d].pc
    BY <1>2, TellTypes DEF Types, Causes
  <2> QED BY <1>1, <1>2, <2>1 DEF ExitInv, Registered, InFlight, Register
<1>3. CASE ~(Register(c) /\ \E d \in Conns : conn' = Tell({d}, "replaced"))
  <2>1. PICK p : Moves(c, p) /\ p # "checked" /\ (p = "load" => ~draining)
                 /\ (p \in {"attach", "run", "finish", "drain", "end", "submit"} => Registered(c))
    <3>1. CASE Redeem(c)
      BY <3>1, ConnMoves DEF Redeem, Types
    <3>2. CASE Register(c)
      <4> DEFINE old == {d \in UNION {Of(s) : s \in conn[c].s} : Registered(d)}
      <4>1. \A d \in old : d \in Conns
        BY DEF Of
      <4>2. ~ \E d \in old : conn' = Tell({d}, "replaced")
        BY <1>3, <3>2, <4>1
      <4>3. \/ ConnTo(c, "gone")
            \/ ~draining /\ ConnTo(c, "load")
        BY <3>2, <4>2 DEF Register
      <4> QED BY <4>3, ConnMoves DEF Types
    <3>3. CASE Connect(c) \/ Attach(c)
      BY <3>3, ConnMoves DEF Connect, Attach, Registered, Types
    <3>4. CASE Finish(c)
      BY <3>4, FinishMoves DEF Finish, Registered
    <3>5. CASE Drain(c)
      BY <3>5, DrainMoves DEF Drain, Registered
    <3>6. CASE EndSession(c) \/ Ended(c)
      BY <3>6, ConnMoves DEF EndSession, Ended, Registered, Types
    <3> QED BY <3>1, <3>2, <3>3, <3>4, <3>5, <3>6 DEF Serve, Progress
  <2>2. \A d \in Conns : conn'[d].pc = IF d = c THEN p ELSE conn[d].pc
    BY <2>1 DEF Moves
  <2>3. refused' = refused \/ (closed /\ Registered(c))
    BY DEF Serve, Progress, Redeem, Register, Connect, Attach, Finish, Drain, EndSession, Ended, Submit, Registered
  <2>4. \A d \in Conns : draining /\ Registered(d)' => Registered(d)
    BY <2>1, <2>2 DEF Registered
  <2>5. InFlight' => InFlight
    BY <1>1, <2>1, <2>2 DEF InFlight
  <2> QED BY <1>1, <2>3, <2>4, <2>5 DEF ExitInv
<1> QED BY <1>2, <1>3

LEMMA PersisterExit == ASSUME Types, ExitInv, NEW c \in Conns, Persister(c) PROVE ExitInv'
<1>1. /\ run' = run /\ draining' = draining /\ sweep' = sweep /\ closed' = closed /\ req' = req /\ job' = job
      /\ refused' = refused
  BY DEF Persister, Rest
<1>2. (\A d \in Conns : Registered(d)' <=> Registered(d)) /\ (InFlight' <=> InFlight)
  BY <1>1, PersisterStep DEF Registered, InFlight
<1> QED BY <1>1, <1>2 DEF ExitInv

LEMMA ClientExit == ASSUME Types, ExitInv, NEW c \in Conns, Client(c) PROVE ExitInv'
<1>1. run' = run /\ draining' = draining /\ sweep' = sweep /\ closed' = closed /\ req' = req /\ run.phase # "returned"
  BY DEF Client, Rest, Running
<1>2. job' = job /\ refused' = refused
  BY DEF Client, Check, SaveTurn, Close
<1>3. CASE Check(c)
  <2>1. run.phase = "serving"
    BY <1>3 DEF Check, Listening, ExitInv
  <2> QED BY <1>1, <1>2, <2>1 DEF ExitInv
<1>4. CASE SaveTurn(c)
  BY <1>1, <1>2, <1>4 DEF SaveTurn, ExitInv, Registered, InFlight
<1>5. CASE Close(c)
  <2>1. \A d \in Conns : conn'[d].pc = IF d = c THEN "finish" ELSE conn[d].pc
    BY <1>5 DEF Close, Types, ConnOK, ConnRec
  <2>2. conn[c].pc = "run"
    BY <1>5 DEF Close
  <2>3. (\A d \in Conns : Registered(d)' => Registered(d)) /\ (InFlight' => InFlight)
    BY <1>1, <2>1, <2>2 DEF Registered, InFlight
  <2> QED BY <1>1, <1>2, <2>3 DEF ExitInv
<1> QED BY <1>3, <1>4, <1>5 DEF Client

\* A request is admitted while the servers listen.
LEMMA HandleExit == ASSUME Types, ExitInv, NEW r \in Reqs, Ask(r) \/ Handle(r) PROVE ExitInv'
<1>1. run' = run /\ draining' = draining /\ sweep' = sweep /\ closed' = closed /\ run.phase # "returned"
  BY DEF Ask, Handle, Running
<1>2. CASE Ask(r)
  <2>1. run.phase \in {"serving", "drain"} /\ conn' = conn /\ job' = job /\ refused' = refused
    BY <1>2 DEF Ask, Asked, Listening
  <2> QED BY <1>1, <2>1 DEF ExitInv, Registered
<1>3. CASE Handle(r)
  <2>1. \A c \in Conns : conn'[c].pc = conn[c].pc
    <3>1. CASE EndLive(r)
      <4>1. {c \in UNION {Of(s) : s \in req[r].s} : Attached(c)} \in SUBSET Conns
        BY DEF Of
      <4> QED BY <3>1, <4>1, TellTypes DEF EndLive, Types, Causes
    <3>2. CASE EndReads(r) \/ EndStores(r) \/ EndSubmits(r)
      BY <3>2 DEF EndReads, EndStores, EndSubmits
    <3> QED BY <1>3, <3>1, <3>2 DEF Handle
  <2>2. req[r].pc \notin {"out", "done"} /\ \A q \in Reqs : q # r => req'[q] = req[q]
    BY <1>3 DEF Handle, EndReads, EndLive, EndStores, EndSubmits, Types, ReqOK
  <2>3. InFlight /\ (\A c \in Conns : Registered(c)' <=> Registered(c))
    BY <2>1, <2>2 DEF InFlight, Registered
  <2>4. refused' = refused \/ closed
    BY <1>3 DEF Handle, EndReads, EndLive, EndStores, EndSubmits, Submit
  <2> QED BY <1>1, <2>3, <2>4 DEF ExitInv
<1> QED BY <1>2, <1>3

LEMMA JobExit == ASSUME Types, ExitInv, NEW s \in Sess, Job(s) \/ Outside(s) PROVE ExitInv'
BY DEF Job, Outside, Running, ExitInv, Registered, InFlight

\* The sweeper submits what it claimed before it may stop.
LEMMA SweeperExit == ASSUME Types, ExitInv, Sweeper PROVE ExitInv'
<1>1. run' = run /\ draining' = draining /\ conn' = conn /\ closed' = closed /\ req' = req /\ run.phase # "returned"
  BY DEF Sweeper, Running
<1>2. (\A c \in Conns : Registered(c)' <=> Registered(c)) /\ (InFlight' <=> InFlight)
  BY <1>1 DEF Registered, InFlight
<1>3. sweep.pc # "stopped"
  BY DEF Sweeper, Tick, Claim, ClaimFails, SubmitClaimed, SweeperStops
<1>4. sweep'.pc # "submit" => sweep'.ids = {}
  <2>1. CASE Tick \/ SweeperStops \/ ClaimFails
    BY <2>1 DEF Tick, SweeperStops, ClaimFails, ExitInv, Types, SweepOK
  <2>2. CASE Claim
    BY <2>2 DEF Claim
  <2>3. CASE SubmitClaimed
    BY <2>3 DEF SubmitClaimed, Types, SweepOK
  <2> QED BY <2>1, <2>2, <2>3 DEF Sweeper
<1>5. refused' = refused
  BY <1>3 DEF Sweeper, Tick, Claim, ClaimFails, SubmitClaimed, SweeperStops, Submit, ExitInv
<1> QED BY <1>1, <1>2, <1>3, <1>4, <1>5 DEF ExitInv

\* App.Run goes on when what it waits for is gone, or with an error.
LEMMA RunExit == ASSUME Types, ExitInv, Main \/ Stop PROVE ExitInv'
<1>1. req' = req /\ sweep' = sweep /\ job' = job /\ refused' = refused
  BY DEF Main, Stop
<1>2. \A c \in Conns : conn'[c].pc = conn[c].pc
  <2>1. CASE Stop /\ Shutdown
    <3>1. conn' = Tell({c \in Conns : Attached(c)}, "shutdown")
      BY <2>1 DEF Shutdown
    <3> QED BY <3>1, TellTypes DEF Types, Causes
  <2>2. CASE UNCHANGED conn
    BY <2>2
  <2> QED BY <2>1, <2>2 DEF Main, Drained, ServersStop, WorkersStop, SummariesDone, Stop, Deadline
<1>3. (\A c \in Conns : Registered(c)' <=> Registered(c)) /\ (InFlight' <=> InFlight)
  BY <1>1, <1>2 DEF Registered, InFlight
<1>4. CASE Stop
  <2>1. CASE Shutdown
    BY <1>1, <1>3, <2>1 DEF Shutdown, ExitInv, Types, RunOK
  <2>2. CASE Deadline
    BY <1>1, <1>3, <2>2 DEF Deadline, ExitInv, Types, RunOK
  <2> QED BY <1>4, <2>1, <2>2 DEF Stop
<1>5. CASE Main
  <2>1. CASE Drained
    BY <1>1, <1>3, <2>1 DEF Drained, Phase, GiveUp, ExitInv, Types, RunOK
  <2>2. CASE ServersStop
    BY <1>1, <1>3, <2>2 DEF ServersStop, Phase, GiveUp, ExitInv, Types, RunOK
  <2>3. CASE WorkersStop
    BY <1>1, <1>3, <2>3 DEF WorkersStop, Phase, ExitInv, Types, RunOK
  <2>4. CASE SummariesDone
    BY <1>1, <1>3, <2>4 DEF SummariesDone, Phase, GiveUp, ExitInv, Types, RunOK
  <2> QED BY <1>5, <2>1, <2>2, <2>3, <2>4 DEF Main
<1> QED BY <1>4, <1>5

LEMMA ExitNext == ASSUME Types, ExitInv, [Next]_vars PROVE ExitInv'
<1>1. CASE Exited \/ UNCHANGED vars
  BY <1>1 DEF Exited, vars, ExitInv, Registered, InFlight
<1> QED BY <1>1, ServeExit, ClientExit, PersisterExit, HandleExit, JobExit, SweeperExit, RunExit DEF Next

\* The types and the world, which every other invariant needs.
THEOREM TypesHold == Spec => [](Types /\ world \in Worlds)
<1>1. Init => Types /\ world \in Worlds
  BY TypesInit DEF Init
<1>2. Types /\ world \in Worlds /\ [Next]_vars => (Types /\ world \in Worlds)'
  BY TypesNext, WorldStays
<1> QED BY <1>1, <1>2, PTL DEF Spec

\* ExitInv is an invariant of the process.
THEOREM ExitInvariant == Spec => []ExitInv
<1>1. Init => ExitInv
  BY ExitInit
<1>2. Types /\ ExitInv /\ [Next]_vars => ExitInv'
  BY ExitNext
<1> QED BY <1>1, <1>2, TypesHold, PTL DEF Spec

\* A connection holds turns while it serves and drains; after that, only if its drain
\* timed out.
Held == \A c \in Conns : conn[c].q > 0 => conn[c].pc \in {"run", "finish", "drain"} \/ conn[c].late

LEMMA HeldNext == ASSUME Types, Held, [Next]_vars PROVE Held'
<1>1. ASSUME \A c \in Conns : /\ conn'[c].pc = conn[c].pc /\ (conn[c].late => conn'[c].late)
                              /\ conn'[c].q > 0 => conn[c].q > 0
      PROVE  Held'
  <2>1. ASSUME NEW c \in Conns, conn'[c].q > 0 PROVE conn'[c].pc \in {"run", "finish", "drain"} \/ conn'[c].late
    <3>1. conn[c].pc \in {"run", "finish", "drain"} \/ conn[c].late
      BY <1>1, <2>1 DEF Held
    <3>2. conn'[c].pc = conn[c].pc /\ (conn[c].late => conn'[c].late)
      BY <1>1
    <3> QED BY <3>1, <3>2
  <2> QED BY <2>1 DEF Held
<1>2. ASSUME NEW c \in Conns, NEW p, ConnTo(c, p), conn[c].pc \notin {"run", "finish", "drain"} PROVE Held'
  BY <1>2, ConnMoves DEF Held, Moves, Types
<1>3. ASSUME NEW cs \in SUBSET Conns, NEW cause \in Causes, conn' = Tell(cs, cause) PROVE Held'
  BY <1>1, <1>3, TellTypes DEF Types
<1>4. ASSUME NEW c \in Conns, Serve(c) PROVE Held'
  <2>1. CASE Redeem(c) \/ Connect(c) \/ Attach(c) \/ EndSession(c) \/ Ended(c)
    BY <1>2, <2>1 DEF Redeem, Connect, Attach, EndSession, Ended
  <2>2. CASE Register(c)
    <3>1. \A d \in UNION {Of(s) : s \in conn[c].s} : d \in Conns
      BY DEF Of
    <3> QED BY <1>2, <1>3, <2>2, <3>1 DEF Register, Causes
  <2>3. CASE Finish(c)
    BY <2>3, FinishMoves DEF Held, Moves
  <2>4. CASE Drain(c)
    BY <2>4, DrainMoves DEF Held
  <2> QED BY <1>4, <2>1, <2>2, <2>3, <2>4, SMTT(60) DEF Serve, Progress
<1>5. ASSUME NEW c \in Conns, Client(c) PROVE Held'
  <2>1. \A d \in Conns : d # c => conn'[d] = conn[d]
    BY <1>5 DEF Client, Check, SaveTurn, Close, Types, ConnOK
  <2>2. CASE Check(c)
    <3>1. conn'[c].q = conn[c].q /\ conn'[c].late = conn[c].late /\ conn[c].pc = "out"
      BY <2>2 DEF Check, Types, ConnOK, ConnRec
    <3> QED BY <2>1, <3>1 DEF Held
  <2>3. CASE SaveTurn(c) \/ Close(c)
    <3>1. conn'[c].pc \in {"run", "finish"}
      BY <2>3 DEF SaveTurn, Close, Types, ConnOK, ConnRec
    <3> QED BY <2>1, <3>1 DEF Held
  <2> QED BY <1>5, <2>2, <2>3 DEF Client
<1>6. ASSUME NEW c \in Conns, Persister(c) PROVE Held'
  BY <1>1, <1>6, PersisterStep DEF Types, ConnOK, ConnRec
<1>7. ASSUME NEW r \in Reqs, Ask(r) \/ Handle(r) PROVE Held'
  <2>1. {c \in UNION {Of(s) : s \in req[r].s} : Attached(c)} \in SUBSET Conns
    BY DEF Of
  <2>2. CASE Handle(r) /\ EndLive(r)
    BY <1>3, <2>1, <2>2 DEF EndLive, Causes
  <2>3. CASE UNCHANGED conn
    BY <1>1, <2>3
  <2> QED BY <1>7, <2>2, <2>3 DEF Ask, Asked, Handle, EndReads, EndStores, EndSubmits
<1>8. CASE Stop
  BY <1>1, <1>3, <1>8 DEF Stop, Shutdown, Deadline, Causes
<1>9. CASE Main \/ Sweeper \/ Exited \/ (\E s \in Sess : Job(s) \/ Outside(s)) \/ UNCHANGED vars
  BY <1>1, <1>9 DEF Main, Drained, ServersStop, WorkersStop, SummariesDone, Sweeper, Exited, Job, Outside, vars
<1> QED BY <1>4, <1>5, <1>6, <1>7, <1>8, <1>9 DEF Next

\* Held is an invariant of the process.
THEOREM HeldInvariant == Spec => []Held
<1>1. Init => Held
  BY DEF Init, Held
<1>2. Types /\ Held /\ [Next]_vars => Held'
  BY HeldNext
<1> QED BY <1>1, <1>2, TypesHold, PTL DEF Spec

\* Whatever is admitted, and whenever the signal comes: when Run returns without an
\* error, the connections, the requests, the sweeper and the summaries are done
\* (bootstrap.go, App.Run).
THEOREM RunLeavesNothing == Spec => []CleanExit
<1>1. Types /\ ExitInv /\ Held => CleanExit
  <2>1. ASSUME NEW c \in Conns, Types, Held, ~Registered(c) PROVE conn[c].q = 0 \/ conn[c].late
    BY <2>1 DEF Held, Registered, Types, ConnOK, ConnRec
  <2> QED BY <2>1 DEF ExitInv, CleanExit, InFlight
<1> QED BY <1>1, ExitInvariant, HeldInvariant, TypesHold, PTL

-----------------------------------------------------------------------------
(* The summaries *)

\* A connection has one session, and a session one registered connection.
Alone ==
  /\ \A c \in Conns : conn[c].pc # "out" => \E s \in Sess : conn[c].s = {s}
  /\ \A c, d \in Conns : Registered(c) /\ Registered(d) /\ conn[c].s = conn[d].s => c = d

\* A request is about one session.
AboutOne == \A r \in Reqs : req[r].pc # "out" => \E s \in Sess : req[r].s = {s}

\* Who ended a session is written in its row once; who submits it, or has claimed it
\* to do so, ended it; and no connection of a session that its connection ended has
\* yet to drain.
EndedBy ==
  /\ \A s \in Sess : row[s].by # "none" => row[s].status = "ended"
  /\ \A c \in Conns, s \in Sess :
       /\ conn[c].s = {s} /\ conn[c].pc \in {"attach", "run", "finish", "drain", "end"} => row[s].by # "conn"
       /\ conn[c].s = {s} /\ conn[c].pc = "submit" => row[s].by = "conn"
  /\ \A r \in Reqs, s \in Sess : s \in req[r].s /\ req[r].pc = "submit" => row[s].by = "request"
  /\ \A s \in sweep.ids : row[s].by = "sweep"

\* The connection whose epoch a row has is one of its session.
Owned == \A s \in Sess : \A c \in row[s].owner : conn[c].pc # "out" /\ conn[c].s = {s}

\* No persister that may write the row was left behind.
AllDrained(s) == \A c \in row[s].owner : ~conn[c].late

\* A job is of whoever ended the session, and what it has read of one that its own
\* connection ended, with nothing left behind, is all there is.
JobOf(s) ==
  /\ job[s].by \in {"none", row[s].by}
  /\ job[s].by = "none" => job[s].pc = "none" /\ row[s].sum = {}
  /\ job[s].by = "conn" /\ AllDrained(s) =>
       /\ job[s].pc = "store" => job[s].seen = row[s].turns
       /\ \A n \in row[s].sum : n = row[s].turns

WholeInv == Alone /\ AboutOne /\ Owned /\ EndedBy /\ \A s \in Sess : JobOf(s)

LEMMA WholeInit == Init => WholeInv
<1> SUFFICES ASSUME Init PROVE WholeInv
  OBVIOUS
<1>1. \A s \in Sess : row[s].by = "none" /\ row[s].sum = {}
  BY DEF Init, Row
<1>2. Alone /\ AboutOne /\ Owned
  BY DEF Init, Row, Alone, AboutOne, Owned, Registered
<1>3. EndedBy
  BY <1>1 DEF Init, EndedBy
<1>4. \A s \in Sess : JobOf(s)
  BY <1>1 DEF Init, NoJob, JobOf, AllDrained
<1> QED BY <1>2, <1>3, <1>4 DEF WholeInv

\* A connection registers when no other of its session is.
LEMMA AloneServe == ASSUME Types, Alone, NEW c \in Conns, Serve(c) PROVE Alone'
<1>3. ASSUME NEW p, Moves(c, p), p \in {"attach", "run", "finish", "drain", "end", "submit"} => Registered(c),
             p \notin {"load", "out"}, conn[c].pc # "out"
      PROVE  Alone'
  BY <1>3, SMTT(60) DEF Alone, Registered, Moves
<1>4. CASE Redeem(c) \/ Connect(c) \/ Attach(c) \/ Finish(c) \/ Drain(c) \/ EndSession(c) \/ Ended(c)
  <2>1. conn[c].pc # "out"
    BY <1>4 DEF Redeem, Connect, Attach, Finish, Drain, EndSession, Ended
  <2>2. CASE Redeem(c)
    BY <1>3, <2>1, <2>2, ConnMoves, SMTT(60) DEF Redeem, Types
  <2>3. CASE Connect(c) \/ Attach(c)
    BY <1>3, <2>1, <2>3, ConnMoves DEF Connect, Attach, Registered, Types
  <2>4. CASE Finish(c)
    BY <1>3, <2>1, <2>4, FinishMoves DEF Finish, Registered
  <2>5. CASE Drain(c)
    BY <1>3, <2>1, <2>5, DrainMoves DEF Drain, Registered
  <2>6. CASE EndSession(c) \/ Ended(c)
    BY <1>3, <2>1, <2>6, ConnMoves DEF EndSession, Ended, Registered, Types
  <2> QED BY <1>4, <2>2, <2>3, <2>4, <2>5, <2>6
<1>5. CASE Register(c)
  <2> DEFINE old == {d \in UNION {Of(s) : s \in conn[c].s} : Registered(d)}
  <2>1. \A d \in old : d \in Conns
    BY DEF Of
  <2>2. CASE ConnTo(c, "gone")
    BY <1>3, <1>5, <2>2, ConnMoves DEF Register, Types
  <2>3. CASE old = {} /\ ConnTo(c, "load")
    <3>1. PICK s \in Sess : conn[c].s = {s}
      BY <1>5 DEF Register, Alone
    <3>2. \A d \in Conns : conn[d].s = conn[c].s => ~Registered(d)
      BY <2>3, <3>1 DEF Of
    <3>3. Moves(c, "load")
      BY <2>3, ConnMoves DEF Types
    <3> QED BY <3>1, <3>2, <3>3 DEF Alone, Registered, Moves
  <2>4. CASE \E d \in old : conn' = Tell({d}, "replaced")
    <3>1. \A d \in Conns : conn'[d].pc = conn[d].pc /\ conn'[d].s = conn[d].s
      BY <2>1, <2>4, TellTypes DEF Types, Causes
    <3> QED BY <3>1 DEF Alone, Registered
  <2> QED BY <1>5, <2>2, <2>3, <2>4 DEF Register
<1> QED BY <1>4, <1>5 DEF Serve, Progress

LEMMA AloneNext == ASSUME Types, world \in Worlds, Alone, [Next]_vars PROVE Alone'
<1>1. ASSUME NEW c \in Conns, Client(c) PROVE Alone'
  <2>1. CASE Check(c)
    <3>1. PICK s \in world.visited : conn' = [conn EXCEPT ![c].pc = "checked", ![c].s = {s}]
      BY <2>1 DEF Check
    <3>2. s \in Sess
      BY ServiceAssumption
    <3>3. \A d \in Conns : /\ conn'[d].pc = IF d = c THEN "checked" ELSE conn[d].pc
                           /\ conn'[d].s = IF d = c THEN {s} ELSE conn[d].s
      BY <3>1 DEF Types, ConnOK, ConnRec
    <3> QED BY <3>2, <3>3 DEF Alone, Registered
  <2>2. CASE SaveTurn(c)
    <3>1. \A d \in Conns : conn'[d].pc = conn[d].pc /\ conn'[d].s = conn[d].s
      BY <2>2 DEF SaveTurn, Types, ConnOK, ConnRec
    <3> QED BY <3>1 DEF Alone, Registered
  <2>3. CASE Close(c)
    <3>1. conn[c].pc = "run" /\ \A d \in Conns : /\ conn'[d].pc = IF d = c THEN "finish" ELSE conn[d].pc
                                                 /\ conn'[d].s = conn[d].s
      BY <2>3 DEF Close, Types, ConnOK, ConnRec
    <3> QED BY <3>1 DEF Alone, Registered
  <2> QED BY <1>1, <2>1, <2>2, <2>3 DEF Client
<1>2. ASSUME \A c \in Conns : conn'[c].pc = conn[c].pc /\ conn'[c].s = conn[c].s
      PROVE  Alone'
  BY <1>2 DEF Alone, Registered
<1>6. ASSUME NEW c \in Conns, Persister(c) PROVE Alone'
  BY <1>2, <1>6, PersisterStep
<1>3. ASSUME NEW r \in Reqs, Ask(r) \/ Handle(r) PROVE Alone'
  <2>1. {c \in UNION {Of(s) : s \in req[r].s} : Attached(c)} \in SUBSET Conns
    BY DEF Of
  <2>2. CASE Handle(r) /\ EndLive(r)
    BY <1>2, <2>1, <2>2, TellTypes DEF EndLive, Types, Causes
  <2>3. CASE UNCHANGED conn
    BY <1>2, <2>3
  <2> QED BY <1>3, <2>2, <2>3 DEF Ask, Asked, Handle, EndReads, EndStores, EndSubmits
<1>4. CASE Stop
  <2>1. CASE Shutdown
    <3>1. conn' = Tell({c \in Conns : Attached(c)}, "shutdown")
      BY <2>1 DEF Shutdown
    <3> QED BY <1>2, <3>1, TellTypes DEF Types, Causes
  <2>2. CASE Deadline
    BY <1>2, <2>2 DEF Deadline
  <2> QED BY <1>4, <2>1, <2>2 DEF Stop
<1>5. CASE Main \/ Sweeper \/ Exited \/ (\E s \in Sess : Job(s) \/ Outside(s)) \/ UNCHANGED vars
  BY <1>2, <1>5 DEF Main, Drained, ServersStop, WorkersStop, SummariesDone, Sweeper, Exited, Job, Outside, vars
<1> QED BY <1>1, <1>3, <1>4, <1>5, <1>6, AloneServe DEF Next

LEMMA AboutOneNext == ASSUME Types, world \in Worlds, AboutOne, [Next]_vars PROVE AboutOne'
<1>1. ASSUME NEW r \in Reqs, Ask(r) PROVE AboutOne'
  <2>1. PICK s \in world.visited : req' = [req EXCEPT ![r].pc = "read", ![r].s = {s}]
    BY <1>1 DEF Ask, Asked
  <2>2. s \in Sess
    BY ServiceAssumption
  <2>3. req'[r].s = {s} /\ \A q \in Reqs : q # r => req'[q] = req[q]
    BY <2>1 DEF Types, ReqOK, ReqRec
  <2> QED BY <2>2, <2>3 DEF AboutOne
<1>2. ASSUME NEW r \in Reqs, Handle(r) PROVE AboutOne'
  <2>1. req[r].pc # "out" /\ \A q \in Reqs : req'[q].s = req[q].s /\ (q # r => req'[q].pc = req[q].pc)
    BY <1>2 DEF Handle, EndReads, EndLive, EndStores, EndSubmits, Types, ReqOK, ReqRec
  <2> QED BY <2>1 DEF AboutOne
<1>3. CASE UNCHANGED req
  BY <1>3 DEF AboutOne
<1> QED BY <1>1, <1>2, <1>3 DEF Next, Serve, Client, Persister, Rest, Job, Outside, Sweeper, Main, Stop, Exited, vars

\* What the statements do to the rows: only an ending one names who ended it.
LEMMA EndsRow ==
  ASSUME RowOK, NEW s \in Sess, NEW who, row' = Ends(s, who)
  PROVE  \A t \in Sess : /\ row'[t].by = (IF t = s THEN who ELSE row[t].by)
                         /\ row'[t].status = (IF t = s THEN "ended" ELSE row[t].status)
                         /\ row'[t].turns = row[t].turns /\ row'[t].sum = row[t].sum
                         /\ row'[t].owner = row[t].owner
BY DEF Ends, RowOK, RowRec

LEMMA SweptRow ==
  ASSUME RowOK, NEW ids \in SUBSET Sess, NEW who, row' = Swept(ids, who)
  PROVE  \A t \in Sess : /\ row'[t].by = (IF t \in ids THEN who ELSE row[t].by)
                         /\ row'[t].status = (IF t \in ids THEN "ended" ELSE row[t].status)
                         /\ row'[t].turns = row[t].turns /\ row'[t].sum = row[t].sum
                         /\ row'[t].owner = row[t].owner
BY ZenonT(60) DEF Swept, RowOK, RowRec

LEMMA SavedRow ==
  ASSUME RowOK, NEW s \in Sess, row' = Saved(s)
  PROVE  \A t \in Sess : /\ row'[t].by = row[t].by /\ row'[t].status = row[t].status
                         /\ row'[t].sum = row[t].sum /\ (t # s => row'[t].turns = row[t].turns)
                         /\ row'[t].owner = row[t].owner
BY DEF Saved, RowOK, RowRec

\* No step takes a connection its session or mends a drain that timed out.
LateKept == \A d \in Conns : conn[d].late => conn'[d].late
SessionKept == \A d \in Conns : conn[d].pc # "out" => conn'[d].pc # "out" /\ conn'[d].s = conn[d].s

LEMMA ConnKept == ASSUME Types, [Next]_vars PROVE LateKept /\ SessionKept
<1>1. ASSUME \A d \in Conns : conn'[d].pc = conn[d].pc /\ conn'[d].s = conn[d].s /\ conn'[d].late = conn[d].late
      PROVE  LateKept /\ SessionKept
  BY <1>1 DEF LateKept, SessionKept
<1>2. ASSUME NEW c \in Conns, NEW p, ConnTo(c, p), p # "out" PROVE LateKept /\ SessionKept
  BY <1>2, ConnMoves DEF Moves, LateKept, SessionKept, Types
<1>3. ASSUME NEW cs \in SUBSET Conns, NEW cause \in Causes, conn' = Tell(cs, cause) PROVE LateKept /\ SessionKept
  BY <1>1, <1>3, TellTypes DEF Types
<1>4. ASSUME NEW c \in Conns, Serve(c) PROVE LateKept /\ SessionKept
  <2>1. CASE Redeem(c) \/ Connect(c) \/ Attach(c) \/ EndSession(c) \/ Ended(c)
    BY <1>2, <2>1 DEF Redeem, Connect, Attach, EndSession, Ended
  <2>2. CASE Register(c)
    <3>1. \A d \in UNION {Of(s) : s \in conn[c].s} : d \in Conns
      BY DEF Of
    <3> QED BY <1>2, <1>3, <2>2, <3>1 DEF Register, Causes
  <2>3. CASE Finish(c)
    <3>1. conn'[c].late = conn[c].late
      BY <2>3 DEF Finish, Types, ConnOK, ConnRec
    <3> QED BY <2>3, <3>1, FinishMoves DEF Moves, LateKept, SessionKept
  <2>4. CASE Drain(c)
    BY <2>4, DrainMoves DEF Moves, LateKept, SessionKept
  <2> QED BY <1>4, <2>1, <2>2, <2>3, <2>4 DEF Serve, Progress
<1>5. ASSUME NEW c \in Conns, Client(c) PROVE LateKept /\ SessionKept
  <2>1. \A d \in Conns : d # c => conn'[d] = conn[d]
    BY <1>5 DEF Client, Check, SaveTurn, Close, Types, ConnOK
  <2>2. /\ conn'[c].late = conn[c].late
        /\ conn[c].pc # "out" => conn'[c].pc # "out" /\ conn'[c].s = conn[c].s
    BY <1>5 DEF Client, Check, SaveTurn, Close, Types, ConnOK, ConnRec
  <2> QED BY <2>1, <2>2 DEF LateKept, SessionKept
<1>6. ASSUME NEW c \in Conns, Persister(c) PROVE LateKept /\ SessionKept
  BY <1>1, <1>6, PersisterStep
<1>7. ASSUME NEW r \in Reqs, Ask(r) \/ Handle(r) PROVE LateKept /\ SessionKept
  <2>1. {c \in UNION {Of(s) : s \in req[r].s} : Attached(c)} \in SUBSET Conns
    BY DEF Of
  <2>2. CASE Handle(r) /\ EndLive(r)
    BY <1>3, <2>1, <2>2 DEF EndLive, Causes
  <2>3. CASE UNCHANGED conn
    BY <1>1, <2>3
  <2> QED BY <1>7, <2>2, <2>3 DEF Ask, Asked, Handle, EndReads, EndStores, EndSubmits
<1>8. CASE Stop
  BY <1>1, <1>3, <1>8 DEF Stop, Shutdown, Deadline, Causes
<1>9. CASE Main \/ Sweeper \/ Exited \/ (\E s \in Sess : Job(s) \/ Outside(s)) \/ UNCHANGED vars
  BY <1>1, <1>9 DEF Main, Drained, ServersStop, WorkersStop, SummariesDone, Sweeper, Exited, Job, Outside, vars
<1> QED BY <1>4, <1>5, <1>6, <1>7, <1>8, <1>9 DEF Next

\* A row gets the epoch of a connection of its session, when that opens it.
LEMMA OwnedNext == ASSUME Types, Alone, Owned, [Next]_vars PROVE Owned'
<1>1. ASSUME \A t \in Sess : row'[t].owner = row[t].owner PROVE Owned'
  <2>1. ASSUME NEW t \in Sess, NEW c \in row[t].owner PROVE conn'[c].pc # "out" /\ conn'[c].s = {t}
    <3>1. c \in Conns /\ conn[c].pc # "out" /\ conn[c].s = {t}
      BY DEF Owned, Types, RowOK, RowRec
    <3> QED BY <3>1, ConnKept DEF SessionKept
  <2> QED BY <1>1, <2>1 DEF Owned
<1>2. ASSUME NEW c \in Conns, Serve(c) PROVE Owned'
  <2>1. CASE UNCHANGED row
    BY <1>1, <2>1
  <2>2. CASE EndSession(c)
    <3>1. PICK s \in Sess : conn[c].s = {s}
      BY <2>2 DEF EndSession, Alone
    <3>2. row' = row \/ row' = Ends(s, "conn")
      BY <2>2, <3>1 DEF EndSession
    <3> QED BY <1>1, <3>2, EndsRow DEF Types
  <2>3. CASE Connect(c) /\ ~UNCHANGED row
    <3>1. PICK s \in Sess : conn[c].s = {s}
      BY <2>3 DEF Connect, Alone
    <3>2. \A t \in Sess : row'[t].owner = IF t = s THEN {c} ELSE row[t].owner
      BY <2>3, <3>1, ZenonT(60) DEF Connect, Types, RowOK, RowRec
    <3>3. conn'[c].pc # "out" /\ conn'[c].s = {s}
      BY <2>3, <3>1, ConnKept DEF Connect, SessionKept
    <3>4. ASSUME NEW t \in Sess, NEW d \in row'[t].owner PROVE conn'[d].pc # "out" /\ conn'[d].s = {t}
      <4>1. CASE t = s
        BY <3>2, <3>3, <3>4, <4>1
      <4>2. CASE t # s
        <5>1. d \in row[t].owner
          BY <3>2, <3>4, <4>2
        <5>2. d \in Conns /\ conn[d].pc # "out" /\ conn[d].s = {t}
          BY <5>1 DEF Owned, Types, RowOK, RowRec
        <5> QED BY <5>2, ConnKept DEF SessionKept
      <4> QED BY <4>1, <4>2
    <3> QED BY <3>4 DEF Owned
  <2> QED BY <1>2, <2>1, <2>2, <2>3 DEF Serve, Progress, Redeem, Register, Attach, Finish, Drain, Ended
<1>3. ASSUME NEW c \in Conns, Persister(c) PROVE Owned'
  <2>1. conn[c].s \subseteq Sess
    BY DEF Types, ConnOK, ConnRec
  <2> QED BY <1>1, <1>3, <2>1, PersisterStep, SavedRow DEF Types
<1>4. ASSUME NEW c \in Conns, Client(c) PROVE Owned'
  BY <1>1, <1>4 DEF Client, Check, SaveTurn, Close
<1>5. ASSUME NEW r \in Reqs, Ask(r) \/ Handle(r) PROVE Owned'
  <2>1. CASE UNCHANGED row
    BY <1>1, <2>1
  <2>2. CASE \E s \in req[r].s : row' = Ends(s, "request")
    <3>1. req[r].s \subseteq Sess
      BY DEF Types, ReqOK, ReqRec
    <3> QED BY <1>1, <2>2, <3>1, EndsRow DEF Types
  <2> QED BY <1>5, <2>1, <2>2 DEF Ask, Asked, Handle, EndReads, EndLive, EndStores, EndSubmits
<1>6. ASSUME NEW s \in Sess, Job(s) \/ Outside(s) PROVE Owned'
  <2>1. CASE UNCHANGED row
    BY <1>1, <2>1
  <2>2. CASE JobStores(s) \/ TimePasses(s)
    <3>1. \A t \in Sess : row'[t].owner = row[t].owner
      BY <2>2 DEF JobStores, SetSummary, TimePasses, Types, RowOK, RowRec
    <3> QED BY <1>1, <3>1
  <2>3. CASE SweptElsewhere(s)
    BY <1>1, <2>3, SweptRow DEF SweptElsewhere, Types
  <2> QED BY <1>6, <2>1, <2>2, <2>3 DEF Job, JobStarts, JobReads, JobFails, Outside
<1>7. CASE Sweeper
  <2>1. Stale \subseteq Sess
    BY DEF Stale
  <2>2. CASE UNCHANGED row
    BY <1>1, <2>2
  <2>3. CASE \E ids \in SUBSET Stale, who \in Who : row' = Swept(ids, who)
    BY <1>1, <2>1, <2>3, SweptRow DEF Types
  <2> QED BY <1>7, <2>2, <2>3 DEF Sweeper, Tick, Claim, ClaimFails, SubmitClaimed, SweeperStops, Who
<1>8. CASE Main \/ Stop \/ Exited \/ UNCHANGED vars
  BY <1>1, <1>8 DEF Main, Stop, Exited, vars
<1> QED BY <1>2, <1>3, <1>4, <1>5, <1>6, <1>7, <1>8 DEF Next

\* A job is not disturbed by a step that ends an open session, opens it, or saves
\* turns where its connection has not ended it or left its persister behind.
LEMMA JobOfKept ==
  ASSUME RowOK, LateKept, NEW t \in Sess, JobOf(t), job' = job,
         row'[t].sum = row[t].sum,
         row'[t].owner = row[t].owner \/ row[t].by = "none",
         row'[t].by = row[t].by \/ row[t].by = "none",
         row'[t].turns = row[t].turns \/ row[t].by # "conn" \/ ~AllDrained(t)
  PROVE  JobOf(t)'
<1>1. job[t].by \in {"none", row'[t].by} /\ (job[t].by = "none" => job[t].pc = "none" /\ row'[t].sum = {})
  BY DEF JobOf
<1>2. ASSUME job[t].by = "conn", AllDrained(t)'
      PROVE  /\ job[t].pc = "store" => job[t].seen = row'[t].turns
             /\ \A n \in row'[t].sum : n = row'[t].turns
  <2>1. row[t].by = "conn" /\ row'[t].owner = row[t].owner
    BY <1>2 DEF JobOf
  <2>2. row[t].owner \subseteq Conns
    BY DEF RowOK, RowRec
  <2>3. AllDrained(t)
    BY <1>2, <2>1, <2>2 DEF AllDrained, LateKept
  <2>4. row'[t].turns = row[t].turns
    BY <2>1, <2>3
  <2> QED BY <1>2, <2>3, <2>4 DEF JobOf
<1> QED BY <1>1, <1>2 DEF JobOf

\* Who submits a session that it ended gives it its job.
LEMMA SubmitJob ==
  ASSUME Types, WholeInv, LateKept, NEW s \in Sess, Submit(s, row[s].by), row' = row, row[s].by # "none"
  PROVE  \A t \in Sess : JobOf(t)'
<1> SUFFICES ASSUME NEW t \in Sess PROVE JobOf(t)'
  OBVIOUS
<1>1. JobOf(t)
  BY DEF WholeInv
<1>2. AllDrained(t)' => AllDrained(t)
  BY DEF AllDrained, LateKept, Types, RowOK, RowRec
<1>3. CASE job'[t] = job[t]
  BY <1>1, <1>2, <1>3 DEF JobOf
<1>4. CASE t = s /\ job'[s] = [pc |-> "queued", by |-> row[s].by, seen |-> 0]
  <2>1. job'[s].pc = "queued" /\ job'[s].by = row[s].by
    BY <1>4
  <2> QED BY <1>1, <1>2, <1>4, <2>1 DEF JobOf
<1> QED BY <1>3, <1>4 DEF Submit, Types, JobOK

\* A connection moves on and nobody ends a session.
LEMMA EndedByMoves ==
  ASSUME Types, EndedBy, NEW c \in Conns, NEW p, Moves(c, p), req' = req, sweep' = sweep,
         \A t \in Sess : row'[t].by = row[t].by /\ (row[t].status = "ended" => row'[t].status = "ended"),
         p # "submit",
         p \in {"attach", "run", "finish", "drain", "end"} => \A t \in Sess : conn[c].s = {t} => row[t].by # "conn"
  PROVE  EndedBy'
<1>1. \A d \in Conns : conn'[d].pc = (IF d = c THEN p ELSE conn[d].pc) /\ conn'[d].s = conn[d].s
  BY DEF Moves
<1>2. \A d \in Conns, t \in Sess :
        /\ conn'[d].s = {t} /\ conn'[d].pc \in {"attach", "run", "finish", "drain", "end"} => row'[t].by # "conn"
        /\ conn'[d].s = {t} /\ conn'[d].pc = "submit" => row'[t].by = "conn"
  BY <1>1 DEF EndedBy
<1>3. \A r \in Reqs, t \in Sess : t \in req'[r].s /\ req'[r].pc = "submit" => row'[t].by = "request"
  BY DEF EndedBy
<1>4. \A t \in sweep'.ids : row'[t].by = "sweep"
  BY DEF EndedBy, Types, SweepOK
<1> QED BY <1>2, <1>3, <1>4 DEF EndedBy

\* A session is open until it is ended, so nobody has claimed or submitted it before.
LEMMA WholeServe == ASSUME Types, WholeInv, LateKept, NEW c \in Conns, Serve(c) PROVE (EndedBy /\ \A s \in Sess : JobOf(s))'
<1>1. req' = req /\ sweep' = sweep
  BY DEF Serve, Rest
<1>2. CASE Redeem(c) \/ Register(c) \/ Attach(c)
  <2>1. row' = row /\ job' = job
    BY <1>2 DEF Redeem, Register, Attach
  <2>2. \A d \in Conns : conn'[d].s = conn[d].s /\ (conn'[d].pc # conn[d].pc =>
           conn'[d].pc \in {"register", "load", "gone"} \/ (conn[d].pc = "attach" /\ conn'[d].pc = "run"))
    <3>1. CASE Redeem(c) \/ Attach(c)
      BY <3>1, ConnMoves DEF Redeem, Attach, Moves, Types
    <3>2. CASE Register(c)
      <4> DEFINE old == {d \in UNION {Of(s) : s \in conn[c].s} : Registered(d)}
      <4>1. \A d \in old : d \in Conns
        BY DEF Of
      <4>2. CASE \E d \in old : conn' = Tell({d}, "replaced")
        BY <4>1, <4>2, TellTypes DEF Types, Causes
      <4>3. CASE ConnTo(c, "load") \/ ConnTo(c, "gone")
        BY <4>3, ConnMoves DEF Moves, Types
      <4> QED BY <3>2, <4>2, <4>3 DEF Register
    <3> QED BY <1>2, <3>1, <3>2
  <2>3. EndedBy'
    BY <1>1, <2>1, <2>2 DEF WholeInv, EndedBy
  <2> QED BY <2>1, <2>3, JobOfKept DEF WholeInv, Types
<1>3. CASE Connect(c)
  <2>1. job' = job /\ \A t \in Sess : /\ row'[t].by = row[t].by
                                      /\ row'[t].turns = row[t].turns /\ row'[t].sum = row[t].sum
                                      /\ row[t].status = "ended" => row'[t].status = "ended"
                                      /\ row'[t].owner = row[t].owner \/ row[t].status # "ended"
    BY <1>3 DEF Connect, Types, RowOK, RowRec
  <2>4. \A t \in Sess : row'[t].owner = row[t].owner \/ row[t].by = "none"
    BY <2>1 DEF WholeInv, EndedBy
  <2>5. \A t \in Sess : JobOf(t)'
    BY <2>1, <2>4, JobOfKept DEF WholeInv, Types
  <2>2. CASE ConnTo(c, "attach") /\ \E s \in conn[c].s : row[s].status # "ended"
    <3>1. PICK s \in Sess : conn[c].s = {s} /\ row[s].status # "ended"
      BY <1>3, <2>2 DEF Connect, WholeInv, Alone
    <3>2. row[s].by # "conn"
      BY <3>1 DEF WholeInv, EndedBy
    <3>3. EndedBy'
      BY <1>1, <2>1, <2>2, <3>1, <3>2, EndedByMoves, ConnMoves DEF WholeInv, Types
    <3> QED BY <2>5, <3>3
  <2>3. CASE ConnTo(c, "gone")
    <3>1. EndedBy'
      BY <1>1, <2>1, <2>3, EndedByMoves, ConnMoves DEF WholeInv, Types
    <3> QED BY <2>5, <3>1
  <2> QED BY <1>3, <2>2, <2>3 DEF Connect
<1>4. CASE Finish(c) \/ Drain(c)
  <2>1. row' = row /\ job' = job
    BY <1>4 DEF Finish, Drain
  <2>2. PICK p \in {"drain", "end", "gone"} : Moves(c, p)
    BY <1>4, FinishMoves, DrainMoves
  <2>3. \A t \in Sess : conn[c].s = {t} => row[t].by # "conn"
    BY <1>4 DEF Finish, Drain, WholeInv, EndedBy
  <2>4. EndedBy'
    BY <1>1, <2>1, <2>2, <2>3, EndedByMoves DEF WholeInv
  <2> QED BY <2>1, <2>4, JobOfKept DEF WholeInv, Types
<1>5. CASE EndSession(c)
  <2>1. PICK s \in Sess : conn[c].s = {s}
    BY <1>5 DEF EndSession, WholeInv, Alone
  <2>2. CASE row' = row /\ ConnTo(c, "gone")
    <3>1. EndedBy'
      BY <1>1, <2>2, ConnMoves, EndedByMoves DEF WholeInv, Types
    <3> QED BY <1>5, <2>2, <3>1, JobOfKept DEF EndSession, WholeInv, Types
  <2>3. CASE row[s].status # "ended" /\ row' = Ends(s, "conn") /\ ConnTo(c, "submit")
    <3>1. row[s].by = "none"
      BY <2>3 DEF WholeInv, EndedBy
    <3>2. \A d \in Conns : d # c /\ conn[d].s = {s} => ~Registered(d)
      BY <1>5, <2>1 DEF EndSession, WholeInv, Alone, Registered
    <3>3. EndedBy'
      <4>1. \A t \in Sess : row'[t].by # "none" => row'[t].status = "ended"
        BY <2>3, EndsRow DEF WholeInv, EndedBy, Types
      <4>2. \A d \in Conns, t \in Sess :
              /\ conn'[d].s = {t} /\ conn'[d].pc \in {"attach", "run", "finish", "drain", "end"} => row'[t].by # "conn"
              /\ conn'[d].s = {t} /\ conn'[d].pc = "submit" => row'[t].by = "conn"
        <5>1. Moves(c, "submit")
          BY <2>3, ConnMoves DEF Types
        <5> QED BY <2>1, <2>3, <3>1, <3>2, <5>1, EndsRow, SMTT(60) DEF WholeInv, EndedBy, Types, Registered, Moves
      <4>3. (\A r \in Reqs, t \in Sess : t \in req[r].s /\ req[r].pc = "submit" => row'[t].by = "request")
            /\ (\A t \in sweep.ids : row'[t].by = "sweep")
        BY <2>3, <3>1, EndsRow DEF WholeInv, EndedBy, Types, SweepOK
      <4> QED BY <1>1, <4>1, <4>2, <4>3 DEF EndedBy
    <3>4. \A t \in Sess : JobOf(t)'
      BY <1>5, <2>3, <3>1, EndsRow, JobOfKept DEF EndSession, WholeInv, Types
    <3> QED BY <3>3, <3>4
  <2> QED BY <1>5, <2>1, <2>2, <2>3 DEF EndSession
<1>6. CASE Ended(c)
  <2>1. PICK s \in Sess : conn[c].s = {s}
    BY <1>6 DEF Ended, WholeInv, Alone
  <2>2. row' = row /\ ConnTo(c, "gone") /\ Submit(s, "conn") /\ row[s].by = "conn"
    BY <1>6, <2>1 DEF Ended, WholeInv, EndedBy
  <2>3. EndedBy'
    BY <1>1, <2>2, ConnMoves, EndedByMoves DEF WholeInv, Types
  <2> QED BY <2>2, <2>3, SubmitJob
<1> QED BY <1>2, <1>3, <1>4, <1>5, <1>6 DEF Serve, Progress

LEMMA WholeClient == ASSUME Types, WholeInv, LateKept, NEW c \in Conns, Client(c) PROVE (EndedBy /\ \A s \in Sess : JobOf(s))'
<1>1. req' = req /\ sweep' = sweep /\ job' = job /\ row' = row
  BY DEF Client, Rest, Check, SaveTurn, Close
<1>2. \A t \in Sess : JobOf(t)'
  BY <1>1, JobOfKept DEF WholeInv, Types
<1>3. CASE Check(c)
  <2>1. \A d \in Conns : d # c => conn'[d] = conn[d]
    BY <1>3 DEF Check, Types, ConnOK
  <2>2. conn'[c].pc = "checked"
    BY <1>3 DEF Check, Types, ConnOK, ConnRec
  <2> QED BY <1>1, <1>2, <2>1, <2>2 DEF WholeInv, EndedBy
<1>4. CASE SaveTurn(c) \/ Close(c)
  <2>1. PICK p \in {"run", "finish"} : conn[c].pc = "run" /\ Moves(c, p)
    BY <1>4 DEF SaveTurn, Close, Types, ConnOK, ConnRec, Moves
  <2>2. \A t \in Sess : conn[c].s = {t} => row[t].by # "conn"
    BY <2>1 DEF WholeInv, EndedBy
  <2>3. EndedBy'
    BY <1>1, <2>1, <2>2, EndedByMoves DEF WholeInv
  <2> QED BY <1>2, <2>3
<1> QED BY <1>3, <1>4 DEF Client

\* A turn that lands is of the connection whose epoch the row has, which has not ended
\* the session or has left its persister behind.
LEMMA WholePersister ==
  ASSUME Types, WholeInv, Held, LateKept, NEW c \in Conns, Persister(c)
  PROVE  (EndedBy /\ \A s \in Sess : JobOf(s))'
<1>1. req' = req /\ sweep' = sweep /\ job' = job
  BY DEF Persister, Rest
<1>2. \A d \in Conns : conn'[d].pc = conn[d].pc /\ conn'[d].s = conn[d].s
  BY PersisterStep
<1>3. CASE row' = row
  <2>1. EndedBy'
    BY <1>1, <1>2, <1>3 DEF WholeInv, EndedBy
  <2> QED BY <1>1, <1>3, <2>1, JobOfKept DEF WholeInv, Types
<1>4. CASE \E s \in conn[c].s : Current(c) /\ row' = Saved(s)
  <2>1. PICK s \in conn[c].s : Current(c) /\ row' = Saved(s)
    BY <1>4
  <2>2. s \in Sess
    BY DEF Types, ConnOK, ConnRec
  <2>3. conn[c].s = {s} /\ c \in row[s].owner
    <3>1. PICK t \in conn[c].s : c \in row[t].owner
      BY <2>1 DEF Current
    <3>2. t \in Sess
      BY DEF Types, ConnOK, ConnRec
    <3>3. conn[c].s = {t}
      BY <3>1, <3>2 DEF WholeInv, Owned
    <3> QED BY <3>1, <3>3
  <2>4. row[s].by # "conn" \/ ~AllDrained(s)
    <3>1. conn[c].pc \in {"run", "finish", "drain"} \/ conn[c].late
      BY PersisterStep DEF Held
    <3> QED BY <2>2, <2>3, <3>1 DEF WholeInv, EndedBy, AllDrained
  <2>5. \A t \in Sess : /\ row'[t].by = row[t].by /\ row'[t].status = row[t].status
                        /\ row'[t].sum = row[t].sum /\ (t # s => row'[t].turns = row[t].turns)
                        /\ row'[t].owner = row[t].owner
    BY <2>1, <2>2, SavedRow DEF Types
  <2>6. EndedBy'
    BY <1>1, <1>2, <2>5 DEF WholeInv, EndedBy, Types, SweepOK
  <2> QED BY <1>1, <2>4, <2>5, <2>6, JobOfKept DEF WholeInv, Types
<1> QED BY <1>3, <1>4, PersisterStep

LEMMA WholeHandle ==
  ASSUME Types, WholeInv, LateKept, NEW r \in Reqs, Ask(r) \/ Handle(r)
  PROVE  (EndedBy /\ \A s \in Sess : JobOf(s))'
<1>1. sweep' = sweep /\ \A c \in Conns : conn'[c].pc = conn[c].pc /\ conn'[c].s = conn[c].s
  <2>1. CASE Handle(r) /\ EndLive(r)
    <3>1. {c \in UNION {Of(s) : s \in req[r].s} : Attached(c)} \in SUBSET Conns
      BY DEF Of
    <3> QED BY <2>1, <3>1, TellTypes DEF Handle, EndLive, Types, Causes
  <2> QED BY <2>1 DEF Ask, Asked, Handle, EndReads, EndStores, EndSubmits
<1>2. CASE Ask(r) \/ (Handle(r) /\ (EndReads(r) \/ EndLive(r)))
  <2>1. row' = row /\ job' = job /\ req'[r].pc # "submit" /\ \A q \in Reqs : q # r => req'[q] = req[q]
    BY <1>2 DEF Ask, Asked, Handle, EndReads, EndLive, Types, ReqOK, ReqRec
  <2>2. EndedBy'
    BY <1>1, <2>1 DEF WholeInv, EndedBy
  <2> QED BY <2>1, <2>2, JobOfKept DEF WholeInv, Types
<1>3. CASE Handle(r) /\ EndStores(r)
  <2>1. job' = job /\ \A q \in Reqs : req'[q].s = req[q].s /\ (q # r => req'[q].pc = req[q].pc)
    BY <1>3 DEF EndStores, Types, ReqOK, ReqRec
  <2>2. CASE row' = row /\ req'[r].pc # "submit"
    <3>1. EndedBy'
      BY <1>1, <2>1, <2>2 DEF WholeInv, EndedBy
    <3> QED BY <2>1, <2>2, <3>1, JobOfKept DEF WholeInv, Types
  <2>3. CASE \E s \in req[r].s : row[s].status # "ended" /\ row' = Ends(s, "request") /\ req[r].s = {s}
    <3>1. PICK s \in Sess : row[s].status # "ended" /\ row' = Ends(s, "request") /\ req[r].s = {s}
      BY <2>3 DEF Types, ReqOK, ReqRec
    <3>2. row[s].by = "none"
      BY <3>1 DEF WholeInv, EndedBy
    <3>3. \A t \in Sess : /\ row'[t].by = (IF t = s THEN "request" ELSE row[t].by)
                          /\ row'[t].status = (IF t = s THEN "ended" ELSE row[t].status)
                          /\ row'[t].turns = row[t].turns /\ row'[t].sum = row[t].sum
                          /\ row'[t].owner = row[t].owner
      BY <3>1, EndsRow DEF Types
    <3>4. EndedBy'
      BY <1>1, <2>1, <3>1, <3>2, <3>3 DEF WholeInv, EndedBy, Types, SweepOK
    <3>5. \A t \in Sess : JobOf(t)'
      BY <2>1, <3>2, <3>3, JobOfKept DEF WholeInv, Types
    <3> QED BY <3>4, <3>5
  <2>4. PICK s \in Sess : req[r].s = {s}
    BY <1>3 DEF EndStores, WholeInv, AboutOne
  <2>5. CASE row[s].status # "ended" /\ row' = Ends(s, "request")
    BY <2>3, <2>4, <2>5
  <2>6. CASE row' = row /\ req' = [req EXCEPT ![r].pc = "done"]
    <3>1. req'[r].pc # "submit"
      BY <2>6 DEF Types, ReqOK, ReqRec
    <3> QED BY <2>2, <2>6, <3>1
  <2> QED BY <1>3, <2>4, <2>5, <2>6 DEF EndStores
<1>4. CASE Handle(r) /\ EndSubmits(r)
  <2>1. PICK s \in req[r].s : Submit(s, "request")
    BY <1>4 DEF EndSubmits
  <2>2. s \in Sess /\ row[s].by = "request" /\ row' = row
    BY <1>4 DEF EndSubmits, WholeInv, EndedBy, Types, ReqOK, ReqRec
  <2>3. req'[r].pc = "done" /\ \A q \in Reqs : req'[q].s = req[q].s /\ (q # r => req'[q].pc = req[q].pc)
    BY <1>4 DEF EndSubmits, Types, ReqOK, ReqRec
  <2>4. EndedBy'
    BY <1>1, <2>2, <2>3 DEF WholeInv, EndedBy
  <2> QED BY <2>1, <2>2, <2>4, SubmitJob
<1> QED BY <1>2, <1>3, <1>4 DEF Handle

\* A job that its session's connection asked for reads a transcript that no longer grows.
LEMMA WholeJob == ASSUME Types, WholeInv, LateKept, NEW s \in Sess, Job(s) PROVE (EndedBy /\ \A t \in Sess : JobOf(t))'
<1>1. conn' = conn /\ req' = req /\ sweep' = sweep
  BY DEF Job
<1>2. \A t \in Sess : row'[t].by = row[t].by /\ row'[t].status = row[t].status /\ row'[t].turns = row[t].turns
  BY DEF Job, JobStarts, JobReads, JobStores, JobFails, SetSummary, Types, RowOK, RowRec
<1>3. EndedBy'
  BY <1>1, <1>2 DEF WholeInv, EndedBy, Types, SweepOK
<1>4. ASSUME NEW t \in Sess PROVE JobOf(t)'
  <2>1. JobOf(t) /\ (AllDrained(t)' <=> AllDrained(t))
    <3>1. row'[t].owner = row[t].owner
      BY DEF Job, JobStarts, JobReads, JobStores, JobFails, SetSummary, Types, RowOK, RowRec
    <3> QED BY <1>1, <3>1 DEF WholeInv, AllDrained
  <2>2. CASE t # s
    <3>1. job'[t] = job[t] /\ row'[t] = row[t]
      BY <2>2 DEF Job, JobStarts, JobReads, JobStores, JobFails, JobTo, SetSummary, Types, JobOK, RowOK
    <3> QED BY <2>1, <3>1 DEF JobOf
  <2>3. CASE t = s /\ (JobStarts(s) \/ JobReads(s) \/ JobFails(s))
    <3>1. row' = row /\ job'[s].by = job[s].by /\ job[s].pc # "none"
          /\ (job'[s].pc = "store" => job'[s].seen = row[s].turns)
      BY <2>3 DEF JobStarts, JobReads, JobFails, Busy, JobTo, Types, JobOK, JobRec
    <3> QED BY <2>1, <2>3, <3>1 DEF JobOf
  <2>4. CASE t = s /\ JobStores(s)
    <3>1. /\ job'[s].by = job[s].by /\ job'[s].pc = "done" /\ job[s].pc = "store"
          /\ row'[s].sum = {job[s].seen} /\ row'[s].turns = row[s].turns
      BY <2>4 DEF JobStores, JobTo, SetSummary, Types, JobOK, JobRec, RowOK, RowRec
    <3> QED BY <1>2, <2>1, <2>4, <3>1 DEF JobOf
  <2> QED BY <2>2, <2>3, <2>4 DEF Job
<1> QED BY <1>3, <1>4

\* The sweepers end sessions that nobody else has.
LEMMA WholeSwept ==
  ASSUME Types, WholeInv, LateKept, NEW ids \in SUBSET Stale, NEW who \in {"sweep", "elsewhere", "nobody"},
         row' = Swept(ids, who), conn' = conn, req' = req, job' = job,
         sweep'.ids \in {sweep.ids, {}} \/ (who = "sweep" /\ sweep'.ids = ids)
  PROVE  (EndedBy /\ \A s \in Sess : JobOf(s))'
<1>1. \A t \in ids : t \in Sess /\ row[t].by = "none"
  BY DEF Stale, WholeInv, EndedBy
<1>2. \A t \in Sess : /\ row'[t].by = (IF t \in ids THEN who ELSE row[t].by)
                      /\ row'[t].status = (IF t \in ids THEN "ended" ELSE row[t].status)
                      /\ row'[t].turns = row[t].turns /\ row'[t].sum = row[t].sum
                      /\ row'[t].owner = row[t].owner
  BY <1>1, SweptRow DEF Types
<1>3. EndedBy'
  BY <1>1, <1>2 DEF WholeInv, EndedBy, Types, SweepOK
<1>4. \A t \in Sess : JobOf(t)'
  BY <1>1, <1>2, JobOfKept DEF WholeInv, Types
<1> QED BY <1>3, <1>4

LEMMA WholeSweeper == ASSUME Types, WholeInv, LateKept, Sweeper PROVE (EndedBy /\ \A s \in Sess : JobOf(s))'
<1>1. conn' = conn /\ req' = req
  BY DEF Sweeper
<1>2. CASE Tick \/ SweeperStops
  <2>1. EndedBy'
    BY <1>1, <1>2 DEF Tick, SweeperStops, WholeInv, EndedBy, Types, SweepOK
  <2> QED BY <1>2, <2>1, JobOfKept DEF Tick, SweeperStops, WholeInv, Types
<1>3. CASE Claim
  BY <1>1, <1>3, WholeSwept DEF Claim
<1>4. CASE ClaimFails
  <2>1. sweep'.ids = sweep.ids
    BY <1>4 DEF ClaimFails, Types, SweepOK
  <2> QED BY <1>1, <1>4, <2>1, WholeSwept DEF ClaimFails
<1>5. CASE SubmitClaimed
  <2>1. row' = row /\ sweep'.ids \subseteq sweep.ids
    BY <1>5 DEF SubmitClaimed, Types, SweepOK
  <2>2. EndedBy'
    BY <1>1, <2>1 DEF WholeInv, EndedBy
  <2>3. CASE job' = job
    BY <2>1, <2>2, <2>3, JobOfKept DEF WholeInv, Types
  <2>4. CASE \E s \in sweep.ids : Submit(s, "sweep")
    <3>1. PICK s \in sweep.ids : Submit(s, "sweep")
      BY <2>4
    <3>2. s \in Sess /\ row[s].by = "sweep"
      BY DEF WholeInv, EndedBy, Types, SweepOK
    <3> QED BY <2>1, <2>2, <3>1, <3>2, SubmitJob
  <2> QED BY <1>5, <2>3, <2>4 DEF SubmitClaimed
<1> QED BY <1>2, <1>3, <1>4, <1>5 DEF Sweeper

LEMMA WholeOutside == ASSUME Types, WholeInv, LateKept, NEW s \in Sess, Outside(s) PROVE (EndedBy /\ \A t \in Sess : JobOf(t))'
<1>1. conn' = conn /\ req' = req /\ sweep' = sweep /\ job' = job
  BY DEF Outside
<1>2. CASE TimePasses(s)
  <2>1. \A t \in Sess : /\ row'[t].by = row[t].by /\ row'[t].status = row[t].status
                        /\ row'[t].turns = row[t].turns /\ row'[t].sum = row[t].sum
                        /\ row'[t].owner = row[t].owner
    BY <1>2 DEF TimePasses, Types, RowOK, RowRec
  <2>2. EndedBy'
    BY <1>1, <2>1 DEF WholeInv, EndedBy, Types, SweepOK
  <2> QED BY <1>1, <2>1, <2>2, JobOfKept DEF WholeInv, Types
<1>3. CASE SweptElsewhere(s)
  <2>1. {s} \in SUBSET Stale
    BY <1>3 DEF SweptElsewhere
  <2> QED BY <1>1, <1>3, <2>1, WholeSwept DEF SweptElsewhere
<1> QED BY <1>2, <1>3 DEF Outside

LEMMA WholeNext == ASSUME Types, world \in Worlds, Held, WholeInv, [Next]_vars PROVE WholeInv'
<1>1. Alone' /\ AboutOne' /\ Owned' /\ LateKept
  BY AloneNext, AboutOneNext, OwnedNext, ConnKept DEF WholeInv
<1>2. ASSUME row' = row, job' = job, req' = req, sweep' = sweep,
             \A c \in Conns : conn'[c].pc = conn[c].pc /\ conn'[c].s = conn[c].s
      PROVE  (EndedBy /\ \A s \in Sess : JobOf(s))'
  <2>1. EndedBy'
    BY <1>2 DEF WholeInv, EndedBy
  <2> QED BY <1>1, <1>2, <2>1, JobOfKept DEF WholeInv, Types
<1>3. CASE Stop
  <2>1. CASE Shutdown
    <3>1. conn' = Tell({c \in Conns : Attached(c)}, "shutdown")
      BY <2>1 DEF Shutdown
    <3> QED BY <1>1, <1>2, <1>3, <3>1, TellTypes DEF Stop, Types, Causes, WholeInv
  <2>2. CASE Deadline
    BY <1>1, <1>2, <1>3, <2>2 DEF Stop, Deadline, WholeInv
  <2> QED BY <1>3, <2>1, <2>2 DEF Stop
<1>4. CASE Main \/ Exited \/ UNCHANGED vars
  BY <1>1, <1>2, <1>4 DEF Main, Drained, ServersStop, WorkersStop, SummariesDone, Exited, vars, WholeInv
<1>5. CASE \/ \E c \in Conns : Serve(c) \/ Client(c) \/ Persister(c)
           \/ \E r \in Reqs : Ask(r) \/ Handle(r)
           \/ \E s \in Sess : Job(s) \/ Outside(s)
           \/ Sweeper
  BY <1>1, <1>5, WholeServe, WholeClient, WholePersister, WholeHandle, WholeJob, WholeOutside, WholeSweeper DEF WholeInv
<1> QED BY <1>3, <1>4, <1>5 DEF Next

\* WholeInv is an invariant of the process.
THEOREM WholeInvariant == Spec => []WholeInv
<1>1. Types /\ world \in Worlds /\ Held /\ WholeInv /\ [Next]_vars => WholeInv'
  BY WholeNext
<1> QED BY <1>1, WholeInit, TypesHold, HeldInvariant, PTL DEF Spec

\* However ends, requests, sweeps and persisters meet, the summary of a session that
\* its own connection ended covers every turn it ever has, unless that connection's
\* drain timed out (session.go, finish; repository, InsertTurn; hub.go).
THEOREM ConnectionsSummaryIsWhole == Spec => []SummaryIsWhole
<1>1. WholeInv => SummaryIsWhole
  BY DEF WholeInv, JobOf, AllDrained, SummaryIsWhole
<1> QED BY <1>1, WholeInvariant, PTL
=============================================================================
