-------------------------- MODULE ConnectionsProofs --------------------------
(***************************************************************************)
(* What the connections of a session leave in the database, for any number *)
(* of connections, processes, turns, attempts and faults.                  *)
(*                                                                         *)
(* The epoch tells the connections apart (EpochsApart), and a row is only  *)
(* added by the newest one.  So what a connection loaded is followed by    *)
(* its own turns alone (Mine), and each turn it saved is stored, queued,   *)
(* or was given up in a way its actor is told of (Kept).  Control says     *)
(* when a connection has a writer, and what that may still hold.           *)
(***************************************************************************)
EXTENDS Connections, FiniteSetTheorems, TLAPS

RowRec == [by : Conns, cut : BOOLEAN]
RowMaps == UNION {[S -> RowRec] : S \in SUBSET TurnNo}
WrType == [q : Seq(OpType), shut : BOOLEAN, stopped : BOOLEAN, op : OpType, try : 0..(Attempts - 1),
           snap : BOOLEAN, fenced : BOOLEAN, touch : BOOLEAN, failed : BOOLEAN]

DbOK == db \in [epoch : Nat, status : {"created", "active", "ended"}, fresh : BOOLEAN,
                rows : RowMaps, submitted : Nat]
ConnOK == conn \in [Conns -> ConnType]
WrOK == wr \in [Conns -> WrType] /\ \A c \in Conns : Len(wr[c].q) <= QueueCap
HubOK == draining \in [Procs -> BOOLEAN] /\ live \in [Procs -> SUBSET Conns]
           /\ \A p \in Procs : \A c, d \in live[p] : c = d
Types == DbOK /\ ConnOK /\ WrOK /\ HubOK

-----------------------------------------------------------------------------
(* The invariant *)

\* Before a connection has its epoch, and before it has its persister.
Arriving == {"out", "register", "waiting", "connect"}
Loading == Arriving \cup {"max", "history"}
Leaving == {"end", "leave", "gone"}

\* An insert that c's persister holds: the row of a turn c has saved.
OwnInsert(c, op) == op.k = "insert" => conn[c].base < op.no /\ op.no <= conn[c].no

Control(c) ==
  /\ conn[c].epoch <= db.epoch
  /\ conn[c].pc \in Arriving => conn[c].epoch = 0
  /\ conn[c].pc \in {"max", "history"} \/ ~wr[c].stopped => conn[c].epoch > 0
  /\ conn[c].base <= conn[c].no
  /\ conn[c].pc \in Loading => conn[c].base = conn[c].no /\ wr[c].stopped
  /\ conn[c].pc \in {"run", "finish"} => ~wr[c].stopped
  /\ wr[c].shut => conn[c].pc \in {"drain"} \cup Leaving
  /\ conn[c].pc = "drain" => conn[c].epoch > 0
  /\ conn[c].pc \in Leaving => wr[c].stopped \/ conn[c].late
  /\ wr[c].stopped => wr[c].q = <<>> /\ wr[c].op = NoOp
  /\ OwnInsert(c, wr[c].op)
  /\ \A i \in 1..Len(wr[c].q) : OwnInsert(c, wr[c].q[i])

EpochsApart == \A c, d \in Conns : conn[c].epoch = conn[d].epoch /\ conn[c].epoch > 0 => c = d

\* The rows have a last one, which load reads.
LastRow == \E n \in {0} \cup DOMAIN db.rows : \A m \in DOMAIN db.rows : m <= n

HasLoaded(c) == conn[c].pc \in {"history", "run", "finish", "drain"} \/ ~wr[c].stopped
Mine(c) ==
  HasLoaded(c) /\ Newest(c) => \A n \in DOMAIN db.rows : n <= conn[c].base \/ db.rows[n].by = c

Stored(c, n) == n \in DOMAIN db.rows /\ db.rows[n].by = c
Held(c, n) == wr[c].op = Op("insert", n) \/ \E i \in 1..Len(wr[c].q) : wr[c].q[i] = Op("insert", n)
Kept(c) ==
  ~conn[c].late /\ ~wr[c].failed /\ ~wr[c].fenced =>
    \A n \in (conn[c].base + 1)..conn[c].no : Stored(c, n) \/ Held(c, n)

AllControl == \A c \in Conns : Control(c)
AllMine == \A c \in Conns : Mine(c)
AllKept == \A c \in Conns : Kept(c)
StoreInv == Types /\ AllControl /\ EpochsApart /\ LastRow /\ AllMine /\ AllKept /\ SummarizedOnce

-----------------------------------------------------------------------------
(* Types *)

LEMMA TypesInit == Init => Types
<1> SUFFICES ASSUME Init PROVE Types
  OBVIOUS
<1>1. <<>> \in RowMaps
  <2>1. <<>> \in [{} -> RowRec]
    OBVIOUS
  <2> QED BY <2>1 DEF RowMaps
<1>2. DbOK
  BY <1>1 DEF Init, DbOK
<1>3. ConnOK
  BY ConnectionsAssumption DEF Init, ConnOK, ConnType, PCs, Causes
<1>4. WrOK
  <2>1. 0 \in 0..(Attempts - 1) /\ NoOp \in OpType /\ <<>> \in Seq(OpType) /\ Len(<<>>) = 0
    BY ConnectionsAssumption DEF NoOp, OpType
  <2> QED BY <2>1, ConnectionsAssumption DEF Init, WrOK, WrType
<1>5. HubOK
  BY DEF Init, HubOK
<1> QED BY <1>2, <1>3, <1>4, <1>5 DEF Types

LEMMA RowFacts ==
  ASSUME DbOK
  PROVE  /\ DOMAIN db.rows \subseteq TurnNo
         /\ db.rows \in [DOMAIN db.rows -> RowRec]
         /\ db.epoch \in Nat /\ db.submitted \in Nat
         /\ db.status \in {"created", "active", "ended"} /\ db.fresh \in BOOLEAN /\ db.rows \in RowMaps
BY DEF DbOK, RowMaps

LEMMA GotoTypes ==
  ASSUME ConnOK, NEW c \in Conns, NEW place \in PCs, Goto(c, place)
  PROVE  ConnOK'
BY DEF ConnOK, ConnType, Goto

LEMMA StopTypes ==
  ASSUME NEW f \in [Conns -> ConnType], NEW c \in Conns, NEW cause \in Causes
  PROVE  StopActor(f, c, cause) \in [Conns -> ConnType]
BY DEF ConnType, StopActor

\* A queue with room takes one operation more.
LEMMA QueuedTypes ==
  ASSUME WrOK, NEW c \in Conns, NEW op \in OpType, HasRoom(wr[c])
  PROVE  /\ Queued(wr[c], op) \in WrType
         /\ Queued(wr[c], op).q = Append(wr[c].q, op)
         /\ Len(Queued(wr[c], op).q) <= QueueCap
<1>1. wr[c] \in WrType /\ wr[c].q \in Seq(OpType) /\ Len(wr[c].q) < QueueCap
  BY DEF WrOK, WrType, HasRoom
<1>2. Append(wr[c].q, op) \in Seq(OpType) /\ Len(Append(wr[c].q, op)) = Len(wr[c].q) + 1
  BY <1>1
<1>3. Queued(wr[c], op) = [wr[c] EXCEPT !.q = Append(wr[c].q, op)]
  BY DEF Queued
<1>4. Queued(wr[c], op).q = Append(wr[c].q, op) /\ Queued(wr[c], op) \in WrType
  BY <1>1, <1>2, <1>3 DEF WrType
<1> QED BY <1>1, <1>2, <1>4, ConnectionsAssumption

\* MAX(turn_no), or 0 of no rows.
LEMMA MaxTurnType ==
  ASSUME DbOK, LastRow
  PROVE  /\ MaxTurn(db.rows) \in 0..MaxNo
         /\ \A m \in DOMAIN db.rows : m <= MaxTurn(db.rows)
BY RowFacts, ConnectionsAssumption DEF LastRow, MaxTurn, TurnNo

LEMMA HubTypes ==
  ASSUME Types, NEW c \in Conns,
         (\E p \in Procs : Arrive(c, p)) \/ Register(c) \/ WaitDone(c) \/ WaitFails(c) \/ LoadFails(c) \/ Leave(c)
  PROVE  Types'
<1> USE DEF Types
<1>0. conn[c] \in ConnType
  BY DEF ConnOK
<1>1. CASE \E p \in Procs : Arrive(c, p)
  <2>1. PICK p \in Procs : Arrive(c, p)
    BY <1>1
  <2>2. ConnOK'
    <3>1. [conn[c] EXCEPT !.pc = "register", !.proc = {p}] \in ConnType
      BY <1>0 DEF ConnType, PCs
    <3>2. conn' = [conn EXCEPT ![c] = [conn[c] EXCEPT !.pc = "register", !.proc = {p}]]
      BY <2>1 DEF Arrive, ConnOK
    <3> QED BY <3>1, <3>2 DEF ConnOK
  <2> QED BY <2>1, <2>2 DEF Arrive, DbOK, WrOK, HubOK
<1>2. CASE Register(c)
  <2> DEFINE w(d) == [conn EXCEPT ![c].pc = "waiting", ![c].old = {d}]
  <2>1. PICK p \in conn[c].proc :
           \/ Goto(c, "gone") /\ UNCHANGED live
           \/ live' = [live EXCEPT ![p] = {c}] /\ Goto(c, "connect")
           \/ UNCHANGED live /\ \E d \in live[p] : conn' = IF Attached(d) THEN StopActor(w(d), d, "replaced") ELSE w(d)
    BY <1>2 DEF Register
  <2>2. p \in Procs
    BY DEF ConnOK, ConnType
  <2>3. HubOK'
    BY <1>2, <2>1, <2>2 DEF HubOK, Register
  <2>4. \A d \in live[p] : d \in Conns /\ w(d) \in [Conns -> ConnType]
    <3> SUFFICES ASSUME NEW d \in live[p] PROVE d \in Conns /\ w(d) \in [Conns -> ConnType]
      OBVIOUS
    <3>1. d \in Conns
      BY <2>2 DEF HubOK
    <3>2. [conn[c] EXCEPT !.pc = "waiting", !.old = {d}] \in ConnType
      BY <1>0, <3>1 DEF ConnType, PCs
    <3>3. w(d) = [conn EXCEPT ![c] = [conn[c] EXCEPT !.pc = "waiting", !.old = {d}]]
      BY DEF ConnOK
    <3> QED BY <3>1, <3>2, <3>3 DEF ConnOK
  <2>5. ConnOK'
    <3>1. CASE Goto(c, "gone") \/ Goto(c, "connect")
      BY <3>1, GotoTypes DEF PCs
    <3>2. ASSUME NEW d \in live[p], conn' = IF Attached(d) THEN StopActor(w(d), d, "replaced") ELSE w(d)
          PROVE  ConnOK'
      <4> HIDE DEF w
      <4> QED BY <2>4, <3>2, StopTypes DEF ConnOK, Causes
    <3> QED BY <2>1, <3>1, <3>2
  <2> QED BY <1>2, <2>3, <2>5 DEF Register, DbOK, WrOK
<1>3. CASE WaitDone(c) \/ WaitFails(c) \/ LoadFails(c) \/ Leave(c)
  <2>1. ConnOK'
    BY <1>3, GotoTypes DEF WaitDone, WaitFails, LoadFails, Leave, PCs
  <2>2. HubOK'
    BY <1>3 DEF WaitDone, WaitFails, LoadFails, Leave, HubOK
  <2> QED BY <1>3, <2>1, <2>2 DEF WaitDone, WaitFails, LoadFails, Leave, DbOK, WrOK
<1> QED BY <1>1, <1>2, <1>3

LEMMA LoadTypes ==
  ASSUME Types, LastRow, NEW c \in Conns,
         Connect(c) \/ LoadMax(c) \/ LoadHistory(c)
  PROVE  Types'
<1> USE DEF Types
<1>0. conn[c] \in ConnType
  BY DEF ConnOK
<1>1. CASE Connect(c)
  <2>1. ConnOK'
    BY <1>1, GotoTypes, RowFacts DEF Connect, ConnOK, ConnType, PCs
  <2>2. DbOK'
    <3>1. CASE db.status = "ended"
      BY <1>1, <3>1 DEF Connect, DbOK
    <3>2. CASE db.status # "ended"
      <4>1. db' = [db EXCEPT !.epoch = db.epoch + 1, !.status = "active", !.fresh = TRUE]
        BY <1>1, <3>2 DEF Connect
      <4>2. db.epoch + 1 \in Nat
        BY RowFacts
      <4> QED BY <4>1, <4>2 DEF DbOK
    <3> QED BY <3>1, <3>2
  <2> QED BY <1>1, <2>1, <2>2 DEF Connect, WrOK, HubOK
<1>2. CASE LoadMax(c)
  <2>1. ConnOK'
    <3> DEFINE n == MaxTurn(db.rows)
    <3>0. n \in 0..MaxNo
      BY MaxTurnType
    <3> HIDE DEF n
    <3>1. [conn[c] EXCEPT !.pc = "history", !.base = n, !.no = n] \in ConnType
      BY <1>0, <3>0 DEF ConnType, PCs
    <3>2. conn' = [conn EXCEPT ![c] = [conn[c] EXCEPT !.pc = "history", !.base = n, !.no = n]]
      BY <1>2 DEF LoadMax, ConnOK, n
    <3> QED BY <3>1, <3>2 DEF ConnOK
  <2> QED BY <1>2, <2>1 DEF LoadMax, DbOK, WrOK, HubOK
<1>3. CASE LoadHistory(c)
  <2>1. ConnOK'
    BY <1>3, GotoTypes DEF LoadHistory, PCs
  <2>2. WrOK'
    BY <1>3, ZenonT(60) DEF LoadHistory, WrOK, WrType
  <2> QED BY <1>3, <2>1, <2>2 DEF LoadHistory, DbOK, HubOK
<1> QED BY <1>1, <1>2, <1>3

LEMMA SaveTypes ==
  ASSUME Types, NEW c \in Conns, SaveTurn(c) \/ CutLast(c) \/ Finish(c)
  PROVE  Types'
<1> USE DEF Types
<1>1. conn[c] \in ConnType /\ conn[c].no \in 0..MaxNo /\ wr[c] \in WrType
  BY DEF ConnOK, ConnType, WrOK
<1>2. conn[c].no < MaxNo => conn[c].no + 1 \in 0..MaxNo
  BY <1>1, ConnectionsAssumption
<1>3. \A k \in {"insert", "update"}, n \in 0..MaxNo : Op(k, n) \in OpType
  BY DEF Op, OpType
<1>4. CASE SaveTurn(c)
  <2>1. ConnOK'
    BY <1>2, <1>4 DEF SaveTurn, ConnOK, ConnType, PCs
  <2>2. WrOK'
    <3>1. CASE HasRoom(wr[c]) /\ wr' = [wr EXCEPT ![c] = Queued(wr[c], Op("insert", conn[c].no + 1))]
      BY <1>2, <1>3, <1>4, <3>1, QueuedTypes DEF SaveTurn, WrOK
    <3>2. CASE wr' = [wr EXCEPT ![c].failed = TRUE]
      BY <3>2, ZenonT(60) DEF WrOK, WrType
    <3> QED BY <1>4, <3>1, <3>2 DEF SaveTurn, WrOK
  <2> QED BY <1>4, <2>1, <2>2 DEF SaveTurn, DbOK, HubOK
<1>5. CASE CutLast(c)
  <2>1. ConnOK'
    <3>1. [conn[c] EXCEPT !.cut = TRUE] \in ConnType /\ [conn[c] EXCEPT !.cut = TRUE, !.pc = "finish"] \in ConnType
      BY <1>1 DEF ConnType, PCs
    <3>2. \/ conn' = [conn EXCEPT ![c] = [conn[c] EXCEPT !.cut = TRUE]]
          \/ conn' = [conn EXCEPT ![c] = [conn[c] EXCEPT !.cut = TRUE, !.pc = "finish"]]
      BY <1>5 DEF CutLast, ConnOK
    <3> QED BY <3>1, <3>2 DEF ConnOK
  <2>2. WrOK'
    <3>1. CASE HasRoom(wr[c]) /\ wr' = [wr EXCEPT ![c] = Queued(wr[c], Op("update", conn[c].no))]
      BY <1>1, <1>3, <3>1, QueuedTypes DEF WrOK
    <3>2. CASE wr' = [wr EXCEPT ![c].failed = TRUE]
      BY <3>2, ZenonT(60) DEF WrOK, WrType
    <3> QED BY <1>5, <3>1, <3>2 DEF CutLast, WrOK
  <2> QED BY <1>5, <2>1, <2>2 DEF CutLast, DbOK, HubOK
<1>6. CASE Finish(c)
  <2>1. ConnOK'
    <3>1. PICK n \in 0..MaxNo : conn' = [conn EXCEPT ![c] = [conn[c] EXCEPT !.pc = "drain", !.no = n]]
      BY <1>1, <1>2, <1>6, ZenonT(60) DEF Finish, ConnOK
    <3>2. [conn[c] EXCEPT !.pc = "drain", !.no = n] \in ConnType
      BY <1>1 DEF ConnType, PCs
    <3> QED BY <3>1, <3>2 DEF ConnOK
  <2>2. WrOK'
    <3>1. PICK busy \in BOOLEAN :
             /\ busy => conn[c].no < MaxNo
             /\ LET w == IF ~busy THEN wr[c]
                         ELSE IF HasRoom(wr[c]) THEN Queued(wr[c], Op("insert", conn[c].no + 1))
                         ELSE [wr[c] EXCEPT !.failed = TRUE]
                IN  wr' = [wr EXCEPT ![c] = [w EXCEPT !.shut = TRUE]]
      BY <1>6 DEF Finish
    <3>2. \E w \in WrType : Len(w.q) <= QueueCap /\ wr' = [wr EXCEPT ![c] = [w EXCEPT !.shut = TRUE]]
      <4>1. CASE busy /\ HasRoom(wr[c])
        BY <1>2, <1>3, <3>1, <4>1, QueuedTypes
      <4>2. CASE busy /\ ~HasRoom(wr[c])
        <5>1. [wr[c] EXCEPT !.failed = TRUE] \in WrType /\ [wr[c] EXCEPT !.failed = TRUE].q = wr[c].q
          BY <1>1 DEF WrType
        <5> QED BY <3>1, <4>2, <5>1 DEF WrOK
      <4>3. CASE ~busy
        BY <1>1, <3>1, <4>3 DEF WrOK
      <4> QED BY <4>1, <4>2, <4>3
    <3>3. PICK w \in WrType : Len(w.q) <= QueueCap /\ wr' = [wr EXCEPT ![c] = [w EXCEPT !.shut = TRUE]]
      BY <3>2
    <3>4. [w EXCEPT !.shut = TRUE] \in WrType /\ [w EXCEPT !.shut = TRUE].q = w.q
      BY DEF WrType
    <3> QED BY <3>3, <3>4 DEF WrOK
  <2> QED BY <1>6, <2>1, <2>2 DEF Finish, DbOK, HubOK
<1> QED BY <1>4, <1>5, <1>6

\* A session is ended, and summarized, once.
LEMMA EndRowTypes ==
  ASSUME DbOK, NEW summarize \in BOOLEAN, db' = db \/ db' = EndRow(db, TRUE) \/ db' = EndRow(db, summarize)
  PROVE  /\ DbOK'
         /\ db'.rows = db.rows /\ db'.epoch = db.epoch
         /\ SummarizedOnce => SummarizedOnce'
<1>1. CASE db' = db
  BY <1>1 DEF DbOK, SummarizedOnce
<1>2. CASE db.status # "ended" /\ \E s \in BOOLEAN : db' = IF s THEN Submit(Ended(db)) ELSE Ended(db)
  <2>1. db' = [db EXCEPT !.status = "ended"] \/ db' = [db EXCEPT !.status = "ended", !.submitted = db.submitted + 1]
    BY <1>2 DEF Ended, Submit, DbOK
  <2>2. db.submitted \in Nat /\ db.submitted + 1 \in Nat
    BY RowFacts
  <2>3. CASE db' = [db EXCEPT !.status = "ended"]
    BY <1>2, <2>3 DEF DbOK, SummarizedOnce
  <2>4. CASE db' = [db EXCEPT !.status = "ended", !.submitted = db.submitted + 1]
    <3>1. DbOK'
      BY <2>2, <2>4 DEF DbOK
    <3>2. db'.rows = db.rows /\ db'.epoch = db.epoch /\ db'.status = "ended" /\ db'.submitted = db.submitted + 1
      BY <2>4 DEF DbOK
    <3> QED BY <1>2, <2>2, <3>1, <3>2 DEF SummarizedOnce
  <2> QED BY <2>1, <2>3, <2>4
<1> QED BY <1>1, <1>2 DEF EndRow

LEMMA EndTypes ==
  ASSUME Types, NEW c \in Conns,
         Touch(c) \/ Close(c) \/ Drained(c) \/ DrainTimesOut(c) \/ EndSession(c) \/ WriterStops(c)
  PROVE  Types'
<1> USE DEF Types
<1>0. conn[c] \in ConnType /\ wr[c] \in WrType
  BY DEF ConnOK, WrOK
<1>1. CASE Touch(c)
  <2>1. WrOK'
    BY <1>1, ZenonT(60) DEF Touch, WrOK, WrType
  <2> QED BY <1>1, <2>1 DEF Touch, DbOK, ConnOK, HubOK
<1>2. CASE Close(c)
  <2>1. PICK ends \in BOOLEAN : conn' = [conn EXCEPT ![c] = [conn[c] EXCEPT !.pc = "finish", !.ends = ends]]
    <3>1. PICK cause \in conn[c].stop \cup {"learner", "lost"} :
             conn' = [conn EXCEPT ![c].pc = "finish", ![c].ends = (cause \in {"learner", "endrequest"})]
      BY <1>2 DEF Close
    <3>2. (cause \in {"learner", "endrequest"}) \in BOOLEAN
      OBVIOUS
    <3> QED BY <3>1, <3>2 DEF ConnOK
  <2>2. [conn[c] EXCEPT !.pc = "finish", !.ends = ends] \in ConnType
    BY <1>0 DEF ConnType, PCs
  <2>3. ConnOK'
    BY <2>1, <2>2 DEF ConnOK
  <2> QED BY <1>2, <2>3 DEF Close, DbOK, WrOK, HubOK
<1>3. CASE DrainTimesOut(c)
  <2>1. conn' = [conn EXCEPT ![c] = [conn[c] EXCEPT !.pc = "end", !.late = TRUE]]
    BY <1>3 DEF DrainTimesOut, ConnOK
  <2>2. [conn[c] EXCEPT !.pc = "end", !.late = TRUE] \in ConnType
    BY <1>0 DEF ConnType, PCs
  <2>3. ConnOK'
    BY <2>1, <2>2 DEF ConnOK
  <2> QED BY <1>3, <2>3 DEF DrainTimesOut, DbOK, WrOK, HubOK
<1>4. CASE Drained(c) \/ EndSession(c)
  <2>1. ConnOK'
    BY <1>4, GotoTypes DEF Drained, EndSession, PCs
  <2>2. db' = db \/ db' = EndRow(db, TRUE)
    BY <1>4 DEF Drained, EndSession
  <2>3. DbOK'
    BY <2>2, EndRowTypes
  <2> QED BY <1>4, <2>1, <2>3 DEF Drained, EndSession, WrOK, HubOK
<1>5. CASE WriterStops(c)
  <2>1. WrOK'
    BY <1>5, ZenonT(60) DEF WriterStops, WrOK, WrType
  <2> QED BY <1>5, <2>1 DEF WriterStops, DbOK, ConnOK, HubOK
<1> QED BY <1>1, <1>2, <1>3, <1>4, <1>5

LEMMA AroundTypes ==
  ASSUME Types, \/ \E p \in Procs : HubDrain(p) \/ Crash(p) \/ EndRequested(p)
                \/ EndLive \/ EndStored \/ TimePasses \/ Sweep
  PROVE  Types'
<1> USE DEF Types
<1>1. ASSUME NEW p \in Procs, HubDrain(p) PROVE Types'
  <2>1. ConnOK'
    BY <1>1 DEF HubDrain, ConnOK, ConnType, Causes
  <2> QED BY <1>1, <2>1 DEF HubDrain, DbOK, WrOK, HubOK
<1>2. ASSUME NEW p \in Procs, Crash(p) PROVE Types'
  <2>1. ConnOK'
    <3>1. ASSUME NEW c \in Conns PROVE [conn[c] EXCEPT !.pc = "gone", !.late = TRUE] \in ConnType
      <4>1. conn[c] \in ConnType
        BY DEF ConnOK
      <4> QED BY <4>1 DEF ConnType, PCs
    <3> QED BY <1>2, <3>1 DEF Crash, ConnOK
  <2>2. WrOK'
    <3>1. <<>> \in Seq(OpType) /\ Len(<<>>) = 0 /\ NoOp \in OpType
      BY ConnectionsAssumption DEF OpType, NoOp
    <3>2. ASSUME NEW c \in Conns
          PROVE  /\ [wr[c] EXCEPT !.q = <<>>, !.op = NoOp, !.stopped = TRUE] \in WrType
                 /\ [wr[c] EXCEPT !.q = <<>>, !.op = NoOp, !.stopped = TRUE].q = <<>>
      BY <3>1 DEF WrOK, WrType
    <3>3. wr' \in [Conns -> WrType]
      BY <1>2, <3>2 DEF Crash, WrOK
    <3>4. \A c \in Conns : wr'[c].q = wr[c].q \/ wr'[c].q = <<>>
      BY <1>2, <3>2 DEF Crash
    <3> QED BY <3>1, <3>3, <3>4, ConnectionsAssumption DEF WrOK
  <2> QED BY <1>2, <2>1, <2>2, ZenonT(120) DEF Crash, DbOK, HubOK
<1>3. ASSUME NEW p \in Procs, EndRequested(p) PROVE Types'
  BY <1>3 DEF EndRequested, DbOK, ConnOK, WrOK, HubOK
<1>4. CASE EndLive
  <2>1. ConnOK'
    BY <1>4 DEF EndLive, ConnOK, ConnType, Causes
  <2> QED BY <1>4, <2>1 DEF EndLive, DbOK, WrOK, HubOK
<1>5. CASE EndStored \/ Sweep
  <2>1. DbOK'
    <3>1. (req.turns >= MinTurns) \in BOOLEAN
      OBVIOUS
    <3>2. db' = EndRow(db, TRUE) \/ db' = EndRow(db, req.turns >= MinTurns)
      BY <1>5 DEF EndStored, Sweep
    <3> QED BY <3>1, <3>2, EndRowTypes
  <2> QED BY <1>5, <2>1 DEF EndStored, Sweep, ConnOK, WrOK, HubOK
<1>6. CASE TimePasses
  <2>1. DbOK'
    BY <1>6 DEF TimePasses, DbOK
  <2> QED BY <1>6, <2>1 DEF TimePasses, ConnOK, WrOK, HubOK
<1> QED BY <1>1, <1>2, <1>3, <1>4, <1>5, <1>6

-----------------------------------------------------------------------------
(* The writer's steps *)

LEMMA NextOpTypes ==
  ASSUME Types, NEW c \in Conns, NextOp(c)
  PROVE  /\ Types'
         /\ \A n : (\E i \in 1..Len(wr[c].q) : wr[c].q[i] = Op("insert", n)) =>
                     \/ Head(wr[c].q) = Op("insert", n)
                     \/ \E i \in 1..Len(wr'[c].q) : wr'[c].q[i] = Op("insert", n)
         /\ \A i \in 1..Len(wr'[c].q) : wr'[c].q[i] = wr[c].q[i + 1] /\ i + 1 \in 1..Len(wr[c].q)
         /\ Head(wr[c].q) = wr[c].q[1] /\ 1 \in 1..Len(wr[c].q) /\ Head(wr[c].q) \in OpType
         /\ wr'[c].op = IF wr[c].fenced THEN NoOp ELSE Head(wr[c].q)
<1> DEFINE q == wr[c].q
           op == IF wr[c].fenced THEN NoOp ELSE Head(q)
<1>1. q \in Seq(OpType) /\ q # <<>> /\ Len(q) <= QueueCap /\ wr[c] \in WrType
  BY DEF NextOp, Types, WrOK, WrType
<1>2. /\ Tail(q) \in Seq(OpType) /\ Len(Tail(q)) = Len(q) - 1 /\ Len(q) \in Nat \ {0}
      /\ Head(q) = q[1] /\ Head(q) \in OpType
      /\ \A i \in 1..Len(Tail(q)) : Tail(q)[i] = q[i + 1]
  BY <1>1
<1>3. op \in OpType /\ 0 \in 0..(Attempts - 1)
  BY <1>2, ConnectionsAssumption DEF NoOp, OpType
<1>4. wr' = [wr EXCEPT ![c] = [wr[c] EXCEPT !.q = Tail(q), !.try = 0, !.snap = FALSE, !.op = op]]
  BY DEF NextOp, Types, WrOK
<1> HIDE DEF q, op
<1>5. [wr[c] EXCEPT !.q = Tail(q), !.try = 0, !.snap = FALSE, !.op = op] \in WrType
  BY <1>1, <1>2, <1>3 DEF WrType
<1>6. wr'[c].q = Tail(q) /\ wr'[c].op = op
  BY <1>1, <1>4 DEF Types, WrOK, WrType
<1>7. WrOK'
  BY <1>1, <1>2, <1>4, <1>5, <1>6, ConnectionsAssumption DEF Types, WrOK
<1>8. Types'
  BY <1>7 DEF NextOp, Types, DbOK, ConnOK, HubOK
<1>9. \A n : (\E i \in 1..Len(q) : q[i] = Op("insert", n)) =>
               \/ Head(q) = Op("insert", n)
               \/ \E i \in 1..Len(Tail(q)) : Tail(q)[i] = Op("insert", n)
  <2> SUFFICES ASSUME NEW n, NEW i \in 1..Len(q), q[i] = Op("insert", n), i # 1
               PROVE  \E j \in 1..Len(Tail(q)) : Tail(q)[j] = Op("insert", n)
    BY <1>2
  <2>1. i - 1 \in 1..Len(Tail(q)) /\ Tail(q)[i - 1] = q[i]
    BY <1>2
  <2> QED BY <2>1
<1> QED BY <1>2, <1>6, <1>8, <1>9 DEF q, op

\* Whatever becomes of an attempt, only the writer's own record changes, and its
\* actor may be told to stop.
Outcome(c) ==
  \/ wr' = [wr EXCEPT ![c] = Done(@)]
  \/ wr' = [wr EXCEPT ![c] = [Done(@) EXCEPT !.fenced = TRUE]]
  \/ wr' = [wr EXCEPT ![c] = [Done(@) EXCEPT !.failed = TRUE]]
  \/ \E n \in 0..(Attempts - 1) : wr' = [wr EXCEPT ![c].try = n, ![c].snap = FALSE]

LEMMA AttemptEnds ==
  ASSUME Types, NEW c \in Conns, Succeed(c) \/ Fence(c) \/ Fail(c) \/ Retry(c)
  PROVE  /\ ConnOK' /\ WrOK' /\ Outcome(c)
         /\ conn' = conn \/ \E cause \in Causes : conn' = StopActor(conn, c, cause)
<1>1. wr[c].try \in 0..(Attempts - 1) /\ wr[c] \in WrType
  BY DEF Types, WrOK, WrType
<1>2. Outcome(c)
  <2>1. wr[c].try + 1 # Attempts => wr[c].try + 1 \in 0..(Attempts - 1)
    BY <1>1, ConnectionsAssumption
  <2> QED BY <2>1 DEF Outcome, Succeed, Fence, Fail, Retry
<1>3. conn' = conn \/ \E cause \in Causes : conn' = StopActor(conn, c, cause)
  BY DEF Succeed, Fence, Fail, Retry, Causes
<1>4. ConnOK'
  BY <1>3, StopTypes DEF Types, ConnOK
<1>5. NoOp \in OpType
  BY ConnectionsAssumption DEF NoOp, OpType
<1>6. WrOK'
  <2>1. \E w \in WrType : w.q = wr[c].q /\ wr' = [wr EXCEPT ![c] = w]
    <3>1. CASE wr' = [wr EXCEPT ![c] = Done(@)]
      <4>1. Done(wr[c]) \in WrType /\ Done(wr[c]).q = wr[c].q
        BY <1>1, <1>5 DEF Done, WrType
      <4> QED BY <3>1, <4>1
    <3>2. CASE wr' = [wr EXCEPT ![c] = [Done(@) EXCEPT !.fenced = TRUE]]
      <4>1. [Done(wr[c]) EXCEPT !.fenced = TRUE] \in WrType /\ [Done(wr[c]) EXCEPT !.fenced = TRUE].q = wr[c].q
        BY <1>1, <1>5 DEF Done, WrType
      <4> QED BY <3>2, <4>1
    <3>3. CASE wr' = [wr EXCEPT ![c] = [Done(@) EXCEPT !.failed = TRUE]]
      <4>1. [Done(wr[c]) EXCEPT !.failed = TRUE] \in WrType /\ [Done(wr[c]) EXCEPT !.failed = TRUE].q = wr[c].q
        BY <1>1, <1>5 DEF Done, WrType
      <4> QED BY <3>3, <4>1
    <3>4. ASSUME NEW n \in 0..(Attempts - 1), wr' = [wr EXCEPT ![c].try = n, ![c].snap = FALSE]
          PROVE  <2>1
      <4>1. [wr[c] EXCEPT !.try = n, !.snap = FALSE] \in WrType /\ [wr[c] EXCEPT !.try = n, !.snap = FALSE].q = wr[c].q
        BY <1>1 DEF WrType
      <4>2. wr' = [wr EXCEPT ![c] = [wr[c] EXCEPT !.try = n, !.snap = FALSE]]
        BY <3>4 DEF Types, WrOK
      <4> QED BY <4>1, <4>2
    <3> QED BY <1>2, <3>1, <3>2, <3>3, <3>4 DEF Outcome
  <2> QED BY <2>1 DEF Types, WrOK
<1> QED BY <1>2, <1>3, <1>4, <1>6

LEMMA UpdateTypes ==
  ASSUME Types, NEW c \in Conns, UpdateReads(c) \/ FlushTouch(c)
  PROVE  /\ Types'
         /\ db'.rows = db.rows /\ db'.epoch = db.epoch /\ (SummarizedOnce => SummarizedOnce')
         /\ conn' = conn \/ \E cause \in Causes : conn' = StopActor(conn, c, cause)
         /\ \/ Outcome(c)
            \/ wr' = [wr EXCEPT ![c].snap = TRUE]
            \/ ~wr[c].fenced /\ \E f \in BOOLEAN : wr' = [wr EXCEPT ![c].touch = FALSE, ![c].fenced = f]
<1>1. CASE UpdateReads(c)
  <2>1. CASE Succeed(c) \/ Fence(c) \/ Fail(c) \/ Retry(c)
    BY <1>1, <2>1, AttemptEnds DEF UpdateReads, Types, DbOK, HubOK, SummarizedOnce
  <2>2. CASE wr' = [wr EXCEPT ![c].snap = TRUE] /\ UNCHANGED conn
    <3>1. WrOK'
      BY <2>2, ZenonT(60) DEF Types, WrOK, WrType
    <3> QED BY <1>1, <2>2, <3>1 DEF UpdateReads, Types, DbOK, ConnOK, HubOK, SummarizedOnce
  <2> QED BY <1>1, <2>1, <2>2 DEF UpdateReads
<1>2. CASE FlushTouch(c)
  <2>1. db' = db \/ db' = [db EXCEPT !.fresh = TRUE]
    BY <1>2 DEF FlushTouch
  <2>2. DbOK' /\ db'.rows = db.rows /\ db'.epoch = db.epoch /\ (SummarizedOnce => SummarizedOnce')
    BY <2>1 DEF Types, DbOK, SummarizedOnce
  <2>3. conn' = conn \/ \E cause \in Causes : conn' = StopActor(conn, c, cause)
    BY <1>2 DEF FlushTouch, Causes
  <2>4. ConnOK'
    BY <2>3, StopTypes DEF Types, ConnOK
  <2>5. wr[c] \in WrType
    BY DEF Types, WrOK
  <2>6. PICK f \in BOOLEAN : wr' = [wr EXCEPT ![c] = [wr[c] EXCEPT !.touch = FALSE, !.fenced = f]]
    <3>1. \/ wr' = [[wr EXCEPT ![c].touch = FALSE] EXCEPT ![c].fenced = TRUE]
          \/ wr' = [wr EXCEPT ![c].touch = FALSE]
      BY <1>2 DEF FlushTouch
    <3>2. wr[c].fenced \in BOOLEAN /\ wr[c] = [wr[c] EXCEPT !.fenced = wr[c].fenced]
      BY <2>5 DEF WrType
    <3>3. CASE wr' = [[wr EXCEPT ![c].touch = FALSE] EXCEPT ![c].fenced = TRUE]
      <4>1. wr' = [wr EXCEPT ![c] = [wr[c] EXCEPT !.touch = FALSE, !.fenced = TRUE]]
        BY <3>3 DEF Types, WrOK
      <4> QED BY <4>1
    <3>4. CASE wr' = [wr EXCEPT ![c].touch = FALSE]
      <4>1. wr' = [wr EXCEPT ![c] = [wr[c] EXCEPT !.touch = FALSE]]
        BY <3>4 DEF Types, WrOK
      <4>2. [wr[c] EXCEPT !.touch = FALSE] = [wr[c] EXCEPT !.touch = FALSE, !.fenced = wr[c].fenced]
        BY <2>5 DEF WrType
      <4> QED BY <3>2, <4>1, <4>2
    <3> QED BY <3>1, <3>3, <3>4
  <2>7. [wr[c] EXCEPT !.touch = FALSE, !.fenced = f] \in WrType
        /\ [wr[c] EXCEPT !.touch = FALSE, !.fenced = f].q = wr[c].q
    BY <2>5 DEF WrType
  <2>8. WrOK'
    BY <2>6, <2>7 DEF Types, WrOK
  <2>9. wr' = [wr EXCEPT ![c].touch = FALSE, ![c].fenced = f]
    BY <2>6 DEF Types, WrOK
  <2> QED BY <1>2, <2>2, <2>3, <2>4, <2>8, <2>9 DEF FlushTouch, Types, HubOK
<1> QED BY <1>1, <1>2

\* Insert, case by case: a row is added by the connection whose epoch the session has,
\* under a number that has none; the operation is dropped once its row is there, or the
\* persister is fenced, or has told its actor that it failed.
Adds(c) == Current(c) /\ wr[c].op.k = "insert" /\ wr[c].op.no \notin DOMAIN db.rows
             /\ db' = [db EXCEPT !.rows = WithRow(@, wr[c].op.no, c), !.fresh = TRUE]

LEMMA AddsRow ==
  ASSUME Types, LastRow, NEW c \in Conns, Adds(c), wr[c].op.no \in TurnNo
  PROVE  /\ DbOK' /\ LastRow' /\ db'.epoch = db.epoch /\ (SummarizedOnce => SummarizedOnce')
         /\ DOMAIN db'.rows = DOMAIN db.rows \cup {wr[c].op.no}
         /\ db'.rows[wr[c].op.no].by = c
         /\ \A n \in DOMAIN db.rows : db'.rows[n] = db.rows[n]
<1> DEFINE no == wr[c].op.no
           rows == WithRow(db.rows, no, c)
<1>1. /\ DOMAIN rows = DOMAIN db.rows \cup {no}
      /\ rows[no] = [by |-> c, cut |-> FALSE]
      /\ \A n \in DOMAIN db.rows : rows[n] = db.rows[n]
  BY DEF WithRow, Adds
<1>2. rows \in RowMaps
  <2>1. DOMAIN db.rows \cup {no} \subseteq TurnNo
    BY RowFacts DEF Types
  <2>2. \A n \in DOMAIN db.rows \cup {no} : (IF n = no THEN [by |-> c, cut |-> FALSE] ELSE db.rows[n]) \in RowRec
    BY RowFacts DEF Types, RowRec
  <2>3. rows \in [DOMAIN db.rows \cup {no} -> RowRec]
    BY <2>2 DEF WithRow
  <2> QED BY <2>1, <2>3 DEF RowMaps
<1>3. db' = [db EXCEPT !.rows = rows, !.fresh = TRUE]
  BY DEF Adds
<1> HIDE DEF rows
<1>4. DbOK' /\ db'.rows = rows /\ db'.epoch = db.epoch /\ (SummarizedOnce => SummarizedOnce')
  BY <1>2, <1>3 DEF Types, DbOK, SummarizedOnce
<1>5. LastRow'
  <2>1. PICK n \in {0} \cup DOMAIN db.rows : \A m \in DOMAIN db.rows : m <= n
    BY DEF LastRow
  <2>2. n \in Int /\ no \in Int /\ no > 0 /\ \A m \in DOMAIN db.rows : m \in Int
    BY RowFacts, ConnectionsAssumption DEF Types, TurnNo
  <2>3. CASE no <= n
    <3>1. n \in {0} \cup DOMAIN rows
      BY <1>1
    <3>2. \A m \in DOMAIN rows : m <= n
      BY <1>1, <2>1, <2>3
    <3> QED BY <1>4, <3>1, <3>2 DEF LastRow
  <2>4. CASE ~(no <= n)
    <3>1. \A m \in DOMAIN rows : m <= no
      BY <1>1, <2>1, <2>2, <2>4
    <3> QED BY <1>1, <1>4, <3>1 DEF LastRow
  <2> QED BY <2>3, <2>4
<1> QED BY <1>1, <1>4, <1>5 DEF rows

LEMMA InsertTypes ==
  ASSUME Types, LastRow, NEW c \in Conns, Control(c), Insert(c)
  PROVE  /\ Types' /\ Outcome(c) /\ (SummarizedOnce => SummarizedOnce') /\ LastRow'
         /\ conn' = conn \/ \E cause \in Causes : conn' = StopActor(conn, c, cause)
         /\ wr[c].op.k = "insert" /\ wr[c].op.no \in TurnNo
         /\ db' = db \/ Adds(c)
         /\ wr'[c].op = wr[c].op \/ Adds(c) \/ wr'[c].fenced \/ wr'[c].failed
<1>1. Succeed(c) \/ Fence(c) \/ Fail(c) \/ Retry(c)
  BY DEF Insert, Retry
<1>2. ConnOK' /\ WrOK' /\ Outcome(c) /\ (conn' = conn \/ \E cause \in Causes : conn' = StopActor(conn, c, cause))
  BY <1>1, AttemptEnds
<1>3. UNCHANGED <<live, draining>> /\ wr[c].op.k = "insert" /\ (db' = db \/ Adds(c))
  BY DEF Insert, Adds
<1>4. wr[c].op.no \in TurnNo
  BY <1>3, ConnectionsAssumption DEF Control, OwnInsert, Types, ConnOK, ConnType, WrOK, WrType, OpType, TurnNo
<1>5. wr'[c].op = wr[c].op \/ Adds(c) \/ wr'[c].fenced \/ wr'[c].failed
  <2>1. CASE Fence(c) \/ Fail(c) \/ Retry(c)
    <3>1. wr[c] \in WrType /\ wr \in [Conns -> WrType]
      BY DEF Types, WrOK
    <3>2. [Done(wr[c]) EXCEPT !.fenced = TRUE].fenced /\ [Done(wr[c]) EXCEPT !.failed = TRUE].failed
      BY <3>1 DEF Done, WrType
    <3>3. CASE Fence(c)
      BY <3>1, <3>2, <3>3 DEF Fence
    <3>4. CASE Fail(c)
      BY <3>1, <3>2, <3>4 DEF Fail
    <3>5. CASE Retry(c) /\ ~Fail(c)
      BY <3>1, <3>5 DEF Retry, WrType
    <3> QED BY <2>1, <3>3, <3>4, <3>5
  <2>2. CASE Succeed(c) /\ ~Retry(c) /\ ~Fence(c)
    BY <2>2 DEF Insert, Adds
  <2> QED BY <1>1, <2>1, <2>2
<1>6. CASE db' = db
  BY <1>2, <1>3, <1>4, <1>5, <1>6 DEF Types, DbOK, HubOK, LastRow, SummarizedOnce
<1>7. CASE Adds(c)
  BY <1>2, <1>3, <1>4, <1>5, <1>7, AddsRow, SMTT(60) DEF Types, HubOK
<1> QED BY <1>3, <1>6, <1>7

LEMMA CommitTypes ==
  ASSUME Types, NEW c \in Conns, UpdateCommits(c)
  PROVE  /\ Types' /\ Outcome(c) /\ (SummarizedOnce => SummarizedOnce')
         /\ conn' = conn \/ \E cause \in Causes : conn' = StopActor(conn, c, cause)
         /\ db'.epoch = db.epoch /\ DOMAIN db'.rows = DOMAIN db.rows
         /\ \A n \in DOMAIN db.rows : db'.rows[n].by = db.rows[n].by
<1> DEFINE no == wr[c].op.no
           rows == [db.rows EXCEPT ![no].cut = TRUE]
<1>1. ConnOK' /\ WrOK' /\ Outcome(c) /\ (conn' = conn \/ \E cause \in Causes : conn' = StopActor(conn, c, cause))
  BY AttemptEnds DEF UpdateCommits
<1>2. /\ rows \in [DOMAIN db.rows -> RowRec]
      /\ \A n \in DOMAIN db.rows : rows[n].by = db.rows[n].by
  BY RowFacts DEF Types, RowRec
<1>3. rows \in RowMaps /\ DOMAIN rows = DOMAIN db.rows
  BY <1>2, RowFacts DEF Types, RowMaps
<1>4. db' = [db EXCEPT !.rows = rows]
  BY DEF UpdateCommits, Types, DbOK
<1> HIDE DEF rows
<1>5. DbOK' /\ db'.rows = rows /\ db'.epoch = db.epoch /\ (SummarizedOnce => SummarizedOnce')
  BY <1>3, <1>4 DEF Types, DbOK, SummarizedOnce
<1> QED BY <1>1, <1>2, <1>3, <1>5 DEF UpdateCommits, Types, HubOK, rows

-----------------------------------------------------------------------------
(* What a step leaves of the other connections *)

\* Nothing about c changes but what it was told, and how far its writer is with an attempt.
Same(c) ==
  /\ wr'[c].q = wr[c].q /\ wr'[c].op = wr[c].op /\ wr'[c].stopped = wr[c].stopped
  /\ wr'[c].fenced = wr[c].fenced /\ wr'[c].failed = wr[c].failed /\ wr'[c].shut = wr[c].shut
  /\ conn'[c].pc = conn[c].pc /\ conn'[c].epoch = conn[c].epoch /\ conn'[c].base = conn[c].base
  /\ conn'[c].no = conn[c].no /\ conn'[c].late = conn[c].late

\* The epoch only grows, and rows stay who wrote them.
Onward ==
  /\ db'.epoch \in Nat /\ db'.epoch >= db.epoch
  /\ \A n \in DOMAIN db.rows : n \in DOMAIN db'.rows /\ db'.rows[n].by = db.rows[n].by

LEMMA SameControl ==
  ASSUME Types, NEW c \in Conns, Same(c), Control(c), Onward
  PROVE  Control(c)'
<1>1. conn[c].epoch \in Nat /\ db.epoch \in Nat
  BY RowFacts DEF Types, ConnOK, ConnType
<1> QED BY <1>1 DEF Same, Control, OwnInsert, Onward

LEMMA SameKept ==
  ASSUME NEW c \in Conns, Same(c), Kept(c), Onward
  PROVE  Kept(c)'
BY DEF Same, Kept, Stored, Held, Onward

\* A row that was added since is the newest connection's, as c is not.
LEMMA SameMine ==
  ASSUME Types, NEW c \in Conns, Same(c), Control(c), Mine(c), Onward,
         \/ DOMAIN db'.rows = DOMAIN db.rows
         \/ db'.epoch = db.epoch /\ db.epoch # conn[c].epoch
  PROVE  Mine(c)'
<1>1. conn[c].epoch \in Nat /\ db.epoch \in Nat /\ conn[c].epoch <= db.epoch
  BY RowFacts DEF Types, ConnOK, ConnType, Control
<1>2. HasLoaded(c)' <=> HasLoaded(c)
  BY DEF Same, HasLoaded
<1>3. Newest(c)' => Newest(c)
  BY <1>1 DEF Same, Newest, Onward
<1> QED BY <1>2, <1>3 DEF Same, Mine, Newest, Onward

\* Epochs that stay, or of which one becomes the session's next, stay apart.
LEMMA SameApart ==
  ASSUME EpochsApart, \A c \in Conns : conn'[c].epoch = conn[c].epoch
  PROVE  EpochsApart'
BY DEF EpochsApart

\* Who is told to stop is otherwise left alone.
LEMMA StopSame ==
  ASSUME ConnOK, NEW c \in Conns, NEW cause, conn' = StopActor(conn, c, cause)
  PROVE  \A d \in Conns : /\ conn'[d].pc = conn[d].pc /\ conn'[d].epoch = conn[d].epoch
                          /\ conn'[d].base = conn[d].base /\ conn'[d].no = conn[d].no
                          /\ conn'[d].late = conn[d].late
BY DEF ConnOK, ConnType, StopActor

Invariants == AllControl /\ EpochsApart /\ LastRow /\ AllMine /\ AllKept /\ SummarizedOnce
\* The invariant's parts, when the step is c's: everybody else's follow.
LEMMA StepOf ==
  ASSUME Types, Invariants, NEW c \in Conns, \A d \in Conns \ {c} : Same(d),
         conn'[c].epoch = conn[c].epoch, db'.rows = db.rows, db'.epoch = db.epoch,
         SummarizedOnce', Control(c)', Mine(c)', Kept(c)'
  PROVE  Invariants'
<1>1. Onward
  BY RowFacts DEF Onward, Types
<1>2. AllControl' /\ AllMine' /\ AllKept'
  BY <1>1, SameControl, SameMine, SameKept DEF Invariants, AllControl, AllMine, AllKept
<1>3. EpochsApart'
  BY SameApart DEF Same, Invariants
<1> QED BY <1>2, <1>3 DEF Invariants, LastRow

-----------------------------------------------------------------------------
(* The invariant, step by step *)

LEMMA InvInit == Init => Invariants
<1> SUFFICES ASSUME Init PROVE Invariants
  OBVIOUS
<1>1. AllControl
  BY ConnectionsAssumption DEF Init, AllControl, Control, OwnInsert, NoOp, Arriving, Loading, Leaving
<1>2. EpochsApart /\ LastRow /\ SummarizedOnce
  BY DEF Init, EpochsApart, LastRow, SummarizedOnce
<1>3. AllMine /\ AllKept
  BY DEF Init, AllMine, Mine, HasLoaded, AllKept, Kept
<1> QED BY <1>1, <1>2, <1>3 DEF Invariants

\* Steps that change no connection.
LEMMA NobodyInv ==
  ASSUME Types, Invariants, \A c \in Conns : Same(c), db'.rows = db.rows, db'.epoch = db.epoch, SummarizedOnce'
  PROVE  Invariants'
<1>1. Onward
  BY RowFacts DEF Onward, Types
<1>2. AllControl' /\ AllMine' /\ AllKept'
  BY <1>1, SameControl, SameMine, SameKept DEF Invariants, AllControl, AllMine, AllKept
<1>3. EpochsApart'
  BY SameApart DEF Same, Invariants
<1> QED BY <1>2, <1>3 DEF Invariants, LastRow

LEMMA AroundInv ==
  ASSUME Types, Invariants, \/ \E p \in Procs : HubDrain(p) \/ EndRequested(p)
                            \/ EndLive \/ EndStored \/ TimePasses \/ Sweep \/ (\E c \in Conns : Touch(c)) \/ UNCHANGED vars
  PROVE  Invariants'
<1>1. \A c \in Conns : Same(c)
  <2>1. CASE \E p \in Procs : HubDrain(p)
    BY <2>1 DEF HubDrain, Same, Types, ConnOK, ConnType
  <2>2. CASE EndLive
    BY <2>2 DEF EndLive, Same, Types, ConnOK, ConnType
  <2>3. CASE \E c \in Conns : Touch(c)
    BY <2>3 DEF Touch, Same, Types, WrOK, WrType
  <2>4. CASE UNCHANGED <<conn, wr>>
    BY <2>4 DEF Same
  <2> QED BY <2>1, <2>2, <2>3, <2>4 DEF EndRequested, EndStored, TimePasses, Sweep, vars
<1>2. db'.rows = db.rows /\ db'.epoch = db.epoch /\ SummarizedOnce'
  <2>1. CASE EndStored \/ Sweep
    <3>1. (req.turns >= MinTurns) \in BOOLEAN
      OBVIOUS
    <3>2. db' = EndRow(db, TRUE) \/ db' = EndRow(db, req.turns >= MinTurns)
      BY <2>1 DEF EndStored, Sweep
    <3> QED BY <3>1, <3>2, EndRowTypes DEF Types, Invariants
  <2>2. CASE TimePasses
    BY <2>2 DEF TimePasses, Types, DbOK, Invariants, SummarizedOnce
  <2>3. CASE UNCHANGED db
    BY <2>3 DEF Invariants, SummarizedOnce
  <2> QED BY <2>1, <2>2, <2>3 DEF HubDrain, EndRequested, EndLive, Touch, vars
<1> QED BY <1>1, <1>2, NobodyInv

\* A connection goes to another place, which asks no more of its writer.
LEMMA MoveInv ==
  ASSUME Types, Invariants, NEW c \in Conns, \A d \in Conns \ {c} : Same(d),
         conn'[c].epoch = conn[c].epoch, conn'[c].base = conn[c].base, conn'[c].no = conn[c].no,
         conn[c].late => conn'[c].late,
         UNCHANGED wr, db'.rows = db.rows, db'.epoch = db.epoch, SummarizedOnce',
         \/ conn[c].pc \in Arriving /\ conn'[c].pc \in Arriving
         \/ conn[c].pc \in Loading \cup Leaving /\ conn'[c].pc \in Leaving
         \/ conn[c].pc = "run" /\ conn'[c].pc = "finish"
         \/ conn[c].pc = "drain" /\ conn'[c].pc = "end" /\ (wr[c].stopped \/ conn'[c].late)
  PROVE  Invariants'
<1>0. Control(c) /\ Mine(c) /\ Kept(c)
  BY DEF Invariants, AllControl, AllMine, AllKept
<1>1. Control(c)'
  BY <1>0 DEF Control, OwnInsert, Arriving, Loading, Leaving
<1>2. Mine(c)'
  BY <1>0 DEF Mine, HasLoaded, Newest, Arriving, Loading, Leaving
<1>3. Kept(c)'
  BY <1>0 DEF Kept, Stored, Held
<1> QED BY <1>1, <1>2, <1>3, StepOf

LEMMA HubInv ==
  ASSUME Types, Invariants, NEW c \in Conns,
         \/ (\E p \in Procs : Arrive(c, p)) \/ Register(c) \/ WaitDone(c) \/ WaitFails(c) \/ LoadFails(c) \/ Leave(c)
         \/ Close(c) \/ Drained(c) \/ DrainTimesOut(c) \/ EndSession(c)
  PROVE  Invariants'
<1> DEFINE Others == \A d \in Conns \ {c} : Same(d)
           Fields == /\ conn'[c].epoch = conn[c].epoch /\ conn'[c].base = conn[c].base
                     /\ conn'[c].no = conn[c].no /\ (conn[c].late => conn'[c].late)
           Moved == \/ conn[c].pc \in Arriving /\ conn'[c].pc \in Arriving
                    \/ conn[c].pc \in Loading \cup Leaving /\ conn'[c].pc \in Leaving
                    \/ conn[c].pc = "run" /\ conn'[c].pc = "finish"
                    \/ conn[c].pc = "drain" /\ conn'[c].pc = "end" /\ (wr[c].stopped \/ conn'[c].late)
<1>0. conn \in [Conns -> ConnType]
  BY DEF Types, ConnOK
<1>1. UNCHANGED wr /\ db'.rows = db.rows /\ db'.epoch = db.epoch /\ SummarizedOnce'
  <2>1. CASE EndSession(c)
    <3>1. db' = db \/ db' = EndRow(db, TRUE)
      BY <2>1 DEF EndSession
    <3> QED BY <2>1, <3>1, EndRowTypes DEF EndSession, Types, Invariants
  <2>2. CASE UNCHANGED <<db, wr>>
    BY <2>2 DEF Invariants, SummarizedOnce
  <2> QED BY <2>1, <2>2 DEF Arrive, Register, WaitDone, WaitFails, LoadFails, Leave, Close, Drained, DrainTimesOut
<1>2. Others /\ Fields /\ Moved
  <2>1. CASE \E p \in Procs : Arrive(c, p)
    <3>1. PICK p \in Procs : Arrive(c, p)
      BY <2>1
    <3>2. conn' = [conn EXCEPT ![c] = [conn[c] EXCEPT !.pc = "register", !.proc = {p}]] /\ conn[c].pc = "out"
      BY <1>0, <3>1 DEF Arrive
    <3>3. /\ conn'[c].pc = "register" /\ conn'[c].epoch = conn[c].epoch /\ conn'[c].base = conn[c].base
          /\ conn'[c].no = conn[c].no /\ conn'[c].late = conn[c].late
      BY <1>0, <3>2 DEF ConnType
    <3>4. \A d \in Conns \ {c} : conn'[d] = conn[d]
      BY <1>0, <3>2
    <3> QED BY <1>1, <3>2, <3>3, <3>4 DEF Same, Arriving
  <2>2. CASE Register(c)
    <3> DEFINE w(d) == [conn EXCEPT ![c].pc = "waiting", ![c].old = {d}]
    <3>1. \/ Goto(c, "gone") \/ Goto(c, "connect")
          \/ \E d : conn' = w(d) \/ conn' = StopActor(w(d), d, "replaced")
      BY <2>2 DEF Register
    <3>2. conn[c].pc = "register"
      BY <2>2 DEF Register
    <3>3. CASE Goto(c, "gone") \/ Goto(c, "connect")
      BY <1>0, <1>1, <3>2, <3>3 DEF Goto, Same, ConnType, Arriving, Loading, Leaving
    <3>4. ASSUME NEW d, conn' = w(d) \/ conn' = StopActor(w(d), d, "replaced")
          PROVE  Others /\ Fields /\ Moved
      <4>1. \A e \in Conns : /\ conn'[e].epoch = w(d)[e].epoch /\ conn'[e].base = w(d)[e].base
                             /\ conn'[e].no = w(d)[e].no /\ conn'[e].late = w(d)[e].late
                             /\ conn'[e].pc = w(d)[e].pc
        BY <1>0, <3>4 DEF StopActor, ConnType
      <4>2. w(d)[c].pc = "waiting" /\ w(d)[c].epoch = conn[c].epoch /\ w(d)[c].base = conn[c].base
            /\ w(d)[c].no = conn[c].no /\ w(d)[c].late = conn[c].late
        BY <1>0 DEF ConnType
      <4>3. \A e \in Conns \ {c} : w(d)[e] = conn[e]
        BY <1>0
      <4> HIDE DEF w
      <4> QED BY <1>1, <3>2, <4>1, <4>2, <4>3 DEF Same, Arriving
    <3> QED BY <3>1, <3>3, <3>4
  <2>3. CASE WaitDone(c) \/ WaitFails(c) \/ LoadFails(c) \/ Leave(c)
    BY <1>0, <1>1, <2>3 DEF WaitDone, WaitFails, LoadFails, Leave, Goto, Same, ConnType, Arriving, Loading, Leaving
  <2>4. CASE Drained(c) \/ EndSession(c)
    <3>1. \/ Goto(c, "end") /\ conn[c].pc = "drain" /\ wr[c].stopped
          \/ Goto(c, "leave") /\ conn[c].pc = "end"
      BY <2>4 DEF Drained, EndSession
    <3>2. /\ conn'[c].epoch = conn[c].epoch /\ conn'[c].base = conn[c].base
          /\ conn'[c].no = conn[c].no /\ conn'[c].late = conn[c].late
          /\ \A d \in Conns \ {c} : conn'[d] = conn[d]
      BY <1>0, <3>1 DEF Goto, ConnType
    <3>3. (Goto(c, "end") => conn'[c].pc = "end") /\ (Goto(c, "leave") => conn'[c].pc = "leave")
      BY <1>0 DEF Goto, ConnType
    <3> QED BY <1>1, <3>1, <3>2, <3>3 DEF Same, Loading, Leaving
  <2>5. CASE DrainTimesOut(c)
    BY <1>0, <1>1, <2>5 DEF DrainTimesOut, Same, ConnType
  <2>6. CASE Close(c)
    BY <1>0, <1>1, <2>6, ZenonT(120) DEF Close, Same, ConnType
  <2> QED BY <2>1, <2>2, <2>3, <2>4, <2>5, <2>6
<1> QED BY <1>1, <1>2, MoveInv

LEMMA LoadInv ==
  ASSUME Types, Invariants, NEW c \in Conns, Connect(c) \/ LoadMax(c) \/ LoadHistory(c)
  PROVE  Invariants'
<1>0. conn \in [Conns -> ConnType] /\ conn[c] \in ConnType /\ Control(c) /\ Mine(c) /\ Kept(c)
  BY DEF Types, ConnOK, Invariants, AllControl, AllMine, AllKept
<1>1. CASE Connect(c)
  <2>1. CASE db.status = "ended"
    <3>1. UNCHANGED <<db, wr>> /\ Goto(c, "leave") /\ conn[c].pc = "connect"
      BY <1>1, <2>1 DEF Connect
    <3>2. SummarizedOnce'
      BY <3>1 DEF Invariants, SummarizedOnce
    <3> QED BY <1>0, <3>1, <3>2, MoveInv DEF Goto, Same, ConnType, Loading, Arriving, Leaving
  <2>2. CASE db.status # "ended"
    <3>1. /\ db' = [db EXCEPT !.epoch = db.epoch + 1, !.status = "active", !.fresh = TRUE]
          /\ conn' = [conn EXCEPT ![c].pc = "max", ![c].epoch = db.epoch + 1]
          /\ UNCHANGED wr /\ conn[c].pc = "connect"
      BY <1>1, <2>2 DEF Connect
    <3>2. db.epoch \in Nat /\ db'.epoch = db.epoch + 1 /\ db'.rows = db.rows /\ db'.submitted = db.submitted
      BY <3>1, RowFacts DEF Types, DbOK
    <3>3. Onward
      BY <3>2 DEF Onward
    <3>4. \A d \in Conns \ {c} : Same(d)
      BY <1>0, <3>1 DEF Same
    <3>5. /\ conn'[c].pc = "max" /\ conn'[c].epoch = db.epoch + 1
          /\ conn'[c].base = conn[c].base /\ conn'[c].no = conn[c].no /\ conn'[c].late = conn[c].late
      BY <1>0, <3>1 DEF ConnType
    <3>6. Control(c)' /\ Mine(c)' /\ Kept(c)'
      BY <1>0, <3>1, <3>2, <3>5 DEF Control, OwnInsert, Mine, HasLoaded, Kept, Stored, Held, Loading, Arriving, Leaving
    <3>7. AllControl' /\ AllMine' /\ AllKept'
      BY <3>2, <3>3, <3>4, <3>6, SameControl, SameMine, SameKept DEF Invariants, AllControl, AllMine, AllKept
    <3>8. EpochsApart'
      <4>1. \A d \in Conns : conn[d].epoch \in Nat /\ conn[d].epoch <= db.epoch
        BY <1>0 DEF ConnType, Invariants, AllControl, Control
      <4> QED BY <3>2, <3>4, <3>5, <4>1 DEF EpochsApart, Same, Invariants
    <3>9. SummarizedOnce'
      BY <2>2, <3>2, RowFacts DEF Invariants, SummarizedOnce, Types
    <3> QED BY <3>2, <3>7, <3>8, <3>9 DEF Invariants, LastRow
  <2> QED BY <2>1, <2>2
<1>2. CASE LoadMax(c)
  <2> DEFINE n == MaxTurn(db.rows)
  <2>1. n \in 0..MaxNo /\ \A m \in DOMAIN db.rows : m <= n
    BY MaxTurnType DEF Types, Invariants
  <2>2. conn' = [conn EXCEPT ![c].pc = "history", ![c].base = n, ![c].no = n] /\ conn[c].pc = "max" /\ UNCHANGED <<db, wr>>
    BY <1>2 DEF LoadMax
  <2> HIDE DEF n
  <2>3. /\ conn'[c].pc = "history" /\ conn'[c].base = n /\ conn'[c].no = n
        /\ conn'[c].epoch = conn[c].epoch /\ conn'[c].late = conn[c].late
    BY <1>0, <2>2 DEF ConnType
  <2>4. Control(c)' /\ Mine(c)' /\ Kept(c)'
    BY <1>0, <2>1, <2>2, <2>3 DEF Control, OwnInsert, Mine, HasLoaded, Kept, NoOp, Loading, Arriving, Leaving
  <2>5. \A d \in Conns \ {c} : Same(d)
    BY <1>0, <2>2 DEF Same
  <2>6. SummarizedOnce'
    BY <2>2 DEF Invariants, SummarizedOnce
  <2> QED BY <2>2, <2>3, <2>4, <2>5, <2>6, StepOf
<1>3. CASE LoadHistory(c)
  <2>1. /\ conn'[c].pc = "run" /\ conn'[c].base = conn[c].base /\ conn'[c].no = conn[c].no
        /\ conn'[c].epoch = conn[c].epoch /\ conn'[c].late = conn[c].late
        /\ conn[c].pc = "history" /\ db' = db
    BY <1>0, <1>3 DEF LoadHistory, Goto, ConnType
  <2>2. /\ wr'[c].stopped = FALSE /\ wr'[c].q = wr[c].q /\ wr'[c].op = wr[c].op /\ wr'[c].shut = wr[c].shut
        /\ wr'[c].failed = wr[c].failed /\ wr'[c].fenced = wr[c].fenced
    BY <1>3 DEF LoadHistory, Types, WrOK, WrType
  <2>3. Control(c)' /\ Mine(c)' /\ Kept(c)'
    BY <1>0, <2>1, <2>2 DEF Control, OwnInsert, Mine, HasLoaded, Newest, Kept, Stored, Held, Loading, Arriving, Leaving
  <2>4. \A d \in Conns \ {c} : Same(d)
    BY <1>0, <1>3 DEF LoadHistory, Goto, Same, Types, WrOK
  <2>5. SummarizedOnce'
    BY <2>1 DEF Invariants, SummarizedOnce
  <2> QED BY <2>1, <2>3, <2>4, <2>5, StepOf
<1> QED BY <1>1, <1>2, <1>3

\* What is added to a queue comes last.
LEMMA Appended ==
  ASSUME NEW q \in Seq(OpType), NEW op \in OpType
  PROVE  /\ Len(Append(q, op)) = Len(q) + 1 /\ Append(q, op)[Len(q) + 1] = op
         /\ \A i \in 1..Len(q) : Append(q, op)[i] = q[i] /\ i \in 1..Len(Append(q, op))
         /\ \A i \in 1..Len(Append(q, op)) : i \in 1..Len(q) \/ i = Len(q) + 1
OBVIOUS

\* A connection gives its writer one operation more, or knows that it could not.
LEMMA SavedInv ==
  ASSUME Types, Invariants, NEW c \in Conns, \A d \in Conns \ {c} : Same(d), UNCHANGED db,
         conn[c].pc \in {"run", "finish"}, conn'[c].pc \in {"run", "finish", "drain"},
         conn'[c].pc = "drain" \/ conn[c].pc = "run",
         conn'[c].epoch = conn[c].epoch, conn'[c].base = conn[c].base, conn'[c].late = conn[c].late,
         wr'[c].op = wr[c].op, wr'[c].stopped = wr[c].stopped, wr'[c].fenced = wr[c].fenced,
         wr[c].failed => wr'[c].failed, wr'[c].shut = wr[c].shut \/ conn'[c].pc = "drain",
         conn'[c].no \in {conn[c].no, conn[c].no + 1},
         \/ wr'[c].q = wr[c].q /\ (conn'[c].no = conn[c].no \/ wr'[c].failed)
         \/ conn'[c].no = conn[c].no /\ wr'[c].q = Append(wr[c].q, Op("update", conn[c].no))
         \/ conn'[c].no \in TurnNo /\ conn'[c].no = conn[c].no + 1
              /\ wr'[c].q = Append(wr[c].q, Op("insert", conn'[c].no))
  PROVE  Invariants'
<1>0. Control(c) /\ Mine(c) /\ Kept(c) /\ conn[c] \in ConnType /\ wr[c] \in WrType /\ wr[c].q \in Seq(OpType)
  BY DEF Types, ConnOK, WrOK, WrType, Invariants, AllControl, AllMine, AllKept
<1>1. conn[c].no \in 0..MaxNo /\ conn[c].base \in 0..MaxNo /\ ~wr[c].stopped /\ conn[c].base <= conn[c].no
  BY <1>0 DEF ConnType, Control
<1> DEFINE OwnNow(op) == op.k = "insert" => conn[c].base < op.no /\ op.no <= conn'[c].no
<1>2. \A op \in OpType : OwnInsert(c, op) => OwnNow(op)
  BY <1>1 DEF OwnInsert, OpType
<1>3. \/ wr'[c].q = wr[c].q
      \/ \E op \in OpType : wr'[c].q = Append(wr[c].q, op) /\ op \in OpType /\ OwnNow(op)
  <2>1. CASE conn'[c].no = conn[c].no /\ wr'[c].q = Append(wr[c].q, Op("update", conn[c].no))
    BY <1>1, <2>1 DEF Op, OpType
  <2>2. CASE conn'[c].no \in TurnNo /\ conn'[c].no = conn[c].no + 1
              /\ wr'[c].q = Append(wr[c].q, Op("insert", conn'[c].no))
    <3>1. Op("insert", conn'[c].no) \in OpType
      BY <2>2, ConnectionsAssumption DEF Op, OpType, TurnNo
    <3>2. OwnNow(Op("insert", conn'[c].no))
      BY <1>1, <2>2, SMTT(60) DEF Op
    <3> QED BY <2>2, <3>1, <3>2
  <2> QED BY <2>1, <2>2
<1>4. \A i \in 1..Len(wr'[c].q) : OwnNow(wr'[c].q[i])
  <2>1. \A i \in 1..Len(wr[c].q) : wr[c].q[i] \in OpType /\ OwnInsert(c, wr[c].q[i])
    BY <1>0 DEF Control
  <2>2. CASE wr'[c].q = wr[c].q
    BY <1>2, <2>1, <2>2
  <2>3. ASSUME NEW op \in OpType, wr'[c].q = Append(wr[c].q, op), OwnNow(op)
        PROVE  <1>4
    <3> HIDE DEF OwnNow
    <3>1. \A i \in 1..Len(wr[c].q) : OwnNow(wr[c].q[i])
      BY <1>2, <2>1
    <3> QED BY <1>0, <2>3, <3>1, Appended
  <2> QED BY <1>3, <2>2, <2>3
<1>5. OwnNow(wr[c].op)
  BY <1>0, <1>2 DEF Control, WrType
<1>6. Control(c)'
  BY <1>0, <1>1, <1>4, <1>5 DEF Control, OwnInsert, Arriving, Loading, Leaving
<1>7. Mine(c)'
  BY <1>0 DEF Mine, HasLoaded, Newest
<1>8. Kept(c)'
  <2> SUFFICES ASSUME ~conn[c].late, ~wr'[c].failed, ~wr[c].fenced,
                      NEW n \in (conn[c].base + 1)..conn'[c].no
               PROVE  Stored(c, n) \/ Held(c, n)'
    BY DEF Kept, Stored
  <2>1. CASE n <= conn[c].no
    <3>1. Stored(c, n) \/ Held(c, n)
      BY <1>0, <1>1, <2>1 DEF Kept
    <3>2. ASSUME NEW i \in 1..Len(wr[c].q)
          PROVE  wr'[c].q[i] = wr[c].q[i] /\ i \in 1..Len(wr'[c].q)
      BY <1>0, <1>3, Appended
    <3>3. Held(c, n) => Held(c, n)'
      BY <3>2 DEF Held
    <3> QED BY <3>1, <3>3
  <2>2. CASE n > conn[c].no
    <3>1. n = conn'[c].no /\ conn'[c].no = conn[c].no + 1
      BY <1>1, <2>2
    <3>2. conn'[c].no \in TurnNo /\ wr'[c].q = Append(wr[c].q, Op("insert", n))
      BY <1>1, <3>1
    <3>3. Op("insert", n) \in OpType
      BY <3>1, <3>2, ConnectionsAssumption DEF Op, OpType, TurnNo
    <3>4. Len(wr[c].q) + 1 \in 1..Len(wr'[c].q) /\ wr'[c].q[Len(wr[c].q) + 1] = Op("insert", n)
      BY <1>0, <3>2, <3>3, Appended
    <3> QED BY <3>4 DEF Held
  <2> QED BY <1>1, <2>1, <2>2
<1>9. SummarizedOnce'
  BY DEF Invariants, SummarizedOnce
<1> QED BY <1>6, <1>7, <1>8, <1>9, StepOf

LEMMA SaveInv ==
  ASSUME Types, Invariants, NEW c \in Conns, SaveTurn(c) \/ CutLast(c) \/ Finish(c)
  PROVE  Invariants'
<1>0. /\ conn \in [Conns -> ConnType] /\ wr \in [Conns -> WrType]
      /\ conn[c].no \in 0..MaxNo /\ (conn[c].no < MaxNo => conn[c].no + 1 \in TurnNo)
  BY ConnectionsAssumption DEF Types, ConnOK, ConnType, WrOK, TurnNo
<1>1. \A op \in OpType : HasRoom(wr[c]) =>
         /\ Queued(wr[c], op) \in WrType /\ Queued(wr[c], op).q = Append(wr[c].q, op)
         /\ Queued(wr[c], op).op = wr[c].op /\ Queued(wr[c], op).stopped = wr[c].stopped
         /\ Queued(wr[c], op).fenced = wr[c].fenced /\ Queued(wr[c], op).failed = wr[c].failed
         /\ Queued(wr[c], op).shut = wr[c].shut
  <2>1. \A op \in OpType : HasRoom(wr[c]) => Queued(wr[c], op) \in WrType /\ Queued(wr[c], op).q = Append(wr[c].q, op)
    BY QueuedTypes DEF Types
  <2>2. \A op \in OpType : Queued(wr[c], op).op = wr[c].op /\ Queued(wr[c], op).stopped = wr[c].stopped
                         /\ Queued(wr[c], op).fenced = wr[c].fenced /\ Queued(wr[c], op).failed = wr[c].failed
                         /\ Queued(wr[c], op).shut = wr[c].shut
    BY <1>0 DEF Queued, WrType
  <2> QED BY <2>1, <2>2
<1>2. \A n \in 0..MaxNo : Op("insert", n) \in OpType /\ Op("update", n) \in OpType
  BY DEF Op, OpType
<1>3. \A n \in TurnNo : n \in 0..MaxNo
  BY ConnectionsAssumption, SMTT(60) DEF TurnNo
<1>4. CASE SaveTurn(c)
  <2>1. /\ conn[c].pc = "run" /\ conn[c].no + 1 \in TurnNo /\ UNCHANGED db
        /\ \/ /\ HasRoom(wr[c])
              /\ conn' = [conn EXCEPT ![c] = [conn[c] EXCEPT !.no = conn[c].no + 1, !.cut = FALSE]]
              /\ wr' = [wr EXCEPT ![c] = Queued(wr[c], Op("insert", conn[c].no + 1))]
           \/ /\ conn' = [conn EXCEPT ![c] = [conn[c] EXCEPT !.no = conn[c].no + 1, !.cut = FALSE, !.pc = "finish"]]
              /\ wr' = [wr EXCEPT ![c] = [wr[c] EXCEPT !.failed = TRUE]]
    BY <1>0, <1>4 DEF SaveTurn
  <2>2. /\ conn'[c].pc \in {"run", "finish"} /\ conn'[c].epoch = conn[c].epoch /\ conn'[c].base = conn[c].base
        /\ conn'[c].late = conn[c].late /\ conn'[c].no = conn[c].no + 1
    <3> DEFINE a == [conn[c] EXCEPT !.no = conn[c].no + 1, !.cut = FALSE]
               b == [conn[c] EXCEPT !.no = conn[c].no + 1, !.cut = FALSE, !.pc = "finish"]
    <3>1. /\ a.pc = conn[c].pc /\ b.pc = "finish" /\ a.no = conn[c].no + 1 /\ b.no = conn[c].no + 1
          /\ \A x \in {a, b} : x.epoch = conn[c].epoch /\ x.base = conn[c].base /\ x.late = conn[c].late
      BY <1>0 DEF ConnType
    <3>2. conn'[c] \in {a, b}
      BY <1>0, <2>1
    <3> HIDE DEF a, b
    <3> QED BY <2>1, <3>1, <3>2
  <2>3. Op("insert", conn[c].no + 1) \in OpType
    BY <1>2, <1>3, <2>1
  <2>4. /\ wr'[c].op = wr[c].op /\ wr'[c].stopped = wr[c].stopped /\ wr'[c].fenced = wr[c].fenced
        /\ (wr[c].failed => wr'[c].failed) /\ wr'[c].shut = wr[c].shut
        /\ \/ wr'[c].q = Append(wr[c].q, Op("insert", conn[c].no + 1))
           \/ wr'[c].q = wr[c].q /\ wr'[c].failed
    <3>1. CASE HasRoom(wr[c]) /\ wr' = [wr EXCEPT ![c] = Queued(wr[c], Op("insert", conn[c].no + 1))]
      <4> DEFINE w == Queued(wr[c], Op("insert", conn[c].no + 1))
      <4>1. wr'[c] = w
        BY <1>0, <3>1
      <4>2. /\ w.q = Append(wr[c].q, Op("insert", conn[c].no + 1)) /\ w.op = wr[c].op
            /\ w.stopped = wr[c].stopped /\ w.fenced = wr[c].fenced /\ w.failed = wr[c].failed
            /\ w.shut = wr[c].shut
        BY <1>1, <2>3, <3>1
      <4> HIDE DEF w
      <4> QED BY <4>1, <4>2
    <3>2. CASE wr' = [wr EXCEPT ![c] = [wr[c] EXCEPT !.failed = TRUE]]
      BY <1>0, <3>2 DEF WrType
    <3> QED BY <2>1, <3>1, <3>2
  <2>5. \A d \in Conns \ {c} : Same(d)
    BY <1>0, <2>1 DEF Same
  <2> QED BY <2>1, <2>2, <2>4, <2>5, SavedInv
<1>5. CASE CutLast(c)
  <2>1. /\ conn[c].pc = "run" /\ UNCHANGED db
        /\ \/ conn' = [conn EXCEPT ![c] = [conn[c] EXCEPT !.cut = TRUE]]
           \/ conn' = [conn EXCEPT ![c] = [conn[c] EXCEPT !.cut = TRUE, !.pc = "finish"]]
        /\ \/ HasRoom(wr[c]) /\ wr' = [wr EXCEPT ![c] = Queued(wr[c], Op("update", conn[c].no))]
           \/ wr' = [wr EXCEPT ![c] = [wr[c] EXCEPT !.failed = TRUE]]
    BY <1>0, <1>5 DEF CutLast
  <2>2. /\ conn'[c].pc \in {"run", "finish"} /\ conn'[c].epoch = conn[c].epoch /\ conn'[c].base = conn[c].base
        /\ conn'[c].late = conn[c].late /\ conn'[c].no = conn[c].no
    <3> DEFINE a == [conn[c] EXCEPT !.cut = TRUE]
               b == [conn[c] EXCEPT !.cut = TRUE, !.pc = "finish"]
    <3>1. /\ a.pc = conn[c].pc /\ b.pc = "finish"
          /\ \A x \in {a, b} : /\ x.epoch = conn[c].epoch /\ x.base = conn[c].base
                               /\ x.late = conn[c].late /\ x.no = conn[c].no
      BY <1>0 DEF ConnType
    <3>2. conn'[c] \in {a, b}
      BY <1>0, <2>1
    <3> HIDE DEF a, b
    <3> QED BY <2>1, <3>1, <3>2
  <2>3. /\ wr'[c].op = wr[c].op /\ wr'[c].stopped = wr[c].stopped /\ wr'[c].fenced = wr[c].fenced
        /\ (wr[c].failed => wr'[c].failed) /\ wr'[c].shut = wr[c].shut
        /\ wr'[c].q = Append(wr[c].q, Op("update", conn[c].no)) \/ wr'[c].q = wr[c].q
    <3>1. CASE HasRoom(wr[c]) /\ wr' = [wr EXCEPT ![c] = Queued(wr[c], Op("update", conn[c].no))]
      BY <1>0, <1>1, <1>2, <3>1
    <3>2. CASE wr' = [wr EXCEPT ![c] = [wr[c] EXCEPT !.failed = TRUE]]
      BY <1>0, <3>2 DEF WrType
    <3> QED BY <2>1, <3>1, <3>2
  <2>4. \A d \in Conns \ {c} : Same(d)
    BY <1>0, <2>1 DEF Same
  <2> QED BY <2>1, <2>2, <2>3, <2>4, SavedInv
<1>6. CASE Finish(c)
  <2>1. PICK busy \in BOOLEAN :
           /\ busy => conn[c].no < MaxNo
           /\ conn' = [conn EXCEPT ![c] = [conn[c] EXCEPT !.pc = "drain", !.no = IF busy THEN conn[c].no + 1 ELSE conn[c].no]]
           /\ LET w == IF ~busy THEN wr[c]
                       ELSE IF HasRoom(wr[c]) THEN Queued(wr[c], Op("insert", conn[c].no + 1))
                       ELSE [wr[c] EXCEPT !.failed = TRUE]
              IN  wr' = [wr EXCEPT ![c] = [w EXCEPT !.shut = TRUE]]
    BY <1>0, <1>6 DEF Finish
  <2>2. /\ conn'[c].pc = "drain" /\ conn'[c].epoch = conn[c].epoch /\ conn'[c].base = conn[c].base
        /\ conn'[c].late = conn[c].late /\ conn'[c].no = IF busy THEN conn[c].no + 1 ELSE conn[c].no
    BY <1>0, <2>1 DEF ConnType
  <2>3. \E w \in WrType :
           /\ wr' = [wr EXCEPT ![c] = [w EXCEPT !.shut = TRUE]]
           /\ w.op = wr[c].op /\ w.stopped = wr[c].stopped /\ w.fenced = wr[c].fenced
           /\ wr[c].failed => w.failed
           /\ \/ w.q = wr[c].q /\ (~busy \/ w.failed)
              \/ busy /\ w.q = Append(wr[c].q, Op("insert", conn[c].no + 1))
    <3>1. CASE busy /\ HasRoom(wr[c])
      <4>1. Op("insert", conn[c].no + 1) \in OpType
        BY <1>0, <1>2, <1>3, <2>1, <3>1
      <4> QED BY <1>1, <2>1, <3>1, <4>1
    <3>2. CASE busy /\ ~HasRoom(wr[c])
      <4> DEFINE w == [wr[c] EXCEPT !.failed = TRUE]
      <4>1. /\ w \in WrType /\ w.q = wr[c].q /\ w.failed /\ w.op = wr[c].op
            /\ w.stopped = wr[c].stopped /\ w.fenced = wr[c].fenced
        BY <1>0 DEF WrType
      <4>2. wr' = [wr EXCEPT ![c] = [w EXCEPT !.shut = TRUE]]
        BY <2>1, <3>2
      <4> HIDE DEF w
      <4> QED BY <4>1, <4>2
    <3>3. CASE ~busy
      BY <1>0, <2>1, <3>3
    <3> QED BY <3>1, <3>2, <3>3
  <2>4. /\ wr'[c].op = wr[c].op /\ wr'[c].stopped = wr[c].stopped /\ wr'[c].fenced = wr[c].fenced
        /\ wr[c].failed => wr'[c].failed
        /\ \/ wr'[c].q = wr[c].q /\ (~busy \/ wr'[c].failed)
           \/ busy /\ wr'[c].q = Append(wr[c].q, Op("insert", conn[c].no + 1))
        /\ \A d \in Conns \ {c} : wr'[d] = wr[d]
    BY <1>0, <2>3 DEF WrType
  <2>5. \A d \in Conns \ {c} : Same(d)
    BY <1>0, <2>1, <2>4 DEF Same
  <2>6. conn[c].pc = "finish" /\ UNCHANGED db /\ (busy => conn[c].no + 1 \in TurnNo)
    BY <1>0, <1>6, <2>1 DEF Finish
  <2> QED BY <2>2, <2>4, <2>5, <2>6, SavedInv
<1> QED BY <1>4, <1>5, <1>6

\* A process that dies takes its connections and their writers with it.
LEMMA CrashInv ==
  ASSUME Types, Invariants, NEW p \in Procs, Crash(p)
  PROVE  Invariants'
<1> DEFINE Died(c) == /\ conn'[c].pc = "gone" /\ conn'[c].late /\ conn'[c].epoch = conn[c].epoch
                      /\ conn'[c].base = conn[c].base /\ conn'[c].no = conn[c].no
                      /\ wr'[c].q = <<>> /\ wr'[c].op = NoOp /\ wr'[c].stopped
<1>1. ASSUME NEW c \in Conns PROVE Same(c) \/ Died(c)
  <2>1. conn[c] \in ConnType /\ wr[c] \in WrType
    BY DEF Types, ConnOK, WrOK
  <2>2. CASE conn[c].proc = {p} /\ conn[c].pc # "out"
    <3>1. conn'[c] = [conn[c] EXCEPT !.pc = "gone", !.late = TRUE]
          /\ wr'[c] = [wr[c] EXCEPT !.q = <<>>, !.op = NoOp, !.stopped = TRUE]
      BY <2>2 DEF Crash
    <3> QED BY <2>1, <3>1 DEF ConnType, WrType
  <2>3. CASE ~(conn[c].proc = {p} /\ conn[c].pc # "out")
    BY <2>3 DEF Crash, Same
  <2> QED BY <2>2, <2>3
<1>2. Onward /\ db' = db
  <2>1. db' = db
    BY DEF Crash
  <2>2. db.epoch \in Nat
    BY RowFacts DEF Types
  <2> QED BY <2>1, <2>2 DEF Onward
<1>3. ASSUME NEW c \in Conns PROVE Control(c)' /\ Mine(c)' /\ Kept(c)'
  <2>0. Control(c) /\ Mine(c) /\ Kept(c)
    BY DEF Invariants, AllControl, AllMine, AllKept
  <2>1. CASE Same(c)
    BY <1>2, <2>0, <2>1, SameControl, SameMine, SameKept
  <2>2. CASE Died(c)
    <3>1. Control(c)'
      BY <1>2, <2>0, <2>2 DEF Control, OwnInsert, NoOp, Arriving, Loading, Leaving
    <3>2. Mine(c)' /\ Kept(c)'
      BY <2>2 DEF Mine, HasLoaded, Kept
    <3> QED BY <3>1, <3>2
  <2> QED BY <1>1, <2>1, <2>2
<1>4. EpochsApart'
  <2>1. \A c \in Conns : conn'[c].epoch = conn[c].epoch
    BY <1>1 DEF Same
  <2> QED BY <2>1, SameApart DEF Invariants
<1> QED BY <1>2, <1>3, <1>4 DEF Invariants, AllControl, AllMine, AllKept, LastRow, SummarizedOnce

LEMMA OutcomeFields ==
  ASSUME Types, NEW c \in Conns, Outcome(c)
  PROVE  /\ wr'[c].q = wr[c].q /\ wr'[c].stopped = wr[c].stopped /\ wr'[c].shut = wr[c].shut
         /\ wr'[c].op = wr[c].op \/ wr'[c].op = NoOp
         /\ wr[c].fenced => wr'[c].fenced
         /\ wr[c].failed => wr'[c].failed
         /\ \A d \in Conns \ {c} : wr'[d] = wr[d]
<1>0. wr \in [Conns -> WrType] /\ wr[c] \in WrType
  BY DEF Types, WrOK
<1> DEFINE w1 == Done(wr[c])
           w2 == [Done(wr[c]) EXCEPT !.fenced = TRUE]
           w3 == [Done(wr[c]) EXCEPT !.failed = TRUE]
           w4(n) == [wr[c] EXCEPT !.try = n, !.snap = FALSE]
           Fits(w) == /\ w.q = wr[c].q /\ w.stopped = wr[c].stopped /\ w.shut = wr[c].shut
                      /\ w.op = wr[c].op \/ w.op = NoOp
                      /\ wr[c].fenced => w.fenced
                      /\ wr[c].failed => w.failed
<1>1. Fits(w1) /\ Fits(w2) /\ Fits(w3) /\ \A n : Fits(w4(n))
  BY <1>0 DEF Done, WrType
<1>2. \/ wr' = [wr EXCEPT ![c] = w1] \/ wr' = [wr EXCEPT ![c] = w2] \/ wr' = [wr EXCEPT ![c] = w3]
      \/ \E n : wr' = [wr EXCEPT ![c] = w4(n)]
  BY <1>0 DEF Outcome
<1> HIDE DEF w1, w2, w3, w4
<1>3. \E w : Fits(w) /\ wr' = [wr EXCEPT ![c] = w]
  <2> HIDE DEF Fits
  <2> QED BY <1>1, <1>2
<1> QED BY <1>0, <1>3

\* A writer's attempt: a row may be added, by the newest connection, and an insert is
\* dropped once its row is there or the connection is told.
LEMMA WroteInv ==
  ASSUME Types, Invariants, NEW c \in Conns, Onward, db'.epoch = db.epoch, LastRow', SummarizedOnce',
         \A n \in DOMAIN db'.rows \ DOMAIN db.rows : Current(c) /\ db'.rows[n].by = c,
         ~wr[c].stopped,
         conn' = conn \/ \E cause \in Causes : conn' = StopActor(conn, c, cause),
         \A d \in Conns \ {c} : wr'[d] = wr[d],
         wr'[c].q = wr[c].q, wr'[c].stopped = wr[c].stopped, wr'[c].shut = wr[c].shut,
         wr'[c].op = wr[c].op \/ wr'[c].op = NoOp,
         wr[c].fenced => wr'[c].fenced, wr[c].failed => wr'[c].failed,
         wr[c].op.k = "insert" =>
           \/ wr'[c].op = wr[c].op \/ wr'[c].fenced \/ wr'[c].failed
           \/ wr[c].op.no \in DOMAIN db'.rows /\ db'.rows[wr[c].op.no].by = c
  PROVE  Invariants'
<1>0. Control(c) /\ Mine(c) /\ Kept(c) /\ db.epoch \in Nat
  BY RowFacts DEF Types, Invariants, AllControl, AllMine, AllKept
<1>1. \A d \in Conns : /\ conn'[d].pc = conn[d].pc /\ conn'[d].epoch = conn[d].epoch
                       /\ conn'[d].base = conn[d].base /\ conn'[d].no = conn[d].no
                       /\ conn'[d].late = conn[d].late
  BY StopSame DEF Types
<1>2. \A d \in Conns \ {c} : Same(d)
  BY <1>1 DEF Same
<1>3. Control(c)'
  BY <1>0, <1>1 DEF Control, OwnInsert, NoOp
<1>4. Mine(c)'
  BY <1>0, <1>1 DEF Mine, HasLoaded, Newest, Onward
<1>5. Kept(c)'
  <2> SUFFICES ASSUME ~conn[c].late, ~wr'[c].failed, ~wr'[c].fenced,
                      NEW n \in (conn[c].base + 1)..conn[c].no
               PROVE  Stored(c, n)' \/ Held(c, n)'
    BY <1>1 DEF Kept
  <2>1. Stored(c, n) \/ Held(c, n)
    BY <1>0 DEF Kept
  <2>2. Stored(c, n) => Stored(c, n)'
    BY DEF Stored, Onward
  <2>3. wr[c].op = Op("insert", n) => wr[c].op.k = "insert" /\ wr[c].op.no = n
    BY DEF Op
  <2> QED BY <2>1, <2>2, <2>3 DEF Held, Stored
<1>6. ASSUME NEW d \in Conns \ {c} PROVE Control(d)' /\ Mine(d)' /\ Kept(d)'
  <2>1. Control(d) /\ Mine(d) /\ Kept(d)
    BY DEF Invariants, AllControl, AllMine, AllKept
  <2>2. CASE DOMAIN db'.rows = DOMAIN db.rows
    BY <1>2, <2>1, <2>2, SameControl, SameMine, SameKept
  <2>3. CASE DOMAIN db'.rows # DOMAIN db.rows
    <3>1. Current(c)
      BY <2>3 DEF Onward
    <3>2. conn[c].epoch > 0 /\ db.epoch # conn[d].epoch
      BY <1>0, <3>1 DEF Control, Current, EpochsApart, Invariants
    <3> QED BY <1>2, <2>1, <3>2, SameControl, SameMine, SameKept
  <2> QED BY <2>2, <2>3
<1>7. EpochsApart'
  BY <1>1, SameApart DEF Invariants
<1> QED BY <1>3, <1>4, <1>5, <1>6, <1>7 DEF Invariants, AllControl, AllMine, AllKept

LEMMA WriterInv ==
  ASSUME Types, Invariants, NEW c \in Conns, Writer(c)
  PROVE  Types' /\ Invariants'
<1>0. /\ Control(c) /\ Mine(c) /\ Kept(c) /\ LastRow /\ SummarizedOnce /\ db.epoch \in Nat
      /\ wr \in [Conns -> WrType] /\ wr[c] \in WrType /\ wr[c].q \in Seq(OpType)
  BY RowFacts DEF Types, WrOK, WrType, Invariants, AllControl, AllMine, AllKept
<1>1. CASE NextOp(c)
  <2>1. Types'
    BY <1>1, NextOpTypes
  <2>2. /\ UNCHANGED <<db, conn>> /\ ~wr[c].stopped /\ wr[c].op = NoOp
        /\ wr'[c].stopped = wr[c].stopped /\ wr'[c].shut = wr[c].shut
        /\ wr'[c].fenced = wr[c].fenced /\ wr'[c].failed = wr[c].failed
        /\ \A d \in Conns \ {c} : wr'[d] = wr[d]
    BY <1>0, <1>1 DEF NextOp, WrType
  <2>3. Control(c)'
    <3>1. \A i \in 1..Len(wr'[c].q) : OwnInsert(c, wr[c].q[i + 1])
      BY <1>0, <1>1, NextOpTypes DEF Control
    <3>2. \A i \in 1..Len(wr'[c].q) : wr'[c].q[i] = wr[c].q[i + 1]
      BY <1>1, NextOpTypes
    <3>3. OwnInsert(c, Head(wr[c].q)) /\ (wr'[c].op = NoOp \/ wr'[c].op = Head(wr[c].q))
      BY <1>0, <1>1, NextOpTypes DEF Control
    <3> QED BY <1>0, <2>2, <3>1, <3>2, <3>3, ZenonT(60) DEF Control, OwnInsert, NoOp
  <2>4. Mine(c)'
    BY <1>0, <2>2 DEF Mine, HasLoaded, Newest
  <2>5. Kept(c)'
    <3> SUFFICES ASSUME ~conn[c].late, ~wr[c].failed, ~wr[c].fenced,
                        NEW n \in (conn[c].base + 1)..conn[c].no
                 PROVE  Stored(c, n) \/ Held(c, n)'
      BY <2>2 DEF Kept, Stored
    <3>1. Stored(c, n) \/ \E i \in 1..Len(wr[c].q) : wr[c].q[i] = Op("insert", n)
      BY <1>0, <2>2 DEF Kept, Held, Op, NoOp
    <3> QED BY <1>1, <3>1, NextOpTypes DEF Held
  <2>6. \A d \in Conns \ {c} : Same(d)
    BY <2>2 DEF Same
  <2>7. SummarizedOnce'
    BY <1>0, <2>2 DEF SummarizedOnce
  <2> QED BY <2>1, <2>2, <2>3, <2>4, <2>5, <2>6, <2>7, StepOf
<1>2. CASE Insert(c)
  <2>1. /\ Types' /\ Outcome(c) /\ SummarizedOnce' /\ LastRow'
        /\ conn' = conn \/ \E cause \in Causes : conn' = StopActor(conn, c, cause)
        /\ wr[c].op.k = "insert" /\ wr[c].op.no \in TurnNo
        /\ db' = db \/ Adds(c)
        /\ wr'[c].op = wr[c].op \/ Adds(c) \/ wr'[c].fenced \/ wr'[c].failed
    BY <1>0, <1>2, InsertTypes
  <2>2. /\ Onward /\ db'.epoch = db.epoch
        /\ \A n \in DOMAIN db'.rows \ DOMAIN db.rows : Current(c) /\ db'.rows[n].by = c
        /\ Adds(c) => wr[c].op.no \in DOMAIN db'.rows /\ db'.rows[wr[c].op.no].by = c
    <3>1. CASE db' = db /\ ~Adds(c)
      BY <1>0, <3>1 DEF Onward
    <3>2. CASE Adds(c)
      <4>1. /\ db'.epoch = db.epoch /\ DOMAIN db'.rows = DOMAIN db.rows \cup {wr[c].op.no}
            /\ db'.rows[wr[c].op.no].by = c
            /\ \A n \in DOMAIN db.rows : db'.rows[n] = db.rows[n]
        BY <1>0, <2>1, <3>2, AddsRow
      <4> QED BY <1>0, <3>2, <4>1 DEF Onward, Adds
    <3> QED BY <2>1, <3>1, <3>2
  <2>3. ~wr[c].stopped
    BY <1>0, <2>1 DEF Control, NoOp
  <2> QED BY <2>1, <2>2, <2>3, OutcomeFields, WroteInv
<1>3. CASE UpdateReads(c) \/ FlushTouch(c)
  <2>1. /\ Types' /\ db'.rows = db.rows /\ db'.epoch = db.epoch /\ SummarizedOnce'
        /\ conn' = conn \/ \E cause \in Causes : conn' = StopActor(conn, c, cause)
        /\ \/ Outcome(c)
           \/ wr' = [wr EXCEPT ![c].snap = TRUE]
           \/ ~wr[c].fenced /\ \E f \in BOOLEAN : wr' = [wr EXCEPT ![c].touch = FALSE, ![c].fenced = f]
    BY <1>0, <1>3, UpdateTypes
  <2>2. wr[c].op.k # "insert" /\ ~wr[c].stopped
    BY <1>0, <1>3 DEF UpdateReads, FlushTouch, Control, NoOp
  <2>3. /\ wr'[c].q = wr[c].q /\ wr'[c].stopped = wr[c].stopped /\ wr'[c].shut = wr[c].shut
        /\ wr'[c].op = wr[c].op \/ wr'[c].op = NoOp
        /\ wr[c].fenced => wr'[c].fenced
        /\ wr[c].failed => wr'[c].failed
        /\ \A d \in Conns \ {c} : wr'[d] = wr[d]
    <3>1. CASE Outcome(c)
      BY <3>1, OutcomeFields
    <3>2. CASE wr' = [wr EXCEPT ![c].snap = TRUE]
      BY <1>0, <3>2 DEF WrType
    <3>3. ASSUME NEW f \in BOOLEAN, wr' = [wr EXCEPT ![c].touch = FALSE, ![c].fenced = f], ~wr[c].fenced
          PROVE  <2>3
      BY <1>0, <3>3 DEF WrType
    <3> QED BY <2>1, <3>1, <3>2, <3>3
  <2>4. Onward /\ LastRow'
    <3>1. LastRow'
      BY <1>0, <2>1 DEF LastRow
    <3>2. Onward
      BY <1>0, <2>1 DEF Onward
    <3> QED BY <3>1, <3>2
  <2> QED BY <2>1, <2>2, <2>3, <2>4, WroteInv
<1>4. CASE UpdateCommits(c)
  <2>1. /\ Types' /\ Outcome(c) /\ SummarizedOnce'
        /\ conn' = conn \/ \E cause \in Causes : conn' = StopActor(conn, c, cause)
        /\ db'.epoch = db.epoch /\ DOMAIN db'.rows = DOMAIN db.rows
        /\ \A n \in DOMAIN db.rows : db'.rows[n].by = db.rows[n].by
    BY <1>0, <1>4, CommitTypes
  <2>2. wr[c].op.k # "insert" /\ ~wr[c].stopped
    BY <1>0, <1>4 DEF UpdateCommits, Control, NoOp
  <2>3. Onward /\ LastRow'
    <3>1. LastRow'
      BY <1>0, <2>1 DEF LastRow
    <3>2. Onward
      BY <1>0, <2>1 DEF Onward
    <3> QED BY <3>1, <3>2
  <2> QED BY <2>1, <2>2, <2>3, OutcomeFields, WroteInv
<1>5. CASE WriterStops(c)
  <2>1. /\ UNCHANGED <<db, conn>> /\ wr[c].op = NoOp /\ wr[c].q = <<>> /\ wr[c].shut /\ ~wr[c].stopped
        /\ wr'[c].stopped /\ wr'[c].q = wr[c].q /\ wr'[c].op = wr[c].op /\ wr'[c].shut = wr[c].shut
        /\ wr'[c].fenced = wr[c].fenced /\ wr'[c].failed = wr[c].failed
        /\ \A d \in Conns \ {c} : wr'[d] = wr[d]
    BY <1>0, <1>5 DEF WriterStops, WrType
  <2>2. Control(c)' /\ Mine(c)' /\ Kept(c)'
    BY <1>0, <2>1 DEF Control, OwnInsert, NoOp, Mine, HasLoaded, Newest, Kept, Stored, Held, Arriving, Loading, Leaving
  <2>3. \A d \in Conns \ {c} : Same(d)
    BY <2>1 DEF Same
  <2>4. Types' /\ SummarizedOnce'
    BY <1>0, <1>5, <2>1, EndTypes DEF SummarizedOnce
  <2> QED BY <2>1, <2>2, <2>3, <2>4, StepOf
<1> QED BY <1>1, <1>2, <1>3, <1>4, <1>5 DEF Writer

-----------------------------------------------------------------------------
(* Theorems *)

LEMMA StepInv == StoreInv /\ [Next]_vars => StoreInv'
<1> SUFFICES ASSUME Types, Invariants, [Next]_vars PROVE Types' /\ Invariants'
  BY DEF StoreInv, Invariants
<1>0. LastRow /\ AllControl /\ SummarizedOnce
  BY DEF Invariants
<1>1. ASSUME NEW c \in Conns,
             \/ (\E p \in Procs : Arrive(c, p)) \/ Register(c) \/ WaitDone(c) \/ WaitFails(c) \/ LoadFails(c) \/ Leave(c)
             \/ Close(c) \/ Drained(c) \/ DrainTimesOut(c) \/ EndSession(c)
      PROVE  Types' /\ Invariants'
  BY <1>1, HubTypes, EndTypes, HubInv
<1>2. ASSUME NEW c \in Conns, Connect(c) \/ LoadMax(c) \/ LoadHistory(c) PROVE Types' /\ Invariants'
  BY <1>0, <1>2, LoadTypes, LoadInv
<1>3. ASSUME NEW c \in Conns, SaveTurn(c) \/ CutLast(c) \/ Finish(c) PROVE Types' /\ Invariants'
  BY <1>3, SaveTypes, SaveInv
<1>4. ASSUME NEW c \in Conns, Touch(c) PROVE Types' /\ Invariants'
  BY <1>4, EndTypes, AroundInv
<1>5. ASSUME NEW c \in Conns, Writer(c) PROVE Types' /\ Invariants'
  BY <1>5, WriterInv
<1>6. ASSUME NEW p \in Procs, HubDrain(p) \/ EndRequested(p) PROVE Types' /\ Invariants'
  BY <1>6, AroundTypes, AroundInv
<1>7. ASSUME NEW p \in Procs, Crash(p) PROVE Types' /\ Invariants'
  BY <1>7, AroundTypes, CrashInv
<1>8. CASE EndLive \/ EndStored \/ TimePasses \/ Sweep
  BY <1>8, AroundTypes, AroundInv
<1>9. CASE UNCHANGED vars
  <2>1. Types'
    BY <1>9 DEF vars, Types, DbOK, ConnOK, WrOK, HubOK
  <2> QED BY <1>9, <2>1, AroundInv
<1> QED BY <1>1, <1>2, <1>3, <1>4, <1>5, <1>6, <1>7, <1>8, <1>9 DEF Next, Serve, Quiet

\* Whatever the connections, the processes, the database, the learner's end request and
\* the sweeper do in whatever order, the state keeps its types, every turn a connection
\* saved is stored, held by its writer or given up aloud, and what a connection loaded is
\* followed by its own turns alone (hub.go, persister.go, repository/sessions.go).
THEOREM StoreInvariant == Spec => []StoreInv
<1>1. Init => StoreInv
  BY TypesInit, InvInit DEF StoreInv, Invariants
<1> QED BY <1>1, StepInv, PTL DEF Spec

\* The type invariant of the hub, the connections, their writers and the session's row:
\* a queue stays within its capacity (persister.go), a hub has one connection of the
\* session at most (hub.go), an operation is of a turn number there is.
THEOREM ConnectionsTypeOK == Spec => []TypeOK
<1>1. StoreInv => TypeOK
  <2> SUFFICES ASSUME Types PROVE TypeOK
    BY DEF StoreInv
  <2>1. /\ db.epoch \in Nat /\ db.submitted \in Nat
        /\ db.status \in {"created", "active", "ended"} /\ db.fresh \in BOOLEAN
        /\ DOMAIN db.rows \subseteq TurnNo
        /\ \A n \in DOMAIN db.rows : db.rows[n] \in [by : Conns, cut : BOOLEAN]
    BY RowFacts DEF Types, RowRec
  <2>2. ASSUME NEW c \in Conns
        PROVE  /\ Len(wr[c].q) <= QueueCap /\ \A i \in 1..Len(wr[c].q) : wr[c].q[i] \in OpType
               /\ wr[c].op \in OpType /\ wr[c].try \in 0..(Attempts - 1)
    <3>1. wr[c] \in WrType /\ Len(wr[c].q) <= QueueCap
      BY DEF Types, WrOK
    <3> QED BY <3>1 DEF WrType
  <2>3. ASSUME NEW p \in Procs PROVE live[p] \subseteq Conns /\ Cardinality(live[p]) <= 1
    <3>1. live[p] \subseteq Conns /\ \A c, d \in live[p] : c = d
      BY DEF Types, HubOK
    <3>2. CASE live[p] = {}
      BY <3>2, FS_EmptySet
    <3>3. CASE live[p] # {}
      <4>1. PICK c : live[p] = {c}
        BY <3>1, <3>3
      <4> QED BY <3>1, <4>1, FS_Singleton
    <3> QED BY <3>1, <3>2, <3>3
  <2> QED BY <2>1, <2>2, <2>3 DEF TypeOK, Types, ConnOK, HubOK
<1> QED BY <1>1, StoreInvariant, PTL

\* What a connection loaded stays complete while it is the newest: takeover moves the
\* epoch before MAX(turn_no) is read, and every insert is fenced by it
\* (repository/sessions.go, Connect, MaxTurnNo, InsertTurn).
THEOREM LoadedStaysComplete == Spec => []LoadedIsComplete
<1>1. StoreInv => LoadedIsComplete
  BY DEF StoreInv, AllMine, Mine, HasLoaded, LoadedIsComplete
<1> QED BY <1>1, StoreInvariant, PTL

\* An insert that passes the fence finds its number taken only by an earlier attempt of
\* its own connection: "turn numbers never collide" (hub.go, load).
THEOREM NumbersStayApart == Spec => []NumbersNeverCollide
<1>1. StoreInv => NumbersNeverCollide
  <2> SUFFICES ASSUME Types, AllControl, AllMine, NEW c \in Conns,
                      wr[c].op.k = "insert", Newest(c), wr[c].op.no \in DOMAIN db.rows
               PROVE  db.rows[wr[c].op.no].by = c
    BY DEF StoreInv, NumbersNeverCollide
  <2>1. ~wr[c].stopped /\ conn[c].base < wr[c].op.no
    BY DEF AllControl, Control, OwnInsert, NoOp
  <2>2. wr[c].op.no <= conn[c].base \/ db.rows[wr[c].op.no].by = c
    BY <2>1 DEF AllMine, Mine, HasLoaded
  <2>3. wr[c].op.no \in Int /\ conn[c].base \in Int
    BY ConnectionsAssumption DEF Types, ConnOK, ConnType, WrOK, WrType, OpType
  <2> QED BY <2>1, <2>2, <2>3
<1> QED BY <1>1, StoreInvariant, PTL

\* A turn that an orderly connection saved is in the database once the hub lets go of the
\* connection, unless a write failed and was reported, or a newer connection took over
\* (session.go, finish; persister.go, run and write).
THEOREM AcceptedStaysStored == Spec => []AcceptedIsStored
<1>1. StoreInv => AcceptedIsStored
  <2> SUFFICES ASSUME AllControl, AllKept, NEW c \in Conns, conn[c].pc \in {"end", "leave", "gone"},
                      ~conn[c].late, ~wr[c].failed, ~wr[c].fenced,
                      NEW n \in (conn[c].base + 1)..conn[c].no
               PROVE  n \in DOMAIN db.rows /\ db.rows[n].by = c
    BY DEF StoreInv, AcceptedIsStored
  <2>1. wr[c].q = <<>> /\ wr[c].op = NoOp
    BY DEF AllControl, Control, Leaving
  <2>2. Stored(c, n) \/ Held(c, n)
    BY DEF AllKept, Kept
  <2>3. ~Held(c, n)
    BY <2>1 DEF Held, Op, NoOp
  <2> QED BY <2>2, <2>3 DEF Stored
<1> QED BY <1>1, StoreInvariant, PTL

\* Of the learner's message, the learner's request and the sweeper, at most one ends the
\* session and has it summarized (repository/sessions.go, End and ClaimStale).
THEOREM OneSummary == Spec => []SummarizedOnce
<1>1. StoreInv => SummarizedOnce
  BY DEF StoreInv
<1> QED BY <1>1, StoreInvariant, PTL
=============================================================================
