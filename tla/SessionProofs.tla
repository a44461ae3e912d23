---------------------------- MODULE SessionProofs ----------------------------
(***************************************************************************)
(* What a connection stores and sends, for any number of turns, segments   *)
(* and frames, any capacities, and any world.                              *)
(*                                                                         *)
(* The actor's handlers are operators on the server's record, so what they *)
(* keep is said of a record (SrvOK), proved of each helper, and composed   *)
(* in the order of the code; a step of a turn changes the turn and the     *)
(* queue (TurnStep).  What the writer, the client and the event channel    *)
(* need of such a step is little (Onward): rows keep their turn, a turn    *)
(* that left the scope does not return, one past its tutor.done stays so.  *)
(* Last, what is queued, written and received of a turn is counted.        *)
(***************************************************************************)
EXTENDS Session, FiniteSetTheorems, FunctionTheorems, WellFoundedInduction, TLAPS

EndKinds == {"complete", "failed", "interrupted"}
FrameKinds == EndKinds \cup {"none", "started", "note", "caption", "speech", "pong", "error", "bye"}
FrameType == [k : FrameKinds, t : 0..MaxTurns, scoped : BOOLEAN, counts : BOOLEAN]
LastType == [id : 0..MaxTurns, no : 0..MaxTurns, total : 0..MaxSegs,
             persisted : BOOLEAN, pdone : BOOLEAN, trunc : BOOLEAN]
SrvType ==
  [st : {"idle", "capturing", "responding"}, cur : 0..MaxTurns, nextID : 1..(MaxTurns + 1), no : 0..MaxTurns,
   buf : 0..MaxAudio, prev : 0..MaxAudio, merged : BOOLEAN, last : LastType,
   hist : [TurnID -> RowType], rows : [TurnID -> RowType],
   closing : {"no", "slow", "storage", "ended", "closed", "stop", "idle", "max"},
   stage : {"run", "finish", "wait", "closed"}, heardAt : Nat,
   q : Seq(FrameType), scope : 0..MaxTurns, turn : [TurnID -> TurnType]]
EventKinds == {"speech.start", "audio", "speech.end", "speech.cancel", "text.input", "playback.done", "ping",
               "ended", "closed", "stop", "storage", "turndone"}
EventType == [k : EventKinds, t : 0..MaxTurns, n : Nat, status : {"none", "complete", "failed"}]

-----------------------------------------------------------------------------
(* The invariant of the server's record a *)

\* A turn whose tutor.done is sent, and one that only has to report or has.
Past == {"flag", "post", "ended"}
Reporting == {"post", "ended"}

\* The latest turn is current and in scope, or was cut, or only finished.
ScopeOK(a) ==
  /\ a.no < a.nextID
  /\ a.cur \in {0, a.nextID - 1} /\ a.scope \in {0, a.nextID - 1}
  /\ a.scope = 0 /\ a.nextID > 1 => a.cur = 0 /\ a.turn[a.nextID - 1].cause # "none"

\* A turn t on its own.
TurnOK(a, t) ==
  LET r == a.turn[t] IN
  /\ r.pc = "unborn" <=> t >= a.nextID
  /\ t < a.nextID => r.no \in TurnID
  /\ r.completed => r.pc \in Reporting
  /\ ~r.learner => r.segs = 0 /\ r.pc \notin {"transcript", "respond"}
  /\ r.sent <= r.segs /\ (r.emit \in {"speech", "mark"} => r.sent < r.segs)

\* The current turn's number is the last one given and has no row yet.
NumberOK(a) ==
  /\ a.cur # 0 => ~a.turn[a.cur].finalized /\ a.turn[a.cur].no = a.no /\ a.rows[a.no].id = 0
  /\ \A n \in TurnID : n > a.no => a.rows[n].id = 0

\* The turn that speech may still cut has its row.
LastOK(a) ==
  a.last.id # 0 =>
    /\ a.last.no \in TurnID /\ a.last.id < a.nextID
    /\ a.last.persisted => a.rows[a.last.no].id = a.last.id
    /\ a.last.total > 0 => a.last.persisted \/ a.closing # "no"

\* A row, and what complete says of it.
RowOK(a, n) ==
  LET r == a.rows[n] IN
  /\ r.id < a.nextID /\ (r.id = 0 => r.status = "none")
  /\ r.status = "complete" => a.turn[r.id].pc \in Reporting /\ r.heard = a.turn[r.id].segs

\* Frames are of turns that were started.  No counted frame follows the end of its
\* turn, but for those that will be dropped.
Ends(f) == f.k \in EndKinds
QueueOK(a) ==
  /\ \A i \in 1..Len(a.q) :
       /\ a.q[i].scoped \/ a.q[i].counts \/ Ends(a.q[i]) => a.q[i].t \in 1..(a.nextID - 1)
       /\ a.q[i].counts => a.q[i].scoped
       /\ Ends(a.q[i]) => a.q[i].t # a.scope \/ a.turn[a.q[i].t].pc \in Past
  /\ \A i, j \in 1..Len(a.q) :
       i < j /\ Ends(a.q[i]) /\ a.q[j].counts /\ a.q[j].t = a.q[i].t => a.q[i].t # a.scope

\* An interrupted row is within what was played or, at the end, written.
WithinOK(a, played, counts) ==
  \A n \in TurnID :
    LET r == a.rows[n] IN
    r.status = "interrupted" =>
      \/ r.heard <= played[r.id]
      \/ a.stage # "run" /\ r.id = a.nextID - 1 /\ r.heard <= counts[r.id]

SrvOK(a) ==
  /\ a \in SrvType
  /\ ScopeOK(a) /\ NumberOK(a) /\ LastOK(a) /\ QueueOK(a)
  /\ \A t \in TurnID : TurnOK(a, t) /\ RowOK(a, t)
  /\ a.closing = "no" => a.hist = a.rows

\* The segments of a turn that are sent, or may be taken as sent: while the turn
\* responds, those its emitter is through with; later, all it has.
Open == {"unborn", "recognize", "recognized", "transcript", "respond"}
Given(r) == IF r.pc \in Open THEN r.sent + (IF r.emit = "mark" THEN 1 ELSE 0) ELSE r.segs

\* The places in q of the frames that complete a segment of turn t.
Counted(q, t) == {i \in 1..Len(q) : q[i].counts /\ q[i].t = t}

-----------------------------------------------------------------------------
(* The invariant of the connection *)

Types ==
  /\ events \in Seq(EventType) /\ inflight \in FrameType
  /\ written \in [TurnID -> Nat]
  /\ cli.cur \in 0..MaxTurns /\ cli.got \in [TurnID -> Nat] /\ cli.played \in [TurnID -> Nat]
  /\ cli.done \in [TurnID -> Seq(EndKinds)]
  /\ cli = [cur |-> cli.cur, got |-> cli.got, played |-> cli.played, done |-> cli.done, stopped |-> cli.stopped,
            pdone |-> cli.pdone, talking |-> cli.talking, audio |-> cli.audio, inputs |-> cli.inputs]
  /\ world \in Worlds

\* What an event says is so, and stays so.
EventOK(e, a, played) ==
  /\ e.k = "speech.start" /\ e.t # 0 => e.n <= played[e.t]
  /\ e.k = "turndone" => e.t \in TurnID /\ a.turn[e.t].pc = "ended"
EventsOK == \A i \in 1..Len(events) : EventOK(events[i], srv, cli.played)

\* The client was told, or is about to be, that t is finished.
Told(t) == cli.done[t] # <<>> \/ (Ends(inflight) /\ inflight.t = t)
WriterOK ==
  /\ inflight.scoped \/ inflight.counts \/ Ends(inflight) => inflight.t \in 1..(srv.nextID - 1)
  /\ inflight.counts => cli.done[inflight.t] = <<>>
  /\ \A t \in TurnID : written[t] > 0 => t < srv.nextID
  /\ \A t \in TurnID : Told(t) =>
       /\ t < srv.nextID
       /\ t # srv.scope \/ srv.turn[t].pc \in Past
       /\ t = srv.scope => \A i \in 1..Len(srv.q) : ~(srv.q[i].counts /\ srv.q[i].t = t)

\* finish has read no more than is written.
CountOK == srv.stage = "finish" /\ srv.cur # 0 => srv.heardAt <= written[srv.cur]

SessionInv ==
  /\ SrvOK(srv) /\ Types /\ EventsOK /\ WriterOK /\ CountOK
  /\ WithinOK(srv, cli.played, written)

-----------------------------------------------------------------------------
(* What the actor's helpers do *)

\* All but the queue, the capture and the reason to close.
Core(a, b) ==
  /\ b.cur = a.cur /\ b.nextID = a.nextID /\ b.no = a.no /\ b.last = a.last /\ b.hist = a.hist
  /\ b.rows = a.rows /\ b.stage = a.stage /\ b.heardAt = a.heardAt /\ b.scope = a.scope /\ b.turn = a.turn

\* The actor goes from a to b: it starts turns, silences the current one, stores rows,
\* and sends no segment.
Calm(a, b) ==
  /\ b.nextID >= a.nextID
  /\ b.scope \in {a.scope, 0} \/ b.scope >= a.nextID
  /\ \A t \in TurnID : t < a.nextID => b.turn[t].pc = a.turn[t].pc /\ Given(b.turn[t]) = Given(a.turn[t])
  /\ \A j \in 1..Len(b.q) : b.q[j].counts => \E i \in 1..Len(a.q) : a.q[i] = b.q[j]
  /\ \A t \in TurnID : Counted(b.q, t) = Counted(a.q, t)
  /\ Len(b.q) <= OutCap \/ b.q = a.q
  /\ \A n \in TurnID : a.rows[n].id # 0 => b.rows[n].id = a.rows[n].id

LEMMA Ranges == TurnID \subseteq Nat /\ MaxTurns \in Nat /\ MaxSegs \in Nat
BY SessionAssumption DEF TurnID

LEMMA GivenTypes == ASSUME NEW r \in TurnType PROVE Given(r) \in Nat /\ Given(r) \in Int
BY Ranges DEF Given, TurnType

LEMMA GivenAlike ==
  ASSUME NEW r, NEW s, s.pc = r.pc, s.segs = r.segs, s.sent = r.sent, s.emit = r.emit
  PROVE  Given(s) = Given(r)
BY DEF Given

\* A turn that reports gives all it has.
LEMMA GivenGrows ==
  ASSUME NEW r \in TurnType, r.sent <= r.segs, r.emit \in {"speech", "mark"} => r.sent < r.segs,
         NEW s, s.segs = r.segs, s.sent = r.sent, s.emit = r.emit, r.pc \notin Open => s.pc \notin Open
  PROVE  Given(s) >= Given(r)
<1>1. r.sent \in Int /\ r.segs \in Int
  BY Ranges DEF TurnType
<1>2. CASE s.pc \in Open
  BY <1>1, <1>2 DEF Given
<1>3. CASE s.pc \notin Open
  BY <1>1, <1>3 DEF Given
<1> QED BY <1>2, <1>3

\* What is given is part of the reply.
LEMMA GivenBound ==
  ASSUME NEW r \in TurnType, r.sent <= r.segs, r.emit \in {"speech", "mark"} => r.sent < r.segs
  PROVE  Given(r) <= r.segs /\ Given(r) <= MaxSegs
<1>1. r.sent \in Int /\ r.segs \in 0..MaxSegs /\ MaxSegs \in Int
  BY Ranges DEF TurnType
<1> QED BY <1>1 DEF Given

LEMMA CalmTwice ==
  ASSUME NEW a \in SrvType, NEW b \in SrvType, NEW d \in SrvType, Calm(a, b), Calm(b, d)
  PROVE  Calm(a, d)
<1>1. a.nextID \in Int /\ b.nextID \in Int /\ d.nextID \in Int /\ a.scope \in Int /\ b.scope \in Int /\ d.scope \in Int
  BY Ranges DEF SrvType
<1>2. \A t \in TurnID : t < a.nextID => t < b.nextID
  BY <1>1, Ranges DEF Calm
<1>3. d.nextID >= a.nextID /\ (d.scope \in {a.scope, 0} \/ d.scope >= a.nextID)
  BY <1>1 DEF Calm
<1>4. Len(d.q) <= OutCap \/ d.q = a.q
  BY DEF Calm
<1>5. \A t \in TurnID : Counted(d.q, t) = Counted(a.q, t)
  BY DEF Calm
<1>6. \A t \in TurnID : t < a.nextID => d.turn[t].pc = a.turn[t].pc /\ Given(d.turn[t]) = Given(a.turn[t])
  BY <1>2 DEF Calm
<1>7. \A j \in 1..Len(d.q) : d.q[j].counts => \E i \in 1..Len(a.q) : a.q[i] = d.q[j]
  BY DEF Calm
<1>8. \A n \in TurnID : a.rows[n].id # 0 => d.rows[n].id = a.rows[n].id
  BY DEF Calm
<1> QED BY <1>3, <1>4, <1>5, <1>6, <1>7, <1>8 DEF Calm

LEMMA CalmNone == ASSUME NEW a \in SrvType PROVE Calm(a, a)
BY Ranges DEF Calm, SrvType

\* A step of the record that none of the invariant's parts reads.
LEMMA PlainOK ==
  ASSUME NEW a, SrvOK(a), NEW b \in SrvType, Core(a, b), b.q = a.q, b.closing = a.closing
  PROVE  SrvOK(b) /\ Calm(a, b)
<1>1. a \in SrvType /\ a.nextID \in Int
  BY Ranges, SMTT(60) DEF SrvOK, SrvType
<1>2. ScopeOK(b) /\ NumberOK(b) /\ LastOK(b) /\ QueueOK(b)
  BY DEF SrvOK, Core, ScopeOK, NumberOK, LastOK, QueueOK
<1>3. \A t \in TurnID : TurnOK(b, t) /\ RowOK(b, t)
  BY DEF SrvOK, Core, TurnOK, RowOK
<1>4. Calm(a, b)
  BY <1>1 DEF Calm, Core
<1> QED BY <1>2, <1>3, <1>4 DEF SrvOK, Core

LEMMA AppendFrames ==
  ASSUME NEW q \in Seq(FrameType), NEW f \in FrameType
  PROVE  /\ Append(q, f) \in Seq(FrameType) /\ Len(Append(q, f)) = Len(q) + 1 /\ Len(q) \in Nat
         /\ Append(q, f)[Len(q) + 1] = f
         /\ \A i \in 1..Len(q) : Append(q, f)[i] = q[i]
         /\ \A i \in 1..Len(Append(q, f)) : i \in 1..Len(q) \/ i = Len(q) + 1
OBVIOUS

\* What the actor may send: no segment, nothing scoped, and the end of a turn only
\* once the turn is out of scope.
ActorFrame(a, f) ==
  /\ f \in FrameType /\ ~f.scoped /\ ~f.counts
  /\ Ends(f) => f.t \in 1..(a.nextID - 1) /\ f.t # a.scope

LEMMA TrySendOK ==
  ASSUME NEW a, SrvOK(a), NEW f, ActorFrame(a, f)
  PROVE  SrvOK(TrySend(a, f)) /\ Calm(a, TrySend(a, f)) /\ Core(a, TrySend(a, f))
<1> DEFINE b == TrySend(a, f)
<1>1. a \in SrvType /\ a.q \in Seq(FrameType) /\ f \in FrameType /\ a.nextID \in Int
  BY Ranges DEF SrvOK, SrvType, ActorFrame
<1>2. CASE Len(a.q) < OutCap
  <2>1. b = [a EXCEPT !.q = Append(a.q, f)] /\ Append(a.q, f) \in Seq(FrameType)
    BY <1>1, <1>2, AppendFrames DEF TrySend
  <2>2. b \in SrvType /\ Core(a, b) /\ b.closing = a.closing /\ b.q = Append(a.q, f)
    BY <1>1, <2>1, ZenonT(60) DEF SrvType, Core
  <2> HIDE DEF b
  <2>3. /\ Len(b.q) = Len(a.q) + 1 /\ Len(a.q) \in Nat /\ b.q[Len(a.q) + 1] = f
        /\ \A i \in 1..Len(a.q) : b.q[i] = a.q[i]
        /\ \A i \in 1..Len(b.q) : i \in 1..Len(a.q) \/ i = Len(a.q) + 1
    BY <1>1, <2>2, AppendFrames
  <2>4. QueueOK(b)
    <3>1. ASSUME NEW i \in 1..Len(b.q)
          PROVE  /\ b.q[i].scoped \/ b.q[i].counts \/ Ends(b.q[i]) => b.q[i].t \in 1..(b.nextID - 1)
                 /\ b.q[i].counts => b.q[i].scoped
                 /\ Ends(b.q[i]) => b.q[i].t # b.scope \/ b.turn[b.q[i].t].pc \in Past
      BY <2>2, <2>3 DEF SrvOK, QueueOK, ActorFrame, Core
    <3>2. ASSUME NEW i \in 1..Len(b.q), NEW j \in 1..Len(b.q), i < j, Ends(b.q[i]), b.q[j].counts, b.q[j].t = b.q[i].t
          PROVE  b.q[i].t # b.scope
      <4>1. j \in 1..Len(a.q)
        BY <2>3, <3>2 DEF ActorFrame
      <4>2. i \in 1..Len(a.q)
        BY <2>3, <3>2, <4>1
      <4> QED BY <2>2, <2>3, <3>2, <4>1, <4>2 DEF SrvOK, QueueOK, Core
    <3> QED BY <3>1, <3>2 DEF QueueOK
  <2>5. ScopeOK(b) /\ NumberOK(b) /\ LastOK(b)
    BY <2>2 DEF SrvOK, Core, ScopeOK, NumberOK, LastOK
  <2>6. \A t \in TurnID : TurnOK(b, t) /\ RowOK(b, t)
    BY <2>2 DEF SrvOK, Core, TurnOK, RowOK
  <2>7. Calm(a, b)
    <3>1. ASSUME NEW t \in TurnID PROVE Counted(b.q, t) = Counted(a.q, t)
      BY <2>3 DEF Counted, ActorFrame
    <3>2. Len(b.q) <= OutCap
      BY <1>2, <2>3, SessionAssumption
    <3>3. \A j \in 1..Len(b.q) : b.q[j].counts => \E i \in 1..Len(a.q) : a.q[i] = b.q[j]
      BY <2>3 DEF ActorFrame
    <3> QED BY <1>1, <2>2, <3>1, <3>2, <3>3 DEF Calm, Core
  <2>8. SrvOK(b)
    BY <2>2, <2>4, <2>5, <2>6 DEF SrvOK, Core
  <2> QED BY <2>2, <2>7, <2>8 DEF b
<1>3. CASE ~(Len(a.q) < OutCap) /\ a.closing = "no"
  <2>1. b = [a EXCEPT !.closing = "slow"]
    BY <1>3 DEF TrySend
  <2>2. b \in SrvType /\ Core(a, b) /\ b.closing = "slow" /\ b.q = a.q
    BY <1>1, <2>1 DEF SrvType, Core
  <2> HIDE DEF b
  <2>3. ScopeOK(b) /\ NumberOK(b) /\ LastOK(b) /\ QueueOK(b)
    BY <2>2 DEF SrvOK, Core, ScopeOK, NumberOK, LastOK, QueueOK
  <2>4. \A t \in TurnID : TurnOK(b, t) /\ RowOK(b, t)
    BY <2>2 DEF SrvOK, Core, TurnOK, RowOK
  <2>5. Calm(a, b)
    BY <1>1, <2>2 DEF Calm, Core
  <2>6. SrvOK(b)
    BY <2>2, <2>3, <2>4 DEF SrvOK
  <2> QED BY <2>2, <2>5, <2>6 DEF b
<1>4. CASE ~(Len(a.q) < OutCap) /\ a.closing # "no"
  <2>1. TrySend(a, f) = a
    BY <1>4 DEF TrySend
  <2> QED BY <1>1, <2>1, CalmNone DEF Core
<1> QED BY <1>2, <1>3, <1>4

\* b is a with turn id recorded: the turn is the last one, and its row is written, or the
\* connection ends.
Stores(a, b, id, status, heard, ok) ==
  LET t == a.turn[id] IN
  /\ b.last = [id |-> id, no |-> t.no, total |-> t.segs, persisted |-> t.learner /\ ok,
               pdone |-> FALSE, trunc |-> FALSE]
  /\ ~t.learner => b.hist = a.hist /\ b.rows = a.rows /\ b.closing = a.closing
  /\ t.learner => \E row \in RowType :
       /\ row.id = id
       /\ row.status = "complete" => row.heard = t.segs /\ (status = "complete" \/ t.completed)
       /\ row.status = "interrupted" => status = "interrupted" /\ row.heard <= heard
       /\ b.hist = [a.hist EXCEPT ![t.no] = row]
       /\ ok => b.rows = [a.rows EXCEPT ![t.no] = row] /\ b.closing = a.closing
       /\ ~ok => /\ b.rows = a.rows /\ b.closing # "no"
                 /\ a.closing # "no" => b.closing = a.closing

\* finalize as the actor calls it: a turn that finished counts whole, one that is
\* interrupted as far as it was heard.
Recorded(a, id, status, heard, ok) == Finalize(a, id, status, status # "interrupted", heard, ok)

TurnFinalized(a, b, id) ==
  /\ b.turn[id] = [a.turn[id] EXCEPT !.finalized = TRUE]
  /\ \A u \in TurnID : u # id => b.turn[u] = a.turn[u]

LEMMA FinalizeFacts ==
  ASSUME NEW a \in SrvType, NEW id \in TurnID, ~a.turn[id].finalized, a.turn[id].no \in TurnID,
         NEW status \in {"none", "complete", "failed", "interrupted"}, NEW heard \in Nat,
         NEW ok \in BOOLEAN, NEW b, b = Recorded(a, id, status, heard, ok)
  PROVE  /\ b \in SrvType
         /\ b.st = a.st /\ b.cur = a.cur /\ b.nextID = a.nextID /\ b.no = a.no /\ b.stage = a.stage
         /\ b.heardAt = a.heardAt /\ b.q = a.q /\ b.scope = a.scope
         /\ TurnFinalized(a, b, id)
         /\ Stores(a, b, id, status, heard, ok)
<1> DEFINE t == a.turn[id]
           all == status # "interrupted"
           n == IF all \/ heard > t.segs THEN t.segs ELSE heard
           row == [id |-> id, heard |-> IF status = "failed" THEN 0 ELSE n,
                   status |-> StoredStatus(t, status, n)]
           turns == [a.turn EXCEPT ![id].finalized = TRUE]
           last == [id |-> id, no |-> t.no, total |-> t.segs, persisted |-> t.learner /\ ok,
                    pdone |-> FALSE, trunc |-> FALSE]
           c == Recorded(a, id, status, heard, ok)
<1> SUFFICES /\ c \in SrvType
             /\ c.st = a.st /\ c.cur = a.cur /\ c.nextID = a.nextID /\ c.no = a.no /\ c.stage = a.stage
             /\ c.heardAt = a.heardAt /\ c.q = a.q /\ c.scope = a.scope
             /\ c.turn = turns
             /\ Stores(a, c, id, status, heard, ok)
  <2>1. a.turn \in [TurnID -> TurnType]
    BY DEF SrvType
  <2> HIDE DEF c
  <2>2. c.turn = turns => TurnFinalized(a, c, id)
    BY <2>1 DEF TurnFinalized
  <2> QED BY <2>2 DEF c
<1>1. t \in TurnType /\ t.segs \in 0..MaxSegs /\ t.no \in TurnID
  BY DEF SrvType, TurnType
<1>2. /\ row \in RowType /\ row.id = id
      /\ row.status = "complete" => row.heard = t.segs /\ (status = "complete" \/ t.completed)
      /\ row.status = "interrupted" => status = "interrupted" /\ row.heard <= heard
  <2>1. n \in 0..MaxSegs /\ (all => n = t.segs) /\ n <= t.segs /\ (~all => n <= heard)
    BY <1>1, Ranges
  <2>2. StoredStatus(t, status, n) \in {"none", "complete", "failed", "interrupted"}
    BY DEF StoredStatus
  <2>3. row \in RowType
    BY <2>1, <2>2, Ranges DEF RowType, TurnID
  <2>4. StoredStatus(t, status, n) = "complete" => n = t.segs /\ (status = "complete" \/ t.completed) /\ status # "failed"
    BY <1>1, <2>1, Ranges DEF StoredStatus
  <2>5. StoredStatus(t, status, n) = "interrupted" => status = "interrupted"
    BY <1>1, <2>1, Ranges DEF StoredStatus
  <2> HIDE DEF n
  <2> QED BY <2>1, <2>3, <2>4, <2>5
<1>3. turns \in [TurnID -> TurnType] /\ last \in LastType
  <2>1. [t EXCEPT !.finalized = TRUE] \in TurnType
    BY <1>1 DEF TurnType
  <2>2. turns = [a.turn EXCEPT ![id] = [t EXCEPT !.finalized = TRUE]] /\ a.turn \in [TurnID -> TurnType]
    BY DEF SrvType
  <2>3. (t.learner /\ ok) \in BOOLEAN
    OBVIOUS
  <2>4. last \in LastType
    BY <1>1, <2>3, Ranges DEF LastType, TurnID
  <2> QED BY <2>1, <2>2, <2>4
<1> HIDE DEF row, n, last
<1>4. CASE ~t.learner
  <2>1. c = [a EXCEPT !.turn = turns, !.last = last]
    BY <1>4 DEF Recorded, Finalize, last, SrvType
  <2> QED BY <1>3, <1>4, <2>1, ZenonT(60) DEF SrvType, last, Stores
<1>5. CASE t.learner /\ ok
  <2>1. c = [a EXCEPT !.turn = turns, !.hist = [a.hist EXCEPT ![t.no] = row],
                      !.rows = [a.rows EXCEPT ![t.no] = row], !.last = last]
    BY <1>5 DEF Recorded, Finalize, Enqueue, last, row, n, SrvType
  <2>2. [a.hist EXCEPT ![t.no] = row] \in [TurnID -> RowType] /\ [a.rows EXCEPT ![t.no] = row] \in [TurnID -> RowType]
    BY <1>2 DEF SrvType
  <2>3. /\ c \in SrvType /\ c.st = a.st /\ c.cur = a.cur /\ c.nextID = a.nextID /\ c.no = a.no /\ c.stage = a.stage
        /\ c.heardAt = a.heardAt /\ c.q = a.q /\ c.scope = a.scope /\ c.turn = turns /\ c.last = last
        /\ c.hist = [a.hist EXCEPT ![t.no] = row] /\ c.rows = [a.rows EXCEPT ![t.no] = row] /\ c.closing = a.closing
    BY <1>3, <2>1, <2>2, ZenonT(60) DEF SrvType
  <2> HIDE DEF c
  <2> QED BY <1>2, <1>5, <2>3 DEF last, c, Stores
<1>6. CASE t.learner /\ ~ok
  <2> DEFINE why == IF a.closing = "no" THEN "storage" ELSE a.closing
  <2>1. c = [a EXCEPT !.turn = turns, !.hist = [a.hist EXCEPT ![t.no] = row], !.closing = why, !.last = last]
    BY <1>6, ZenonT(120) DEF Recorded, Finalize, Enqueue, last, row, n, SrvType
  <2>2. [a.hist EXCEPT ![t.no] = row] \in [TurnID -> RowType]
    BY <1>2 DEF SrvType
  <2>3. why # "no" /\ (a.closing # "no" => why = a.closing)
        /\ why \in {"no", "slow", "storage", "ended", "closed", "stop", "idle", "max"}
    BY DEF SrvType
  <2> HIDE DEF why
  <2>4. /\ c \in SrvType /\ c.st = a.st /\ c.cur = a.cur /\ c.nextID = a.nextID /\ c.no = a.no /\ c.stage = a.stage
        /\ c.heardAt = a.heardAt /\ c.q = a.q /\ c.scope = a.scope /\ c.turn = turns /\ c.last = last
        /\ c.hist = [a.hist EXCEPT ![t.no] = row] /\ c.rows = a.rows /\ c.closing = why
    <3>1. why \in {"no", "slow", "storage", "ended", "closed", "stop", "idle", "max"}
      BY <2>3
    <3>2. c \in SrvType
      <4>1. \A h \in [TurnID -> RowType], u \in [TurnID -> TurnType], l \in LastType,
               w \in {"no", "slow", "storage", "ended", "closed", "stop", "idle", "max"} :
               [a EXCEPT !.turn = u, !.hist = h, !.closing = w, !.last = l] \in SrvType
        BY ZenonT(120) DEF SrvType
      <4> HIDE DEF c, turns
      <4> QED BY <1>3, <2>1, <2>2, <3>1, <4>1
    <3>3. /\ c.st = a.st /\ c.cur = a.cur /\ c.nextID = a.nextID /\ c.no = a.no /\ c.stage = a.stage
          /\ c.heardAt = a.heardAt /\ c.q = a.q /\ c.scope = a.scope /\ c.rows = a.rows
      BY <2>1 DEF SrvType
    <3>4. c.turn = turns /\ c.last = last /\ c.hist = [a.hist EXCEPT ![t.no] = row] /\ c.closing = why
      BY <2>1 DEF SrvType
    <3> QED BY <3>2, <3>3, <3>4
  <2> HIDE DEF c
  <2> QED BY <1>2, <1>6, <2>3, <2>4 DEF last, c, Stores
<1> QED BY <1>4, <1>5, <1>6

\* The current turn is recorded and current no more; it may be cancelled and silenced.
LEMMA RecordedOK ==
  ASSUME NEW a, SrvOK(a), a.cur # 0, NEW b \in SrvType, NEW status, NEW heard \in Nat, NEW ok \in BOOLEAN,
         b.cur = 0, b.nextID = a.nextID, b.no = a.no, b.stage = a.stage, b.q = a.q,
         \A u \in TurnID : u # a.cur => b.turn[u] = a.turn[u],
         b.turn[a.cur].pc = a.turn[a.cur].pc, b.turn[a.cur].no = a.turn[a.cur].no,
         b.turn[a.cur].completed = a.turn[a.cur].completed, b.turn[a.cur].learner = a.turn[a.cur].learner,
         b.turn[a.cur].segs = a.turn[a.cur].segs, b.turn[a.cur].sent = a.turn[a.cur].sent,
         b.turn[a.cur].emit = a.turn[a.cur].emit,
         b.scope = a.scope \/ (b.scope = 0 /\ b.turn[a.cur].cause # "none"),
         status = "complete" => a.turn[a.cur].pc \in Reporting,
         Stores(a, b, a.cur, status, heard, ok)
  PROVE  /\ SrvOK(b) /\ Calm(a, b)
         /\ \A n \in TurnID : \/ b.rows[n] = a.rows[n]
                              \/ /\ b.rows[n].id = a.cur
                                 /\ b.rows[n].status = "interrupted" => status = "interrupted" /\ b.rows[n].heard <= heard
<1> DEFINE id == a.cur
           t == a.turn[id]
<1>1. /\ a \in SrvType /\ a.nextID \in Int /\ id \in TurnID /\ id = a.nextID - 1 /\ t \in TurnType
      /\ a.rows \in [TurnID -> RowType] /\ a.hist \in [TurnID -> RowType]
  BY Ranges, SMTT(60) DEF SrvOK, ScopeOK, SrvType, TurnID
<1>2. ~t.finalized /\ t.no = a.no /\ t.no \in TurnID /\ a.rows[a.no].id = 0 /\ a.scope # 0
  BY <1>1, Ranges, SMTT(60) DEF SrvOK, NumberOK, TurnOK, ScopeOK, TurnID
<1>3. \/ b.hist = a.hist /\ b.rows = a.rows /\ b.closing = a.closing /\ ~t.learner
      \/ /\ \E row \in RowType :
              /\ row.id = id
              /\ row.status = "complete" => row.heard = t.segs /\ t.pc \in Reporting
              /\ row.status = "interrupted" => status = "interrupted" /\ row.heard <= heard
              /\ b.hist = [a.hist EXCEPT ![t.no] = row]
              /\ ok => b.rows = [a.rows EXCEPT ![t.no] = row] /\ b.closing = a.closing
         /\ ~ok => b.rows = a.rows /\ b.closing # "no"
         /\ t.learner
  BY <1>1 DEF Stores, SrvOK, TurnOK
<1>4. \A n \in TurnID :
         \/ b.rows[n] = a.rows[n]
         \/ /\ n = t.no /\ b.rows[n].id = id
            /\ b.rows[n].status = "complete" => b.rows[n].heard = t.segs /\ t.pc \in Reporting
            /\ b.rows[n].status = "interrupted" => status = "interrupted" /\ b.rows[n].heard <= heard
  BY <1>1, <1>3, ZenonT(60)
<1>5. ScopeOK(b)
  BY <1>1, <1>2 DEF SrvOK, ScopeOK
<1>6. NumberOK(b)
  BY <1>1, <1>2, <1>4, Ranges, SMTT(60) DEF SrvOK, NumberOK, TurnID
<1>7. LastOK(b)
  <2>1. /\ b.last.id = id /\ b.last.no = t.no /\ b.last.total = t.segs
        /\ b.last.persisted = (t.learner /\ ok)
    BY DEF Stores
  <2>2. t.segs > 0 => t.learner
    BY <1>1, Ranges DEF SrvOK, TurnOK, TurnType
  <2>3. t.learner /\ ok => b.rows[t.no].id = id
    BY <1>1, <1>2, <1>3
  <2>4. b.last.persisted => b.rows[t.no].id = id
    BY <2>1, <2>3
  <2>5. b.last.total > 0 => b.last.persisted \/ b.closing # "no"
    <3>1. t.learner /\ ~ok => b.closing # "no"
      BY <1>3, SMTT(60)
    <3> QED BY <2>1, <2>2, <3>1, SMTT(60)
  <2> QED BY <1>1, <1>2, <2>1, <2>4, <2>5, Ranges DEF LastOK
<1>8. QueueOK(b)
  <2>1. \A u \in TurnID : b.turn[u].pc = a.turn[u].pc
    OBVIOUS
  <2>2. \A i \in 1..Len(a.q) :
           /\ a.q[i].scoped \/ a.q[i].counts \/ Ends(a.q[i]) => a.q[i].t \in 1..(a.nextID - 1)
           /\ a.q[i].counts => a.q[i].scoped
           /\ Ends(a.q[i]) => a.q[i].t # a.scope \/ a.turn[a.q[i].t].pc \in Past
    BY DEF SrvOK, QueueOK
  <2>3. 1..(a.nextID - 1) \subseteq TurnID /\ 0 \notin TurnID
    BY <1>1, Ranges, SMTT(60) DEF SrvType, TurnID
  <2>4. \A i, j \in 1..Len(a.q) :
           i < j /\ Ends(a.q[i]) /\ a.q[j].counts /\ a.q[j].t = a.q[i].t => a.q[i].t # a.scope
    BY DEF SrvOK, QueueOK
  <2> QED BY <2>1, <2>2, <2>3, <2>4, SMTT(60) DEF QueueOK
<1>9. \A u \in TurnID : TurnOK(b, u)
  <2> SUFFICES ASSUME NEW u \in TurnID PROVE TurnOK(b, u)
    OBVIOUS
  <2> QED BY DEF SrvOK, TurnOK
<1>10. \A n \in TurnID : RowOK(b, n)
  <2> SUFFICES ASSUME NEW n \in TurnID PROVE RowOK(b, n)
    OBVIOUS
  <2>1. RowOK(a, n) /\ \A u \in TurnID : b.turn[u].pc = a.turn[u].pc /\ b.turn[u].segs = a.turn[u].segs
    BY DEF SrvOK
  <2>2. a.rows[n].status = "complete" => a.rows[n].id \in TurnID
    BY <1>1, <2>1, Ranges DEF RowOK, RowType, TurnID
  <2>3. CASE b.rows[n] = a.rows[n]
    BY <2>1, <2>2, <2>3 DEF RowOK
  <2>4. CASE /\ b.rows[n].id = id
             /\ b.rows[n].status = "complete" => b.rows[n].heard = t.segs /\ t.pc \in Reporting
    BY <1>1, <2>1, <2>4, SMTT(60) DEF RowOK
  <2> QED BY <1>4, <2>3, <2>4
<1>11. b.closing = "no" => b.hist = b.rows
  <2>1. a.closing = "no" => a.hist = a.rows
    BY DEF SrvOK
  <2>2. CASE b.hist = a.hist /\ b.rows = a.rows /\ b.closing = a.closing
    BY <2>1, <2>2
  <2>3. ASSUME NEW row \in RowType, b.hist = [a.hist EXCEPT ![t.no] = row],
               ok => b.rows = [a.rows EXCEPT ![t.no] = row] /\ b.closing = a.closing,
               ~ok => b.closing # "no"
        PROVE  b.closing = "no" => b.hist = b.rows
    BY <2>1, <2>3
  <2> QED BY <1>3, <2>2, <2>3
<1>12. Calm(a, b)
  <2>1. \A u \in TurnID : b.turn[u].pc = a.turn[u].pc
    OBVIOUS
  <2>2. \A n \in TurnID : a.rows[n].id # 0 => b.rows[n].id = a.rows[n].id
    BY <1>2, <1>4
  <2>3. \A u \in TurnID : Given(b.turn[u]) = Given(a.turn[u])
    BY GivenAlike
  <2> QED BY <1>1, <2>1, <2>2, <2>3 DEF Calm
<1> QED BY <1>4, <1>5, <1>6, <1>7, <1>8, <1>9, <1>10, <1>11, <1>12 DEF SrvOK

-----------------------------------------------------------------------------
(* The actor's helpers, composed.  What they keep also says that no row holds *)
(* more than the client played.                                               *)

Heard(a, played) ==
  \A n \in TurnID : a.rows[n].status = "interrupted" => a.rows[n].heard <= played[a.rows[n].id]

Kept(a, b, played) == SrvOK(b) /\ Calm(a, b) /\ b.stage = a.stage /\ Heard(b, played)

\* What a speech.start says was played.
Claim(c, played) == c.t \in 0..MaxTurns /\ c.n \in Nat /\ (c.t # 0 => c.n <= played[c.t])

LEMMA KeptTwice ==
  ASSUME NEW a, SrvOK(a), NEW b, NEW d, NEW played, Kept(a, b, played), Kept(b, d, played)
  PROVE  Kept(a, d, played)
BY CalmTwice DEF Kept, SrvOK

LEMMA KeptNone == ASSUME NEW a, SrvOK(a), NEW played, Heard(a, played) PROVE Kept(a, a, played)
BY CalmNone DEF Kept, SrvOK

LEMMA KeptPlain ==
  ASSUME NEW a, SrvOK(a), NEW played, Heard(a, played), NEW b \in SrvType, Core(a, b), b.q = a.q, b.closing = a.closing
  PROVE  Kept(a, b, played)
BY PlainOK DEF Kept, Core, Heard

LEMMA KeptSend ==
  ASSUME NEW a, SrvOK(a), NEW played, Heard(a, played), NEW f, ActorFrame(a, f)
  PROVE  Kept(a, TrySend(a, f), played)
BY TrySendOK DEF Kept, Core, Heard

LEMMA ControlFrame ==
  ASSUME NEW k \in {"started", "pong", "error", "bye"}, NEW t \in 0..MaxTurns, NEW a
  PROVE  ActorFrame(a, Control(k, t))
BY DEF ActorFrame, Control, Frame, FrameType, FrameKinds, EndKinds, Ends

\* Silencing the current turn and cancelling it.
LEMMA SilenceFacts ==
  ASSUME NEW a \in SrvType, NEW id \in TurnID
  PROVE  LET c == Cancel(SetTurn(a, 0), id) IN
         /\ c \in SrvType /\ c.scope = 0
         /\ c.st = a.st /\ c.cur = a.cur /\ c.nextID = a.nextID /\ c.no = a.no /\ c.stage = a.stage /\ c.q = a.q
         /\ c.heardAt = a.heardAt /\ c.last = a.last /\ c.hist = a.hist /\ c.rows = a.rows /\ c.closing = a.closing
         /\ c.turn[id].cause # "none"
         /\ \E w \in {"actor", "deadline"} : c.turn = [a.turn EXCEPT ![id].cause = w]
<1> DEFINE s == SetTurn(a, 0)
           c == Cancel(s, id)
<1>1. s \in SrvType /\ s = [a EXCEPT !.scope = 0] /\ s.turn = a.turn /\ a.turn \in [TurnID -> TurnType]
  <2>1. s = [a EXCEPT !.scope = 0] /\ 0 \in 0..MaxTurns
    BY Ranges DEF SetTurn
  <2> QED BY <2>1, SMTT(60) DEF SrvType
<1>2. a.turn[id] \in TurnType /\ a.turn[id].cause \in {"none", "actor", "deadline"}
  BY <1>1 DEF TurnType
<1>3. \E w \in {"actor", "deadline"} : c = [s EXCEPT !.turn = [a.turn EXCEPT ![id].cause = w]]
  <2>1. CASE a.turn[id].cause = "none"
    BY <1>1, <2>1 DEF Cancel, SrvType
  <2>2. CASE a.turn[id].cause # "none"
    <3>1. a.turn = [a.turn EXCEPT ![id].cause = a.turn[id].cause]
      BY <1>1, <1>2 DEF TurnType
    <3>2. c = s
      BY <1>1, <2>2 DEF Cancel
    <3>3. c = [s EXCEPT !.turn = a.turn]
      BY <1>1, <3>2 DEF SrvType
    <3> QED BY <1>2, <2>2, <3>1, <3>3
  <2> QED BY <2>1, <2>2
<1>4. PICK w \in {"actor", "deadline"} : c = [s EXCEPT !.turn = [a.turn EXCEPT ![id].cause = w]]
  BY <1>3
<1>5. [a.turn EXCEPT ![id].cause = w] \in [TurnID -> TurnType]
  <2>1. [a.turn[id] EXCEPT !.cause = w] \in TurnType
    BY <1>2 DEF TurnType
  <2>2. [a.turn EXCEPT ![id].cause = w] = [a.turn EXCEPT ![id] = [a.turn[id] EXCEPT !.cause = w]]
    BY <1>1
  <2> QED BY <1>1, <2>1, <2>2
<1>6. [a.turn EXCEPT ![id].cause = w][id].cause = w
  BY <1>1, <1>2 DEF TurnType
<1> HIDE DEF s, c
<1>7. c \in SrvType /\ c.turn = [a.turn EXCEPT ![id].cause = w]
  BY <1>1, <1>4, <1>5 DEF SrvType
<1>8. /\ c.scope = 0
      /\ c.st = a.st /\ c.cur = a.cur /\ c.nextID = a.nextID /\ c.no = a.no /\ c.stage = a.stage /\ c.q = a.q
      /\ c.heardAt = a.heardAt /\ c.last = a.last /\ c.hist = a.hist /\ c.rows = a.rows /\ c.closing = a.closing
  BY <1>1, <1>4 DEF SrvType
<1> QED BY <1>6, <1>7, <1>8 DEF s, c

LEMMA StoresAlike ==
  ASSUME NEW a, NEW c, NEW f, NEW b, NEW id, NEW status, NEW heard, NEW ok, Stores(c, f, id, status, heard, ok),
         c.hist = a.hist, c.rows = a.rows, c.closing = a.closing,
         b.last = f.last, b.hist = f.hist, b.rows = f.rows, b.closing = f.closing,
         c.turn[id].no = a.turn[id].no, c.turn[id].segs = a.turn[id].segs,
         c.turn[id].learner = a.turn[id].learner, c.turn[id].completed = a.turn[id].completed
  PROVE  Stores(a, b, id, status, heard, ok)
<1> DEFINE t == a.turn[id]
           last == [id |-> id, no |-> t.no, total |-> t.segs, persisted |-> t.learner /\ ok,
                    pdone |-> FALSE, trunc |-> FALSE]
           Row(row) == /\ row.id = id
                       /\ row.status = "complete" => row.heard = t.segs /\ (status = "complete" \/ t.completed)
                       /\ row.status = "interrupted" => status = "interrupted" /\ row.heard <= heard
                       /\ b.hist = [a.hist EXCEPT ![t.no] = row]
                       /\ ok => b.rows = [a.rows EXCEPT ![t.no] = row] /\ b.closing = a.closing
                       /\ ~ok => /\ b.rows = a.rows /\ b.closing # "no"
                                 /\ a.closing # "no" => b.closing = a.closing
<1>1. b.last = last
  BY DEF Stores
<1>2. ~t.learner => b.hist = a.hist /\ b.rows = a.rows /\ b.closing = a.closing
  BY DEF Stores
<1>3. t.learner => \E row \in RowType : Row(row)
  <2>1. SUFFICES ASSUME t.learner PROVE \E row \in RowType : Row(row)
    OBVIOUS
  <2>2. PICK row \in RowType :
          /\ row.id = id
          /\ row.status = "complete" => row.heard = c.turn[id].segs /\ (status = "complete" \/ c.turn[id].completed)
          /\ row.status = "interrupted" => status = "interrupted" /\ row.heard <= heard
          /\ f.hist = [c.hist EXCEPT ![c.turn[id].no] = row]
          /\ ok => f.rows = [c.rows EXCEPT ![c.turn[id].no] = row] /\ f.closing = c.closing
          /\ ~ok => /\ f.rows = c.rows /\ f.closing # "no"
                    /\ c.closing # "no" => f.closing = c.closing
    BY <2>1 DEF Stores
  <2>3. Row(row)
    BY <2>2
  <2> QED BY <2>3
<1> HIDE DEF Row
<1>4. (t.learner => \E row \in RowType : Row(row)) <=>
      (t.learner => \E row \in RowType :
          /\ row.id = id
          /\ row.status = "complete" => row.heard = t.segs /\ (status = "complete" \/ t.completed)
          /\ row.status = "interrupted" => status = "interrupted" /\ row.heard <= heard
          /\ b.hist = [a.hist EXCEPT ![t.no] = row]
          /\ ok => b.rows = [a.rows EXCEPT ![t.no] = row] /\ b.closing = a.closing
          /\ ~ok => /\ b.rows = a.rows /\ b.closing # "no"
                    /\ a.closing # "no" => b.closing = a.closing)
  BY DEF Row
<1> QED BY <1>1, <1>2, <1>3, <1>4 DEF Stores

\* The current turn is silenced, cancelled and stored as heard: what bargeIn and finish do.
LEMMA CutOK ==
  ASSUME NEW a, SrvOK(a), a.cur # 0, NEW heard \in Nat, NEW ok \in BOOLEAN
  PROVE  LET id == a.cur
             b  == [Finalize(Cancel(SetTurn(a, 0), id), id, "interrupted", FALSE, heard, ok) EXCEPT !.cur = 0]
         IN  /\ SrvOK(b) /\ Calm(a, b)
             /\ b.stage = a.stage /\ b.nextID = a.nextID /\ b.scope = 0 /\ b.cur = 0
             /\ \A n \in TurnID : \/ b.rows[n] = a.rows[n]
                                  \/ b.rows[n].id = id /\ (b.rows[n].status = "interrupted" => b.rows[n].heard <= heard)
<1> DEFINE id == a.cur
           c == Cancel(SetTurn(a, 0), id)
           f == Finalize(c, id, "interrupted", FALSE, heard, ok)
           b == [f EXCEPT !.cur = 0]
<1>1. a \in SrvType /\ id \in TurnID /\ a.turn[id] \in TurnType /\ a.turn \in [TurnID -> TurnType]
  BY Ranges DEF SrvOK, SrvType, TurnID
<1>2. ~a.turn[id].finalized /\ a.turn[id].no \in TurnID
  <2>1. id < a.nextID
    BY <1>1, Ranges DEF SrvOK, ScopeOK, SrvType, TurnID
  <2> QED BY <1>1, <2>1 DEF SrvOK, NumberOK, TurnOK
<1>3. /\ c \in SrvType /\ c.scope = 0
      /\ c.st = a.st /\ c.cur = a.cur /\ c.nextID = a.nextID /\ c.no = a.no /\ c.stage = a.stage /\ c.q = a.q
      /\ c.heardAt = a.heardAt /\ c.last = a.last /\ c.hist = a.hist /\ c.rows = a.rows /\ c.closing = a.closing
      /\ c.turn[id].cause # "none"
      /\ \E w \in {"actor", "deadline"} : c.turn = [a.turn EXCEPT ![id].cause = w]
  BY <1>1, SilenceFacts
<1> HIDE DEF c
<1>4. /\ c.turn[id].finalized = a.turn[id].finalized /\ c.turn[id].no = a.turn[id].no /\ c.turn[id].pc = a.turn[id].pc
      /\ c.turn[id].completed = a.turn[id].completed /\ c.turn[id].learner = a.turn[id].learner
      /\ c.turn[id].segs = a.turn[id].segs /\ c.turn[id].sent = a.turn[id].sent /\ c.turn[id].emit = a.turn[id].emit
      /\ \A u \in TurnID : u # id => c.turn[u] = a.turn[u]
      /\ c.turn \in [TurnID -> TurnType] /\ c.turn[id] \in TurnType
  <2>1. PICK w \in {"actor", "deadline"} : c.turn = [a.turn EXCEPT ![id].cause = w]
    BY <1>3
  <2>2. c.turn[id] = [a.turn[id] EXCEPT !.cause = w]
    BY <1>1, <2>1
  <2>3. c.turn \in [TurnID -> TurnType]
    BY <1>3 DEF SrvType
  <2> QED BY <1>1, <2>1, <2>2, <2>3 DEF TurnType
<1>5. /\ f \in SrvType
      /\ f.st = c.st /\ f.cur = c.cur /\ f.nextID = c.nextID /\ f.no = c.no /\ f.stage = c.stage
      /\ f.heardAt = c.heardAt /\ f.q = c.q /\ f.scope = c.scope
      /\ TurnFinalized(c, f, id)
      /\ Stores(c, f, id, "interrupted", heard, ok)
  <2>1. ~c.turn[id].finalized /\ c.turn[id].no \in TurnID /\ "interrupted" \in {"none", "complete", "failed", "interrupted"}
    BY <1>2, <1>4
  <2>2. f = Recorded(c, id, "interrupted", heard, ok)
    BY DEF Finalize, Recorded
  <2>3. c \in SrvType /\ id \in TurnID
    BY <1>1, <1>3
  <2> HIDE DEF f, id
  <2> QED BY <2>1, <2>2, <2>3, FinalizeFacts
<1> HIDE DEF f
<1>6. /\ f.turn[id] = [c.turn[id] EXCEPT !.finalized = TRUE]
      /\ \A u \in TurnID : u # id => f.turn[u] = c.turn[u]
  BY <1>5 DEF TurnFinalized
<1>7. /\ b \in SrvType /\ b.cur = 0 /\ b.nextID = f.nextID /\ b.no = f.no /\ b.stage = f.stage /\ b.q = f.q
      /\ b.scope = f.scope /\ b.turn = f.turn /\ b.last = f.last /\ b.hist = f.hist /\ b.rows = f.rows /\ b.closing = f.closing
  <2>1. 0 \in 0..MaxTurns
    BY Ranges
  <2> QED BY <1>5, <2>1 DEF SrvType
<1> HIDE DEF b
<1>8. Stores(a, b, id, "interrupted", heard, ok)
  <2>1. Stores(c, f, id, "interrupted", heard, ok)
    BY <1>5
  <2> QED BY <1>3, <1>4, <1>7, <2>1, StoresAlike, ZenonT(60)
<1>9. /\ b.turn[id].pc = a.turn[id].pc /\ b.turn[id].no = a.turn[id].no /\ b.turn[id].completed = a.turn[id].completed
      /\ b.turn[id].learner = a.turn[id].learner /\ b.turn[id].segs = a.turn[id].segs
      /\ b.turn[id].sent = a.turn[id].sent /\ b.turn[id].emit = a.turn[id].emit
      /\ b.turn[id].cause # "none"
      /\ \A u \in TurnID : u # id => b.turn[u] = a.turn[u]
  BY <1>3, <1>4, <1>6, <1>7 DEF TurnType
<1>10. /\ SrvOK(b) /\ Calm(a, b)
       /\ \A n \in TurnID : \/ b.rows[n] = a.rows[n]
                            \/ /\ b.rows[n].id = a.cur
                               /\ b.rows[n].status = "interrupted" => "interrupted" = "interrupted" /\ b.rows[n].heard <= heard
  <2>1. /\ b.cur = 0 /\ b.nextID = a.nextID /\ b.no = a.no /\ b.stage = a.stage /\ b.q = a.q
        /\ b.scope = a.scope \/ (b.scope = 0 /\ b.turn[a.cur].cause # "none")
        /\ "interrupted" = "complete" => a.turn[a.cur].pc \in Reporting
    BY <1>3, <1>5, <1>7, <1>9
  <2> QED BY <1>7, <1>8, <1>9, <2>1, RecordedOK
<1> QED BY <1>3, <1>5, <1>7, <1>10 DEF b, f, c

LEMMA BargeInOK ==
  ASSUME NEW a, SrvOK(a), NEW played, Heard(a, played), played \in [TurnID -> Nat],
         NEW claim, Claim(claim, played), NEW ok \in BOOLEAN
  PROVE  Kept(a, BargeIn(a, claim, ok), played) /\ BargeIn(a, claim, ok).nextID = a.nextID
<1> DEFINE id == a.cur
           heard == IF claim.t = id THEN claim.n ELSE 0
           b == [Finalize(Cancel(SetTurn(a, 0), id), id, "interrupted", FALSE, heard, ok) EXCEPT !.cur = 0]
<1>1. CASE id = 0
  BY <1>1, KeptNone DEF BargeIn
<1>2. CASE id # 0
  <2>1. heard \in Nat /\ id \in TurnID /\ heard <= played[id] /\ id \in 1..(a.nextID - 1) /\ id \in 0..MaxTurns
    BY <1>2, Ranges, SMTT(60) DEF Claim, SrvOK, SrvType, ScopeOK, TurnID
  <2> HIDE DEF heard
  <2>2. /\ SrvOK(b) /\ Calm(a, b)
        /\ b.stage = a.stage /\ b.nextID = a.nextID /\ b.scope = 0 /\ b.cur = 0
        /\ \A n \in TurnID : \/ b.rows[n] = a.rows[n]
                             \/ b.rows[n].id = id /\ (b.rows[n].status = "interrupted" => b.rows[n].heard <= heard)
    BY <1>2, <2>1, CutOK, ZenonT(60)
  <2>3. BargeIn(a, claim, ok) = TrySend(b, Control("interrupted", id))
    BY <1>2 DEF BargeIn, heard
  <2> HIDE DEF b
  <2>4. Heard(b, played)
    <3> SUFFICES ASSUME NEW n \in TurnID, b.rows[n].status = "interrupted" PROVE b.rows[n].heard <= played[b.rows[n].id]
      BY DEF Heard
    <3>1. b.rows[n].heard \in Int
      BY <2>2, Ranges DEF SrvOK, SrvType, RowType
    <3> QED BY <2>1, <2>2, <3>1 DEF Heard
  <2>5. ActorFrame(b, Control("interrupted", id))
    BY <2>1, <2>2, Ranges DEF ActorFrame, Control, Frame, FrameType, FrameKinds, EndKinds, Ends
  <2>6. Kept(a, b, played) /\ Kept(b, TrySend(b, Control("interrupted", id)), played)
    BY <2>2, <2>4, <2>5, KeptSend DEF Kept
  <2>7. TrySend(b, Control("interrupted", id)).nextID = a.nextID
    BY <2>2, <2>5, TrySendOK DEF Core
  <2> QED BY <2>3, <2>6, <2>7, KeptTwice
<1> QED BY <1>1, <1>2

\* Speech after the latest turn cuts only the row of that turn.
LEMMA LateBargeInOK ==
  ASSUME NEW a, SrvOK(a), NEW played, Heard(a, played), played \in [TurnID -> Nat],
         NEW claim, Claim(claim, played), NEW ok \in BOOLEAN
  PROVE  Kept(a, LateBargeIn(a, claim, ok), played)
<1> DEFINE l == a.last
           heard == IF claim.t = l.id THEN claim.n ELSE 0
           row == [id |-> l.id, heard |-> heard, status |-> "interrupted"]
           b == LateBargeIn(a, claim, ok)
<1>1. /\ a \in SrvType /\ l \in LastType /\ a.rows \in [TurnID -> RowType] /\ a.hist \in [TurnID -> RowType]
      /\ a.nextID \in Int /\ a.no \in Int
  BY Ranges, SMTT(60) DEF SrvOK, SrvType
<1>2. CASE l.id = 0 \/ l.pdone \/ l.trunc \/ claim.t \notin {0, l.id} \/ heard >= l.total
  BY <1>2, KeptNone DEF LateBargeIn
<1>3. CASE ~(l.id = 0 \/ l.pdone \/ l.trunc \/ claim.t \notin {0, l.id} \/ heard >= l.total)
  <2> DEFINE last == [l EXCEPT !.trunc = TRUE]
             hist == [a.hist EXCEPT ![l.no] = row]
  <2>1. l.id \in TurnID /\ l.no \in TurnID /\ l.total \in 0..MaxSegs /\ heard \in Nat /\ heard < l.total /\ l.total > 0
    <3>1. l.id \in TurnID /\ l.total \in 0..MaxSegs /\ l.no \in TurnID
      BY <1>1, <1>3, Ranges DEF LastType, TurnID, SrvOK, LastOK
    <3>2. heard \in Nat
      BY DEF Claim
    <3> HIDE DEF heard
    <3>3. heard < l.total /\ l.total > 0
      BY <1>3, <3>1, <3>2, Ranges
    <3> QED BY <3>1, <3>2, <3>3
  <2>2. row \in RowType /\ row.id = l.id /\ row.status = "interrupted" /\ row.heard <= played[l.id]
    <3>1. heard <= played[l.id] /\ heard \in 0..MaxSegs /\ l.id \in 0..MaxTurns
      BY <2>1, Ranges, SMTT(60) DEF Claim, TurnID
    <3> HIDE DEF heard
    <3> QED BY <3>1 DEF RowType
  <2>3. last \in LastType /\ last.id = l.id /\ last.no = l.no /\ last.total = l.total /\ last.persisted = l.persisted
    BY <1>1 DEF LastType
  <2>4. hist \in [TurnID -> RowType] /\ [a.rows EXCEPT ![l.no] = row] \in [TurnID -> RowType]
    BY <1>1, <2>2
  <2>5. /\ l.id < a.nextID
        /\ l.persisted => a.rows[l.no].id = l.id
        /\ ~l.persisted => a.closing # "no"
    BY <1>3, <2>1 DEF SrvOK, LastOK
  <2>6. /\ b \in SrvType /\ b.cur = a.cur /\ b.nextID = a.nextID /\ b.no = a.no /\ b.stage = a.stage
        /\ b.q = a.q /\ b.scope = a.scope /\ b.turn = a.turn /\ b.last = last /\ b.hist = hist
        /\ \/ b.rows = a.rows /\ (~l.persisted => b.closing = a.closing) /\ (l.persisted => b.closing # "no")
           \/ l.persisted /\ b.rows = [a.rows EXCEPT ![l.no] = row] /\ b.closing = a.closing
    <3>1. \A h \in [TurnID -> RowType], k \in [TurnID -> RowType], m \in LastType,
             w \in {"no", "slow", "storage", "ended", "closed", "stop", "idle", "max"} :
             [a EXCEPT !.last = m, !.hist = h, !.rows = k, !.closing = w] \in SrvType
      BY <1>1, ZenonT(120) DEF SrvType
    <3>2. a.closing \in {"no", "slow", "storage", "ended", "closed", "stop", "idle", "max"}
      BY <1>1 DEF SrvType
    <3>3. CASE ~l.persisted
      <4>1. b = [a EXCEPT !.last = last, !.hist = hist, !.rows = a.rows, !.closing = a.closing]
        BY <1>1, <1>3, <3>3, ZenonT(60) DEF LateBargeIn, SrvType
      <4>2. b \in SrvType
        <5> HIDE DEF b, last, hist, row
        <5> QED BY <1>1, <2>3, <2>4, <3>1, <3>2, <4>1
      <4> HIDE DEF last, hist, row
      <4> QED BY <1>1, <3>3, <4>1, <4>2 DEF SrvType
    <3>4. CASE l.persisted /\ ok
      <4>1. b = [a EXCEPT !.last = last, !.hist = hist, !.rows = [a.rows EXCEPT ![l.no] = row], !.closing = a.closing]
        BY <1>1, <1>3, <3>4, ZenonT(120) DEF LateBargeIn, Enqueue, SrvType
      <4>2. b \in SrvType
        <5> DEFINE rows == [a.rows EXCEPT ![l.no] = row]
        <5>1. rows \in [TurnID -> RowType] /\ b = [a EXCEPT !.last = last, !.hist = hist, !.rows = rows, !.closing = a.closing]
          BY <2>4, <4>1
        <5> HIDE DEF b, last, hist, row, rows
        <5> QED BY <1>1, <2>3, <2>4, <3>1, <3>2, <5>1
      <4> HIDE DEF last, hist, row
      <4> QED BY <1>1, <3>4, <4>1, <4>2, ZenonT(60) DEF SrvType
    <3>5. CASE l.persisted /\ ~ok
      <4> DEFINE why == IF a.closing = "no" THEN "storage" ELSE a.closing
      <4>1. b = [a EXCEPT !.last = last, !.hist = hist, !.rows = a.rows, !.closing = why]
        BY <1>1, <1>3, <3>5, ZenonT(120) DEF LateBargeIn, Enqueue, SrvType
      <4>2. why \in {"no", "slow", "storage", "ended", "closed", "stop", "idle", "max"} /\ why # "no"
        BY <3>2, SMTT(60)
      <4> HIDE DEF why
      <4>3. b \in SrvType
        <5> HIDE DEF b, last, hist, row
        <5> QED BY <1>1, <2>3, <2>4, <3>1, <4>1, <4>2
      <4> HIDE DEF last, hist, row
      <4> QED BY <1>1, <3>5, <4>1, <4>2, <4>3 DEF SrvType
    <3> QED BY <3>3, <3>4, <3>5
  <2> HIDE DEF b, last, row
  <2>7. \A n \in TurnID : b.rows[n] = a.rows[n] \/ (n = l.no /\ b.rows[n] = row /\ a.rows[n].id = l.id)
    BY <1>1, <2>1, <2>5, <2>6
  <2>8. ScopeOK(b) /\ QueueOK(b)
    BY <2>6 DEF SrvOK, ScopeOK, QueueOK
  <2>9. NumberOK(b)
    <3>1. a.cur # 0 => a.cur \in TurnID /\ a.turn[a.cur].no = a.no /\ a.no \in TurnID /\ a.rows[a.no].id = 0 /\ ~a.turn[a.cur].finalized
      <4>1. a.cur # 0 => a.cur \in TurnID /\ a.cur < a.nextID
        BY <1>1, Ranges, SMTT(60) DEF SrvOK, ScopeOK, SrvType, TurnID
      <4> QED BY <4>1 DEF SrvOK, NumberOK, TurnOK
    <3>2. a.cur # 0 => b.rows[a.no].id = 0
      BY <1>3, <2>1, <2>7, <3>1
    <3>3. \A n \in TurnID : n > a.no => b.rows[n].id = 0
      BY <1>3, <2>1, <2>7 DEF SrvOK, NumberOK
    <3> QED BY <2>6, <3>1, <3>2, <3>3 DEF NumberOK
  <2>10. LastOK(b)
    <3>1. l.persisted => b.rows[l.no].id = l.id
      BY <2>1, <2>2, <2>5, <2>7
    <3> QED BY <1>3, <2>1, <2>3, <2>5, <2>6, <3>1 DEF LastOK
  <2>11. \A t \in TurnID : TurnOK(b, t)
    BY <2>6 DEF SrvOK, TurnOK
  <2>12. \A t \in TurnID : RowOK(b, t)
    BY <1>3, <2>2, <2>5, <2>6, <2>7 DEF SrvOK, RowOK
  <2>13. b.closing = "no" => b.hist = b.rows
    BY <2>5, <2>6 DEF SrvOK
  <2>14. SrvOK(b)
    BY <2>6, <2>8, <2>9, <2>10, <2>11, <2>12, <2>13 DEF SrvOK
  <2>15. Calm(a, b)
    BY <1>1, <2>2, <2>6, <2>7, SMTT(60) DEF Calm
  <2>16. Heard(b, played)
    BY <2>2, <2>7 DEF Heard
  <2> QED BY <2>6, <2>14, <2>15, <2>16 DEF Kept, b
<1> QED BY <1>2, <1>3

LEMMA CaptureOK ==
  ASSUME NEW a, SrvOK(a), NEW played, Heard(a, played), NEW n \in 0..MaxAudio
  PROVE  /\ Kept(a, BeginCapture(a, n), played)
         /\ Kept(a, DiscardCapture(a), played)
         /\ Kept(a, [a EXCEPT !.buf = n], played)
         /\ Kept(a, [a EXCEPT !.prev = n], played)
<1>1. a \in SrvType /\ 0 \in 0..MaxAudio
  BY SessionAssumption DEF SrvOK
<1>2. /\ BeginCapture(a, n) \in SrvType /\ Core(a, BeginCapture(a, n))
      /\ BeginCapture(a, n).q = a.q /\ BeginCapture(a, n).closing = a.closing
  BY <1>1 DEF BeginCapture, SrvType, Core
<1>3. /\ DiscardCapture(a) \in SrvType /\ Core(a, DiscardCapture(a))
      /\ DiscardCapture(a).q = a.q /\ DiscardCapture(a).closing = a.closing
  BY <1>1 DEF DiscardCapture, SrvType, Core
<1>4. /\ [a EXCEPT !.buf = n] \in SrvType /\ Core(a, [a EXCEPT !.buf = n])
      /\ [a EXCEPT !.buf = n].q = a.q /\ [a EXCEPT !.buf = n].closing = a.closing
      /\ [a EXCEPT !.prev = n] \in SrvType /\ Core(a, [a EXCEPT !.prev = n])
      /\ [a EXCEPT !.prev = n].q = a.q /\ [a EXCEPT !.prev = n].closing = a.closing
  BY <1>1 DEF SrvType, Core
<1> QED BY <1>1, <1>2, <1>3, <1>4, KeptPlain

\* A merged turn gives its number back, and no row has it.
LEMMA MergeOK ==
  ASSUME NEW a, SrvOK(a), a.cur # 0, NEW played, Heard(a, played)
  PROVE  Kept(a, MergeContinuation(a), played)
<1> DEFINE id == a.cur
           c == Cancel(SetTurn(a, 0), id)
           d == [c EXCEPT !.turn[id].finalized = TRUE, !.cur = 0, !.no = @ - 1]
<1>1. /\ a \in SrvType /\ id \in TurnID /\ id = a.nextID - 1 /\ a.nextID \in Int /\ a.turn \in [TurnID -> TurnType] /\ a.prev \in 0..MaxAudio
      /\ a.rows \in [TurnID -> RowType]
  BY Ranges DEF SrvOK, SrvType, TurnID, ScopeOK
<1>2. a.no \in TurnID /\ a.rows[a.no].id = 0 /\ a.no - 1 \in 0..MaxTurns
  BY <1>1, Ranges, SMTT(60) DEF SrvOK, NumberOK, TurnOK, TurnID
<1>3. /\ c \in SrvType /\ c.scope = 0
      /\ c.st = a.st /\ c.cur = a.cur /\ c.nextID = a.nextID /\ c.no = a.no /\ c.stage = a.stage /\ c.q = a.q
      /\ c.heardAt = a.heardAt /\ c.last = a.last /\ c.hist = a.hist /\ c.rows = a.rows /\ c.closing = a.closing
      /\ c.turn[id].cause # "none"
      /\ \E w \in {"actor", "deadline"} : c.turn = [a.turn EXCEPT ![id].cause = w]
  BY <1>1, SilenceFacts
<1> HIDE DEF c
<1>4. PICK w \in {"actor", "deadline"} : c.turn = [a.turn EXCEPT ![id].cause = w]
  BY <1>3
<1>5. c.turn \in [TurnID -> TurnType] /\ c.turn[id] \in TurnType
  BY <1>1, <1>3 DEF SrvType
<1>6. /\ d \in SrvType /\ d.scope = 0 /\ d.cur = 0 /\ d.no = a.no - 1
      /\ d.st = a.st /\ d.nextID = a.nextID /\ d.stage = a.stage /\ d.q = a.q
      /\ d.heardAt = a.heardAt /\ d.last = a.last /\ d.hist = a.hist /\ d.rows = a.rows /\ d.closing = a.closing
      /\ d.turn = [c.turn EXCEPT ![id] = [c.turn[id] EXCEPT !.finalized = TRUE]]
  <2>1. [c.turn[id] EXCEPT !.finalized = TRUE] \in TurnType
    BY <1>5 DEF TurnType
  <2> DEFINE turns == [c.turn EXCEPT ![id] = [c.turn[id] EXCEPT !.finalized = TRUE]]
  <2>2. turns \in [TurnID -> TurnType]
    BY <1>5, <2>1
  <2>3. d = [c EXCEPT !.turn = turns, !.cur = 0, !.no = a.no - 1]
    BY <1>3, <1>5 DEF SrvType
  <2>4. 0 \in 0..MaxTurns
    BY Ranges
  <2> HIDE DEF turns, d
  <2> QED BY <1>2, <1>3, <2>2, <2>3, <2>4 DEF SrvType, turns
<1> HIDE DEF d
<1>7. /\ \A u \in TurnID : u # id => d.turn[u] = a.turn[u]
      /\ d.turn[id] = [[a.turn[id] EXCEPT !.cause = w] EXCEPT !.finalized = TRUE]
  BY <1>1, <1>4, <1>5, <1>6
<1>8. /\ d.turn[id].pc = a.turn[id].pc /\ d.turn[id].no = a.turn[id].no /\ d.turn[id].completed = a.turn[id].completed
      /\ d.turn[id].learner = a.turn[id].learner /\ d.turn[id].segs = a.turn[id].segs
      /\ d.turn[id].sent = a.turn[id].sent /\ d.turn[id].emit = a.turn[id].emit
      /\ d.turn[id].cause # "none"
  BY <1>1, <1>7 DEF TurnType
<1>9. ScopeOK(d)
  BY <1>1, <1>2, <1>6, <1>8, Ranges DEF SrvOK, ScopeOK, TurnID
<1>10. NumberOK(d)
  BY <1>1, <1>2, <1>6, Ranges DEF SrvOK, NumberOK, TurnID
<1>11. LastOK(d)
  BY <1>6 DEF SrvOK, LastOK
<1>12. QueueOK(d)
  <2>1. \A u \in TurnID : d.turn[u].pc = a.turn[u].pc
    BY <1>7, <1>8
  <2>2. 1..(a.nextID - 1) \subseteq TurnID /\ 0 \notin TurnID
    BY <1>1, Ranges, SMTT(60) DEF SrvType, TurnID
  <2> QED BY <1>1, <1>6, <2>1, <2>2 DEF SrvOK, QueueOK
<1>13. \A u \in TurnID : TurnOK(d, u)
  <2> SUFFICES ASSUME NEW u \in TurnID PROVE TurnOK(d, u)
    OBVIOUS
  <2> QED BY <1>1, <1>6, <1>7, <1>8 DEF SrvOK, TurnOK
<1>14. \A n \in TurnID : RowOK(d, n)
  <2> SUFFICES ASSUME NEW n \in TurnID PROVE RowOK(d, n)
    OBVIOUS
  <2>1. RowOK(a, n) /\ \A u \in TurnID : d.turn[u].pc = a.turn[u].pc /\ d.turn[u].segs = a.turn[u].segs
    BY <1>7, <1>8 DEF SrvOK
  <2>2. a.rows[n].status = "complete" => a.rows[n].id \in TurnID
    BY <1>1, <2>1, Ranges, SMTT(60) DEF RowOK, RowType, TurnID
  <2> QED BY <1>6, <2>1, <2>2 DEF RowOK
<1>15. SrvOK(d)
  BY <1>6, <1>9, <1>10, <1>11, <1>12, <1>13, <1>14 DEF SrvOK
<1>16. Calm(a, d)
  <2>1. \A u \in TurnID : d.turn[u].pc = a.turn[u].pc /\ Given(d.turn[u]) = Given(a.turn[u])
    <3> SUFFICES ASSUME NEW u \in TurnID
                 PROVE  d.turn[u].pc = a.turn[u].pc /\ Given(d.turn[u]) = Given(a.turn[u])
      OBVIOUS
    <3>1. CASE u = id
      BY <3>1, <1>7, <1>8 DEF Given
    <3>2. CASE u # id
      BY <3>2, <1>7
    <3> QED BY <3>1, <3>2
  <2>2. /\ d.q = a.q /\ d.scope = 0 /\ d.nextID = a.nextID /\ d.rows = a.rows /\ d.nextID >= a.nextID
    BY <1>1, <1>6
  <2> QED BY <2>1, <2>2, SMTT(60) DEF Calm
<1>17. Kept(a, d, played)
  BY <1>6, <1>15, <1>16 DEF Kept, Heard
<1>18. Kept(d, BeginCapture(d, a.prev), played)
  BY <1>1, <1>15, <1>17, CaptureOK DEF Kept
<1>19. MergeContinuation(a) = BeginCapture(d, a.prev)
  BY DEF MergeContinuation, d, c
<1> QED BY <1>17, <1>18, <1>19, KeptTwice

\* A new turn has a fresh identity and the next number, which no row has.
LEMMA StartTurnOK ==
  ASSUME NEW a, SrvOK(a), a.nextID <= MaxTurns, NEW mode \in {"voice", "text"}, NEW played, Heard(a, played)
  PROVE  Kept(a, StartTurn(a, mode), played)
<1> DEFINE id == a.nextID
           t == [Unborn EXCEPT !.mode = mode, !.no = a.no + 1,
                               !.pc = IF mode = "voice" THEN "recognize" ELSE "recognized"]
           turns == [a.turn EXCEPT ![id] = t]
           b == [a EXCEPT !.nextID = id + 1, !.no = a.no + 1, !.turn = turns, !.cur = id, !.st = "responding",
                          !.scope = id]
<1>1. /\ a \in SrvType /\ id \in TurnID /\ id \in 0..MaxTurns /\ id + 1 \in 1..(MaxTurns + 1) /\ a.turn \in [TurnID -> TurnType]
      /\ a.rows \in [TurnID -> RowType]
  BY Ranges DEF SrvOK, SrvType, TurnID
<1>2. a.no + 1 \in TurnID /\ a.no + 1 \in 0..MaxTurns /\ a.no \in Int
  BY <1>1, Ranges, SMTT(60) DEF SrvOK, ScopeOK, SrvType, TurnID
<1>3. /\ t \in TurnType /\ t.no = a.no + 1 /\ t.pc \in {"recognize", "recognized"} /\ t.cause = "none"
      /\ ~t.learner /\ t.segs = 0 /\ t.sent = 0 /\ t.emit = "caption" /\ ~t.completed /\ ~t.finalized
  <2>1. /\ Unborn \in TurnType /\ Unborn.cause = "none" /\ ~Unborn.learner /\ Unborn.segs = 0 /\ Unborn.sent = 0
        /\ Unborn.emit = "caption" /\ ~Unborn.completed /\ ~Unborn.finalized
    BY Ranges DEF Unborn, TurnType
  <2> QED BY <1>2, <2>1 DEF TurnType
<1>4. turns \in [TurnID -> TurnType] /\ turns[id] = t /\ \A u \in TurnID : u # id => turns[u] = a.turn[u]
  BY <1>1, <1>3
<1>5. StartTurn(a, mode) = TrySend(b, Control("started", id))
  BY <1>1 DEF StartTurn, SetTurn, SrvType
<1> HIDE DEF t, turns
<1>6. /\ b \in SrvType /\ b.nextID = id + 1 /\ b.no = a.no + 1 /\ b.turn = turns /\ b.cur = id /\ b.scope = id
      /\ b.stage = a.stage /\ b.q = a.q /\ b.last = a.last /\ b.hist = a.hist /\ b.rows = a.rows /\ b.closing = a.closing
  BY <1>1, <1>2, <1>4 DEF SrvType
<1> HIDE DEF b
<1>7. ScopeOK(b)
  <2>1. a.no < a.nextID /\ a.nextID \in Int /\ a.no \in Int /\ id = a.nextID /\ id # 0
    BY <1>1, <1>2, Ranges DEF SrvOK, ScopeOK, SrvType, TurnID
  <2>2. b.no < b.nextID /\ b.cur = b.nextID - 1 /\ b.scope = b.nextID - 1 /\ b.scope # 0
    BY <1>6, <2>1
  <2> QED BY <2>2 DEF ScopeOK
<1>8. NumberOK(b)
  <2>1. a.rows[a.no + 1].id = 0
    BY <1>2 DEF SrvOK, NumberOK
  <2>2. \A n \in TurnID : n > a.no + 1 => a.rows[n].id = 0
    BY <1>2, Ranges DEF SrvOK, NumberOK, TurnID
  <2> QED BY <1>3, <1>4, <1>6, <2>1, <2>2 DEF NumberOK
<1>9. LastOK(b)
  <2>1. a.last.id \in Int /\ a.nextID \in Int /\ b.nextID = a.nextID + 1
    BY <1>1, <1>6, Ranges DEF SrvType, LastType
  <2>2. a.last.id < a.nextID => a.last.id < b.nextID
    BY <2>1
  <2>3. LastOK(a)
    BY DEF SrvOK
  <2> QED BY <1>6, <2>2, <2>3 DEF LastOK
<1>10. QueueOK(b)
  <2>1. \A u \in TurnID : u # id => b.turn[u].pc = a.turn[u].pc
    BY <1>4, <1>6
  <2>2. 1..(id - 1) \subseteq TurnID /\ id \notin 1..(id - 1) /\ 1..(id - 1) \subseteq 1..(b.nextID - 1)
    BY <1>1, <1>6, Ranges DEF TurnID
  <2>3. \A i \in 1..Len(a.q) :
           /\ a.q[i].scoped \/ a.q[i].counts \/ Ends(a.q[i]) => a.q[i].t \in 1..(id - 1)
           /\ a.q[i].counts => a.q[i].scoped
    BY DEF SrvOK, QueueOK
  <2>4. \A i \in 1..Len(a.q) : Ends(a.q[i]) => a.q[i].t # id
    BY <2>2, <2>3
  <2> QED BY <1>6, <2>2, <2>3, <2>4 DEF QueueOK
<1>11. \A u \in TurnID : TurnOK(b, u)
  <2> SUFFICES ASSUME NEW u \in TurnID PROVE TurnOK(b, u)
    OBVIOUS
  <2>1. CASE u = id
    BY <1>1, <1>2, <1>3, <1>4, <1>6, <2>1, Ranges DEF TurnOK, TurnID, Reporting
  <2>2. CASE u # id
    <3>1. TurnOK(a, u) /\ b.turn[u] = a.turn[u] /\ (u < b.nextID <=> u < a.nextID) /\ (u >= b.nextID <=> u >= a.nextID)
      BY <1>1, <1>4, <1>6, <2>2, Ranges DEF SrvOK, TurnID
    <3> QED BY <3>1 DEF TurnOK
  <2> QED BY <2>1, <2>2
<1>12. \A n \in TurnID : RowOK(b, n)
  <2> SUFFICES ASSUME NEW n \in TurnID PROVE RowOK(b, n)
    OBVIOUS
  <2>1. RowOK(a, n) /\ a.rows[n].id \in 0..MaxTurns
    BY <1>1 DEF SrvOK, RowType
  <2>2. a.rows[n].id < b.nextID
    BY <1>1, <1>6, <2>1, Ranges DEF RowOK
  <2>3. a.rows[n].status = "complete" => a.rows[n].id \in TurnID /\ a.rows[n].id # id
    BY <1>1, <2>1, Ranges DEF RowOK, TurnID
  <2>4. a.rows[n].status = "complete" => b.turn[a.rows[n].id] = a.turn[a.rows[n].id]
    BY <1>4, <1>6, <2>3
  <2> QED BY <1>6, <2>1, <2>2, <2>4 DEF RowOK
<1>13. SrvOK(b)
  BY <1>6, <1>7, <1>8, <1>9, <1>10, <1>11, <1>12 DEF SrvOK
<1>14. Calm(a, b)
  BY <1>1, <1>4, <1>6, Ranges DEF Calm, TurnID
<1>15. Kept(a, b, played)
  BY <1>6, <1>13, <1>14 DEF Kept, Heard
<1>16. Kept(b, TrySend(b, Control("started", id)), played)
  BY <1>1, <1>13, <1>15, ControlFrame, KeptSend DEF Kept
<1> QED BY <1>5, <1>15, <1>16, KeptTwice

LEMMA FinishUtteranceOK ==
  ASSUME NEW a, SrvOK(a), NEW played, Heard(a, played), NEW allowed \in BOOLEAN, allowed => a.nextID <= MaxTurns
  PROVE  Kept(a, FinishUtterance(a, allowed), played)
<1> DEFINE d == DiscardCapture(a)
           e == [d EXCEPT !.prev = a.buf]
<1>1. a \in SrvType /\ a.buf \in 0..MaxAudio /\ 0 \in 0..MaxAudio /\ 0 \in 0..MaxTurns
  BY Ranges, SessionAssumption, SMTT(60) DEF SrvOK, SrvType
<1>2. Kept(a, d, played) /\ d.nextID = a.nextID
  BY <1>1, CaptureOK DEF DiscardCapture, SrvType
<1> HIDE DEF d
<1>3. Kept(d, e, played) /\ e.nextID = a.nextID
  <2>1. d \in SrvType /\ SrvOK(d) /\ Heard(d, played)
    BY <1>2 DEF Kept, SrvOK
  <2>2. e.nextID = d.nextID
    BY <2>1 DEF SrvType
  <2> QED BY <1>1, <1>2, <2>1, <2>2, CaptureOK
<1> HIDE DEF e
<1>4. CASE a.buf = 0
  BY <1>2, <1>4 DEF FinishUtterance, d
<1>5. CASE a.buf # 0 /\ ~allowed
  <2>1. Kept(d, TrySend(d, Control("error", 0)), played)
    BY <1>1, <1>2, ControlFrame, KeptSend DEF Kept
  <2> QED BY <1>2, <1>5, <2>1, KeptTwice DEF FinishUtterance, d
<1>6. CASE a.buf # 0 /\ allowed
  <2>1. Kept(e, StartTurn(e, "voice"), played)
    BY <1>3, <1>6, StartTurnOK DEF Kept
  <2>2. Kept(a, e, played)
    BY <1>2, <1>3, KeptTwice
  <2>3. FinishUtterance(a, allowed) = StartTurn(e, "voice")
    BY <1>6 DEF FinishUtterance, d, e
  <2> QED BY <2>1, <2>2, <2>3, KeptTwice
<1> QED BY <1>4, <1>5, <1>6

\* A cancelled context changes nothing but the turns' causes.
LEMMA CancelAllFacts ==
  ASSUME NEW a, SrvOK(a)
  PROVE  /\ SrvOK(CancelAll(a)) /\ Calm(a, CancelAll(a)) /\ CancelAll(a).stage = a.stage
         /\ CancelAll(a).nextID = a.nextID /\ CancelAll(a).cur = a.cur /\ CancelAll(a).scope = a.scope
         /\ CancelAll(a).q = a.q /\ CancelAll(a).rows = a.rows /\ CancelAll(a).heardAt = a.heardAt
         /\ \A t \in TurnID : CancelAll(a).turn[t].pc = a.turn[t].pc
<1> DEFINE turns == [t \in TurnID |-> IF a.turn[t].pc \notin {"unborn", "ended"} /\ a.turn[t].cause = "none"
                                      THEN [a.turn[t] EXCEPT !.cause = "actor"] ELSE a.turn[t]]
           b == CancelAll(a)
<1>1. a \in SrvType /\ a.turn \in [TurnID -> TurnType] /\ a.rows \in [TurnID -> RowType]
  BY DEF SrvOK, SrvType
<1>2. ASSUME NEW t \in TurnID
      PROVE  LET r == a.turn[t]
                 s == turns[t] IN
             /\ s \in TurnType /\ s.pc = r.pc /\ s.no = r.no /\ s.completed = r.completed /\ s.learner = r.learner
             /\ s.segs = r.segs /\ s.sent = r.sent /\ s.emit = r.emit /\ s.finalized = r.finalized
             /\ (r.cause # "none" => s.cause # "none")
  <2>1. a.turn[t] \in TurnType
    BY <1>1
  <2> QED BY <2>1 DEF TurnType
<1>3. turns \in [TurnID -> TurnType]
  BY <1>2
<1>4. b = [a EXCEPT !.turn = turns]
  BY DEF CancelAll
<1> HIDE DEF turns
<1>5. /\ b \in SrvType /\ b.cur = a.cur /\ b.nextID = a.nextID /\ b.no = a.no /\ b.last = a.last /\ b.hist = a.hist
      /\ b.rows = a.rows /\ b.stage = a.stage /\ b.heardAt = a.heardAt /\ b.scope = a.scope /\ b.q = a.q
      /\ b.closing = a.closing /\ b.turn = turns
  BY <1>1, <1>3, <1>4 DEF SrvType
<1> HIDE DEF b
<1>6. a.nextID \in 1..(MaxTurns + 1) /\ 1..(a.nextID - 1) \subseteq TurnID /\ a.cur \in 0..MaxTurns
  BY <1>1, Ranges DEF SrvType, TurnID
<1>7. ScopeOK(b)
  <2>1. a.nextID > 1 => a.nextID - 1 \in TurnID
    BY <1>6, Ranges DEF TurnID
  <2> QED BY <1>2, <1>5, <2>1 DEF SrvOK, ScopeOK
<1>8. NumberOK(b)
  <2>1. a.cur # 0 => a.cur \in TurnID
    BY <1>6, Ranges DEF TurnID
  <2> QED BY <1>2, <1>5, <2>1 DEF SrvOK, NumberOK
<1>9. LastOK(b)
  BY <1>5 DEF SrvOK, LastOK
<1>10. QueueOK(b)
  BY <1>2, <1>5, <1>6, SMTT(60) DEF SrvOK, QueueOK
<1>11. \A u \in TurnID : TurnOK(b, u)
  BY <1>2, <1>5 DEF SrvOK, TurnOK
<1>12. \A n \in TurnID : RowOK(b, n)
  <2> SUFFICES ASSUME NEW n \in TurnID PROVE RowOK(b, n)
    OBVIOUS
  <2>1. RowOK(a, n)
    BY DEF SrvOK
  <2>2. a.rows[n].status = "complete" => a.rows[n].id \in TurnID
    BY <1>1, <2>1, Ranges DEF RowOK, RowType, TurnID
  <2> QED BY <1>2, <1>5, <2>1, <2>2 DEF RowOK
<1>13. SrvOK(b)
  BY <1>5, <1>7, <1>8, <1>9, <1>10, <1>11, <1>12 DEF SrvOK
<1>14. Calm(a, b)
  <2>1. \A u \in TurnID : b.turn[u].pc = a.turn[u].pc /\ Given(b.turn[u]) = Given(a.turn[u])
    BY <1>2, <1>5, GivenAlike
  <2> QED BY <1>5, <1>6, <2>1, Ranges DEF Calm
<1> QED BY <1>2, <1>5, <1>13, <1>14 DEF b

LEMMA CancelAllOK ==
  ASSUME NEW a, SrvOK(a), NEW played, Heard(a, played)
  PROVE  Kept(a, CancelAll(a), played)
BY CancelAllFacts DEF Kept, Heard

\* A turn that reported: it is stored whole, unless it was stored before.
LEMMA TurnDoneOK ==
  ASSUME NEW a, SrvOK(a), NEW played, Heard(a, played), a.cur # 0, a.turn[a.cur].pc = "ended",
         NEW status \in {"none", "complete", "failed"}, NEW ok \in BOOLEAN
  PROVE  Kept(a, [Finalize(a, a.cur, status, TRUE, 0, ok) EXCEPT !.cur = 0, !.st = "idle"], played)
<1> DEFINE id == a.cur
           f == Finalize(a, id, status, TRUE, 0, ok)
           b == [f EXCEPT !.cur = 0, !.st = "idle"]
<1>1. a \in SrvType /\ id \in TurnID /\ a.turn[id] \in TurnType /\ a.turn \in [TurnID -> TurnType] /\ 0 \in 0..MaxTurns
  BY Ranges DEF SrvOK, SrvType, TurnID
<1>2. ~a.turn[id].finalized /\ a.turn[id].no \in TurnID
  <2>1. id < a.nextID
    BY <1>1, Ranges DEF SrvOK, ScopeOK, SrvType, TurnID
  <2> QED BY <1>1, <2>1 DEF SrvOK, NumberOK, TurnOK
<1>3. f = Recorded(a, id, status, 0, ok) /\ 0 \in Nat
  <2>1. TRUE = (status # "interrupted")
    OBVIOUS
  <2> QED BY <2>1 DEF Finalize, Recorded
<1> HIDE DEF f
<1>4. /\ f \in SrvType
      /\ f.cur = a.cur /\ f.nextID = a.nextID /\ f.no = a.no /\ f.stage = a.stage
      /\ f.q = a.q /\ f.scope = a.scope
      /\ TurnFinalized(a, f, id)
      /\ Stores(a, f, id, status, 0, ok)
  <2> HIDE DEF id
  <2>1. status \in {"none", "complete", "failed", "interrupted"}
    OBVIOUS
  <2> QED BY <1>1, <1>2, <1>3, <2>1, FinalizeFacts
<1>5. /\ b \in SrvType /\ b.cur = 0 /\ b.nextID = a.nextID /\ b.no = a.no /\ b.stage = a.stage /\ b.q = a.q
      /\ b.scope = a.scope /\ b.turn = f.turn /\ b.last = f.last /\ b.hist = f.hist /\ b.rows = f.rows /\ b.closing = f.closing
  BY <1>1, <1>4 DEF SrvType
<1> HIDE DEF b
<1>6. Stores(a, b, id, status, 0, ok)
  BY <1>4, <1>5, StoresAlike
<1>7. /\ b.turn[id].pc = a.turn[id].pc /\ b.turn[id].no = a.turn[id].no /\ b.turn[id].completed = a.turn[id].completed
      /\ b.turn[id].learner = a.turn[id].learner /\ b.turn[id].segs = a.turn[id].segs
      /\ b.turn[id].sent = a.turn[id].sent /\ b.turn[id].emit = a.turn[id].emit
      /\ \A u \in TurnID : u # id => b.turn[u] = a.turn[u]
  BY <1>1, <1>4, <1>5 DEF TurnFinalized, TurnType
<1>8. /\ SrvOK(b) /\ Calm(a, b)
      /\ \A n \in TurnID : \/ b.rows[n] = a.rows[n]
                           \/ /\ b.rows[n].id = a.cur
                              /\ b.rows[n].status = "interrupted" => status = "interrupted" /\ b.rows[n].heard <= 0
  <2>1. status = "complete" => a.turn[a.cur].pc \in Reporting
    BY DEF Reporting
  <2> QED BY <1>3, <1>5, <1>6, <1>7, <2>1, RecordedOK, ZenonT(60)
<1> QED BY <1>5, <1>8 DEF Kept, Heard, b, f

-----------------------------------------------------------------------------
(* What the rest of the connection needs of a step of the server *)

\* A segment of turn t is queued at most once, and only as it is given.
Queues(a, b, t) ==
  \/ Counted(b.q, t) = Counted(a.q, t) /\ (t < a.nextID => Given(b.turn[t]) >= Given(a.turn[t]))
  \/ Counted(b.q, t) = Counted(a.q, t) \cup {Len(a.q) + 1} /\ t < a.nextID /\ Given(b.turn[t]) > Given(a.turn[t])

Onward(a, b) ==
  /\ b.nextID >= a.nextID
  /\ b.scope \in {a.scope, 0} \/ b.scope >= a.nextID
  /\ \A t \in TurnID : /\ a.turn[t].pc \in Past => b.turn[t].pc \in Past
                       /\ a.turn[t].pc = "ended" => b.turn[t].pc = "ended"
  /\ \A j \in 1..Len(b.q) : b.q[j].counts =>
       (\E i \in 1..Len(a.q) : a.q[i] = b.q[j]) \/ a.turn[b.q[j].t].pc = "respond"
  /\ \A n \in TurnID : a.rows[n].id # 0 => b.rows[n].id = a.rows[n].id
  /\ \A t \in TurnID : Queues(a, b, t)
  /\ Len(b.q) <= OutCap \/ b.q = a.q

LEMMA CalmOnward == ASSUME NEW a, SrvOK(a), NEW b, Calm(a, b) PROVE Onward(a, b)
<1>1. \A t \in TurnID : t < a.nextID \/ a.turn[t].pc = "unborn"
  BY Ranges DEF SrvOK, SrvType, TurnOK, TurnID
<1>2. "unborn" \notin Past /\ "ended" \in Past
  BY DEF Past
<1>3. \A t \in TurnID : a.turn[t].pc = "unborn" \/ b.turn[t].pc = a.turn[t].pc
  BY <1>1 DEF Calm
<1>4. ASSUME NEW t \in TurnID PROVE Queues(a, b, t)
  <2>1. Given(a.turn[t]) \in Int
    BY GivenTypes DEF SrvOK, SrvType
  <2>2. t < a.nextID => Given(b.turn[t]) = Given(a.turn[t])
    BY DEF Calm
  <2>3. t < a.nextID => Given(b.turn[t]) >= Given(a.turn[t])
    BY <2>1, <2>2
  <2>4. Counted(b.q, t) = Counted(a.q, t)
    BY DEF Calm
  <2> QED BY <2>3, <2>4 DEF Queues
<1> QED BY <1>2, <1>3, <1>4 DEF Calm, Onward

\* What was told stays so: a turn that is finished is in scope no more, or past its
\* tutor.done, and sends no segment.
LEMMA WriterOnward ==
  ASSUME SessionInv, SrvOK(srv'), Onward(srv, srv'), UNCHANGED <<inflight, written, cli>>
  PROVE  WriterOK'
<1>1. srv \in SrvType /\ srv' \in SrvType /\ srv.nextID \in Int /\ srv'.nextID \in Int /\ srv.scope \in Int /\ srv'.scope \in Int
  <2>1. \A a \in SrvType : a.nextID \in Int /\ a.scope \in Int
    BY Ranges DEF SrvType
  <2>2. srv \in SrvType /\ srv' \in SrvType
    BY DEF SessionInv, SrvOK
  <2> QED BY <2>1, <2>2
<1>2. srv'.nextID >= srv.nextID
  BY DEF Onward
<1>3. \A t \in TurnID : t < srv.nextID => t < srv'.nextID
  BY <1>1, <1>2, Ranges
<1>4. 1..(srv.nextID - 1) \subseteq 1..(srv'.nextID - 1)
  BY <1>1, <1>2
<1>5. ASSUME NEW t \in TurnID, Told(t)'
      PROVE  /\ t < srv'.nextID
             /\ t # srv'.scope \/ srv'.turn[t].pc \in Past
             /\ t = srv'.scope => \A i \in 1..Len(srv'.q) : ~(srv'.q[i].counts /\ srv'.q[i].t = t)
  <2>1. Told(t)
    BY <1>5 DEF Told
  <2>2. /\ t < srv.nextID
        /\ t # srv.scope \/ srv.turn[t].pc \in Past
        /\ t = srv.scope => \A i \in 1..Len(srv.q) : ~(srv.q[i].counts /\ srv.q[i].t = t)
    BY <2>1 DEF SessionInv, WriterOK
  <2>3. t = srv'.scope => t = srv.scope
    BY <1>1, <2>2, Ranges DEF Onward, TurnID
  <2>4. t = srv'.scope => srv.turn[t].pc # "respond"
    BY <2>2, <2>3 DEF Past
  <2> QED BY <1>3, <2>2, <2>3, <2>4 DEF Onward
<1> QED BY <1>3, <1>4, <1>5 DEF SessionInv, WriterOK

\* A step of the server that keeps its part keeps the connection's.
LEMMA Settled ==
  ASSUME SessionInv, SrvOK(srv'), Onward(srv, srv'), UNCHANGED <<inflight, written, cli, world>>,
         events' \in Seq(EventType),
         \A i \in 1..Len(events') : \/ \E j \in 1..Len(events) : events'[i] = events[j]
                                    \/ EventOK(events'[i], srv', cli.played),
         WithinOK(srv', cli.played, written), CountOK'
  PROVE  SessionInv'
<1>1. WriterOK'
  BY WriterOnward
<1>2. Types'
  BY DEF SessionInv, Types
<1>3. \A e : EventOK(e, srv, cli.played) => EventOK(e, srv', cli.played)
  BY DEF EventOK, Onward
<1>4. EventsOK'
  BY <1>3 DEF SessionInv, EventsOK
<1> QED BY <1>1, <1>2, <1>4 DEF SessionInv

LEMMA HeadFacts ==
  ASSUME SessionInv, events # <<>>
  PROVE  /\ Head(events) \in EventType /\ EventOK(Head(events), srv, cli.played)
         /\ Tail(events) \in Seq(EventType)
         /\ \A i \in 1..Len(Tail(events)) : \E j \in 1..Len(events) : Tail(events)[i] = events[j]
<1>1. events \in Seq(EventType) /\ Len(events) >= 1
  BY DEF SessionInv, Types
<1>2. Head(events) = events[1] /\ 1 \in 1..Len(events)
  BY <1>1
<1>3. EventOK(events[1], srv, cli.played)
  BY <1>2 DEF SessionInv, EventsOK
<1>4. ASSUME NEW i \in 1..Len(Tail(events)) PROVE Tail(events)[i] = events[i + 1] /\ i + 1 \in 1..Len(events)
  BY <1>1
<1> QED BY <1>1, <1>2, <1>3, <1>4

Playing == SrvOK(srv) /\ Heard(srv, cli.played) /\ cli.played \in [TurnID -> Nat]

LEMMA RunFacts ==
  ASSUME SessionInv, srv.stage = "run"
  PROVE  Playing /\ srv \in SrvType
BY DEF SessionInv, Playing, WithinOK, Heard, Types, SrvOK

\* One event is handled.
LEMMA HandleOK ==
  ASSUME SessionInv, srv.stage = "run", events # <<>>, NEW a, Kept(srv, a, cli.played), Handle(a)
  PROVE  SessionInv' /\ Onward(srv, srv')
<1>1. Kept(srv, srv', cli.played)
  <2>1. Kept(a, CancelAll(a), cli.played)
    BY CancelAllOK DEF Kept
  <2>2. Kept(srv, CancelAll(a), cli.played)
    BY <2>1, KeptTwice DEF SessionInv
  <2> QED BY <2>2 DEF Handle
<1>2. SrvOK(srv') /\ Onward(srv, srv') /\ srv'.stage = "run" /\ Heard(srv', cli.played)
  BY <1>1, CalmOnward DEF Kept, SessionInv
<1>3. CountOK' /\ WithinOK(srv', cli.played, written)
  BY <1>2 DEF CountOK, WithinOK, Heard
<1>4. events' \in Seq(EventType) /\ \A i \in 1..Len(events') : \E j \in 1..Len(events) : events'[i] = events[j]
  BY HeadFacts DEF Handle
<1>5. UNCHANGED <<inflight, written, cli, world>>
  BY DEF Handle
<1> QED BY <1>2, <1>3, <1>4, <1>5, Settled

\* The record while it ends: the reason to close, the stage and what finish read.
LEMMA EndingOK ==
  ASSUME NEW a, SrvOK(a), NEW b \in SrvType, b.cur = a.cur, b.nextID = a.nextID, b.no = a.no, b.last = a.last,
         b.hist = a.hist, b.rows = a.rows, b.scope = a.scope, b.turn = a.turn, b.q = a.q,
         a.closing = "no" \/ b.closing # "no"
  PROVE  SrvOK(b) /\ Calm(a, b)
<1>1. a.nextID \in Int
  BY Ranges DEF SrvOK, SrvType
<1>2. ScopeOK(b) /\ NumberOK(b) /\ LastOK(b) /\ QueueOK(b)
  BY DEF SrvOK, ScopeOK, NumberOK, LastOK, QueueOK
<1>3. \A t \in TurnID : TurnOK(b, t) /\ RowOK(b, t)
  BY DEF SrvOK, TurnOK, RowOK
<1>4. Calm(a, b)
  BY <1>1 DEF Calm
<1> QED BY <1>2, <1>3, <1>4 DEF SrvOK

-----------------------------------------------------------------------------
(* The actor's events, one lemma each *)

Moves == SessionInv' /\ Onward(srv, srv')

LEMMA RunningFacts == ASSUME SessionInv, Running, events # <<>> PROVE Playing /\ srv.stage = "run" /\ srv \in SrvType
BY RunFacts DEF Running

LEMMA FaultFacts ==
  StorageOK \subseteq BOOLEAN /\ Allowed \subseteq BOOLEAN
BY DEF StorageOK, Allowed

LEMMA StartFacts == ASSUME SessionInv, CanStart PROVE srv.nextID <= MaxTurns
<1>1. world.turns \in 0..MaxTurns /\ srv.nextID \in Int
  BY SessionAssumption, Ranges DEF SessionInv, Types, SrvOK, SrvType
<1> QED BY <1>1, Ranges DEF CanStart

LEMMA SpeechStartOK == ASSUME SessionInv, SpeechStart PROVE Moves
<1> DEFINE played == Played(Head(events))
<1>1. /\ events # <<>> /\ Running /\ Head(events) \in EventType /\ EventOK(Head(events), srv, cli.played)
      /\ Head(events).k = "speech.start"
  BY HeadFacts DEF SpeechStart, Next1
<1>2. Claim(played, cli.played)
  BY <1>1 DEF Claim, Played, EventOK, EventType
<1>3. Playing /\ srv.stage = "run" /\ 0 \in 0..MaxAudio
  BY <1>1, RunningFacts, SessionAssumption
<1> HIDE DEF played
<1>4. PICK ok \in StorageOK, inWindow \in BOOLEAN :
       \/ Handle(BeginCapture(LateBargeIn(srv, played, ok), 0))
       \/ Handle(BeginCapture(srv, 0))
       \/ srv.cur # 0 /\ Handle(MergeContinuation(srv))
       \/ Handle(BeginCapture(BargeIn(srv, played, ok), 0))
  BY DEF SpeechStart, played
<1>5. ok \in BOOLEAN
  BY FaultFacts
<1>6. CASE Handle(BeginCapture(LateBargeIn(srv, played, ok), 0))
  <2>1. Kept(srv, LateBargeIn(srv, played, ok), cli.played)
    BY <1>2, <1>3, <1>5, LateBargeInOK DEF Playing
  <2>2. Kept(LateBargeIn(srv, played, ok), BeginCapture(LateBargeIn(srv, played, ok), 0), cli.played)
    BY <1>3, <2>1, CaptureOK DEF Kept
  <2>3. Kept(srv, BeginCapture(LateBargeIn(srv, played, ok), 0), cli.played)
    BY <1>3, <2>1, <2>2, KeptTwice DEF Playing
  <2> QED BY <1>1, <1>3, <1>6, <2>3, HandleOK DEF Moves
<1>7. CASE Handle(BeginCapture(srv, 0))
  <2>1. Kept(srv, BeginCapture(srv, 0), cli.played)
    BY <1>3, CaptureOK DEF Playing
  <2> QED BY <1>1, <1>3, <1>7, <2>1, HandleOK DEF Moves
<1>8. CASE srv.cur # 0 /\ Handle(MergeContinuation(srv))
  <2>1. Kept(srv, MergeContinuation(srv), cli.played)
    BY <1>3, <1>8, MergeOK DEF Playing
  <2> QED BY <1>1, <1>3, <1>8, <2>1, HandleOK DEF Moves
<1>9. CASE Handle(BeginCapture(BargeIn(srv, played, ok), 0))
  <2>1. Kept(srv, BargeIn(srv, played, ok), cli.played)
    BY <1>2, <1>3, <1>5, BargeInOK DEF Playing
  <2>2. Kept(BargeIn(srv, played, ok), BeginCapture(BargeIn(srv, played, ok), 0), cli.played)
    BY <1>3, <2>1, CaptureOK DEF Kept
  <2>3. Kept(srv, BeginCapture(BargeIn(srv, played, ok), 0), cli.played)
    BY <1>3, <2>1, <2>2, KeptTwice DEF Playing
  <2> QED BY <1>1, <1>3, <1>9, <2>3, HandleOK DEF Moves
<1> QED BY <1>4, <1>6, <1>7, <1>8, <1>9

LEMMA AudioOK == ASSUME SessionInv, Audio PROVE Moves
<1>1. events # <<>> /\ Running
  BY DEF Audio, Next1
<1>2. Playing /\ srv.stage = "run" /\ srv \in SrvType /\ MaxAudio \in 0..MaxAudio /\ 0 \in 0..MaxTurns
  BY <1>1, RunningFacts, SessionAssumption
<1>3. CASE Handle(srv)
  <2>1. Kept(srv, srv, cli.played)
    BY <1>2, KeptNone DEF Playing
  <2> QED BY <1>1, <1>2, <1>3, <2>1, HandleOK DEF Moves
<1>4. CASE srv.buf + 1 < MaxAudio /\ Handle([srv EXCEPT !.buf = @ + 1])
  <2>1. srv.buf + 1 \in 0..MaxAudio
    BY <1>2, <1>4, SessionAssumption, SMTT(60) DEF SrvType
  <2>2. Kept(srv, [srv EXCEPT !.buf = srv.buf + 1], cli.played)
    BY <1>2, <2>1, CaptureOK DEF Playing
  <2>3. Handle([srv EXCEPT !.buf = srv.buf + 1])
    BY <1>4
  <2> QED BY <1>1, <1>2, <2>2, <2>3, HandleOK DEF Moves
<1>5. ASSUME NEW allowed \in Allowed, allowed => CanStart,
             Handle(FinishUtterance(TrySend([srv EXCEPT !.buf = MaxAudio], Control("error", 0)), allowed))
      PROVE  Moves
  <2> DEFINE a == [srv EXCEPT !.buf = MaxAudio]
             b == TrySend(a, Control("error", 0))
  <2>1. Kept(srv, a, cli.played) /\ a.nextID = srv.nextID
    BY <1>2, CaptureOK DEF Playing, SrvType
  <2> HIDE DEF a
  <2>2. Kept(a, b, cli.played) /\ b.nextID = a.nextID
    BY <1>2, <2>1, ControlFrame, KeptSend, TrySendOK DEF Kept, Core
  <2> HIDE DEF b
  <2>3. allowed \in BOOLEAN /\ (allowed => b.nextID <= MaxTurns)
    BY <1>5, <2>1, <2>2, FaultFacts, StartFacts
  <2>4. Kept(srv, b, cli.played)
    BY <1>2, <2>1, <2>2, KeptTwice DEF Playing
  <2>5. Kept(b, FinishUtterance(b, allowed), cli.played)
    BY <2>3, <2>4, FinishUtteranceOK DEF Kept
  <2>6. Kept(srv, FinishUtterance(b, allowed), cli.played)
    BY <1>2, <2>4, <2>5, KeptTwice DEF Playing
  <2>7. Handle(FinishUtterance(b, allowed))
    BY <1>5 DEF a, b
  <2> QED BY <1>1, <1>2, <2>6, <2>7, HandleOK DEF Moves
<1> QED BY <1>3, <1>4, <1>5 DEF Audio

LEMMA SpeechEndOK == ASSUME SessionInv, SpeechEnd PROVE Moves
<1>1. events # <<>> /\ Running
  BY DEF SpeechEnd, Next1
<1>2. Playing /\ srv.stage = "run"
  BY <1>1, RunningFacts
<1>3. CASE Handle(srv)
  <2>1. Kept(srv, srv, cli.played)
    BY <1>2, KeptNone DEF Playing
  <2> QED BY <1>1, <1>2, <1>3, <2>1, HandleOK DEF Moves
<1>4. ASSUME NEW allowed \in Allowed, allowed => CanStart, Handle(FinishUtterance(srv, allowed))
      PROVE  Moves
  <2>1. allowed \in BOOLEAN /\ (allowed => srv.nextID <= MaxTurns)
    BY <1>4, FaultFacts, StartFacts
  <2>2. Kept(srv, FinishUtterance(srv, allowed), cli.played)
    BY <1>2, <2>1, FinishUtteranceOK DEF Playing
  <2> QED BY <1>1, <1>2, <1>4, <2>2, HandleOK DEF Moves
<1> QED BY <1>3, <1>4 DEF SpeechEnd

LEMMA TextInputOK == ASSUME SessionInv, TextInput PROVE Moves
<1>1. events # <<>> /\ Running
  BY DEF TextInput, Next1
<1>2. Playing /\ srv.stage = "run" /\ srv \in SrvType /\ 0 \in 0..MaxTurns /\ 0 \in 0..MaxAudio
  BY <1>1, RunningFacts, SessionAssumption
<1>3. PICK ok \in StorageOK, allowed \in Allowed :
        \E a \in {BargeIn(srv, NoPlayed, ok), DiscardCapture(srv), srv} :
          /\ allowed => CanStart
          /\ allowed => Handle(StartTurn(a, "text"))
          /\ ~allowed => Handle(TrySend(a, Control("error", 0)))
  <2>1. srv.st \in {"idle", "capturing", "responding"}
    BY <1>2 DEF SrvType
  <2>2. PICK ok \in StorageOK, allowed \in Allowed :
          LET a1 == CASE srv.st = "responding" -> BargeIn(srv, NoPlayed, ok)
                      [] srv.st = "capturing"  -> DiscardCapture(srv)
                      [] srv.st = "idle"       -> srv
          IN  /\ allowed => CanStart
              /\ Handle(IF allowed THEN StartTurn(a1, "text") ELSE TrySend(a1, Control("error", 0)))
    BY DEF TextInput
  <2> QED BY <2>1, <2>2
<1>4. ok \in BOOLEAN /\ allowed \in BOOLEAN
  BY FaultFacts
<1>a. PICK a \in {BargeIn(srv, NoPlayed, ok), DiscardCapture(srv), srv} :
          /\ allowed => CanStart
          /\ allowed => Handle(StartTurn(a, "text"))
          /\ ~allowed => Handle(TrySend(a, Control("error", 0)))
  BY <1>3
<1>5. Kept(srv, a, cli.played) /\ a.nextID = srv.nextID
  <2>1. Claim(NoPlayed, cli.played)
    BY <1>2 DEF Claim, NoPlayed
  <2>2. Kept(srv, BargeIn(srv, NoPlayed, ok), cli.played) /\ BargeIn(srv, NoPlayed, ok).nextID = srv.nextID
    BY <1>2, <1>4, <2>1, BargeInOK DEF Playing
  <2>3. Kept(srv, DiscardCapture(srv), cli.played) /\ DiscardCapture(srv).nextID = srv.nextID
    BY <1>2, CaptureOK DEF Playing, DiscardCapture, SrvType
  <2>4. Kept(srv, srv, cli.played)
    BY <1>2, KeptNone DEF Playing
  <2> QED BY <1>a, <2>2, <2>3, <2>4
<1>6. CASE allowed
  <2>1. a.nextID <= MaxTurns
    BY <1>a, <1>5, <1>6, StartFacts
  <2>2. Kept(a, StartTurn(a, "text"), cli.played)
    BY <1>5, <2>1, StartTurnOK DEF Kept
  <2>3. Kept(srv, StartTurn(a, "text"), cli.played)
    BY <1>2, <1>5, <2>2, KeptTwice DEF Playing
  <2> QED BY <1>1, <1>2, <1>a, <1>6, <2>3, HandleOK DEF Moves
<1>7. CASE ~allowed
  <2>1. Kept(a, TrySend(a, Control("error", 0)), cli.played)
    BY <1>2, <1>5, ControlFrame, KeptSend DEF Kept
  <2>2. Kept(srv, TrySend(a, Control("error", 0)), cli.played)
    BY <1>2, <1>5, <2>1, KeptTwice DEF Playing
  <2> QED BY <1>1, <1>2, <1>a, <1>7, <2>2, HandleOK DEF Moves
<1> QED BY <1>6, <1>7

LEMMA SmallEventsOK ==
  ASSUME SessionInv, SpeechCancel \/ PlaybackDone \/ Ping \/ Stopped
  PROVE  Moves
<1>1. events # <<>> /\ Running
  BY DEF SpeechCancel, PlaybackDone, Ping, Stopped, Next1
<1>2. Playing /\ srv.stage = "run" /\ srv \in SrvType /\ 0 \in 0..MaxAudio /\ 0 \in 0..MaxTurns
  BY <1>1, RunningFacts, SessionAssumption
<1>3. Kept(srv, srv, cli.played)
  BY <1>2, KeptNone DEF Playing
<1>4. ASSUME SpeechCancel PROVE Moves
  <2>1. Kept(srv, DiscardCapture(srv), cli.played)
    BY <1>2, CaptureOK DEF Playing
  <2>2. Handle(srv) \/ Handle(DiscardCapture(srv))
    BY <1>4 DEF SpeechCancel
  <2> QED BY <1>1, <1>2, <1>3, <2>1, <2>2, HandleOK DEF Moves
<1>5. ASSUME PlaybackDone PROVE Moves
  <2> DEFINE b == [srv EXCEPT !.last.pdone = TRUE]
  <2>1. [srv.last EXCEPT !.pdone = TRUE] \in LastType /\ srv.last \in LastType
    BY <1>2 DEF LastType, SrvType
  <2>2. /\ b \in SrvType /\ b.last = [srv.last EXCEPT !.pdone = TRUE]
        /\ b.cur = srv.cur /\ b.nextID = srv.nextID /\ b.no = srv.no /\ b.hist = srv.hist /\ b.rows = srv.rows
        /\ b.stage = srv.stage /\ b.scope = srv.scope /\ b.turn = srv.turn /\ b.q = srv.q /\ b.closing = srv.closing
    BY <1>2, <2>1 DEF SrvType
  <2> HIDE DEF b
  <2>3. b.last.id = srv.last.id /\ b.last.no = srv.last.no /\ b.last.persisted = srv.last.persisted /\ b.last.total = srv.last.total
    BY <2>1, <2>2 DEF LastType
  <2>4. ScopeOK(b) /\ NumberOK(b) /\ LastOK(b) /\ QueueOK(b)
    BY <1>2, <2>2, <2>3 DEF Playing, SrvOK, ScopeOK, NumberOK, LastOK, QueueOK
  <2>5. \A t \in TurnID : TurnOK(b, t) /\ RowOK(b, t)
    BY <1>2, <2>2 DEF Playing, SrvOK, TurnOK, RowOK
  <2>6. Calm(srv, b)
    BY <1>2, <2>2, CalmNone DEF Calm
  <2>7. Kept(srv, b, cli.played)
    BY <1>2, <2>2, <2>4, <2>5, <2>6 DEF Playing, SrvOK, Kept, Heard
  <2>8. Handle(srv) \/ Handle(b)
    BY <1>5 DEF PlaybackDone, b
  <2> QED BY <1>1, <1>2, <1>3, <2>7, <2>8, HandleOK DEF Moves
<1>6. ASSUME Ping PROVE Moves
  <2>1. Kept(srv, TrySend(srv, Control("pong", 0)), cli.played)
    BY <1>2, ControlFrame, KeptSend DEF Playing
  <2> QED BY <1>1, <1>2, <1>6, <2>1, HandleOK DEF Ping, Moves
<1>7. ASSUME Stopped PROVE Moves
  <2> DEFINE k == Head(events).k
             b == [srv EXCEPT !.closing = k]
  <2>1. k \in {"ended", "closed", "stop", "storage"} /\ Handle(b)
    BY <1>7 DEF Stopped
  <2> HIDE DEF k
  <2>2. /\ b \in SrvType /\ b.closing # "no" /\ b.last = srv.last
        /\ b.cur = srv.cur /\ b.nextID = srv.nextID /\ b.no = srv.no /\ b.hist = srv.hist /\ b.rows = srv.rows
        /\ b.stage = srv.stage /\ b.scope = srv.scope /\ b.turn = srv.turn /\ b.q = srv.q
    BY <1>2, <2>1, SMTT(60) DEF SrvType
  <2> HIDE DEF b
  <2>3. SrvOK(b) /\ Calm(srv, b)
    BY <1>2, <2>2, EndingOK DEF Playing
  <2>4. Kept(srv, b, cli.played)
    BY <1>2, <2>2, <2>3 DEF Playing, Kept, Heard
  <2> QED BY <1>1, <1>2, <2>1, <2>4, HandleOK DEF Moves
<1> QED BY <1>4, <1>5, <1>6, <1>7

LEMMA TurnDoneEventOK == ASSUME SessionInv, TurnDone PROVE Moves
<1>1. /\ events # <<>> /\ Running /\ Head(events) \in EventType /\ EventOK(Head(events), srv, cli.played)
      /\ Head(events).k = "turndone"
  BY HeadFacts DEF TurnDone, Next1
<1>2. Playing /\ srv.stage = "run"
  BY <1>1, RunningFacts
<1> DEFINE t == Head(events).t
           status == Head(events).status
           b(ok) == [Finalize(srv, t, status, TRUE, 0, ok) EXCEPT !.cur = 0, !.st = "idle"]
<1>3. t \in TurnID /\ srv.turn[t].pc = "ended" /\ status \in {"none", "complete", "failed"}
  BY <1>1 DEF EventOK, EventType
<1>4. PICK ok \in StorageOK : Handle(srv) \/ (t = srv.cur /\ Handle(b(ok)))
  BY DEF TurnDone
<1>5. CASE Handle(srv)
  <2>1. Kept(srv, srv, cli.played)
    BY <1>2, KeptNone DEF Playing
  <2> QED BY <1>1, <1>2, <1>5, <2>1, HandleOK DEF Moves
<1>6. CASE t = srv.cur /\ Handle(b(ok))
  <2>1. ok \in BOOLEAN /\ srv.cur # 0 /\ srv.turn[srv.cur].pc = "ended"
    BY <1>3, <1>6, FaultFacts, Ranges DEF TurnID
  <2>2. b(ok) = [Finalize(srv, srv.cur, status, TRUE, 0, ok) EXCEPT !.cur = 0, !.st = "idle"]
    BY <1>6
  <2> HIDE DEF status
  <2>3. Kept(srv, [Finalize(srv, srv.cur, status, TRUE, 0, ok) EXCEPT !.cur = 0, !.st = "idle"], cli.played)
    BY <1>2, <1>3, <2>1, TurnDoneOK DEF Playing
  <2>4. Kept(srv, b(ok), cli.played)
    BY <2>2, <2>3
  <2> HIDE DEF b
  <2> QED BY <1>1, <1>2, <1>6, <2>4, HandleOK DEF Moves
<1> QED BY <1>4, <1>5, <1>6

-----------------------------------------------------------------------------
(* The timers, and how the actor ends *)

\* A step of the actor that reads no event.
LEMMA QuietStep ==
  ASSUME SessionInv, SrvOK(srv'), Calm(srv, srv'), UNCHANGED <<events, inflight, written, cli, world>>,
         WithinOK(srv', cli.played, written), CountOK'
  PROVE  Moves
<1>1. Onward(srv, srv')
  BY CalmOnward DEF SessionInv
<1>2. events' \in Seq(EventType) /\ \A i \in 1..Len(events') : \E j \in 1..Len(events) : events'[i] = events[j]
  BY DEF SessionInv, Types
<1> QED BY <1>1, <1>2, Settled DEF Moves

LEMMA TimerOK == ASSUME SessionInv, Timer \/ ContextDone PROVE Moves
<1>1. Running /\ srv.stage = "run" /\ Playing /\ srv \in SrvType
  BY RunFacts DEF Timer, ContextDone, Running
<1>2. UNCHANGED <<events, inflight, written, cli, world>>
  BY DEF Timer, ContextDone
<1>3. ASSUME NEW w \in {"idle", "max", "stop"}, srv' = [srv EXCEPT !.closing = w]
      PROVE  Moves
  <2>1. /\ srv' \in SrvType /\ srv'.closing # "no" /\ srv'.last = srv.last
        /\ srv'.cur = srv.cur /\ srv'.nextID = srv.nextID /\ srv'.no = srv.no /\ srv'.hist = srv.hist /\ srv'.rows = srv.rows
        /\ srv'.stage = "run" /\ srv'.scope = srv.scope /\ srv'.turn = srv.turn /\ srv'.q = srv.q
    BY <1>1, <1>3 DEF SrvType
  <2>2. SrvOK(srv') /\ Calm(srv, srv')
    BY <1>1, <2>1, EndingOK DEF Playing
  <2>3. WithinOK(srv', cli.played, written) /\ CountOK'
    BY <1>1, <2>1 DEF Playing, Heard, WithinOK, CountOK
  <2> QED BY <1>2, <2>2, <2>3, QuietStep
<1>4. ASSUME srv' = DiscardCapture(srv)
      PROVE  Moves
  <2>1. Kept(srv, srv', cli.played)
    <3>1. 0 \in 0..MaxAudio
      BY SessionAssumption
    <3> QED BY <1>1, <1>4, <3>1, CaptureOK DEF Playing
  <2>2. WithinOK(srv', cli.played, written) /\ CountOK'
    BY <1>1, <2>1 DEF Kept, Heard, WithinOK, CountOK
  <2> QED BY <1>2, <2>1, <2>2, QuietStep DEF Kept
<1> QED BY <1>3, <1>4 DEF Timer, ContextDone

LEMMA FinishReadOK == ASSUME SessionInv, FinishRead PROVE Moves
<1> DEFINE n == HeardSegments(srv.cur)
<1>1. srv.stage = "run" /\ Playing /\ srv \in SrvType /\ srv.closing # "no"
  BY RunFacts DEF FinishRead
<1>2. n \in Nat /\ (srv.cur # 0 => n = written[srv.cur])
  BY <1>1, Ranges, SMTT(60) DEF HeardSegments, SessionInv, Types, SrvType, TurnID
<1>3. srv' = [srv EXCEPT !.stage = "finish", !.heardAt = n] /\ UNCHANGED <<events, inflight, written, cli, world>>
  BY DEF FinishRead
<1> HIDE DEF n
<1>4. /\ srv' \in SrvType /\ srv'.closing = srv.closing /\ srv'.last = srv.last
      /\ srv'.cur = srv.cur /\ srv'.nextID = srv.nextID /\ srv'.no = srv.no /\ srv'.hist = srv.hist /\ srv'.rows = srv.rows
      /\ srv'.heardAt = n /\ srv'.scope = srv.scope /\ srv'.turn = srv.turn /\ srv'.q = srv.q
  BY <1>1, <1>2, <1>3 DEF SrvType
<1>5. SrvOK(srv') /\ Calm(srv, srv')
  BY <1>1, <1>4, EndingOK DEF Playing
<1>6. WithinOK(srv', cli.played, written)
  BY <1>1, <1>4 DEF Playing, Heard, WithinOK
<1>7. CountOK'
  <2>1. srv'.cur # 0 => n <= written'[srv'.cur]
    BY <1>2, <1>3, <1>4
  <2> QED BY <1>4, <2>1 DEF CountOK
<1> QED BY <1>3, <1>5, <1>6, <1>7, QuietStep

\* finish stores the current turn with what was written when it began.
LEMMA FinishSaveOK == ASSUME SessionInv, FinishSave PROVE Moves
<1> DEFINE id == srv.cur
           a1(ok) == [Finalize(Cancel(SetTurn(srv, 0), id), id, "interrupted", FALSE, srv.heardAt, ok) EXCEPT !.cur = 0]
           a2(ok) == IF id = 0 THEN srv ELSE a1(ok)
           a3(ok) == IF srv.closing \in {"closed", "slow"} THEN a2(ok) ELSE TrySend(a2(ok), Control("bye", 0))
<1>1. srv.stage = "finish" /\ SrvOK(srv) /\ srv \in SrvType /\ srv.heardAt \in Nat /\ 0 \in 0..MaxTurns
      /\ srv.nextID \in Int /\ WithinOK(srv, cli.played, written)
  BY Ranges DEF FinishSave, SessionInv, SrvOK, SrvType
<1>2. PICK ok \in BOOLEAN : srv' = [a3(ok) EXCEPT !.stage = "wait"]
  BY FaultFacts DEF FinishSave
<1> DEFINE a == a2(ok)
           d == a3(ok)
<1>3. /\ SrvOK(a) /\ Calm(srv, a) /\ a.nextID = srv.nextID
      /\ \A n \in TurnID : \/ a.rows[n] = srv.rows[n]
                           \/ /\ id # 0 /\ a.rows[n].id = id
                              /\ a.rows[n].status = "interrupted" => a.rows[n].heard <= srv.heardAt
  <2>1. CASE id = 0
    BY <1>1, <2>1, CalmNone
  <2>2. CASE id # 0
    <3>1. /\ SrvOK(a1(ok)) /\ Calm(srv, a1(ok)) /\ a1(ok).nextID = srv.nextID
          /\ \A n \in TurnID : \/ a1(ok).rows[n] = srv.rows[n]
                               \/ /\ a1(ok).rows[n].id = id
                                  /\ a1(ok).rows[n].status = "interrupted" => a1(ok).rows[n].heard <= srv.heardAt
      BY <1>1, <2>2, CutOK, ZenonT(60)
    <3>2. a = a1(ok)
      BY <2>2
    <3> HIDE DEF a, a1
    <3> QED BY <2>2, <3>1, <3>2
  <2> QED BY <2>1, <2>2
<1>4. d = a \/ d = TrySend(a, Control("bye", 0))
  OBVIOUS
<1>5. srv' = [d EXCEPT !.stage = "wait"]
  BY <1>2
<1> HIDE DEF a, d, a1, a2, a3
<1>6. SrvOK(d) /\ Calm(srv, d) /\ d.nextID = srv.nextID /\ d.rows = a.rows
  <2>1. /\ SrvOK(TrySend(a, Control("bye", 0))) /\ Calm(a, TrySend(a, Control("bye", 0)))
        /\ Core(a, TrySend(a, Control("bye", 0)))
    BY <1>1, <1>3, ControlFrame, TrySendOK
  <2>2. Calm(srv, TrySend(a, Control("bye", 0)))
    BY <1>1, <1>3, <2>1, CalmTwice DEF SrvOK
  <2> QED BY <1>3, <1>4, <2>1, <2>2 DEF Core
<1>7. d \in SrvType
  BY <1>6 DEF SrvOK
<1>8. /\ srv' \in SrvType /\ srv'.stage = "wait" /\ srv'.closing = d.closing /\ srv'.last = d.last
      /\ srv'.cur = d.cur /\ srv'.nextID = d.nextID /\ srv'.no = d.no /\ srv'.hist = d.hist /\ srv'.rows = d.rows
      /\ srv'.scope = d.scope /\ srv'.turn = d.turn /\ srv'.q = d.q
  BY <1>5, <1>7 DEF SrvType
<1>9. SrvOK(srv') /\ Calm(srv, srv')
  <2>1. SrvOK(srv') /\ Calm(d, srv')
    BY <1>6, <1>8, EndingOK
  <2> QED BY <1>1, <1>6, <1>7, <1>8, <2>1, CalmTwice
<1>10. UNCHANGED <<inflight, written, cli, world>> /\ events' = <<>>
  BY DEF FinishSave
<1>11. WithinOK(srv', cli.played, written)
  <2> SUFFICES ASSUME NEW n \in TurnID, srv'.rows[n].status = "interrupted"
               PROVE  \/ srv'.rows[n].heard <= cli.played[srv'.rows[n].id]
                      \/ srv'.rows[n].id = srv'.nextID - 1 /\ srv'.rows[n].heard <= written[srv'.rows[n].id]
    BY <1>8 DEF WithinOK
  <2>1. srv'.rows[n] = a.rows[n] /\ srv'.nextID = srv.nextID
    BY <1>6, <1>8
  <2>2. CASE a.rows[n] = srv.rows[n]
    BY <1>1, <2>1, <2>2 DEF WithinOK
  <2>3. CASE id # 0 /\ a.rows[n].id = id /\ a.rows[n].heard <= srv.heardAt
    <3>1. id = srv.nextID - 1 /\ id \in TurnID
      BY <1>1, <2>3, Ranges DEF SrvOK, ScopeOK, SrvType, TurnID
    <3>2. srv.heardAt <= written[id] /\ written[id] \in Int /\ a.rows[n].heard \in Int
      BY <1>1, <1>3, <2>3, <3>1, Ranges DEF SessionInv, CountOK, Types, SrvOK, SrvType, RowType
    <3> QED BY <1>1, <2>1, <2>3, <3>1, <3>2
  <2> QED BY <1>3, <2>1, <2>2, <2>3
<1>12. CountOK'
  BY <1>8 DEF CountOK
<1>13. events' \in Seq(EventType) /\ \A i \in 1..Len(events') : \E j \in 1..Len(events) : events'[i] = events[j]
  BY <1>10
<1>14. Onward(srv, srv')
  BY <1>1, <1>9, CalmOnward
<1> QED BY <1>9, <1>10, <1>11, <1>12, <1>13, <1>14, Settled DEF Moves

LEMMA FinishWaitOK == ASSUME SessionInv, FinishWait PROVE Moves
<1>1. srv \in SrvType /\ SrvOK(srv) /\ srv.stage = "wait" /\ WithinOK(srv, cli.played, written)
  BY DEF SessionInv, SrvOK, FinishWait
<1>2. /\ srv' \in SrvType /\ srv'.stage = "closed" /\ srv'.closing = srv.closing /\ srv'.last = srv.last
      /\ srv'.cur = srv.cur /\ srv'.nextID = srv.nextID /\ srv'.no = srv.no /\ srv'.hist = srv.hist /\ srv'.rows = srv.rows
      /\ srv'.scope = srv.scope /\ srv'.turn = srv.turn /\ srv'.q = srv.q
  BY <1>1 DEF FinishWait, SrvType
<1>3. SrvOK(srv') /\ Calm(srv, srv')
  BY <1>1, <1>2, EndingOK
<1>4. WithinOK(srv', cli.played, written) /\ CountOK' /\ UNCHANGED <<events, inflight, written, cli, world>>
  BY <1>1, <1>2 DEF WithinOK, CountOK, FinishWait
<1> QED BY <1>3, <1>4, QuietStep

LEMMA ActorOK == ASSUME SessionInv, Actor \/ Timer PROVE Moves
BY SpeechStartOK, AudioOK, SpeechEndOK, TextInputOK, SmallEventsOK, TurnDoneEventOK, TimerOK,
   FinishReadOK, FinishSaveOK, FinishWaitOK DEF Actor

-----------------------------------------------------------------------------
(* A turn's goroutine *)

\* A turn goes from r to s: it does not go back, and what a reporting turn has is fixed.
Step(r, s) ==
  /\ s \in TurnType /\ r.pc # "unborn" /\ s.pc # "unborn" /\ s.no = r.no /\ s.finalized = r.finalized
  /\ r.pc = "ended" => s.pc = "ended"
  /\ r.pc \in Past => s.pc \in Past
  /\ r.pc \in Reporting => s.pc \in Reporting /\ s.segs = r.segs
  /\ r.cause # "none" => s.cause # "none"
  /\ s.completed => s.pc \in Reporting
  /\ ~s.learner => s.segs = 0 /\ s.pc \notin {"transcript", "respond"}
  /\ s.sent <= s.segs /\ (s.emit \in {"speech", "mark"} => s.sent < s.segs)

\* What turn t may add to the queue.
TurnFrame(t, r, s, f) ==
  /\ f \in FrameType /\ f.scoped /\ f.t = t
  /\ f.counts => r.pc = "respond" /\ ~Ends(f) /\ Given(s) > Given(r)
  /\ Ends(f) => s.pc \in Past

Put(a, t, s, q) == [a EXCEPT !.turn = [a.turn EXCEPT ![t] = s], !.q = q]

LEMMA TurnStepOK ==
  ASSUME NEW a, SrvOK(a), NEW t \in TurnID, NEW s, Step(a.turn[t], s),
         Given(s) >= Given(a.turn[t]),
         NEW q, \/ q = a.q
                \/ \E f : TurnFrame(t, a.turn[t], s, f) /\ q = Append(a.q, f) /\ Len(a.q) < OutCap,
         NEW b, b = Put(a, t, s, q)
  PROVE  /\ SrvOK(b) /\ Onward(a, b)
         /\ b.stage = a.stage /\ b.nextID = a.nextID /\ b.cur = a.cur /\ b.rows = a.rows /\ b.heardAt = a.heardAt
         /\ b.turn[t] = s
<1> DEFINE r == a.turn[t]
           turns == [a.turn EXCEPT ![t] = s]
<1>1. /\ a \in SrvType /\ a.turn \in [TurnID -> TurnType] /\ a.nextID \in 1..(MaxTurns + 1) /\ r \in TurnType
      /\ a.rows \in [TurnID -> RowType] /\ a.q \in Seq(FrameType) /\ a.cur \in 0..MaxTurns
      /\ a.scope \in Int /\ a.nextID \in Int
  BY Ranges, SMTT(60) DEF SrvOK, SrvType
<1>2. t < a.nextID /\ TurnOK(a, t)
  BY <1>1, Ranges DEF SrvOK, TurnOK, Step, TurnID
<1>3. q \in Seq(FrameType)
  <2>1. \A f : TurnFrame(t, r, s, f) => f \in FrameType
    BY DEF TurnFrame
  <2> QED BY <1>1, <2>1, AppendFrames, ZenonT(120)
<1>4. turns \in [TurnID -> TurnType] /\ turns[t] = s /\ \A u \in TurnID : u # t => turns[u] = a.turn[u]
  BY <1>1 DEF Step
<1> HIDE DEF turns
<1>5. /\ b \in SrvType /\ b.cur = a.cur /\ b.nextID = a.nextID /\ b.no = a.no /\ b.last = a.last /\ b.hist = a.hist
      /\ b.rows = a.rows /\ b.stage = a.stage /\ b.heardAt = a.heardAt /\ b.scope = a.scope /\ b.q = q
      /\ b.closing = a.closing /\ b.turn = turns
  BY <1>1, <1>3, <1>4 DEF SrvType, turns, Put
<1>6. \A u \in TurnID : /\ a.turn[u].pc \in Past => b.turn[u].pc \in Past
                        /\ a.turn[u].pc = "ended" => b.turn[u].pc = "ended"
                        /\ a.turn[u].cause # "none" => b.turn[u].cause # "none"
                        /\ b.turn[u].no = a.turn[u].no /\ b.turn[u].finalized = a.turn[u].finalized
                        /\ a.turn[u].pc \in Reporting => b.turn[u].pc \in Reporting /\ b.turn[u].segs = a.turn[u].segs
  BY <1>4, <1>5 DEF Step
<1>7. 1..(a.nextID - 1) \subseteq TurnID
  BY <1>1, Ranges DEF TurnID
<1>8. ScopeOK(b)
  <2>1. a.nextID > 1 => a.nextID - 1 \in TurnID
    BY <1>1, Ranges DEF TurnID
  <2> QED BY <1>5, <1>6, <2>1 DEF SrvOK, ScopeOK
<1>9. NumberOK(b)
  <2>1. a.cur # 0 => a.cur \in TurnID
    BY <1>1, Ranges DEF TurnID
  <2> QED BY <1>5, <1>6, <2>1 DEF SrvOK, NumberOK
<1>10. LastOK(b)
  BY <1>5 DEF SrvOK, LastOK
<1>11. QueueOK(b) /\ \A j \in 1..Len(b.q) : b.q[j].counts =>
                       (\E i \in 1..Len(a.q) : a.q[i] = b.q[j]) \/ a.turn[b.q[j].t].pc = "respond"
  <2>0. \A i \in 1..Len(a.q) :
           /\ a.q[i].scoped \/ a.q[i].counts \/ Ends(a.q[i]) => a.q[i].t \in 1..(a.nextID - 1)
           /\ a.q[i].counts => a.q[i].scoped
           /\ Ends(a.q[i]) => a.q[i].t # a.scope \/ a.turn[a.q[i].t].pc \in Past
    BY DEF SrvOK, QueueOK
  <2>1. CASE q = a.q
    BY <1>5, <1>6, <1>7, <2>0, <2>1 DEF SrvOK, QueueOK
  <2>2. CASE q # a.q
    <3>1. PICK f : TurnFrame(t, r, s, f) /\ q = Append(a.q, f)
      BY <2>2
    <3>2. f \in FrameType
      BY <3>1 DEF TurnFrame
    <3>3. /\ Len(b.q) = Len(a.q) + 1 /\ Len(a.q) \in Nat /\ b.q[Len(a.q) + 1] = f
          /\ \A i \in 1..Len(a.q) : b.q[i] = a.q[i]
          /\ \A i \in 1..Len(b.q) : i \in 1..Len(a.q) \/ i = Len(a.q) + 1
      BY <1>1, <1>5, <3>1, <3>2, AppendFrames
    <3>4. /\ f.scoped /\ f.t = t /\ (f.counts => r.pc = "respond" /\ ~Ends(f)) /\ (Ends(f) => b.turn[t].pc \in Past)
          /\ t \in 1..(a.nextID - 1)
      BY <1>1, <1>2, <1>4, <1>5, <3>1, Ranges DEF TurnFrame, TurnID
    <3>5. ASSUME NEW i \in 1..Len(b.q)
          PROVE  /\ b.q[i].scoped \/ b.q[i].counts \/ Ends(b.q[i]) => b.q[i].t \in 1..(b.nextID - 1)
                 /\ b.q[i].counts => b.q[i].scoped
                 /\ Ends(b.q[i]) => b.q[i].t # b.scope \/ b.turn[b.q[i].t].pc \in Past
      <4>1. CASE i \in 1..Len(a.q)
        BY <1>5, <1>6, <1>7, <2>0, <3>3, <4>1, SMTT(60)
      <4>2. CASE i = Len(a.q) + 1
        BY <1>5, <3>3, <3>4, <4>2
      <4> QED BY <3>3, <4>1, <4>2
    <3>6. ASSUME NEW i \in 1..Len(b.q), NEW j \in 1..Len(b.q), i < j, Ends(b.q[i]), b.q[j].counts, b.q[j].t = b.q[i].t
          PROVE  b.q[i].t # b.scope
      <4>1. i \in 1..Len(a.q)
        BY <3>3, <3>6
      <4>2. CASE j \in 1..Len(a.q)
        BY <1>5, <3>3, <3>6, <4>1, <4>2, ZenonT(60) DEF SrvOK, QueueOK
      <4>3. CASE j = Len(a.q) + 1
        <5>1. a.q[i].t = t /\ r.pc = "respond" /\ Ends(a.q[i])
          BY <3>3, <3>4, <3>6, <4>1, <4>3
        <5>2. a.q[i].t # a.scope
          BY <2>0, <4>1, <5>1 DEF Past
        <5> QED BY <1>5, <3>3, <4>1, <5>2
      <4> QED BY <3>3, <4>2, <4>3
    <3>7. \A j \in 1..Len(b.q) : b.q[j].counts =>
            (\E i \in 1..Len(a.q) : a.q[i] = b.q[j]) \/ a.turn[b.q[j].t].pc = "respond"
      BY <3>3, <3>4
    <3> QED BY <3>5, <3>6, <3>7 DEF QueueOK
  <2> QED BY <2>1, <2>2, SMTT(60)
<1>12. \A u \in TurnID : TurnOK(b, u)
  <2> SUFFICES ASSUME NEW u \in TurnID PROVE TurnOK(b, u)
    OBVIOUS
  <2>1. CASE u = t
    BY <1>2, <1>4, <1>5, <2>1, Ranges DEF TurnOK, Step, TurnID
  <2>2. CASE u # t
    BY <1>4, <1>5, <2>2 DEF SrvOK, TurnOK
  <2> QED BY <2>1, <2>2
<1>13. \A n \in TurnID : RowOK(b, n)
  <2> SUFFICES ASSUME NEW n \in TurnID PROVE RowOK(b, n)
    OBVIOUS
  <2>1. RowOK(a, n)
    BY DEF SrvOK
  <2>2. a.rows[n].status = "complete" => a.rows[n].id \in TurnID
    BY <1>1, <2>1, Ranges, SMTT(60) DEF RowOK, RowType, TurnID
  <2> QED BY <1>5, <1>6, <2>1, <2>2 DEF RowOK
<1>14. SrvOK(b)
  BY <1>5, <1>8, <1>9, <1>10, <1>11, <1>12, <1>13 DEF SrvOK
<1>15. \A u \in TurnID : Queues(a, b, u)
  <2> SUFFICES ASSUME NEW u \in TurnID PROVE Queues(a, b, u)
    OBVIOUS
  <2>1. Given(b.turn[u]) >= Given(a.turn[u])
    <3>1. Given(a.turn[u]) \in Int
      BY <1>1, GivenTypes
    <3> QED BY <1>4, <1>5, <3>1
  <2>2. CASE q = a.q
    BY <1>5, <2>1, <2>2 DEF Queues
  <2>3. ASSUME NEW f, TurnFrame(t, r, s, f), q = Append(a.q, f) PROVE Queues(a, b, u)
    <3>1. /\ Len(b.q) = Len(a.q) + 1 /\ Len(a.q) \in Nat /\ b.q[Len(a.q) + 1] = f
          /\ \A i \in 1..Len(a.q) : b.q[i] = a.q[i]
          /\ \A i \in 1..Len(b.q) : i \in 1..Len(a.q) \/ i = Len(a.q) + 1
      BY <1>1, <1>5, <2>3, AppendFrames DEF TurnFrame
    <3>2. CASE f.counts /\ u = t
      <4>1. Counted(b.q, u) = Counted(a.q, u) \cup {Len(a.q) + 1}
        BY <2>3, <3>1, <3>2, SMTT(60) DEF Counted, TurnFrame
      <4>2. Given(b.turn[u]) > Given(a.turn[u])
        BY <1>4, <1>5, <2>3, <3>2 DEF TurnFrame
      <4> QED BY <1>2, <3>2, <4>1, <4>2 DEF Queues
    <3>3. CASE ~(f.counts /\ u = t)
      <4>1. Counted(b.q, u) = Counted(a.q, u)
        BY <2>3, <3>1, <3>3 DEF Counted, TurnFrame
      <4> QED BY <2>1, <4>1 DEF Queues
    <3> QED BY <3>2, <3>3
  <2> QED BY <2>2, <2>3
<1>16. Len(b.q) <= OutCap \/ b.q = a.q
  <2> SUFFICES ASSUME NEW f, TurnFrame(t, r, s, f), q = Append(a.q, f), Len(a.q) < OutCap PROVE Len(b.q) <= OutCap
    BY <1>5
  <2>1. Len(b.q) = Len(a.q) + 1 /\ Len(a.q) \in Nat
    BY <1>1, <1>5, AppendFrames DEF TurnFrame
  <2> QED BY <2>1, SessionAssumption
<1>17. Onward(a, b)
  BY <1>1, <1>5, <1>6, <1>11, <1>15, <1>16 DEF Onward
<1> QED BY <1>4, <1>5, <1>14, <1>17

\* The step in the connection; the turn may report to the actor.
LEMMA TurnMoves ==
  ASSUME SessionInv, NEW t \in TurnID, NEW s, Step(srv.turn[t], s), Given(s) >= Given(srv.turn[t]),
         NEW q, \/ q = srv.q
                \/ \E f : TurnFrame(t, srv.turn[t], s, f) /\ q = Append(srv.q, f) /\ Len(srv.q) < OutCap,
         srv' = Put(srv, t, s, q),
         UNCHANGED <<inflight, written, cli, world>>,
         \/ events' = events
         \/ \E e \in EventType : e.k = "turndone" /\ e.t = t /\ events' = Append(events, e) /\ s.pc = "ended"
  PROVE  Moves
<1>1. SrvOK(srv) /\ WithinOK(srv, cli.played, written) /\ CountOK /\ events \in Seq(EventType)
  BY DEF SessionInv, Types
<1>2. /\ SrvOK(srv') /\ Onward(srv, srv')
      /\ srv'.stage = srv.stage /\ srv'.nextID = srv.nextID /\ srv'.cur = srv.cur /\ srv'.rows = srv.rows
      /\ srv'.heardAt = srv.heardAt /\ srv'.turn[t] = s
  BY <1>1, TurnStepOK
<1>3. WithinOK(srv', cli.played, written) /\ CountOK'
  BY <1>1, <1>2 DEF WithinOK, CountOK
<1>4. events' \in Seq(EventType)
  BY <1>1
<1>5. \A i \in 1..Len(events') : \/ \E j \in 1..Len(events) : events'[i] = events[j]
                                 \/ EventOK(events'[i], srv', cli.played)
  <2>1. CASE events' = events
    BY <2>1
  <2>2. ASSUME NEW e \in EventType, e.k = "turndone", e.t = t, events' = Append(events, e), s.pc = "ended"
        PROVE  \A i \in 1..Len(events') : \/ \E j \in 1..Len(events) : events'[i] = events[j]
                                          \/ EventOK(events'[i], srv', cli.played)
    <3>1. EventOK(e, srv', cli.played)
      BY <1>2, <2>2 DEF EventOK
    <3>2. \A i \in 1..Len(events') : events'[i] = e \/ (i \in 1..Len(events) /\ events'[i] = events[i])
      BY <1>1, <2>2
    <3> QED BY <3>1, <3>2
  <2> QED BY <2>1, <2>2
<1> QED BY <1>2, <1>3, <1>4, <1>5, Settled DEF Moves

Others == UNCHANGED <<events, inflight, written, conn, cli, world>>

LEMMA TurnFacts ==
  ASSUME SessionInv, NEW t \in TurnID
  PROVE  LET r == srv.turn[t] IN
         /\ srv \in SrvType /\ srv.turn \in [TurnID -> TurnType] /\ r \in TurnType
         /\ r.completed => r.pc \in Reporting
         /\ ~r.learner => r.segs = 0 /\ r.pc \notin {"transcript", "respond"}
         /\ r.sent <= r.segs /\ (r.emit \in {"speech", "mark"} => r.sent < r.segs)
         /\ r.segs \in 0..MaxSegs /\ r.sent \in 0..MaxSegs /\ r.sent \in Int /\ r.segs \in Int
<1>1. SrvOK(srv)
  BY DEF SessionInv
<1>2. srv \in SrvType /\ srv.turn \in [TurnID -> TurnType] /\ srv.turn[t] \in TurnType
  BY <1>1 DEF SrvOK, SrvType
<1>3. srv.turn[t].segs \in 0..MaxSegs /\ srv.turn[t].sent \in 0..MaxSegs
  BY <1>2 DEF TurnType
<1> QED BY <1>1, <1>2, <1>3, Ranges DEF SrvOK, TurnOK

LEMMA GoOn ==
  ASSUME SessionInv, NEW t \in TurnID, NEW s, Step(srv.turn[t], s), Given(s) >= Given(srv.turn[t]),
         srv' = Put(srv, t, s, srv.q), Others
  PROVE  Moves
BY TurnMoves DEF Others

LEMMA SendMoves ==
  ASSUME SessionInv, NEW t \in TurnID, NEW s, NEW u, Step(srv.turn[t], s), Step(srv.turn[t], u),
         Given(s) >= Given(srv.turn[t]), Given(u) >= Given(srv.turn[t]),
         NEW f, TurnFrame(t, srv.turn[t], s, f),
         NEW a, a = Put(srv, t, s, srv.q), NEW b, b = Put(srv, t, u, srv.q),
         Send(t, f, a, b), Others
  PROVE  Moves
<1>1. [a EXCEPT !.q = Append(@, f)] = Put(srv, t, s, Append(srv.q, f))
  BY TurnFacts DEF Put, SrvType
<1>2. CASE Len(srv.q) < OutCap /\ srv' = [a EXCEPT !.q = Append(@, f)]
  BY <1>1, <1>2, TurnMoves DEF Others
<1>3. CASE srv' = b
  BY <1>3, GoOn
<1> QED BY <1>2, <1>3 DEF Send, OutboxSend

LEMMA ScopedFrames ==
  ASSUME NEW t \in TurnID, NEW r, NEW s, NEW k \in {"note", "complete", "failed"}, k = "note" \/ s.pc \in Past
  PROVE  TurnFrame(t, r, s, Scoped(k, t))
BY DEF TurnFrame, Scoped, Frame, FrameType, FrameKinds, EndKinds, Ends, TurnID

LEMMA SegmentFrames ==
  ASSUME NEW t \in TurnID, NEW r, NEW s, r.pc = "respond", NEW k \in {"caption", "speech"}, NEW counts \in BOOLEAN,
         counts => Given(s) > Given(r)
  PROVE  TurnFrame(t, r, s, Frame(k, t, TRUE, counts))
BY DEF TurnFrame, Frame, FrameType, FrameKinds, EndKinds, Ends, TurnID

LEMMA RecognizeOK == ASSUME SessionInv, NEW t \in TurnID, Recognize(t), Others PROVE Moves
<1> DEFINE r == srv.turn[t]
           s1 == [[r EXCEPT !.status = "failed"] EXCEPT !.pc = "exit"]
           s2 == [[r EXCEPT !.status = "failed"] EXCEPT !.pc = "note"]
           s3 == [r EXCEPT !.pc = "note"]
           s4 == [r EXCEPT !.learner = TRUE, !.pc = "transcript"]
<1>1. r.pc = "recognize"
  BY DEF Recognize
<1>2. /\ srv \in SrvType /\ srv.turn \in [TurnID -> TurnType] /\ r \in TurnType
      /\ r.completed => r.pc \in Reporting
      /\ ~r.learner => r.segs = 0 /\ r.pc \notin {"transcript", "respond"}
      /\ r.sent <= r.segs /\ (r.emit \in {"speech", "mark"} => r.sent < r.segs)
  BY TurnFacts
<1>3. Step(r, s1) /\ Step(r, s2) /\ Step(r, s3) /\ Step(r, s4)
  <2>1. Step(r, s1)
    BY <1>1, <1>2, ZenonT(60) DEF Step, TurnType, Past, Reporting
  <2>2. Step(r, s2)
    BY <1>1, <1>2, ZenonT(60) DEF Step, TurnType, Past, Reporting
  <2>3. Step(r, s3) /\ Step(r, s4)
    BY <1>1, <1>2, ZenonT(60) DEF Step, TurnType, Past, Reporting
  <2> QED BY <2>1, <2>2, <2>3
<1>4. \/ srv' = Put(srv, t, s1, srv.q) \/ srv' = Put(srv, t, s2, srv.q)
      \/ srv' = Put(srv, t, s3, srv.q) \/ srv' = Put(srv, t, s4, srv.q)
  <2>1. \A s : [srv EXCEPT !.turn[t] = s] = Put(srv, t, s, srv.q)
    BY <1>2 DEF Put, SrvType
  <2>2. [srv EXCEPT !.turn[t].pc = "note"] = Put(srv, t, s3, srv.q)
    BY <1>2 DEF Put, SrvType
  <2>3. [srv EXCEPT !.turn[t].learner = TRUE, !.turn[t].pc = "transcript"] = Put(srv, t, s4, srv.q)
    BY <1>2 DEF Put, SrvType
  <2>4. \/ srv' = [srv EXCEPT !.turn[t] = s1] \/ srv' = [srv EXCEPT !.turn[t] = s2]
        \/ srv' = [srv EXCEPT !.turn[t].pc = "note"]
        \/ srv' = [srv EXCEPT !.turn[t].learner = TRUE, !.turn[t].pc = "transcript"]
    BY DEF Recognize, Goto
  <2> HIDE DEF s1, s2, s3, s4
  <2> QED BY <2>1, <2>2, <2>3, <2>4
<1>5. Given(s1) >= Given(r) /\ Given(s2) >= Given(r) /\ Given(s3) >= Given(r) /\ Given(s4) >= Given(r)
  BY <1>1, <1>2, GivenGrows DEF TurnType, Open
<1> HIDE DEF r, s1, s2, s3, s4
<1> QED BY <1>3, <1>4, <1>5, GoOn DEF r

LEMMA RecognizedOK == ASSUME SessionInv, NEW t \in TurnID, Recognized(t), Others PROVE Moves
<1> DEFINE r == srv.turn[t]
           s == [r EXCEPT !.learner = TRUE, !.pc = "transcript"]
<1>1. r.pc = "recognized"
  BY DEF Recognized
<1>2. /\ srv \in SrvType /\ srv.turn \in [TurnID -> TurnType] /\ r \in TurnType
      /\ r.completed => r.pc \in Reporting
      /\ r.sent <= r.segs /\ (r.emit \in {"speech", "mark"} => r.sent < r.segs)
  BY TurnFacts
<1>3. Step(r, s)
  BY <1>1, <1>2 DEF Step, TurnType, Past, Reporting
<1>4. srv' = Put(srv, t, s, srv.q)
  BY <1>2 DEF Recognized, Put, SrvType
<1>5. Given(s) >= Given(r)
  BY <1>1, <1>2, GivenGrows DEF TurnType, Open
<1> HIDE DEF r, s
<1> QED BY <1>3, <1>4, <1>5, GoOn DEF r

LEMMA SendTranscriptOK == ASSUME SessionInv, NEW t \in TurnID, SendTranscript(t), Others PROVE Moves
<1> DEFINE r == srv.turn[t]
           s == [r EXCEPT !.pc = "respond"]
           u == [r EXCEPT !.pc = "exit", !.status = "failed"]
           a == [srv EXCEPT !.turn[t].pc = "respond"]
           b == [srv EXCEPT !.turn[t].pc = "exit", !.turn[t].status = "failed"]
<1>1. r.pc = "transcript" /\ Send(t, Scoped("note", t), a, b)
  BY DEF SendTranscript
<1>2. /\ srv \in SrvType /\ srv.turn \in [TurnID -> TurnType] /\ r \in TurnType
      /\ r.completed => r.pc \in Reporting
      /\ ~r.learner => r.segs = 0 /\ r.pc \notin {"transcript", "respond"}
      /\ r.sent <= r.segs /\ (r.emit \in {"speech", "mark"} => r.sent < r.segs)
  BY TurnFacts
<1>3. Step(r, s) /\ Step(r, u)
  BY <1>1, <1>2, ZenonT(60) DEF Step, TurnType, Past, Reporting
<1>4. a = Put(srv, t, s, srv.q) /\ b = Put(srv, t, u, srv.q)
  BY <1>2, ZenonT(60) DEF Put, SrvType
<1>5. TurnFrame(t, r, s, Scoped("note", t))
  BY ScopedFrames
<1>6. Given(s) >= Given(r) /\ Given(u) >= Given(r)
  BY <1>1, <1>2, GivenGrows DEF TurnType, Open
<1> HIDE DEF r, s, u, a, b
<1> QED BY <1>1, <1>3, <1>4, <1>5, <1>6, SendMoves DEF r

LEMMA ProduceOK == ASSUME SessionInv, NEW t \in TurnID, AddSegment(t) \/ EndStream(t), Others PROVE Moves
<1> DEFINE r == srv.turn[t]
<1>1. r.pc = "respond"
  BY DEF AddSegment, EndStream
<1>2. /\ srv \in SrvType /\ srv.turn \in [TurnID -> TurnType] /\ r \in TurnType
      /\ r.completed => r.pc \in Reporting
      /\ ~r.learner => r.segs = 0 /\ r.pc \notin {"transcript", "respond"}
      /\ r.sent <= r.segs /\ (r.emit \in {"speech", "mark"} => r.sent < r.segs)
      /\ r.segs \in Int /\ r.sent \in Int /\ r.segs \in 0..MaxSegs
  BY TurnFacts
<1>3. CASE AddSegment(t)
  <2> DEFINE s == [r EXCEPT !.segs = r.segs + 1]
  <2>1. r.segs + 1 \in 0..MaxSegs
    <3>1. world.segs \in 0..MaxSegs /\ r.segs < world.segs
      BY <1>3, SessionAssumption DEF AddSegment, SessionInv, Types
    <3> QED BY <1>2, <3>1, Ranges
  <2>2. s \in TurnType /\ s.pc = "respond" /\ s.learner = r.learner /\ s.segs = r.segs + 1 /\ s.sent = r.sent /\ s.emit = r.emit
        /\ s.no = r.no /\ s.finalized = r.finalized /\ s.cause = r.cause /\ s.completed = r.completed
    BY <1>1, <1>2, <2>1 DEF TurnType
  <2>3. srv' = Put(srv, t, s, srv.q)
    BY <1>2, <1>3 DEF AddSegment, Put, SrvType
  <2> HIDE DEF s
  <2>4. Step(r, s)
    BY <1>1, <1>2, <2>2 DEF Step, Past, Reporting
  <2>5. Given(s) >= Given(r)
    <3>1. Given(s) = Given(r) /\ Given(r) \in Int
      BY <1>1, <1>2, <2>2, GivenTypes DEF Given, Open
    <3> QED BY <3>1
  <2> HIDE DEF r
  <2> QED BY <2>3, <2>4, <2>5, GoOn DEF r
<1>4. ASSUME NEW p \in {"ok", "failed", "redirect"}, srv' = [srv EXCEPT !.turn[t].prod = p]
      PROVE  Moves
  <2> DEFINE s == [r EXCEPT !.prod = p]
  <2>1. Step(r, s)
    BY <1>1, <1>2 DEF Step, TurnType, Past, Reporting
  <2>2. srv' = Put(srv, t, s, srv.q)
    BY <1>2, <1>4 DEF Put, SrvType
  <2>3. Given(s) >= Given(r)
    BY <1>1, <1>2, GivenGrows DEF TurnType, Open
  <2> HIDE DEF r, s
  <2> QED BY <2>1, <2>2, <2>3, GoOn DEF r
<1> QED BY <1>3, <1>4 DEF EndStream

LEMMA EmitOK ==
  ASSUME SessionInv, NEW t \in TurnID, EmitCaption(t) \/ EmitSpeech(t) \/ MarkAudio(t) \/ EndEmit(t), Others
  PROVE  Moves
<1> DEFINE r == srv.turn[t]
           over == [r EXCEPT !.emit = "over"]
           spoken == [r EXCEPT !.emit = "speech"]
           mark == [r EXCEPT !.emit = "mark"]
           next == [r EXCEPT !.sent = r.sent + 1]
           marked == [r EXCEPT !.audio = TRUE, !.sent = r.sent + 1, !.emit = "caption"]
<1>1. r.pc = "respond"
  BY DEF EmitCaption, EmitSpeech, MarkAudio, EndEmit, Emitting
<1>2. /\ srv \in SrvType /\ srv.turn \in [TurnID -> TurnType] /\ r \in TurnType
      /\ r.completed => r.pc \in Reporting
      /\ ~r.learner => r.segs = 0 /\ r.pc \notin {"transcript", "respond"}
      /\ r.sent <= r.segs /\ (r.emit \in {"speech", "mark"} => r.sent < r.segs)
      /\ r.segs \in Int /\ r.sent \in Int /\ r.segs \in 0..MaxSegs /\ r.sent \in 0..MaxSegs
  BY TurnFacts
<1>3. Step(r, over)
  BY <1>1, <1>2 DEF Step, TurnType, Past, Reporting
<1>4. ASSUME r.sent < r.segs
      PROVE  Step(r, spoken) /\ Step(r, mark) /\ Step(r, marked) /\ (r.emit = "caption" => Step(r, next))
  <2>1. r.sent + 1 \in 0..MaxSegs /\ r.sent + 1 <= r.segs
    BY <1>2, <1>4, Ranges
  <2>2. Step(r, spoken) /\ Step(r, mark)
    BY <1>1, <1>2, <1>4 DEF Step, TurnType, Past, Reporting
  <2>3. Step(r, marked)
    BY <1>1, <1>2, <2>1, ZenonT(60) DEF Step, TurnType, Past, Reporting
  <2>4. r.emit = "caption" => Step(r, next)
    BY <1>1, <1>2, <2>1 DEF Step, TurnType, Past, Reporting
  <2> QED BY <2>2, <2>3, <2>4
<1>5. /\ [srv EXCEPT !.turn[t].emit = "over"] = Put(srv, t, over, srv.q)
      /\ [srv EXCEPT !.turn[t].emit = "speech"] = Put(srv, t, spoken, srv.q)
      /\ [srv EXCEPT !.turn[t].emit = "mark"] = Put(srv, t, mark, srv.q)
      /\ [srv EXCEPT !.turn[t].sent = @ + 1] = Put(srv, t, next, srv.q)
      /\ [srv EXCEPT !.turn[t].audio = TRUE, !.turn[t].sent = @ + 1, !.turn[t].emit = "caption"] = Put(srv, t, marked, srv.q)
  BY <1>2, ZenonT(60) DEF Put, SrvType
<1>10. /\ r.emit # "mark" => Given(over) >= Given(r)
       /\ r.emit = "caption" => Given(spoken) >= Given(r) /\ Given(next) > Given(r) /\ Given(next) >= Given(r)
       /\ r.emit = "speech" => Given(mark) > Given(r) /\ Given(mark) >= Given(r)
       /\ r.emit = "mark" => Given(marked) >= Given(r)
  <2>1. r.emit # "mark" => Given(r) = r.sent
    BY <1>1, <1>2 DEF Given, Open
  <2>2. r.emit = "mark" => Given(r) = r.sent + 1
    BY <1>1, <1>2 DEF Given, Open
  <2>3. /\ over.pc = r.pc /\ over.sent = r.sent /\ over.segs = r.segs /\ over.emit = "over"
        /\ spoken.pc = r.pc /\ spoken.sent = r.sent /\ spoken.segs = r.segs /\ spoken.emit = "speech"
        /\ mark.pc = r.pc /\ mark.sent = r.sent /\ mark.segs = r.segs /\ mark.emit = "mark"
        /\ next.pc = r.pc /\ next.sent = r.sent + 1 /\ next.segs = r.segs /\ next.emit = r.emit
        /\ marked.pc = r.pc /\ marked.sent = r.sent + 1 /\ marked.segs = r.segs /\ marked.emit = "caption"
    BY <1>2 DEF TurnType
  <2>4. /\ Given(spoken) = r.sent /\ Given(mark) = r.sent + 1 /\ Given(over) = r.sent
        /\ Given(marked) = r.sent + 1 /\ (r.emit = "caption" => Given(next) = r.sent + 1)
    BY <1>1, <1>2, <2>3 DEF Given, Open
  <2> QED BY <1>2, <2>1, <2>2, <2>4
<1>6. CASE EmitCaption(t)
  <2>1. r.emit = "caption" /\ r.sent < r.segs
    BY <1>6 DEF EmitCaption, Emitting
  <2>2. PICK noAudio \in BOOLEAN :
          Send(t, Frame("caption", t, TRUE, noAudio),
               IF noAudio THEN [srv EXCEPT !.turn[t].sent = @ + 1] ELSE [srv EXCEPT !.turn[t].emit = "speech"],
               [srv EXCEPT !.turn[t].emit = "over"])
    BY <1>6 DEF EmitCaption, NoAudio
  <2> DEFINE s == IF noAudio THEN next ELSE spoken
             a == IF noAudio THEN [srv EXCEPT !.turn[t].sent = @ + 1] ELSE [srv EXCEPT !.turn[t].emit = "speech"]
             b == [srv EXCEPT !.turn[t].emit = "over"]
  <2>3. Step(r, s)
    BY <1>4, <2>1
  <2>4. a = Put(srv, t, s, srv.q) /\ b = Put(srv, t, over, srv.q)
    BY <1>5
  <2>5. TurnFrame(t, r, s, Frame("caption", t, TRUE, noAudio)) /\ Given(s) >= Given(r) /\ Given(over) >= Given(r)
    BY <1>1, <1>10, <2>1, SegmentFrames
  <2>6. Send(t, Frame("caption", t, TRUE, noAudio), a, b)
    BY <2>2
  <2> HIDE DEF r, s, a, b, over
  <2> QED BY <1>3, <2>3, <2>4, <2>5, <2>6, SendMoves DEF r
<1>7. CASE EmitSpeech(t)
  <2> DEFINE a == [srv EXCEPT !.turn[t].emit = "mark"]
             b == [srv EXCEPT !.turn[t].emit = "over"]
  <2>1. r.emit = "speech" /\ r.sent < r.segs /\ Send(t, Frame("speech", t, TRUE, TRUE), a, b)
    BY <1>2, <1>7 DEF EmitSpeech, Emitting
  <2>2. TurnFrame(t, r, mark, Frame("speech", t, TRUE, TRUE)) /\ Given(mark) >= Given(r) /\ Given(over) >= Given(r)
    BY <1>1, <1>10, <2>1, SegmentFrames
  <2>3. a = Put(srv, t, mark, srv.q) /\ b = Put(srv, t, over, srv.q) /\ Step(r, mark)
    BY <1>4, <1>5, <2>1
  <2> HIDE DEF r, a, b, over, mark
  <2> QED BY <1>3, <2>1, <2>2, <2>3, SendMoves DEF r
<1>8. CASE MarkAudio(t)
  <2>1. r.sent < r.segs /\ srv' = Put(srv, t, marked, srv.q)
    BY <1>2, <1>5, <1>8 DEF MarkAudio, Emitting
  <2>2. Step(r, marked) /\ Given(marked) >= Given(r)
    BY <1>4, <1>8, <1>10, <2>1 DEF MarkAudio, Emitting
  <2> HIDE DEF r, marked
  <2> QED BY <2>1, <2>2, GoOn DEF r
<1>9. CASE EndEmit(t)
  <2>1. srv' = Put(srv, t, over, srv.q) /\ Given(over) >= Given(r)
    BY <1>5, <1>9, <1>10 DEF EndEmit, Emitting
  <2> HIDE DEF r, over
  <2> QED BY <1>3, <2>1, GoOn DEF r
<1> QED BY <1>6, <1>7, <1>8, <1>9

LEMMA EndRespondOK == ASSUME SessionInv, NEW t \in TurnID, EndRespond(t), Others PROVE Moves
<1> DEFINE r == srv.turn[t]
           s1 == [[r EXCEPT !.status = "failed"] EXCEPT !.pc = "exit"]
           s2 == [[r EXCEPT !.status = "failed"] EXCEPT !.pc = "note"]
           s3 == [r EXCEPT !.pc = "note"]
           s4 == [r EXCEPT !.pc = "exit"]
<1>1. r.pc = "respond"
  BY DEF EndRespond, Emitting
<1>2. /\ srv \in SrvType /\ srv.turn \in [TurnID -> TurnType] /\ r \in TurnType
      /\ r.completed => r.pc \in Reporting
      /\ ~r.learner => r.segs = 0 /\ r.pc \notin {"transcript", "respond"}
      /\ r.sent <= r.segs /\ (r.emit \in {"speech", "mark"} => r.sent < r.segs)
  BY TurnFacts
<1>3. Step(r, s1) /\ Step(r, s2) /\ Step(r, s3) /\ Step(r, s4)
  <2>1. Step(r, s1)
    BY <1>1, <1>2, ZenonT(60) DEF Step, TurnType, Past, Reporting
  <2>2. Step(r, s2)
    BY <1>1, <1>2, ZenonT(60) DEF Step, TurnType, Past, Reporting
  <2>3. Step(r, s3) /\ Step(r, s4)
    BY <1>1, <1>2 DEF Step, TurnType, Past, Reporting
  <2> QED BY <2>1, <2>2, <2>3
<1>4. \A s : [srv EXCEPT !.turn[t] = s] = Put(srv, t, s, srv.q)
  BY <1>2 DEF Put, SrvType
<1>5. \/ srv' = [srv EXCEPT !.turn[t] = s1] \/ srv' = [srv EXCEPT !.turn[t] = s2]
      \/ srv' = [srv EXCEPT !.turn[t] = s3] \/ srv' = [srv EXCEPT !.turn[t] = s4]
  BY DEF EndRespond
<1>6. Given(s1) >= Given(r) /\ Given(s2) >= Given(r) /\ Given(s3) >= Given(r) /\ Given(s4) >= Given(r)
  BY <1>1, <1>2, GivenGrows DEF TurnType, Open
<1> HIDE DEF r, s1, s2, s3, s4
<1> QED BY <1>3, <1>4, <1>5, <1>6, GoOn DEF r

LEMMA SendNoteOK == ASSUME SessionInv, NEW t \in TurnID, SendNote(t), Others PROVE Moves
<1> DEFINE r == srv.turn[t]
           s == [r EXCEPT !.pc = IF r.pc = "note" THEN "exit" ELSE "done"]
           a == [srv EXCEPT !.turn[t].pc = IF @ = "note" THEN "exit" ELSE "done"]
<1>1. r.pc \in {"note", "latenote"} /\ Send(t, Scoped("note", t), a, a)
  BY DEF SendNote
<1>2. /\ srv \in SrvType /\ srv.turn \in [TurnID -> TurnType] /\ r \in TurnType
      /\ r.completed => r.pc \in Reporting
      /\ ~r.learner => r.segs = 0 /\ r.pc \notin {"transcript", "respond"}
      /\ r.sent <= r.segs /\ (r.emit \in {"speech", "mark"} => r.sent < r.segs)
  BY TurnFacts
<1>3. Step(r, s)
  BY <1>1, <1>2 DEF Step, TurnType, Past, Reporting
<1>4. a = Put(srv, t, s, srv.q)
  BY <1>2 DEF Put, SrvType
<1>5. TurnFrame(t, r, s, Scoped("note", t))
  BY ScopedFrames
<1>6. Given(s) >= Given(r)
  BY <1>1, <1>2, GivenGrows DEF TurnType, Open
<1> HIDE DEF r, s, a
<1> QED BY <1>1, <1>3, <1>4, <1>5, <1>6, SendMoves DEF r

\* tutor.done is the turn's last frame.
LEMMA SendDoneOK == ASSUME SessionInv, NEW t \in TurnID, SendDone(t), Others PROVE Moves
<1> DEFINE r == srv.turn[t]
           s == [r EXCEPT !.pc = "flag"]
           a == [srv EXCEPT !.turn[t].pc = "flag"]
<1>1. r.pc = "done" /\ Send(t, Scoped(r.status, t), a, a)
  BY DEF SendDone
<1>2. /\ srv \in SrvType /\ srv.turn \in [TurnID -> TurnType] /\ r \in TurnType
      /\ r.completed => r.pc \in Reporting
      /\ ~r.learner => r.segs = 0 /\ r.pc \notin {"transcript", "respond"}
      /\ r.sent <= r.segs /\ (r.emit \in {"speech", "mark"} => r.sent < r.segs)
  BY TurnFacts
<1>3. Step(r, s) /\ s.pc \in Past /\ r.status \in {"complete", "failed"}
  BY <1>1, <1>2 DEF Step, TurnType, Past, Reporting
<1>4. a = Put(srv, t, s, srv.q)
  BY <1>2 DEF Put, SrvType
<1>5. TurnFrame(t, r, s, Scoped(r.status, t))
  <2> DEFINE k == r.status
  <2>1. k \in {"note", "complete", "failed"}
    BY <1>3
  <2> HIDE DEF k, r, s
  <2>2. TurnFrame(t, r, s, Scoped(k, t))
    BY <1>3, <2>1, ScopedFrames
  <2> QED BY <2>2 DEF k
<1>6. Given(s) >= Given(r)
  BY <1>1, <1>2, GivenGrows DEF TurnType, Open
<1> HIDE DEF r, s, a
<1> QED BY <1>1, <1>3, <1>4, <1>5, <1>6, SendMoves DEF r

LEMMA ExitOK == ASSUME SessionInv, NEW t \in TurnID, Exit(t) \/ Flag(t), Others PROVE Moves
<1> DEFINE r == srv.turn[t]
           s1 == [r EXCEPT !.pc = "post"]
           s2 == [r EXCEPT !.status = "failed", !.pc = "latenote"]
           s3 == [r EXCEPT !.pc = "done"]
           s4 == [r EXCEPT !.completed = (r.status = "complete"), !.pc = "post"]
<1>1. r.pc \in {"exit", "flag"} /\ (Exit(t) => r.pc = "exit")
  BY DEF Exit, Flag
<1>2. /\ srv \in SrvType /\ srv.turn \in [TurnID -> TurnType] /\ r \in TurnType
      /\ r.completed => r.pc \in Reporting
      /\ ~r.learner => r.segs = 0 /\ r.pc \notin {"transcript", "respond"}
      /\ r.sent <= r.segs /\ (r.emit \in {"speech", "mark"} => r.sent < r.segs)
  BY TurnFacts
<1>3. Step(r, s1) /\ Step(r, s4) /\ (r.pc = "exit" => Step(r, s2) /\ Step(r, s3))
  <2>1. Step(r, s1)
    BY <1>1, <1>2 DEF Step, TurnType, Past, Reporting
  <2>2. Step(r, s4)
    <3>1. (r.status = "complete") \in BOOLEAN
      OBVIOUS
    <3> QED BY <1>1, <1>2, <3>1, ZenonT(60) DEF Step, TurnType, Past, Reporting
  <2>3. r.pc = "exit" => Step(r, s2)
    BY <1>2 DEF Step, TurnType, Past, Reporting
  <2>4. r.pc = "exit" => Step(r, s3)
    BY <1>2 DEF Step, TurnType, Past, Reporting
  <2> QED BY <2>1, <2>2, <2>3, <2>4
<1>6. Given(s1) >= Given(r) /\ Given(s2) >= Given(r) /\ Given(s3) >= Given(r) /\ Given(s4) >= Given(r)
  <2>1. (r.status = "complete") \in BOOLEAN
    OBVIOUS
  <2> QED BY <1>1, <1>2, <2>1, GivenGrows DEF TurnType, Open
<1>4. CASE Exit(t)
  <2>1. r.cause \in {"none", "actor", "deadline"}
    BY <1>2 DEF TurnType
  <2>2. /\ [srv EXCEPT !.turn[t].pc = "post"] = Put(srv, t, s1, srv.q)
        /\ [srv EXCEPT !.turn[t].status = "failed", !.turn[t].pc = "latenote"] = Put(srv, t, s2, srv.q)
        /\ [srv EXCEPT !.turn[t].pc = "done"] = Put(srv, t, s3, srv.q)
    BY <1>2, ZenonT(60) DEF Put, SrvType
  <2>3. \/ srv' = Put(srv, t, s1, srv.q) \/ srv' = Put(srv, t, s2, srv.q) \/ srv' = Put(srv, t, s3, srv.q)
    BY <1>4, <2>1, <2>2 DEF Exit, Goto
  <2> HIDE DEF r, s1, s2, s3
  <2> QED BY <1>1, <1>3, <1>4, <1>6, <2>3, GoOn DEF r
<1>5. CASE Flag(t)
  <2>1. srv' = Put(srv, t, s4, srv.q)
    BY <1>2, <1>5, ZenonT(60) DEF Flag, Put, SrvType
  <2> HIDE DEF r, s4
  <2> QED BY <1>3, <1>6, <2>1, GoOn DEF r
<1> QED BY <1>4, <1>5

LEMMA ReportOK == ASSUME SessionInv, NEW t \in TurnID, Report(t) PROVE Moves
<1> DEFINE r == srv.turn[t]
           s == [r EXCEPT !.pc = "ended", !.prod = "open", !.emit = "caption", !.sent = 0]
           e == [Event("turndone") EXCEPT !.t = t, !.status = r.status]
<1>1. r.pc = "post" /\ UNCHANGED <<inflight, written, cli, world>>
  BY DEF Report
<1>2. /\ srv \in SrvType /\ srv.turn \in [TurnID -> TurnType] /\ r \in TurnType
      /\ ~r.learner => r.segs = 0
      /\ r.segs \in 0..MaxSegs /\ r.segs \in Int
  BY TurnFacts
<1>3. Step(r, s) /\ s.pc = "ended"
  <2>1. 0 \in 0..MaxSegs /\ 0 <= r.segs
    BY <1>2, Ranges
  <2> QED BY <1>1, <1>2, <2>1, ZenonT(60) DEF Step, TurnType, Past, Reporting
<1>4. e \in EventType /\ e.k = "turndone" /\ e.t = t
  <2>1. Event("turndone") \in EventType /\ Event("turndone").k = "turndone"
    BY Ranges DEF Event, EventType, EventKinds
  <2>2. t \in 0..MaxTurns /\ r.status \in {"none", "complete", "failed"}
    BY <1>2, Ranges DEF TurnID, TurnType
  <2> QED BY <2>1, <2>2 DEF EventType
<1>5. srv' = Put(srv, t, s, srv.q)
  BY <1>2 DEF Report, Put, SrvType
<1>6. events' = events \/ events' = Append(events, e)
  BY DEF Report
<1>7. Given(s) >= Given(r)
  <2>1. Given(s) = r.segs /\ Given(r) = r.segs
    BY <1>1, <1>2 DEF Given, Open, TurnType
  <2> QED BY <1>2, <2>1
<1> HIDE DEF r, s, e
<1> QED BY <1>1, <1>3, <1>4, <1>5, <1>6, <1>7, TurnMoves DEF r

LEMMA DeadlineOK == ASSUME SessionInv, NEW t \in TurnID, Deadline(t) PROVE Moves
<1> DEFINE r == srv.turn[t]
           s == [r EXCEPT !.cause = "deadline"]
<1>1. r.pc \notin {"unborn", "ended"} /\ Others
  BY DEF Deadline, Alive, Others
<1>2. /\ srv \in SrvType /\ srv.turn \in [TurnID -> TurnType] /\ r \in TurnType
      /\ r.completed => r.pc \in Reporting
      /\ ~r.learner => r.segs = 0 /\ r.pc \notin {"transcript", "respond"}
      /\ r.sent <= r.segs /\ (r.emit \in {"speech", "mark"} => r.sent < r.segs)
  BY TurnFacts
<1>3. Step(r, s)
  BY <1>1, <1>2 DEF Step, TurnType
<1>4. srv' = Put(srv, t, s, srv.q)
  BY <1>2 DEF Deadline, Put, SrvType
<1>5. Given(s) >= Given(r)
  BY <1>1, <1>2, GivenGrows DEF TurnType, Open
<1> HIDE DEF r, s
<1> QED BY <1>1, <1>3, <1>4, <1>5, GoOn DEF r

LEMMA TurnOfNextOK ==
  ASSUME SessionInv, NEW t \in TurnID, Service(t) \/ OwnStep(t) \/ Report(t) \/ Deadline(t)
  PROVE  Moves
<1>1. CASE Service(t)
  <2>1. Others /\ (Recognize(t) \/ AddSegment(t) \/ EndStream(t))
    BY <1>1 DEF Service, Others
  <2> QED BY <2>1, RecognizeOK, ProduceOK
<1>2. CASE OwnStep(t)
  <2>1. /\ Others
        /\ \/ Recognized(t) \/ SendTranscript(t)
           \/ EmitCaption(t) \/ EmitSpeech(t) \/ MarkAudio(t) \/ EndEmit(t) \/ EndRespond(t)
           \/ SendNote(t) \/ Exit(t) \/ SendDone(t) \/ Flag(t)
    BY <1>2 DEF OwnStep, Others
  <2> QED BY <2>1, RecognizedOK, SendTranscriptOK, EmitOK, EndRespondOK, SendNoteOK, ExitOK, SendDoneOK
<1> QED BY <1>1, <1>2, ReportOK, DeadlineOK

-----------------------------------------------------------------------------
(* The outbox's writer *)

LEMMA NatMin == ASSUME NEW T, T \subseteq Nat, T # {} PROVE \E x \in T : \A y \in T : x <= y
<1> DEFINE R == OpToRel(<, Nat)
<1>1. \A x, y \in Nat : <<y, x>> \in R <=> y < x
  BY DEF OpToRel
<1>2. IsWellFoundedOn(R, Nat)
  BY NatLessThanWellFounded
<1> HIDE DEF R
<1>3. \E x \in T : \A y \in T : ~(<<y, x>> \in R)
  BY <1>2, WFMin
<1>4. PICK x \in T : \A y \in T : ~(<<y, x>> \in R)
  BY <1>3
<1>5. ASSUME NEW y \in T PROVE x <= y
  <2>1. x \in Nat /\ y \in Nat
    OBVIOUS
  <2>2. ~(y < x)
    BY <1>1, <1>4, <2>1
  <2> QED BY <2>1, <2>2
<1> QED BY <1>5

\* Counting a segment of turn t forgets at most an older turn.
LEMMA CountWrittenOK ==
  ASSUME written \in [TurnID -> Nat], NEW t \in TurnID, NEW latest \in TurnID, t <= latest,
         \A u \in TurnID : written[u] > 0 => u <= latest
  PROVE  /\ CountWritten(t) \in [TurnID -> Nat]
         /\ \A u \in TurnID : CountWritten(t)[u] > 0 => u <= latest
         /\ CountWritten(t)[latest] >= written[latest]
         /\ \A u \in TurnID : CountWritten(t)[u] > written[u] => u = t
         /\ \A u \in TurnID : CountWritten(t)[u] <= IF u = t THEN written[u] + 1 ELSE written[u]
<1> DEFINE counts == [written EXCEPT ![t] = @ + 1]
           known == {u \in TurnID : counts[u] > 0}
           least == CHOOSE u \in known : \A v \in known : u <= v
<1>1. /\ counts \in [TurnID -> Nat] /\ counts[t] = written[t] + 1
      /\ \A u \in TurnID : u # t => counts[u] = written[u]
  OBVIOUS
<1>2. known \subseteq TurnID /\ TurnID \subseteq Nat /\ t \in known /\ \A u \in known : u <= latest
  BY <1>1, Ranges
<1>3. IsFiniteSet(known)
  <2>1. IsFiniteSet(TurnID)
    BY FS_Interval, Ranges DEF TurnID
  <2> HIDE DEF known
  <2> QED BY <1>2, <2>1, FS_Subset
<1> HIDE DEF counts, known
<1>4. CASE ~(Cardinality(known) > HeardWindow)
  <2>1. CountWritten(t) = counts
    BY <1>4 DEF CountWritten, counts, known
  <2> QED BY <1>1, <1>2, <2>1 DEF known
<1>5. CASE Cardinality(known) > HeardWindow
  <2>1. CountWritten(t) = [counts EXCEPT ![least] = 0]
    BY <1>5 DEF CountWritten, counts, known
  <2>2. least \in known /\ \A v \in known : least <= v
    <3>1. known \subseteq Nat /\ known # {}
      BY <1>2
    <3>2. \E u \in known : \A v \in known : u <= v
      BY <3>1, NatMin
    <3> QED BY <3>2
  <2> HIDE DEF least
  <2>3. \E v \in known : v # least
    <3>1. known # {least}
      <4>1. Cardinality({least}) = 1
        BY FS_Singleton
      <4>2. Cardinality(known) > 1
        <5>1. Cardinality(known) \in Nat /\ HeardWindow \in Nat /\ HeardWindow > 0
          BY <1>3, FS_CardinalityType, SessionAssumption
        <5> QED BY <1>5, <5>1
      <4> QED BY <4>1, <4>2
    <3> QED BY <2>2, <3>1
  <2>4. least # latest /\ least \in TurnID
    <3>1. PICK v \in known : v # least
      BY <2>3
    <3>2. least <= v /\ v <= latest /\ least \in Nat /\ v \in Nat /\ latest \in Nat
      BY <1>2, <2>2, <3>1
    <3> QED BY <1>2, <2>2, <3>1, <3>2
  <2> QED BY <1>1, <1>2, <2>1, <2>4 DEF known
<1> QED BY <1>4, <1>5

LEMMA WriterTakeOK == ASSUME SessionInv, WriterTake PROVE SessionInv' /\ UNCHANGED <<cli, written>> /\ srv'.rows = srv.rows
<1> DEFINE f == Head(srv.q)
<1>1. /\ srv.q # <<>> /\ inflight = NoFrame /\ srv' = [srv EXCEPT !.q = Tail(srv.q)]
      /\ inflight' = (IF Stale(f) THEN NoFrame ELSE f) /\ UNCHANGED <<events, written, conn, cli, world>>
  BY DEF WriterTake
<1>2. SrvOK(srv) /\ srv \in SrvType /\ srv.q \in Seq(FrameType) /\ srv.scope \in 0..MaxTurns /\ srv.nextID \in Int
  BY Ranges, SMTT(60) DEF SessionInv, SrvOK, SrvType
<1>3. /\ Len(srv.q) >= 1 /\ f = srv.q[1] /\ 1 \in 1..Len(srv.q) /\ f \in FrameType /\ Tail(srv.q) \in Seq(FrameType)
      /\ \A i \in 1..Len(Tail(srv.q)) : Tail(srv.q)[i] = srv.q[i + 1] /\ i + 1 \in 1..Len(srv.q) /\ 1 < i + 1
  BY <1>1, <1>2
<1>4. /\ srv' \in SrvType /\ srv'.q = Tail(srv.q)
      /\ srv'.cur = srv.cur /\ srv'.nextID = srv.nextID /\ srv'.no = srv.no /\ srv'.last = srv.last /\ srv'.hist = srv.hist
      /\ srv'.rows = srv.rows /\ srv'.stage = srv.stage /\ srv'.heardAt = srv.heardAt /\ srv'.scope = srv.scope
      /\ srv'.turn = srv.turn /\ srv'.closing = srv.closing
  BY <1>1, <1>2, <1>3 DEF SrvType
<1>5. /\ f.scoped \/ f.counts \/ Ends(f) => f.t \in 1..(srv.nextID - 1)
      /\ f.counts => f.scoped
      /\ Ends(f) => f.t # srv.scope \/ srv.turn[f.t].pc \in Past
  BY <1>2, <1>3 DEF SrvOK, QueueOK
<1>6. \A i \in 1..Len(srv'.q) : Ends(f) /\ srv'.q[i].counts /\ srv'.q[i].t = f.t => f.t # srv.scope
  BY <1>2, <1>3, <1>4, SMTT(60) DEF SrvOK, QueueOK
<1>7. SrvOK(srv')
  <2>1. ScopeOK(srv') /\ NumberOK(srv') /\ LastOK(srv')
    BY <1>2, <1>4 DEF SrvOK, ScopeOK, NumberOK, LastOK
  <2>2. \A t \in TurnID : TurnOK(srv', t) /\ RowOK(srv', t)
    BY <1>2, <1>4 DEF SrvOK, TurnOK, RowOK
  <2>3. QueueOK(srv')
    <3>1. \A i \in 1..Len(srv'.q) : srv'.q[i] = srv.q[i + 1] /\ i + 1 \in 1..Len(srv.q)
      BY <1>3, <1>4
    <3>2. \A i, j \in 1..Len(srv'.q) : i < j => i + 1 < j + 1
      OBVIOUS
    <3>3. QueueOK(srv)
      BY <1>2 DEF SrvOK
    <3>4. ASSUME NEW i \in 1..Len(srv'.q)
          PROVE  /\ srv'.q[i].scoped \/ srv'.q[i].counts \/ Ends(srv'.q[i]) => srv'.q[i].t \in 1..(srv'.nextID - 1)
                 /\ srv'.q[i].counts => srv'.q[i].scoped
                 /\ Ends(srv'.q[i]) => srv'.q[i].t # srv'.scope \/ srv'.turn[srv'.q[i].t].pc \in Past
      BY <1>4, <3>1, <3>3 DEF QueueOK
    <3>5. ASSUME NEW i \in 1..Len(srv'.q), NEW j \in 1..Len(srv'.q), i < j,
                 Ends(srv'.q[i]), srv'.q[j].counts, srv'.q[j].t = srv'.q[i].t
          PROVE  srv'.q[i].t # srv'.scope
      BY <1>4, <3>1, <3>2, <3>3, <3>5, SMTT(60) DEF QueueOK
    <3> QED BY <3>4, <3>5 DEF QueueOK
  <2> QED BY <1>2, <1>4, <2>1, <2>2, <2>3 DEF SrvOK
<1>8. NoFrame \in FrameType /\ ~NoFrame.scoped /\ ~NoFrame.counts /\ ~Ends(NoFrame)
  BY Ranges DEF NoFrame, Control, Frame, FrameType, FrameKinds, EndKinds, Ends
<1>9. inflight' \in FrameType /\ (inflight' = NoFrame \/ (inflight' = f /\ (f.counts => f.t = srv.scope)))
  BY <1>1, <1>3, <1>5, <1>8 DEF Stale
<1> HIDE DEF f
<1>10. Types'
  BY <1>1, <1>9 DEF SessionInv, Types
<1>11. EventsOK' /\ CountOK' /\ WithinOK(srv', cli'.played, written')
  BY <1>1, <1>4 DEF SessionInv, EventsOK, EventOK, CountOK, WithinOK
<1>12. WriterOK'
  <2>1. inflight'.scoped \/ inflight'.counts \/ Ends(inflight') => inflight'.t \in 1..(srv'.nextID - 1)
    BY <1>4, <1>5, <1>8, <1>9
  <2>2. inflight'.counts => cli'.done[inflight'.t] = <<>>
    <3> SUFFICES ASSUME inflight'.counts, cli.done[f.t] # <<>> PROVE FALSE
      BY <1>1, <1>8, <1>9
    <3>1. inflight' = f /\ f.counts /\ f.t = srv.scope /\ f.t \in TurnID
      BY <1>2, <1>5, <1>8, <1>9, Ranges DEF TurnID, SrvType
    <3>2. Told(f.t)
      BY DEF Told
    <3> QED BY <1>3, <3>1, <3>2 DEF SessionInv, WriterOK, f
  <2>3. \A t \in TurnID : written'[t] > 0 => t < srv'.nextID
    BY <1>1, <1>4 DEF SessionInv, WriterOK
  <2>4. ASSUME NEW t \in TurnID, Told(t)'
        PROVE  /\ t < srv'.nextID
               /\ t # srv'.scope \/ srv'.turn[t].pc \in Past
               /\ t = srv'.scope => \A i \in 1..Len(srv'.q) : ~(srv'.q[i].counts /\ srv'.q[i].t = t)
    <3>1. CASE cli.done[t] # <<>>
      <4>1. Told(t)
        BY <3>1 DEF Told
      <4> QED BY <1>3, <1>4, <4>1 DEF SessionInv, WriterOK
    <3>2. CASE Ends(inflight') /\ inflight'.t = t
      <4>1. inflight' = f /\ Ends(f) /\ f.t = t
        BY <1>8, <1>9, <3>2
      <4> QED BY <1>2, <1>4, <1>5, <1>6, <4>1
    <3> QED BY <1>1, <2>4, <3>1, <3>2 DEF Told
  <2> QED BY <2>1, <2>2, <2>3, <2>4 DEF WriterOK
<1> QED BY <1>1, <1>4, <1>7, <1>10, <1>11, <1>12 DEF SessionInv

LEMMA WriterWriteOK ==
  ASSUME SessionInv, WriterWrite
  PROVE  /\ SessionInv' /\ srv'.rows = srv.rows
         /\ \A t \in TurnID : written'[t] > written[t] => cli.done[t] = <<>>
<1> DEFINE f == inflight
           t == inflight.t
           latest == srv.nextID - 1
<1>1. /\ Receive(f) /\ inflight' = NoFrame /\ UNCHANGED <<srv, events, conn, world>>
      /\ written' = IF f.counts THEN CountWritten(t) ELSE written
  BY DEF WriterWrite
<1>2. SrvOK(srv) /\ srv \in SrvType /\ srv.nextID \in Int /\ srv.rows \in [TurnID -> RowType] /\ srv.nextID \in 1..(MaxTurns + 1)
  BY Ranges, SMTT(60) DEF SessionInv, SrvOK, SrvType
<1>3. /\ f \in FrameType /\ (f.counts \/ Ends(f) => t \in TurnID /\ t < srv.nextID)
      /\ f.counts => cli.done[t] = <<>>
  <2>1. /\ f \in FrameType /\ (f.counts \/ Ends(f) => t \in 1..(srv.nextID - 1))
        /\ f.counts => cli.done[t] = <<>>
    BY DEF SessionInv, WriterOK, Types
  <2> QED BY <1>2, <2>1, Ranges DEF TurnID
<1>4. /\ written \in [TurnID -> Nat] /\ cli.cur \in 0..MaxTurns /\ cli.got \in [TurnID -> Nat] /\ cli.played \in [TurnID -> Nat]
      /\ cli.done \in [TurnID -> Seq(EndKinds)]
      /\ cli = [cur |-> cli.cur, got |-> cli.got, played |-> cli.played, done |-> cli.done, stopped |-> cli.stopped,
                pdone |-> cli.pdone, talking |-> cli.talking, audio |-> cli.audio, inputs |-> cli.inputs]
  BY DEF SessionInv, Types
<1>5. /\ written' \in [TurnID -> Nat]
      /\ \A u \in TurnID : written'[u] > 0 => u < srv.nextID
      /\ latest \in TurnID => written'[latest] >= written[latest]
      /\ \A u \in TurnID : written'[u] > written[u] => f.counts /\ u = t
  <2>1. CASE ~f.counts
    <3>1. \A u \in TurnID : written[u] \in Int
      BY <1>4
    <3> QED BY <1>1, <1>4, <2>1, <3>1 DEF SessionInv, WriterOK
  <2>2. CASE f.counts
    <3>1. latest \in TurnID /\ t <= latest /\ t \in TurnID
      BY <1>2, <1>3, <2>2, Ranges DEF TurnID
    <3>2. \A u \in TurnID : written[u] > 0 => u <= latest
      BY <1>2, Ranges DEF SessionInv, WriterOK, TurnID
    <3>3. written' = CountWritten(t)
      BY <1>1, <2>2
    <3>4. ASSUME NEW u \in TurnID, u <= latest PROVE u < srv.nextID
      <4>1. u \in Int
        BY Ranges
      <4> QED BY <1>2, <3>4, <4>1
    <3> HIDE DEF latest, t
    <3>5. /\ CountWritten(t) \in [TurnID -> Nat]
          /\ \A u \in TurnID : CountWritten(t)[u] > 0 => u <= latest
          /\ CountWritten(t)[latest] >= written[latest]
          /\ \A u \in TurnID : CountWritten(t)[u] > written[u] => u = t
      BY <1>4, <3>1, <3>2, CountWrittenOK
    <3> QED BY <2>2, <3>3, <3>4, <3>5
  <2> QED BY <2>1, <2>2
<1>6. /\ cli'.played = cli.played /\ Types'
      /\ \A u \in TurnID : cli'.done[u] # <<>> => cli.done[u] # <<>> \/ (Ends(f) /\ u = t)
  <2>1. NoFrame \in FrameType
    BY Ranges DEF NoFrame, Control, Frame, FrameType, FrameKinds, EndKinds
  <2>2. events' \in Seq(EventType) /\ inflight' \in FrameType /\ world' \in Worlds /\ t \in 0..MaxTurns
    BY <1>1, <1>3, <2>1 DEF SessionInv, Types, FrameType
  <2>3. \/ cli' = [cli EXCEPT !.cur = t]
        \/ f.counts /\ cli' = [cli EXCEPT !.got[t] = @ + 1]
        \/ Ends(f) /\ cli' = [cli EXCEPT !.done[t] = Append(@, f.k)]
        \/ cli' = cli
    BY <1>1 DEF Receive, Ends, EndKinds
  <2>4. CASE cli' = [cli EXCEPT !.cur = t]
    BY <1>4, <1>5, <2>2, <2>4 DEF Types
  <2>5. CASE f.counts /\ cli' = [cli EXCEPT !.got[t] = @ + 1]
    <3> DEFINE got == [cli.got EXCEPT ![t] = @ + 1]
    <3>1. got \in [TurnID -> Nat] /\ cli' = [cli EXCEPT !.got = got]
      BY <1>3, <1>4, <2>5
    <3> HIDE DEF got
    <3> QED BY <1>4, <1>5, <2>2, <3>1 DEF Types
  <2>6. CASE Ends(f) /\ cli' = [cli EXCEPT !.done[t] = Append(@, f.k)]
    <3> DEFINE done == [cli.done EXCEPT ![t] = Append(@, f.k)]
    <3>1. cli' = [cli EXCEPT !.done = done]
      BY <1>4, <2>6
    <3>2. done \in [TurnID -> Seq(EndKinds)] /\ \A u \in TurnID : u # t => done[u] = cli.done[u]
      <4>1. t \in TurnID /\ f.k \in EndKinds
        BY <1>3, <2>6 DEF Ends
      <4>2. Append(cli.done[t], f.k) \in Seq(EndKinds)
        BY <1>4, <4>1
      <4> QED BY <1>4, <4>1, <4>2
    <3> HIDE DEF done
    <3> QED BY <1>4, <1>5, <2>2, <2>6, <3>1, <3>2 DEF Types
  <2>7. CASE cli' = cli
    BY <1>4, <1>5, <2>2, <2>7 DEF Types
  <2> QED BY <2>3, <2>4, <2>5, <2>6, <2>7
<1>7. EventsOK'
  BY <1>1, <1>6 DEF SessionInv, EventsOK
<1>8. CountOK' /\ WithinOK(srv', cli'.played, written')
  <2>1. latest \in TurnID => written'[latest] >= written[latest] /\ written'[latest] \in Int /\ written[latest] \in Int
    BY <1>4, <1>5
  <2>2. CountOK'
    <3> SUFFICES ASSUME srv.stage = "finish", srv.cur # 0 PROVE srv.heardAt <= written'[srv.cur]
      BY <1>1 DEF CountOK
    <3>1. srv.cur = latest /\ latest \in TurnID /\ srv.heardAt \in Int
      BY <1>2, Ranges DEF SrvOK, ScopeOK, SrvType, TurnID
    <3>2. srv.heardAt <= written[srv.cur]
      BY DEF SessionInv, CountOK
    <3> QED BY <2>1, <3>1, <3>2
  <2>3. WithinOK(srv', cli'.played, written')
    <3> SUFFICES ASSUME NEW n \in TurnID, srv.rows[n].status = "interrupted"
                 PROVE  \/ srv.rows[n].heard <= cli.played[srv.rows[n].id]
                        \/ srv.stage # "run" /\ srv.rows[n].id = srv.nextID - 1 /\ srv.rows[n].heard <= written'[srv.rows[n].id]
      BY <1>1, <1>6 DEF WithinOK
    <3>1. /\ srv.rows[n].heard \in Int /\ srv.rows[n].id \in TurnID
      BY <1>2, Ranges, SMTT(60) DEF SrvOK, RowOK, RowType, TurnID
    <3>2. \/ srv.rows[n].heard <= cli.played[srv.rows[n].id]
          \/ srv.stage # "run" /\ srv.rows[n].id = srv.nextID - 1 /\ srv.rows[n].heard <= written[srv.rows[n].id]
      BY DEF SessionInv, WithinOK
    <3> QED BY <2>1, <3>1, <3>2
  <2> QED BY <2>2, <2>3
<1>9. WriterOK'
  <2>1. ~NoFrame.scoped /\ ~NoFrame.counts /\ ~Ends(NoFrame)
    BY DEF NoFrame, Control, Frame, Ends, EndKinds
  <2>2. \A u \in TurnID : Told(u)' => Told(u)
    BY <1>1, <1>6, <2>1 DEF Told
  <2> QED BY <1>1, <1>5, <2>1, <2>2 DEF SessionInv, WriterOK
<1> QED BY <1>1, <1>2, <1>3, <1>5, <1>6, <1>7, <1>8, <1>9 DEF SessionInv

\* The frame being written is lost.
LEMMA DropOK ==
  ASSUME SessionInv, SrvOK(srv'), Calm(srv, srv'), inflight' = NoFrame, UNCHANGED <<events, written, cli, world>>,
         srv'.stage = srv.stage, srv'.nextID = srv.nextID, srv'.cur = srv.cur, srv'.rows = srv.rows,
         srv'.heardAt = srv.heardAt, srv'.scope = srv.scope, srv'.q = srv.q,
         \A t \in TurnID : srv'.turn[t].pc = srv.turn[t].pc
  PROVE  SessionInv'
<1>1. ~NoFrame.scoped /\ ~NoFrame.counts /\ ~Ends(NoFrame) /\ NoFrame \in FrameType
  BY Ranges DEF NoFrame, Control, Frame, FrameType, FrameKinds, Ends, EndKinds
<1>2. WriterOK'
  <2>1. \A u \in TurnID : Told(u)' => Told(u)
    BY <1>1 DEF Told
  <2> QED BY <1>1, <2>1 DEF SessionInv, WriterOK
<1>3. Types'
  BY <1>1 DEF SessionInv, Types
<1>4. EventsOK' /\ CountOK' /\ WithinOK(srv', cli'.played, written')
  BY DEF SessionInv, EventsOK, EventOK, CountOK, WithinOK
<1> QED BY <1>2, <1>3, <1>4 DEF SessionInv

LEMMA ConnectionOK ==
  ASSUME SessionInv, ConnectionFails \/ CloseOutbox
  PROVE  SessionInv' /\ UNCHANGED <<cli, written>> /\ srv'.rows = srv.rows
<1>1. SrvOK(srv) /\ srv \in SrvType
  BY DEF SessionInv, SrvOK
<1>2. CASE ConnectionFails
  BY <1>1, <1>2, CancelAllFacts, DropOK DEF ConnectionFails
<1>3. CASE CloseOutbox
  BY <1>1, <1>3, CalmNone, DropOK DEF CloseOutbox
<1> QED BY <1>2, <1>3

-----------------------------------------------------------------------------
(* The client, the hub and the persister *)

\* A step of the client: playback goes on, and what it posts is true of it.
LEMMA ClientMoves ==
  ASSUME SessionInv, UNCHANGED <<srv, inflight, written, world>>,
         cli' = [cur |-> cli.cur, got |-> cli.got, played |-> cli'.played, done |-> cli.done, stopped |-> cli'.stopped,
                 pdone |-> cli'.pdone, talking |-> cli'.talking, audio |-> cli'.audio, inputs |-> cli'.inputs],
         cli'.cur = cli.cur, cli'.got = cli.got, cli'.done = cli.done,
         cli'.played \in [TurnID -> Nat], \A t \in TurnID : cli'.played[t] >= cli.played[t],
         \/ events' = events
         \/ \E e \in EventType : events' = Append(events, e) /\ EventOK(e, srv, cli.played)
  PROVE  SessionInv'
<1>1. /\ events \in Seq(EventType) /\ cli.played \in [TurnID -> Nat] /\ EventsOK /\ SrvOK(srv)
      /\ srv.rows \in [TurnID -> RowType]
  BY DEF SessionInv, Types, SrvOK, SrvType
<1>2. events' \in Seq(EventType)
  BY <1>1, SMTT(60)
<1>3. Types'
  BY <1>2 DEF SessionInv, Types
<1>4. \A e \in EventType : EventOK(e, srv, cli.played) => EventOK(e, srv', cli'.played)
  <2> SUFFICES ASSUME NEW e \in EventType, EventOK(e, srv, cli.played), e.k = "speech.start", e.t # 0
               PROVE  e.n <= cli'.played[e.t]
    BY DEF EventOK
  <2>1. e.t \in TurnID /\ e.n \in Int
    BY Ranges DEF EventType, TurnID
  <2>2. e.n <= cli.played[e.t] /\ cli.played[e.t] \in Int /\ cli'.played[e.t] \in Int /\ cli'.played[e.t] >= cli.played[e.t]
    BY <1>1, <2>1 DEF EventOK
  <2> QED BY <2>1, <2>2
<1>5. EventsOK'
  <2>1. \A i \in 1..Len(events') : events'[i] \in EventType /\ EventOK(events'[i], srv, cli.played)
    <3>1. \A i \in 1..Len(events) : events[i] \in EventType /\ EventOK(events[i], srv, cli.played)
      BY <1>1 DEF EventsOK
    <3>2. CASE events' = events
      BY <3>1, <3>2
    <3>3. ASSUME NEW e \in EventType, events' = Append(events, e), EventOK(e, srv, cli.played)
          PROVE  \A i \in 1..Len(events') : events'[i] \in EventType /\ EventOK(events'[i], srv, cli.played)
      <4>1. \A i \in 1..Len(events') : events'[i] = e \/ (i \in 1..Len(events) /\ events'[i] = events[i])
        BY <1>1, <3>3
      <4> QED BY <3>1, <3>3, <4>1
    <3> QED BY <3>2, <3>3
  <2> QED BY <1>4, <2>1 DEF EventsOK
<1>6. WriterOK' /\ CountOK'
  BY DEF SessionInv, WriterOK, Told, CountOK
<1>7. WithinOK(srv', cli'.played, written')
  <2> SUFFICES ASSUME NEW n \in TurnID, srv.rows[n].status = "interrupted"
               PROVE  \/ srv.rows[n].heard <= cli'.played[srv.rows[n].id]
                      \/ srv.stage # "run" /\ srv.rows[n].id = srv.nextID - 1 /\ srv.rows[n].heard <= written[srv.rows[n].id]
    BY DEF WithinOK
  <2>1. /\ srv.rows[n].heard \in Int /\ srv.rows[n].id \in TurnID
    BY <1>1, Ranges DEF SrvOK, RowOK, RowType, TurnID
  <2>2. /\ cli.played[srv.rows[n].id] \in Int /\ cli'.played[srv.rows[n].id] \in Int
        /\ cli'.played[srv.rows[n].id] >= cli.played[srv.rows[n].id]
    BY <1>1, <2>1
  <2> QED BY <2>1, <2>2, SMTT(60) DEF SessionInv, WithinOK
<1> QED BY <1>1, <1>3, <1>5, <1>6, <1>7 DEF SessionInv

\* An event that claims nothing.
LEMMA PlainEvents ==
  ASSUME NEW k \in EventKinds \ {"turndone"}
  PROVE  Event(k) \in EventType /\ \A a, played : EventOK(Event(k), a, played)
BY Ranges DEF Event, EventType, EventOK

LEMMA ClientOK ==
  ASSUME SessionInv, Client \/ StopRequest
  PROVE  SessionInv' /\ UNCHANGED <<srv, written>>
<1>1. /\ cli.cur \in 0..MaxTurns /\ cli.played \in [TurnID -> Nat] /\ \A t \in TurnID : cli.played[t] >= cli.played[t]
      /\ cli = [cur |-> cli.cur, got |-> cli.got, played |-> cli.played, done |-> cli.done, stopped |-> cli.stopped,
                pdone |-> cli.pdone, talking |-> cli.talking, audio |-> cli.audio, inputs |-> cli.inputs]
  <2>1. \A t \in TurnID : cli.played[t] \in Nat => cli.played[t] >= cli.played[t]
    OBVIOUS
  <2> QED BY <2>1 DEF SessionInv, Types
<1> DEFINE Same == UNCHANGED <<srv, inflight, written, world>>
           Shape == /\ cli' = [cur |-> cli.cur, got |-> cli.got, played |-> cli'.played, done |-> cli.done,
                               stopped |-> cli'.stopped, pdone |-> cli'.pdone, talking |-> cli'.talking,
                               audio |-> cli'.audio, inputs |-> cli'.inputs]
                    /\ cli'.cur = cli.cur /\ cli'.got = cli.got /\ cli'.done = cli.done
                    /\ cli'.played \in [TurnID -> Nat] /\ \A t \in TurnID : cli'.played[t] >= cli.played[t]
           Posted == \/ events' = events
                     \/ \E e \in EventType : events' = Append(events, e) /\ EventOK(e, srv, cli.played)
<1>2. ASSUME NEW t \in TurnID, Play(t) PROVE Same /\ Shape /\ Posted
  <2> DEFINE played == [cli.played EXCEPT ![t] = @ + 1]
  <2>1. cli' = [cli EXCEPT !.played = played]
    BY <1>1, <1>2 DEF Play
  <2>2. played \in [TurnID -> Nat] /\ \A u \in TurnID : played[u] >= cli.played[u]
    BY <1>1
  <2> HIDE DEF played
  <2>3. Shape
    BY <1>1, <2>1, <2>2
  <2> QED BY <1>2, <2>3 DEF Play
<1>3. ASSUME NEW t \in TurnID, ClientPlayed(t) PROVE Same /\ Shape /\ Posted
  <2>1. Shape
    BY <1>1, <1>3 DEF ClientPlayed
  <2> DEFINE e == [Event("playback.done") EXCEPT !.t = t]
  <2>2. e \in EventType /\ EventOK(e, srv, cli.played) /\ events' = Append(events, e)
    <3>1. t \in 0..MaxTurns
      BY Ranges DEF TurnID
    <3> QED BY <1>3, <3>1, Ranges DEF ClientPlayed, Post, Event, EventType, EventKinds, EventOK
  <2> HIDE DEF e
  <2> QED BY <1>3, <2>1, <2>2 DEF ClientPlayed
<1>4. ASSUME ClientSpeaks PROVE Same /\ Shape /\ Posted
  <2> DEFINE t == cli.cur
             playing == t # 0 /\ t \notin cli.stopped \cup cli.pdone /\ cli.played[t] > 0
             e == [Event("speech.start") EXCEPT !.t = IF playing THEN t ELSE 0, !.n = IF playing THEN cli.played[t] ELSE 0]
  <2>1. Shape
    BY <1>1, <1>4 DEF ClientSpeaks, StopPlayback
  <2>2. events' = Append(events, e)
    BY <1>4 DEF ClientSpeaks, Post
  <2>3. e \in EventType /\ EventOK(e, srv, cli.played)
    <3>1. playing => t \in 0..MaxTurns /\ cli.played[t] \in Nat /\ cli.played[t] <= cli.played[t]
      <4>1. t # 0 => t \in TurnID
        BY <1>1, Ranges DEF TurnID
      <4> QED BY <1>1, <4>1
    <3>2. 0 \in 0..MaxTurns
      BY Ranges
    <3>3. /\ Event("speech.start") \in EventType /\ Event("speech.start").k = "speech.start"
      BY PlainEvents DEF EventKinds, Event
    <3> HIDE DEF playing, t
    <3>4. CASE playing
      BY <3>1, <3>3, <3>4 DEF EventType, EventOK
    <3>5. CASE ~playing
      BY <3>2, <3>3, <3>5 DEF EventType, EventOK
    <3> QED BY <3>4, <3>5
  <2> HIDE DEF e
  <2> QED BY <1>4, <2>1, <2>2, <2>3 DEF ClientSpeaks
<1>5. ASSUME NEW k \in EventKinds \ {"turndone"}, events' = Append(events, Event(k)) PROVE Posted
  BY <1>5, PlainEvents
<1>6. ASSUME ClientAudio PROVE Same /\ Shape /\ Posted
  <2>1. Shape
    BY <1>1, <1>6 DEF ClientAudio
  <2>2. Posted
    BY <1>5, <1>6 DEF ClientAudio, Post, EventKinds
  <2> QED BY <1>6, <2>1, <2>2 DEF ClientAudio
<1>7. ASSUME ClientStopsTalking PROVE Same /\ Shape /\ Posted
  <2>1. Shape
    BY <1>1, <1>7 DEF ClientStopsTalking
  <2>2. Posted
    BY <1>5, <1>7 DEF ClientStopsTalking, Post, EventKinds
  <2> QED BY <1>7, <2>1, <2>2 DEF ClientStopsTalking
<1>8. ASSUME ClientTypes PROVE Same /\ Shape /\ Posted
  <2>1. Shape
    BY <1>1, <1>8 DEF ClientTypes, StopPlayback
  <2>2. Posted
    BY <1>5, <1>8 DEF ClientTypes, Post, EventKinds
  <2> QED BY <1>8, <2>1, <2>2 DEF ClientTypes
<1>9. ASSUME ClientOther PROVE Same /\ Shape /\ Posted
  <2>1. Shape
    BY <1>1, <1>9 DEF ClientOther
  <2>2. Posted
    BY <1>5, <1>9 DEF ClientOther, Post, EventKinds
  <2> QED BY <1>9, <2>1, <2>2 DEF ClientOther
<1>10. ASSUME Disconnect \/ StopRequest PROVE Same /\ Shape /\ Posted
  <2>1. Shape
    BY <1>1, <1>10 DEF Disconnect, StopRequest
  <2>2. Posted
    BY <1>5, <1>10 DEF Disconnect, StopRequest, Post, EventKinds
  <2> QED BY <1>10, <2>1, <2>2 DEF Disconnect, StopRequest
<1>11. Same /\ Shape /\ Posted
  BY <1>2, <1>3, <1>4, <1>6, <1>7, <1>8, <1>9, <1>10 DEF Client
<1> QED BY <1>11, ClientMoves

-----------------------------------------------------------------------------
(* How much of a turn the client is sent, and the room in the channels *)

\* The frame being written may complete a segment of turn t.
Writing(t) == IF inflight.counts /\ inflight.t = t THEN 1 ELSE 0

\* A segment is given once: those of a turn that are queued, being written and written
\* are no more than its emitter is through with, and so are those the client received.
CountsOK ==
  \A t \in TurnID :
    LET n == Cardinality(Counted(srv.q, t)) + Writing(t) IN
    /\ n + written[t] <= Given(srv.turn[t]) /\ n + cli.got[t] <= Given(srv.turn[t])
    /\ cli.played[t] <= cli.got[t] /\ (cli.got[t] > 0 => t < srv.nextID)

CountInv == Len(srv.q) <= OutCap /\ Len(events) <= EventCap /\ CountsOK

LEMMA CountedFinite ==
  ASSUME NEW q \in Seq(FrameType), NEW t
  PROVE  IsFiniteSet(Counted(q, t)) /\ Cardinality(Counted(q, t)) \in Nat /\ Counted(q, t) \subseteq 1..Len(q)
<1>1. Len(q) \in Nat /\ IsFiniteSet(1..Len(q))
  BY FS_Interval
<1>2. Counted(q, t) \subseteq 1..Len(q)
  BY DEF Counted
<1>3. IsFiniteSet(Counted(q, t))
  BY <1>1, <1>2, FS_Subset
<1> QED BY <1>2, <1>3, FS_CardinalityType

\* The writer takes the head: all else moves one place up.
LEMMA CountedTail ==
  ASSUME NEW q \in Seq(FrameType), q # <<>>, NEW t
  PROVE  Cardinality(Counted(q, t))
           = Cardinality(Counted(Tail(q), t)) + (IF q[1].counts /\ q[1].t = t THEN 1 ELSE 0)
<1> DEFINE rest == Counted(q, t) \ {1}
           tail == Counted(Tail(q), t)
           up == [i \in tail |-> i + 1]
<1>1. /\ Tail(q) \in Seq(FrameType) /\ Len(Tail(q)) = Len(q) - 1 /\ Len(q) \in Nat /\ Len(q) >= 1
      /\ \A i \in 1..Len(Tail(q)) : Tail(q)[i] = q[i + 1]
  OBVIOUS
<1>2. \A i \in tail : i \in Int /\ i + 1 \in rest
  BY <1>1 DEF Counted
<1>3. \A j \in rest : j - 1 \in tail /\ j \in Int
  BY <1>1 DEF Counted
<1>4. up \in Bijection(tail, rest)
  <2> HIDE DEF tail, rest
  <2>1. up \in [tail -> rest]
    BY <1>2
  <2>2. \A i, j \in tail : up[i] = up[j] => i = j
    BY <1>2
  <2>3. \A j \in rest : \E i \in tail : up[i] = j
    <3> SUFFICES ASSUME NEW j \in rest PROVE \E i \in tail : up[i] = j
      OBVIOUS
    <3>1. j - 1 \in tail /\ up[j - 1] = j
      BY <1>3
    <3> QED BY <3>1
  <2> HIDE DEF up
  <2> QED BY <2>1, <2>2, <2>3, Fun_IsBij
<1>5. Cardinality(rest) = Cardinality(tail)
  <2>1. ExistsBijection(tail, rest) /\ IsFiniteSet(tail)
    BY <1>1, <1>4, CountedFinite DEF ExistsBijection
  <2> HIDE DEF tail, rest
  <2> QED BY <2>1, FS_Bijection
<1>6. Cardinality(rest) = IF 1 \in Counted(q, t) THEN Cardinality(Counted(q, t)) - 1 ELSE Cardinality(Counted(q, t))
  BY CountedFinite, FS_RemoveElement
<1>7. 1 \in Counted(q, t) <=> q[1].counts /\ q[1].t = t
  BY <1>1 DEF Counted
<1>8. Cardinality(Counted(q, t)) \in Nat /\ Cardinality(tail) \in Nat
  BY <1>1, CountedFinite
<1> HIDE DEF rest, tail
<1> QED BY <1>5, <1>6, <1>7, <1>8 DEF tail

\* The parts of the invariant the counts are about.
LEMMA CountFacts ==
  ASSUME SessionInv, NEW t \in TurnID
  PROVE  /\ srv.q \in Seq(FrameType) /\ srv.nextID \in Int /\ t \in Int /\ srv.turn[t] \in TurnType
         /\ Given(srv.turn[t]) \in Nat /\ Cardinality(Counted(srv.q, t)) \in Nat /\ Writing(t) \in {0, 1}
         /\ written[t] \in Nat /\ cli.got[t] \in Nat /\ cli.played[t] \in Nat
         /\ ~(t < srv.nextID) => Counted(srv.q, t) = {} /\ Writing(t) = 0 /\ written[t] = 0
<1>1. srv \in SrvType /\ srv.q \in Seq(FrameType) /\ srv.nextID \in Int /\ t \in Int /\ srv.turn[t] \in TurnType
  <2>1. srv \in SrvType
    BY DEF SessionInv, SrvOK
  <2>2. srv.q \in Seq(FrameType) /\ srv.nextID \in 1..(MaxTurns + 1) /\ srv.turn[t] \in TurnType
    BY <2>1 DEF SrvType
  <2> QED BY <2>1, <2>2, Ranges
<1>2. Given(srv.turn[t]) \in Nat /\ Cardinality(Counted(srv.q, t)) \in Nat
  BY <1>1, CountedFinite, GivenTypes
<1>3. written[t] \in Nat /\ cli.got[t] \in Nat /\ cli.played[t] \in Nat /\ Writing(t) \in {0, 1}
  BY DEF SessionInv, Types, Writing
<1>4. ASSUME ~(t < srv.nextID) PROVE Counted(srv.q, t) = {} /\ Writing(t) = 0 /\ written[t] = 0
  <2>1. t \notin 1..(srv.nextID - 1)
    BY <1>1, <1>4
  <2>2. Counted(srv.q, t) = {}
    BY <2>1 DEF SessionInv, SrvOK, QueueOK, Counted
  <2>3. ~(inflight.counts /\ inflight.t = t)
    BY <2>1 DEF SessionInv, WriterOK
  <2>4. ~(written[t] > 0)
    BY <1>4 DEF SessionInv, WriterOK
  <2> QED BY <1>3, <2>2, <2>3, <2>4 DEF Writing
<1> QED BY <1>1, <1>2, <1>3, <1>4

\* A step of the server queues no segment twice.
LEMMA OnwardCounts ==
  ASSUME SessionInv, SessionInv', CountInv, Onward(srv, srv'), UNCHANGED <<written, cli>>,
         inflight' = inflight \/ inflight' = NoFrame
  PROVE  Len(srv'.q) <= OutCap /\ CountsOK'
<1>1. Len(srv'.q) <= OutCap
  BY DEF CountInv, Onward
<1>2. ASSUME NEW t \in TurnID
      PROVE  LET n == Cardinality(Counted(srv'.q, t)) + Writing(t)' IN
             /\ n + written[t] <= Given(srv'.turn[t]) /\ n + cli.got[t] <= Given(srv'.turn[t])
             /\ cli.played[t] <= cli.got[t] /\ (cli.got[t] > 0 => t < srv'.nextID)
  <2> DEFINE c == Cardinality(Counted(srv.q, t))
             d == Cardinality(Counted(srv'.q, t))
             g == Given(srv.turn[t])
             h == Given(srv'.turn[t])
  <2>1. /\ srv.q \in Seq(FrameType) /\ srv.nextID \in Int /\ srv'.nextID \in Int /\ t \in Int
        /\ c \in Nat /\ d \in Nat /\ g \in Nat /\ h \in Nat /\ Writing(t) \in {0, 1}
        /\ written[t] \in Nat /\ cli.got[t] \in Nat /\ cli.played[t] \in Nat
        /\ ~(t < srv.nextID) => Counted(srv.q, t) = {} /\ Writing(t) = 0 /\ written[t] = 0
    <3>1. /\ srv'.nextID \in Int /\ h \in Nat /\ d \in Nat
      <4>1. srv' \in SrvType
        BY DEF SessionInv, SrvOK
      <4>2. srv'.q \in Seq(FrameType) /\ srv'.nextID \in Int /\ srv'.turn[t] \in TurnType
        BY <4>1, Ranges DEF SrvType
      <4> QED BY <4>2, CountedFinite, GivenTypes
    <3> QED BY <3>1, CountFacts
  <2>2. /\ c + Writing(t) + written[t] <= g /\ c + Writing(t) + cli.got[t] <= g
        /\ cli.played[t] <= cli.got[t] /\ (cli.got[t] > 0 => t < srv.nextID)
    BY DEF CountInv, CountsOK
  <2>3. Writing(t)' \in {0, Writing(t)}
    BY DEF Writing, NoFrame, Control, Frame
  <2>4. cli.got[t] > 0 => t < srv'.nextID
    BY <2>1, <2>2 DEF Onward
  <2>5. Queues(srv, srv', t)
    BY DEF Onward
  <2>6. CASE t < srv.nextID /\ Counted(srv'.q, t) = Counted(srv.q, t)
    <3>1. d = c /\ h >= g
      BY <2>1, <2>5, <2>6 DEF Queues
    <3> HIDE DEF c, d, g, h
    <3> QED BY <2>1, <2>2, <2>3, <2>4, <3>1, SMTT(60) DEF d, h
  <2>7. CASE t < srv.nextID /\ Counted(srv'.q, t) # Counted(srv.q, t)
    <3>1. Counted(srv'.q, t) = Counted(srv.q, t) \cup {Len(srv.q) + 1} /\ h > g
      BY <2>5, <2>7 DEF Queues
    <3>2. d = c + 1
      <4>1. Len(srv.q) + 1 \notin Counted(srv.q, t)
        BY <2>1 DEF Counted
      <4>2. IsFiniteSet(Counted(srv.q, t))
        BY <2>1, CountedFinite
      <4>3. Cardinality(Counted(srv.q, t) \cup {Len(srv.q) + 1}) = Cardinality(Counted(srv.q, t)) + 1
        BY <4>1, <4>2, FS_AddElement
      <4> QED BY <3>1, <4>3
    <3> HIDE DEF c, d, g, h
    <3> QED BY <2>1, <2>2, <2>3, <2>4, <3>1, <3>2, SMTT(60) DEF d, h
  <2>8. CASE ~(t < srv.nextID)
    <3>1. Counted(srv'.q, t) = {} /\ Writing(t)' = 0 /\ written[t] = 0 /\ cli.got[t] = 0
      BY <2>1, <2>2, <2>3, <2>5, <2>8 DEF Queues
    <3>2. d = 0
      BY <3>1, FS_EmptySet
    <3> HIDE DEF c, d, g, h
    <3> QED BY <2>1, <2>2, <2>4, <3>1, <3>2 DEF d, h
  <2> QED BY <2>6, <2>7, <2>8
<1> QED BY <1>1, <1>2 DEF CountsOK

\* The frame the writer takes is written or dropped.
LEMMA WriterTakeCounts == ASSUME SessionInv, SessionInv', CountInv, WriterTake PROVE CountInv'
<1> DEFINE f == srv.q[1]
<1>1. /\ srv.q \in Seq(FrameType) /\ srv.q # <<>> /\ inflight = NoFrame /\ f = Head(srv.q)
      /\ srv'.q = Tail(srv.q) /\ srv'.turn = srv.turn /\ srv'.nextID = srv.nextID
      /\ inflight' = (IF Stale(f) THEN NoFrame ELSE f) /\ UNCHANGED <<events, written, cli>>
  BY DEF WriterTake, SessionInv, SrvOK, SrvType
<1>2. Len(srv'.q) <= OutCap /\ Len(events') <= EventCap
  <2>1. Len(Tail(srv.q)) = Len(srv.q) - 1 /\ Len(srv.q) \in Nat
    BY <1>1
  <2> QED BY <1>1, <2>1, SessionAssumption DEF CountInv
<1> HIDE DEF f
<1>3. ASSUME NEW t \in TurnID
      PROVE  LET n == Cardinality(Counted(srv'.q, t)) + Writing(t)' IN
             /\ n + written'[t] <= Given(srv'.turn[t]) /\ n + cli'.got[t] <= Given(srv'.turn[t])
             /\ cli'.played[t] <= cli'.got[t] /\ (cli'.got[t] > 0 => t < srv'.nextID)
  <2> DEFINE c == Cardinality(Counted(srv.q, t))
             d == Cardinality(Counted(srv'.q, t))
             head == IF f.counts /\ f.t = t THEN 1 ELSE 0
  <2>1. c = d + head /\ d \in Nat /\ c \in Nat
    <3>1. Tail(srv.q) \in Seq(FrameType)
      BY <1>1
    <3> QED BY <1>1, <3>1, CountedTail, CountedFinite, ZenonT(60) DEF f
  <2>2. Writing(t) = 0 /\ Writing(t)' <= head /\ Writing(t)' \in {0, 1} /\ head \in {0, 1}
    BY <1>1 DEF Writing, NoFrame, Control, Frame
  <2>3. /\ c + Writing(t) + written[t] <= Given(srv.turn[t]) /\ c + Writing(t) + cli.got[t] <= Given(srv.turn[t])
        /\ cli.played[t] <= cli.got[t] /\ (cli.got[t] > 0 => t < srv.nextID)
    BY DEF CountInv, CountsOK
  <2>4. Given(srv.turn[t]) \in Nat /\ written[t] \in Nat /\ cli.got[t] \in Nat
    BY CountFacts
  <2> HIDE DEF c, d, head
  <2> QED BY <1>1, <2>1, <2>2, <2>3, <2>4, SMTT(60) DEF d
<1> QED BY <1>2, <1>3 DEF CountInv, CountsOK

\* A written frame adds one to what is written of its turn, and at most one to what the
\* client received of it.
LEMMA WriterWriteCounts == ASSUME SessionInv, CountInv, WriterWrite PROVE CountInv'
<1> DEFINE f == inflight
<1>1. /\ Receive(f) /\ inflight' = NoFrame /\ UNCHANGED <<srv, events, conn, world>>
      /\ written' = IF f.counts THEN CountWritten(f.t) ELSE written
  BY DEF WriterWrite
<1>2. /\ f.counts => f.t \in TurnID /\ f.t < srv.nextID
      /\ srv.nextID \in 1..(MaxTurns + 1) /\ srv.nextID \in Int
  <2>1. f.counts => f.t \in 1..(srv.nextID - 1)
    BY DEF SessionInv, WriterOK
  <2>2. srv.nextID \in 1..(MaxTurns + 1)
    BY DEF SessionInv, SrvOK, SrvType
  <2> QED BY <2>1, <2>2, Ranges DEF TurnID
<1>3. ASSUME NEW t \in TurnID PROVE written'[t] \in Nat /\ written'[t] <= written[t] + Writing(t)
  <2>1. written \in [TurnID -> Nat] /\ Writing(t) \in {0, 1}
    BY DEF SessionInv, Types, Writing
  <2>2. CASE ~f.counts
    BY <1>1, <2>1, <2>2
  <2>3. CASE f.counts
    <3> DEFINE latest == srv.nextID - 1
    <3>1. latest \in TurnID /\ f.t <= latest /\ f.t \in TurnID /\ written' = CountWritten(f.t)
      BY <1>1, <1>2, <2>3, Ranges DEF TurnID
    <3>2. \A u \in TurnID : written[u] > 0 => u <= latest
      BY <1>2, Ranges DEF SessionInv, WriterOK, TurnID
    <3> HIDE DEF latest
    <3>3. /\ CountWritten(f.t) \in [TurnID -> Nat]
          /\ \A u \in TurnID : CountWritten(f.t)[u] <= IF u = f.t THEN written[u] + 1 ELSE written[u]
      BY <2>1, <3>1, <3>2, CountWrittenOK
    <3> QED BY <2>1, <2>3, <3>1, <3>3 DEF Writing
  <2> QED BY <2>2, <2>3
<1>4. ASSUME NEW t \in TurnID
      PROVE  /\ cli'.got[t] \in Nat /\ cli'.got[t] >= cli.got[t] /\ cli'.got[t] <= cli.got[t] + Writing(t)
             /\ cli'.played = cli.played
  <2>1. /\ cli.got \in [TurnID -> Nat]
        /\ cli = [cur |-> cli.cur, got |-> cli.got, played |-> cli.played, done |-> cli.done, stopped |-> cli.stopped,
                  pdone |-> cli.pdone, talking |-> cli.talking, audio |-> cli.audio, inputs |-> cli.inputs]
        /\ Writing(t) \in {0, 1}
    BY DEF SessionInv, Types, Writing
  <2>2. \/ cli' = [cli EXCEPT !.cur = f.t]
        \/ f.counts /\ cli' = [cli EXCEPT !.got[f.t] = @ + 1]
        \/ cli' = [cli EXCEPT !.done[f.t] = Append(@, f.k)]
        \/ cli' = cli
    BY <1>1 DEF Receive
  <2>3. CASE f.counts /\ cli' = [cli EXCEPT !.got[f.t] = @ + 1]
    <3> DEFINE got == [cli.got EXCEPT ![f.t] = @ + 1]
    <3>1. cli'.got = got /\ cli'.played = cli.played
      BY <2>1, <2>3
    <3>2. got[t] = cli.got[t] + (IF t = f.t THEN 1 ELSE 0) /\ cli.got[t] \in Nat
      BY <1>2, <2>1, <2>3
    <3>3. t = f.t => Writing(t) = 1
      BY <2>3 DEF Writing
    <3> HIDE DEF got
    <3> QED BY <2>1, <3>1, <3>2, <3>3
  <2>4. ASSUME cli'.got = cli.got, cli'.played = cli.played
        PROVE  /\ cli'.got[t] \in Nat /\ cli'.got[t] >= cli.got[t] /\ cli'.got[t] <= cli.got[t] + Writing(t)
               /\ cli'.played = cli.played
    <3>1. cli.got[t] \in Nat
      BY <2>1
    <3> QED BY <2>1, <2>4, <3>1
  <2>5. CASE cli' = [cli EXCEPT !.cur = f.t] \/ cli' = [cli EXCEPT !.done[f.t] = Append(@, f.k)] \/ cli' = cli
    BY <2>1, <2>4, <2>5
  <2> QED BY <2>2, <2>3, <2>5
<1>5. ASSUME NEW t \in TurnID
      PROVE  LET n == Cardinality(Counted(srv.q, t)) + Writing(t)' IN
             /\ n + written'[t] <= Given(srv.turn[t]) /\ n + cli'.got[t] <= Given(srv.turn[t])
             /\ cli'.played[t] <= cli'.got[t] /\ (cli'.got[t] > 0 => t < srv.nextID)
  <2> DEFINE c == Cardinality(Counted(srv.q, t))
  <2>1. /\ c + Writing(t) + written[t] <= Given(srv.turn[t]) /\ c + Writing(t) + cli.got[t] <= Given(srv.turn[t])
        /\ cli.played[t] <= cli.got[t] /\ (cli.got[t] > 0 => t < srv.nextID)
    BY DEF CountInv, CountsOK
  <2>2. /\ Given(srv.turn[t]) \in Nat /\ c \in Nat /\ Writing(t) \in {0, 1}
        /\ written[t] \in Nat /\ cli.got[t] \in Nat /\ cli.played[t] \in Nat
    BY CountFacts
  <2>3. Writing(t)' = 0
    BY <1>1 DEF Writing, NoFrame, Control, Frame
  <2>4. Writing(t) = 1 => t < srv.nextID
    BY <1>2 DEF Writing
  <2> HIDE DEF c
  <2> QED BY <1>3, <1>4, <2>1, <2>2, <2>3, <2>4 DEF c
<1> QED BY <1>1, <1>5 DEF CountInv, CountsOK

\* The client plays no more than it received, and posts only into a channel with room.
LEMMA ClientCounts == ASSUME SessionInv, CountInv, Client \/ StopRequest PROVE CountInv'
<1>1. /\ cli.got \in [TurnID -> Nat] /\ cli.played \in [TurnID -> Nat] /\ events \in Seq(EventType)
      /\ cli = [cur |-> cli.cur, got |-> cli.got, played |-> cli.played, done |-> cli.done, stopped |-> cli.stopped,
                pdone |-> cli.pdone, talking |-> cli.talking, audio |-> cli.audio, inputs |-> cli.inputs]
  BY DEF SessionInv, Types
<1>2. Len(events) \in Nat /\ EventCap \in Nat /\ \A e : Len(Append(events, e)) = Len(events) + 1
  BY <1>1, SessionAssumption
<1>3. UNCHANGED <<srv, inflight, written>>
  BY DEF Client, StopRequest, ClientSpeaks, ClientAudio, ClientStopsTalking, ClientTypes, ClientOther, Disconnect,
         Play, ClientPlayed
<1>4. Len(events') <= EventCap
  <2>1. events' = events \/ (Len(events) < EventCap /\ \E e : events' = Append(events, e))
    BY DEF Client, StopRequest, ClientSpeaks, ClientAudio, ClientStopsTalking, ClientTypes, ClientOther, Disconnect,
           Play, ClientPlayed, Post
  <2> QED BY <1>2, <2>1 DEF CountInv
<1>5. cli'.got = cli.got /\ \A t \in TurnID : cli'.played[t] <= cli.got[t]
  <2>1. \A t \in TurnID : cli.played[t] <= cli.got[t] /\ cli.played[t] \in Int /\ cli.got[t] \in Int
    BY <1>1 DEF CountInv, CountsOK
  <2>2. ASSUME NEW t \in TurnID, Play(t) PROVE cli'.got = cli.got /\ \A u \in TurnID : cli'.played[u] <= cli.got[u]
    <3> DEFINE played == [cli.played EXCEPT ![t] = @ + 1]
    <3>1. cli'.got = cli.got /\ cli'.played = played /\ cli.played[t] < cli.got[t]
      BY <1>1, <2>2 DEF Play
    <3>2. \A u \in TurnID : played[u] <= cli.got[u]
      BY <1>1, <2>1, <3>1
    <3> HIDE DEF played
    <3> QED BY <3>1, <3>2
  <2>3. ASSUME NEW t \in TurnID, ClientPlayed(t) PROVE cli'.got = cli.got /\ cli'.played = cli.played
    BY <1>1, <2>3 DEF ClientPlayed
  <2>4. ASSUME ClientSpeaks \/ ClientAudio \/ ClientStopsTalking \/ ClientTypes \/ ClientOther \/ Disconnect \/ StopRequest
        PROVE  cli'.got = cli.got /\ cli'.played = cli.played
    BY <1>1, <2>4 DEF ClientSpeaks, ClientAudio, ClientStopsTalking, ClientTypes, ClientOther, Disconnect, StopRequest,
                      StopPlayback
  <2> QED BY <2>1, <2>2, <2>3, <2>4 DEF Client
<1>6. CountsOK'
  BY <1>3, <1>5 DEF CountInv, CountsOK, Writing
<1> QED BY <1>3, <1>4, <1>6 DEF CountInv

\* What the server does to the rest: it reads events, and a turn reports into a channel
\* with room.
LEMMA ServerCounts ==
  ASSUME SessionInv, CountInv,
         Actor \/ Timer \/ \E t \in TurnID : Service(t) \/ OwnStep(t) \/ Report(t) \/ Deadline(t)
  PROVE  CountInv'
<1>1. SessionInv' /\ Onward(srv, srv')
  BY ActorOK, TurnOfNextOK DEF Moves
<1>2. UNCHANGED <<inflight, written, cli>>
  BY DEF Actor, Timer, SpeechStart, Audio, SpeechEnd, SpeechCancel, TextInput, PlaybackDone, Ping, Stopped, TurnDone,
         ContextDone, FinishRead, FinishSave, FinishWait, Handle, Service, OwnStep, Report, Deadline
<1>3. Len(events') <= EventCap
  <2>1. events \in Seq(EventType) /\ Len(events) \in Nat /\ Len(events) <= EventCap /\ EventCap \in Nat /\ EventCap > 0
    BY SessionAssumption DEF SessionInv, Types, CountInv
  <2>2. \/ events' = events
        \/ events' = <<>>
        \/ events # <<>> /\ events' = Tail(events)
        \/ Len(events) < EventCap /\ \E e : events' = Append(events, e)
    <3>1. CASE Actor \/ Timer
      BY <3>1, ZenonT(60) DEF Actor, Timer, SpeechStart, Audio, SpeechEnd, SpeechCancel, TextInput, PlaybackDone, Ping, Stopped,
                  TurnDone, ContextDone, FinishRead, FinishSave, FinishWait, Handle, Next1
    <3>2. CASE \E t \in TurnID : Service(t) \/ OwnStep(t) \/ Report(t) \/ Deadline(t)
      BY <3>2 DEF Service, OwnStep, Report, Deadline
    <3> QED BY <3>1, <3>2, SMTT(60)
  <2>3. CASE events' = <<>>
    BY <2>1, <2>3
  <2>4. CASE events # <<>> /\ events' = Tail(events)
    BY <2>1, <2>4
  <2>5. ASSUME Len(events) < EventCap, NEW e, events' = Append(events, e) PROVE Len(events') <= EventCap
    BY <2>1, <2>5
  <2> QED BY <2>1, <2>2, <2>3, <2>4, <2>5
<1> QED BY <1>1, <1>2, <1>3, OnwardCounts DEF CountInv

\* A connection that fails or is closed gives up the frame it was writing.
LEMMA ConnectionCounts == ASSUME SessionInv, CountInv, ConnectionFails \/ CloseOutbox PROVE CountInv'
<1>1. SessionInv' /\ inflight' = NoFrame /\ UNCHANGED <<events, written, cli>>
  BY ConnectionOK DEF ConnectionFails, CloseOutbox
<1>2. Onward(srv, srv')
  <2>1. SrvOK(srv) /\ srv \in SrvType
    BY DEF SessionInv, SrvOK
  <2>2. Calm(srv, srv')
    BY <2>1, CancelAllFacts, CalmNone DEF ConnectionFails, CloseOutbox
  <2> QED BY <2>1, <2>2, CalmOnward
<1> QED BY <1>1, <1>2, OnwardCounts DEF CountInv

-----------------------------------------------------------------------------
(* The theorems *)

LEMMA SessionInit == ASSUME Init PROVE SessionInv
<1>1. /\ 0 \in 0..MaxTurns /\ 0 \in 0..MaxSegs /\ 0 \in 0..MaxAudio /\ 1 \in 1..(MaxTurns + 1)
      /\ TurnID \subseteq Nat /\ 0 \notin TurnID /\ \A t \in TurnID : t >= 1
  BY SessionAssumption DEF TurnID
<1>2. NoLast \in LastType /\ NoRow \in RowType /\ Unborn \in TurnType
  BY <1>1 DEF NoLast, LastType, NoRow, RowType, Unborn, TurnType
<1>3. NoFrame \in FrameType /\ ~NoFrame.scoped /\ ~NoFrame.counts /\ ~Ends(NoFrame)
  BY <1>1 DEF NoFrame, Control, Frame, FrameType, FrameKinds, EndKinds, Ends
<1>4. /\ srv.st = "idle" /\ srv.cur = 0 /\ srv.nextID = 1 /\ srv.no = 0 /\ srv.last = NoLast
      /\ srv.hist = [n \in TurnID |-> NoRow] /\ srv.rows = [n \in TurnID |-> NoRow] /\ srv.closing = "no"
      /\ srv.stage = "run" /\ srv.q = <<>> /\ srv.scope = 0 /\ srv.turn = [t \in TurnID |-> Unborn]
  BY DEF Init
<1>5. srv \in SrvType
  <2>1. /\ [n \in TurnID |-> NoRow] \in [TurnID -> RowType] /\ [t \in TurnID |-> Unborn] \in [TurnID -> TurnType]
        /\ <<>> \in Seq(FrameType)
    BY <1>2
  <2> QED BY <1>1, <1>2, <2>1 DEF Init, SrvType
<1>6. ScopeOK(srv) /\ NumberOK(srv) /\ LastOK(srv) /\ QueueOK(srv)
  BY <1>1, <1>4 DEF ScopeOK, NumberOK, LastOK, QueueOK, NoRow, NoLast
<1>7. \A t \in TurnID : TurnOK(srv, t) /\ RowOK(srv, t)
  <2> SUFFICES ASSUME NEW t \in TurnID PROVE TurnOK(srv, t) /\ RowOK(srv, t)
    OBVIOUS
  <2>1. /\ srv.turn[t] = Unborn /\ Unborn.pc = "unborn" /\ ~Unborn.completed /\ ~Unborn.learner /\ Unborn.segs = 0
        /\ Unborn.sent = 0 /\ Unborn.emit = "caption" /\ t >= 1 /\ t \in Int
    BY <1>1, <1>4 DEF Unborn
  <2>2. srv.rows[t] = NoRow /\ NoRow.id = 0 /\ NoRow.status = "none"
    BY <1>4 DEF NoRow
  <2>3. TurnOK(srv, t)
    BY <1>4, <2>1 DEF TurnOK
  <2>4. RowOK(srv, t)
    BY <1>4, <2>2 DEF RowOK
  <2> QED BY <2>3, <2>4
<1>8. SrvOK(srv)
  BY <1>4, <1>5, <1>6, <1>7 DEF SrvOK
<1>9. /\ events = <<>> /\ inflight = NoFrame /\ written = [t \in TurnID |-> 0] /\ world \in Worlds
      /\ cli = [cur |-> 0, got |-> [t \in TurnID |-> 0], played |-> [t \in TurnID |-> 0],
                done |-> [t \in TurnID |-> <<>>], stopped |-> {}, pdone |-> {},
                talking |-> FALSE, audio |-> 0, inputs |-> 0]
  BY DEF Init
<1>10. Types
  <2>1. /\ [t \in TurnID |-> 0] \in [TurnID -> Nat] /\ [t \in TurnID |-> <<>>] \in [TurnID -> Seq(EndKinds)]
        /\ <<>> \in Seq(EventType)
    OBVIOUS
  <2> QED BY <1>1, <1>3, <1>9, <2>1 DEF Types
<1>11. WriterOK
  <2>1. \A t \in TurnID : cli.done[t] = <<>> /\ written[t] = 0
    BY <1>9
  <2> QED BY <1>3, <1>9, <2>1 DEF WriterOK, Told
<1>12. EventsOK /\ CountOK /\ WithinOK(srv, cli.played, written)
  BY <1>4, <1>9 DEF EventsOK, CountOK, WithinOK, NoRow
<1> QED BY <1>8, <1>10, <1>11, <1>12 DEF SessionInv

\* What any step of the connection keeps, and what it never does.
Held ==
  /\ SessionInv'
  /\ \A n \in TurnID : srv.rows[n].id # 0 => srv'.rows[n].id = srv.rows[n].id
  /\ \A t \in TurnID : written'[t] > written[t] => cli.done[t] = <<>>

LEMMA SessionNext == ASSUME SessionInv, [Next]_vars PROVE Held
<1>1. \A t \in TurnID : ~(written[t] > written[t])
  BY DEF SessionInv, Types
<1>2. ASSUME SessionInv', srv'.rows = srv.rows, written' = written PROVE Held
  BY <1>1, <1>2 DEF Held
<1>3. ASSUME Moves, written' = written PROVE Held
  BY <1>1, <1>3 DEF Held, Moves, Onward
<1>4. CASE Actor \/ Timer
  <2>1. written' = written
    BY <1>4 DEF Actor, Timer, SpeechStart, Audio, SpeechEnd, SpeechCancel, TextInput, PlaybackDone, Ping, Stopped, TurnDone,
                ContextDone, FinishRead, FinishSave, FinishWait, Handle
  <2> QED BY <1>3, <1>4, <2>1, ActorOK, SMTT(60)
<1>5. ASSUME NEW t \in TurnID, Service(t) \/ OwnStep(t) \/ Report(t) \/ Deadline(t) PROVE Held
  <2>1. written' = written
    BY <1>5 DEF Service, OwnStep, Report, Deadline
  <2> QED BY <1>3, <1>5, <2>1, TurnOfNextOK
<1>6. CASE WriterTake
  BY <1>2, <1>6, WriterTakeOK
<1>7. CASE WriterWrite
  BY <1>7, WriterWriteOK DEF Held
<1>8. CASE ConnectionFails \/ CloseOutbox
  BY <1>2, <1>8, ConnectionOK
<1>9. CASE Client \/ StopRequest
  BY <1>2, <1>9, ClientOK
<1>10. CASE UNCHANGED vars
  <2>1. UNCHANGED <<srv, events, inflight, written, cli, world>>
    BY <1>10 DEF vars
  <2>2. SessionInv'
    BY <2>1 DEF SessionInv, Types, EventsOK, WriterOK, Told, CountOK
  <2> QED BY <1>2, <2>1, <2>2
<1> QED BY <1>4, <1>5, <1>6, <1>7, <1>8, <1>9, <1>10 DEF Next, Quiet

\* The inductive invariant: the actor's record, its queue and the turns (SrvOK), what the
\* events in the channel claim (EventsOK), and what the writer and the client have seen of
\* a turn (WriterOK) agree, in every step of session.go, turn.go and ws/outbox.go.
THEOREM SessionInvariant == Spec => []SessionInv
<1>1. Init => SessionInv
  BY SessionInit
<1>2. SessionInv /\ [Next]_vars => SessionInv'
  BY SessionNext DEF Held
<1> QED BY <1>1, <1>2, PTL DEF Spec

\* A reply reaches the client once and in part at most: of no turn are more segments
\* written, received or played than its reply has, and neither channel outgrows its
\* capacity, whoever sends (Outbox.Send, TrySend, post).
THEOREM SentOnce == Spec => []CountInv
<1>1. Init => CountInv
  <2> SUFFICES ASSUME Init PROVE CountInv
    OBVIOUS
  <2>1. Len(srv.q) <= OutCap /\ Len(events) <= EventCap
    BY SessionAssumption DEF Init
  <2>2. ASSUME NEW t \in TurnID
        PROVE  LET n == Cardinality(Counted(srv.q, t)) + Writing(t) IN
               /\ n + written[t] <= Given(srv.turn[t]) /\ n + cli.got[t] <= Given(srv.turn[t])
               /\ cli.played[t] <= cli.got[t] /\ (cli.got[t] > 0 => t < srv.nextID)
    <3>1. srv.q = <<>> /\ srv.turn[t] = Unborn /\ written[t] = 0 /\ cli.got[t] = 0 /\ cli.played[t] = 0
      BY DEF Init
    <3>2. Counted(srv.q, t) = {}
      BY <3>1 DEF Counted
    <3>3. Writing(t) = 0
      BY DEF Init, Writing, NoFrame, Control, Frame
    <3>4. Given(srv.turn[t]) = 0
      BY <3>1 DEF Given, Unborn, Open
    <3>5. Cardinality(Counted(srv.q, t)) = 0
      BY <3>2, FS_EmptySet
    <3> QED BY <3>1, <3>3, <3>4, <3>5
  <2> QED BY <2>1, <2>2 DEF CountInv, CountsOK
<1>2. SessionInv /\ CountInv /\ [Next]_vars => CountInv'
  <2> SUFFICES ASSUME SessionInv, CountInv, [Next]_vars PROVE CountInv'
    OBVIOUS
  <2>1. SessionInv'
    BY SessionNext DEF Held
  <2>2. CASE UNCHANGED vars
    BY <2>2 DEF vars, CountInv, CountsOK, Writing
  <2> QED BY <2>1, <2>2, ServerCounts, WriterTakeCounts, WriterWriteCounts, ConnectionCounts, ClientCounts
       DEF Next, Quiet
<1> QED BY <1>1, <1>2, SessionInvariant, PTL DEF Spec

\* The type of the state: the actor's fields, a capture within MAX_UTTERANCE, the channels
\* within their capacities, and no more segments written or played than a reply can have.
THEOREM SessionTypeOK == Spec => []TypeOK
<1>1. SessionInv /\ CountInv => TypeOK
  <2> SUFFICES ASSUME SessionInv, CountInv PROVE TypeOK
    OBVIOUS
  <2>1. srv \in SrvType /\ written \in [TurnID -> Nat] /\ cli.played \in [TurnID -> Nat]
    BY DEF SessionInv, SrvOK, Types
  <2>2. ASSUME NEW t \in TurnID PROVE written[t] \in 0..MaxSegs /\ cli.played[t] \in 0..MaxSegs
    <3> DEFINE c == Cardinality(Counted(srv.q, t))
    <3>1. /\ c + Writing(t) + written[t] <= Given(srv.turn[t]) /\ c + Writing(t) + cli.got[t] <= Given(srv.turn[t])
          /\ cli.played[t] <= cli.got[t]
      BY DEF CountInv, CountsOK
    <3>2. /\ c \in Nat /\ Writing(t) \in {0, 1} /\ Given(srv.turn[t]) \in Nat
          /\ written[t] \in Nat /\ cli.got[t] \in Nat /\ cli.played[t] \in Nat
      BY CountFacts
    <3>3. Given(srv.turn[t]) <= MaxSegs /\ MaxSegs \in Nat
      BY Ranges, GivenBound DEF SessionInv, SrvOK, SrvType, TurnOK
    <3> HIDE DEF c
    <3> QED BY <3>1, <3>2, <3>3
  <2> QED BY <2>1, <2>2 DEF TypeOK, SrvType, CountInv
<1> QED BY <1>1, SessionInvariant, SentOnce, PTL

\* Until a write is refused, the history of the next prompt is what the database holds:
\* finalize and lateBargeIn change both or end the connection.
THEOREM HistoryIsStored == Spec => []HistoryMatchesRows
<1>1. SessionInv => HistoryMatchesRows
  BY DEF SessionInv, SrvOK, HistoryMatchesRows
<1> QED BY <1>1, SessionInvariant, PTL

\* Outbox.write drops only frames of turns that were cut off or replaced: a turn leaves
\* the scope only when it is cancelled, or when a later one takes its place.
THEOREM OnlySupersededDropped == Spec => []DroppedOnlyWhenSuperseded
<1>1. SessionInv => DroppedOnlyWhenSuperseded
  <2> SUFFICES ASSUME SessionInv, srv.q # <<>>, Stale(Head(srv.q))
               PROVE  LET t == Head(srv.q).t IN t # srv.cur /\ (srv.turn[t].cause # "none" \/ t + 1 < srv.nextID)
    BY DEF DroppedOnlyWhenSuperseded
  <2> DEFINE f == Head(srv.q)
  <2>1. SrvOK(srv) /\ srv.q \in Seq(FrameType) /\ srv.nextID \in Int /\ srv.cur \in Int /\ srv.scope \in Int
    <3>1. SrvOK(srv) /\ srv \in SrvType
      BY DEF SessionInv, SrvOK
    <3>2. \A i \in 0..MaxTurns : i \in Int
      BY Ranges
    <3>3. /\ srv.q \in Seq(FrameType) /\ srv.nextID \in 1..(MaxTurns + 1)
          /\ srv.cur \in 0..MaxTurns /\ srv.scope \in 0..MaxTurns
      BY <3>1 DEF SrvType
    <3> QED BY <3>1, <3>2, <3>3
  <2>2. f = srv.q[1] /\ 1 \in 1..Len(srv.q)
    <3>1. Len(srv.q) \in Nat /\ Len(srv.q) # 0
      BY <2>1
    <3> QED BY <3>1
  <2>3. f.scoped /\ f.t # srv.scope /\ f.t \in 1..(srv.nextID - 1)
    BY <2>1, <2>2 DEF Stale, SrvOK, QueueOK
  <2> HIDE DEF f
  <2>4. f.t # srv.cur /\ (srv.turn[f.t].cause # "none" \/ f.t + 1 < srv.nextID)
    BY <2>1, <2>3 DEF SrvOK, ScopeOK
  <2> QED BY <2>4 DEF f
<1> QED BY <1>1, SessionInvariant, PTL

\* An interrupted reply is stored with no more than the client played (bargeIn,
\* lateBargeIn), or, when finish stored it, than was written to the client.
THEOREM StoredIsHeard == Spec => []StoredWithinHeard
<1>1. SessionInv => StoredWithinHeard
  BY DEF SessionInv, WithinOK, StoredWithinHeard
<1> QED BY <1>1, SessionInvariant, PTL

\* A reply stored as complete is stored whole: a turn's reply stops growing before its
\* goroutine says that it is complete, and finalize stores no turn twice.
THEOREM CompleteIsWhole == Spec => []CompleteMeansAll
<1>1. SessionInv => CompleteMeansAll
  BY DEF SessionInv, SrvOK, RowOK, CompleteMeansAll
<1> QED BY <1>1, SessionInvariant, PTL

\* No segment of a turn is written after the turn's tutor.done or its interruption,
\* although the turn's goroutine and the actor fill one queue (Outbox.Send, TrySend).
THEOREM NothingAfterDone == Spec => SegmentsBeforeDone
<1>1. SessionInv /\ [Next]_vars => [\A t \in TurnID : written'[t] > written[t] => cli.done[t] = <<>>]_vars
  BY SessionNext DEF Held
<1> QED BY <1>1, SessionInvariant, PTL DEF Spec, SegmentsBeforeDone

\* A row keeps the turn it was stored for, although a merge gives its number back.
THEOREM RowsStayTheirs == Spec => RowsKeepTheirTurn
<1>1. SessionInv /\ [Next]_vars => [\A n \in TurnID : srv.rows[n].id # 0 => srv'.rows[n].id = srv.rows[n].id]_vars
  BY SessionNext DEF Held
<1> QED BY <1>1, SessionInvariant, PTL DEF Spec, RowsKeepTheirTurn
=============================================================================
